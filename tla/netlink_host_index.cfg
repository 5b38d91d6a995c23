CONSTANTS
    Events <- MCEvents
    BMaxPower <- MCBMaxPower
    MaxEvents = 3
SPECIFICATION Spec
CHECK_DEADLOCK FALSE
INVARIANT MaxPowerIndexed
