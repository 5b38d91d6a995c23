--------------------------- MODULE VolumeLifecycle ---------------------------
(***************************************************************************)
(* What the volume controller promises its users, with the transient      *)
(* states (Pending, Checking, Formatting, Unmounting) and the mount        *)
(* machinery hidden: a volume has no medium, has one that is not           *)
(* published, or has its filesystem published at its mount point.  Media   *)
(* come and go only while unpublished; publishing needs a medium.          *)
(***************************************************************************)
CONSTANTS Volumes

VARIABLES life

Lives == {"NoMedia", "Idle", "Mounted"}

Init == life = [v \in Volumes |-> "NoMedia"]

Move(v, from, to) == life[v] = from /\ life' = [life EXCEPT ![v] = to]

Next ==
  \E v \in Volumes :
    \/ Move(v, "NoMedia", "Idle")      \* a medium is inserted
    \/ Move(v, "Idle", "NoMedia")      \* an unpublished medium is removed
    \/ Move(v, "Idle", "Mounted")      \* mountVol publishes it
    \/ Move(v, "Mounted", "Idle")      \* unmountVol withdraws it

Spec == Init /\ [][Next]_life
==============================================================================
