CONSTANTS
    Bytes <- MCBytes
    Answers <- MCAnswers
SPECIFICATION Spec
CHECK_DEADLOCK FALSE
INVARIANT SuOnlyWhenApproved
