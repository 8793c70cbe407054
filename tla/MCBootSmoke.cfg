SPECIFICATION Spec
CONSTANTS
    Tail = 2
    Timeout = 3
    Poll = 1
    Grace = 2
    MaxLog = 5
CHECK_DEADLOCK FALSE
INVARIANT PassHasEvidence
INVARIANT MarkerMissedOnlyBetweenReads
INVARIANT NeverLeaked
PROPERTY Terminates
