SPECIFICATION TextSpec
CONSTANTS
    Args <- const_Args
    MaxPieces = 4
CHECK_DEADLOCK FALSE
INVARIANT QaEntryIsBooted
INVARIANT ConsoleReachesKernel
