SPECIFICATION Spec
CONSTANTS
    r1 = r1
    r2 = r2
    None = None
    Torn = Torn
    Revisions <- const_Revisions
    WheelRank <- const_VersionBump
    MaxRuns = 2
    EditInFlight = FALSE
INVARIANT EmbedsOwnWheel
