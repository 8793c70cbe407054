SPECIFICATION Spec
CONSTANTS
    r1 = r1
    r2 = r2
    None = None
    Torn = Torn
    Revisions <- const_Revisions
    WheelRank <- const_SameVersion
    MaxRuns = 2
    EditInFlight = FALSE
INVARIANT TypeOK
INVARIANT BaseOutlivesXorriso
INVARIANT GreenMarkerInspectsGreen
INVARIANT NoLeftovers
INVARIANT OutcomeRecorded
PROPERTY ReleasedOnlyWhenDone
PROPERTY MarkerFollowsStages
