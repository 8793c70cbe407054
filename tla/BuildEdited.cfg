SPECIFICATION Spec
CONSTANTS
    r1 = r1
    r2 = r2
    None = None
    Torn = Torn
    Revisions <- const_Revisions
    WheelRank <- const_SameVersion
    MaxRuns = 1
    EditInFlight = TRUE
INVARIANT RejectedOnlyForMixedPayload
INVARIANT QaCarriesProductionPayload
