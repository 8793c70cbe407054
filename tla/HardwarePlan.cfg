SPECIFICATION Spec
CONSTANTS
    None = None
    Machines <- MCMachines
    MaxChanges = 2
    MaxEntries = 2
INVARIANT TornInThreeWays
INVARIANT FollowedPlanSettles
INVARIANT HighConfidenceIsRight
INVARIANT ReportsSpeakForPlanner
