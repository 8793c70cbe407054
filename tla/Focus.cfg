SPECIFICATION Spec
CONSTANT None = None
INVARIANT PlanReachesTargetAndBack
INVARIANT DoctorPasses
PROPERTY MoreNeverHurts
