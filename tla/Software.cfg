SPECIFICATION Spec
CONSTANTS
    None = None
    Unknown = Unknown
    Machines <- MCMachines
    MaxChanges = 2
INVARIANT TornPlansRepeatOrHoldBack
INVARIANT PlansSettle
INVARIANT ReportsAgree
INVARIANT FocusNeverOverclaims
PROPERTY PlansNeverCompete
