SPECIFICATION Spec
CONSTANTS
    Absent = Absent
    Torn = Torn
CHECK_DEADLOCK FALSE
INVARIANT GreenJobIsReal
INVARIANT EvidencePassIsFact
INVARIANT EvidenceBlamesFirst
