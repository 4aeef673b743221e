CONSTANTS
    s1 = s1
    s2 = s2
    ann = ann
    bob = bob
    t1 = t1
    t2 = t2
    Starts = {s1, s2}
    Enders = {ann, bob}
    Trackers = {t1, t2}
    Scenarios <- MCScenarios
SPECIFICATION Spec
INVARIANTS
    TypeOK
    ResetLeavesEmptyMap
