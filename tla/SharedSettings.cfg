CONSTANTS
    ann = ann
    bob = bob
    Admins = {ann, bob}
    Pages = {ann}
    Legacy = {ann}
    MaxVersion = 4
SPECIFICATION Spec
INVARIANTS
    ClearedHqStaysCleared
PROPERTIES
    OverwritesOnlyUnadopted
    AlarmOffOnlyAsked
    TypedStays
CHECK_DEADLOCK FALSE
