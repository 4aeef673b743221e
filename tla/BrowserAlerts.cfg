CONSTANTS
    a1 = a1
    Alerts = {a1}
    MaxPushes = 2
    MaxFaults = 1
SPECIFICATION LiveSpec
INVARIANTS
    AckedIsAcked
    ToldOrRestored
PROPERTIES
    LoadsGoOn
    ResolvedLeaves
    OpenIsShown
