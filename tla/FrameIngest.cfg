CONSTANTS
    d1 = d1
    Devices = {d1}
    MaxEvents = 3
    MaxFaults = 2
SPECIFICATION LiveSpec
INVARIANTS
    TypeOK
    SosOwedOnlyAfterFault
    ConfirmedLossOnlyAfterFault
PROPERTIES
    KeepsSosBook
    FramesGetThrough
    EventIsConfirmed
