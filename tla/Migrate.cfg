CONSTANTS
    old = old
    new = new
    Procs = {old, new}
    Latest = 2
    Release <- MCRelease
SPECIFICATION LiveSpec
INVARIANTS
    TypeOK
    OnItsOwnSchema
    DumpBeforeChange
PROPERTIES
    KeepsHistory
    StartupEnds
