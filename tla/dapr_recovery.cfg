SPECIFICATION Spec
CONSTANTS
    i1 = i1
    i2 = i2
    NoProcess = NoProcess
    Instances <- MCInstances
    MaxProcesses = 5
CHECK_DEADLOCK FALSE
INVARIANTS
    TypeOK
    EffectsApprovedAndKept
    TwiceOnlyIfOverlapping
    RecordsTellTheEnd
PROPERTIES
    ProbesFinish
