SPECIFICATION Spec
CONSTANTS
    x1 = x1
    x2 = x2
    None = None
    Blank = ""
    Executions <- MCExecutions
    RawIncidents <- MCRawIncidents
    MaxEvents <- MCMaxEvents
    Strip <- MCStrip
    Runbooks <- MCRunbooks
    Inspections <- MCInspections
CHECK_DEADLOCK FALSE
INVARIANT DecisionPersists
