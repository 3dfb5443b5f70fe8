SPECIFICATION Spec
CONSTANTS
    e1 = e1
    e2 = e2
    None = None
    Blank = ""
    Envs <- MCEnvs
    IncidentOf <- MCIncidentOf
    Drafts <- MCDrafts
    Strip <- MCStrip
    Runbooks <- MCRunbooks
    Inspections <- MCInspections
    MaxSteps <- MCMaxSteps
    MaxResets <- MCMaxResets
CHECK_DEADLOCK FALSE
INVARIANTS
    TypeOK
    EffectsAccounted
    HistoryAudits
PROPERTIES
    DecisionPersists
    ImplementsGate
