SPECIFICATION MCSpec
CONSTANTS
    None = None
    Blank = ""
    Strip <- MCStrip
    Runbooks <- MCRunbooks
    Inspections <- MCInspections
    Incidents <- MCIncidents
    Drafts <- MCDrafts
    MaxTurns = 7
    Processes = {"p1", "p2"}
    Choices = {"approve", "deny"}
    MaxCalls = 2
    r1 = r1
    r2 = r2
    Runners = {r1, r2}
    Batches = {"b1", "b2"}
    Tasks <- MCTasks
    Files = {"events_a", "events_b", "control_plane", "configuration", "observability"}
    EventFiles = {"events_a", "events_b"}
    Preceding <- MCPreceding
    Objects <- MCObjects
    Copies = {"d1"}
    Evidence <- MCEvidence
    Kinds = {"gateway", "log_group", "target"}
    Verifiable = {"gateway", "log_group"}
    MaxDeployments = 2
    Parts = {"session", "agent", "batch", "publication", "cloud"}
CHECK_DEADLOCK FALSE
INVARIANTS
    OneConversation
    EffectsExplained
    BatchesAreOwned
    SummaryMeansComplete
    PublicCopyFaithful
    AbsenceProven
