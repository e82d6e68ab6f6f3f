\* The review workflow on a service whose calls come one after the other.
SPECIFICATION Spec
CONSTANTS
    Run = {r1, r2}
    NoRun = NoRun
    Node <- ReviewNode
    Entry = 1
    Edge <- ReviewEdge
    Join <- ReviewJoin
    TerminalCondition <- NoEnd
    Payload <- Payloads
    NoArtifact = "NoArtifact"
    MaxParallel = 1
    QueuePolicy = "fifo"
    Kind <- ReviewKind
    Binds <- ReviewBinds
    Output <- ReviewOutput
    Verdict <- ReviewVerdict
    AgentResult <- ReviewAnswers
    Unavailable = {}
    Raises = {3}
    DeadlockDetection = TRUE
    WorkflowMayVanish = TRUE
    Concurrent = FALSE
SYMMETRY Symmetry
CHECK_DEADLOCK FALSE
INVARIANTS
    TypeOK
    OneLiveRunPerThread
    StopsAreAnswerable
    GatesHold
PROPERTIES
    TerminalRunFrozen
    LifecycleKept
