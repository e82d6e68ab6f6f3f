\* The fan workflow, two nodes to a batch, callers acting while executors run.
SPECIFICATION Spec
CONSTANTS
    Run = {r1, r2}
    NoRun = NoRun
    Node <- FanNode
    Entry = 1
    Edge <- FanEdge
    Join <- FanJoin
    TerminalCondition <- FanEnd
    Payload <- Payloads
    NoArtifact = "NoArtifact"
    MaxParallel = 2
    QueuePolicy = "priority"
    Kind <- FanKind
    Binds <- FanBinds
    Output <- FanOutput
    Verdict <- FanVerdict
    AgentResult <- FanAnswers
    Unavailable = {7}
    Raises = {2}
    DeadlockDetection = TRUE
    WorkflowMayVanish = TRUE
    Concurrent = TRUE
SYMMETRY Symmetry
CHECK_DEADLOCK FALSE
INVARIANTS
    NodeListsSound
    RecordsAgree
    StoppedRunIsDrained
PROPERTIES
    OnlyFreshNodesStart
