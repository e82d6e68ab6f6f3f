\* The review workflow with executors that answer.
SPECIFICATION FairSpec
CONSTANTS
    Run = {r1}
    NoRun = NoRun
    Node <- ReviewNode
    Entry = 1
    Edge <- ReviewEdge
    Join <- ReviewJoin
    TerminalCondition <- NoEnd
    Payload <- Payloads
    NoArtifact = "NoArtifact"
    MaxParallel = 2
    QueuePolicy = "fifo"
    Kind <- ReviewKind
    Binds <- ReviewBinds
    Output <- ReviewOutput
    Verdict <- ReviewVerdict
    AgentResult <- ReviewAnswers
    Unavailable = {}
    Raises = {}
    DeadlockDetection = FALSE
    WorkflowMayVanish = FALSE
    Concurrent = TRUE
CHECK_DEADLOCK FALSE
PROPERTIES
    LoopReturns
    ReadyIsServed
