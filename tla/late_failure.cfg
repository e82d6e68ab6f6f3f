\* A late failure of a cancelled run frees the thread of its next run.
SPECIFICATION Spec
CONSTANTS
    Run = {r1, r2, r3}
    NoRun = NoRun
    Node <- StepNode
    Entry = 1
    Edge <- StepEdge
    Join <- StepJoin
    TerminalCondition <- NoEnd
    Payload <- Payloads
    NoArtifact = "NoArtifact"
    MaxParallel = 1
    QueuePolicy = "fifo"
    Kind <- StepKind
    Binds = {}
    Output <- StepOutput
    Verdict <- StepVerdict
    AgentResult <- StepAnswers
    Unavailable = {}
    Raises = {}
    DeadlockDetection = TRUE
    WorkflowMayVanish = FALSE
    Concurrent = TRUE
SYMMETRY Symmetry
CHECK_DEADLOCK FALSE
INVARIANTS
    AtMostOneLiveRun
