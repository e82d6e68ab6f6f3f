\* A run of one node on two threads: the one that started it, and one that cancels
\* it, or answers it and goes on with the loop.
SPECIFICATION Spec
CONSTANTS
    Caller = {c1, c2}
    Starter = c1
    Node = {n}
    Edge = {}
    Entry = n
    MaxParallel = 1
    MaxCalls = 1
    MaxEvents = 5
CHECK_DEADLOCK FALSE
INVARIANTS
    NumbersAreDense
    CheckpointsCoverTheirState
