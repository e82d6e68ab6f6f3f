------------------------------- MODULE Runtime -------------------------------
(***************************************************************************)
(* RuntimeService: one thread, the runs started on it, and the scheduler   *)
(* loop that start_run and resume_run execute for their caller.  Threads   *)
(* share nothing but the identifier generator, so one thread is enough.    *)
(*                                                                         *)
(* Steps.  Between two calls of an executor the service runs to its end    *)
(* without calling anything but its own stores; such a stretch is one      *)
(* step here.  While an executor runs, the code has let go: other calls    *)
(* happen between NodeStarts and NodeReturns, each of them in stretches    *)
(* too.  The executor's own code calling back behaves so, and so do        *)
(* threads that take turns.  Concurrent says whether there are such        *)
(* callers; without them (the web console, which builds a RuntimeService   *)
(* for every request) a call begins only when no loop is under way.        *)
(*                                                                         *)
(* Stretches of two threads that overlap are not behaviours of this        *)
(* module.  The code holds no lock: two threads may both find the run      *)
(* suspended (runtime_service.py:249) before either resumes it, and then   *)
(* two loops work on it.  RunCommits takes the stretches apart.            *)
(***************************************************************************)
EXTENDS NodeExecutors

CONSTANTS
    Run,          \* run identifiers the id generator will hand out
    NoRun,        \* current_run_id is None
    Unavailable,  \* nodes for which can_execute says no
    Raises,       \* nodes whose input selection or executor may raise
    DeadlockDetection,  \* SchedulerConfig.deadlock_detection_enabled
    WorkflowMayVanish,  \* the workflow may be unknown to the provider on a resume
    Concurrent    \* other callers act while an executor runs

ASSUME RunAssumption == NoRun \notin Run
ASSUME EnvironmentAssumption ==
    /\ Unavailable \subseteq Node /\ Raises \subseteq Node
    /\ DeadlockDetection \in BOOLEAN /\ WorkflowMayVanish \in BOOLEAN /\ Concurrent \in BOOLEAN

VARIABLES
    thread,       \* ThreadRecord: status and current_run_id
    threadState,  \* ThreadState: thread_status and active_run_id
    run,          \* RunRecord.status of every run
    runState,     \* RunState: status and the node lists
    node,         \* NodeState.status
    artifact,     \* payload class of the artifact output_artifact_id names
    actions,      \* actions of the node's policy decisions
    interrupt,    \* latest InterruptRecord.status of every node
    loop          \* the scheduler loop of a run: where it is, what is left of its batch

vars == <<thread, threadState, run, runState, node, artifact, actions, interrupt, loop>>

ThreadStatus == {"created", "active", "paused"}
RunStatus == {"running", "waiting", "interrupted", "completed", "failed", "cancelled"}
TerminalRunStatus == {"completed", "failed", "cancelled"}
\* Mistaken variants, used only to show that the properties would notice them,
\* stand before the definition they vary.
SuspendedOrFailed == {"waiting", "interrupted", "failed"}

\* The statuses resume_run accepts.
Suspended == {"waiting", "interrupted"}

RunStateRecord ==
    [status : RunStatus \cup {"absent"},
     frontier : Seq(Node), pending : Seq(Node),
     active : SUBSET Node, completed : SUBSET Node, failed : SUBSET Node,
     waiting : SUBSET Node, blocked : SUBSET Node]

Loop == [at : {"idle", "decide", "dispatch", "execute"}, batch : Seq(Node)]

TypeOK ==
    /\ thread \in [status : ThreadStatus, current : Run \cup {NoRun}]
    /\ threadState \in [status : ThreadStatus, active : Run \cup {NoRun}]
    /\ run \in [Run -> RunStatus \cup {"absent"}]
    /\ runState \in [Run -> RunStateRecord]
    /\ node \in [Run -> [Node -> NodeStatus]]
    /\ artifact \in [Run -> [Node -> Payload \cup {NoArtifact}]]
    /\ actions \in [Run -> [Node -> SUBSET PolicyAction]]
    /\ interrupt \in [Run -> [Node -> {"none", "open", "resolved"}]]
    /\ loop \in [Run -> Loop]
    /\ \A r \in Run : loop[r].at = "execute" => loop[r].batch # <<>>

NewRunState(status, frontier) ==
    [status |-> status, frontier |-> frontier, pending |-> <<>>, active |-> {},
     completed |-> {}, failed |-> {}, waiting |-> {}, blocked |-> {}]

\* create_thread has run; no run of the thread exists.
Init ==
    /\ thread = [status |-> "created", current |-> NoRun]
    /\ threadState = [status |-> "created", active |-> NoRun]
    /\ run = [r \in Run |-> "absent"]
    /\ runState = [r \in Run |-> NewRunState("absent", <<>>)]
    /\ node = [r \in Run |-> [n \in Node |-> "pending"]]
    /\ artifact = [r \in Run |-> [n \in Node |-> NoArtifact]]
    /\ actions = [r \in Run |-> [n \in Node |-> {}]]
    /\ interrupt = [r \in Run |-> [n \in Node |-> "none"]]
    /\ loop = [r \in Run |-> [at |-> "idle", batch |-> <<>>]]

-----------------------------------------------------------------------------

Terminal(r) == run[r] \in TerminalRunStatus

LiveOrOver(r) == run[r] # "absent"

\* A run that was started and is not over.
Live(r) == run[r] \in RunStatus \ TerminalRunStatus

CallersMayAct == Concurrent \/ \A r \in Run : loop[r].at = "idle"

LoopAt(r, at, batch) == loop' = [loop EXCEPT ![r] = [at |-> at, batch |-> batch]]

\* What _mark_run_completed and _mark_run_failed make of the run state: the
\* waiting and blocked lists and the pending interrupts stay as they are.
Ended(state, status) ==
    [state EXCEPT !.status = status, !.frontier = <<>>, !.active = {}]

ReleaseRecordOnly ==
    /\ thread' = [thread EXCEPT !.current = NoRun]
    /\ threadState' = [threadState EXCEPT !.status = "active"]

\* The thread side of a run's end.  ThreadRecord.status is not written.
ReleaseThread ==
    /\ thread' = [thread EXCEPT !.current = NoRun]
    /\ threadState' = [status |-> "active", active |-> NoRun]

EndRun(r, status) ==
    /\ ReleaseThread
    /\ run' = [run EXCEPT ![r] = status]
    /\ runState' = [runState EXCEPT ![r] = Ended(@, status)]

SuspendAsRun(r, status) ==
    /\ thread' = [thread EXCEPT !.status = status]
    /\ threadState' = [threadState EXCEPT !.status = "paused"]
    /\ run' = [run EXCEPT ![r] = status]
    /\ runState' = [runState EXCEPT ![r] = [@ EXCEPT !.status = status, !.frontier = <<>>]]

SuspendAndRelease(r, status) ==
    /\ thread' = [status |-> "paused", current |-> NoRun]
    /\ threadState' = [status |-> "paused", active |-> NoRun]
    /\ run' = [run EXCEPT ![r] = status]
    /\ runState' = [runState EXCEPT ![r] = [@ EXCEPT !.status = status, !.frontier = <<>>]]

SuspendRun(r, status) ==
    /\ thread' = [thread EXCEPT !.status = "paused"]
    /\ threadState' = [threadState EXCEPT !.status = "paused"]
    /\ run' = [run EXCEPT ![r] = status]
    /\ runState' = [runState EXCEPT ![r] = [@ EXCEPT !.status = status, !.frontier = <<>>]]

-----------------------------------------------------------------------------
(* Calls of the runtime's clients                                           *)

\* start_run: refused while the thread has a current run.
StartRun(r) ==
    /\ CallersMayAct
    /\ run[r] = "absent"
    /\ thread.current = NoRun
    /\ thread' = [status |-> "active", current |-> r]
    /\ threadState' = [status |-> "active", active |-> r]
    /\ run' = [run EXCEPT ![r] = "running"]
    /\ runState' = [runState EXCEPT ![r] = NewRunState("running", <<Entry>>)]
    /\ node' = [node EXCEPT ![r] = [n \in Node |-> IF n = Entry THEN "ready" ELSE "pending"]]
    /\ LoopAt(r, "decide", <<>>)
    /\ UNCHANGED <<artifact, actions, interrupt>>

Resumed(state, frontier, answered) ==
    LET asked == IF answered THEN Elements(state.pending) ELSE {}
    IN  [state EXCEPT !.status   = "running",
                      !.frontier = frontier,
                      !.waiting  = @ \ asked,
                      !.blocked  = @ \ asked,
                      !.pending  = IF answered THEN <<>> ELSE @]

(***************************************************************************)
(* resume_run.  With a resolution payload every pending interrupt is       *)
(* resolved and its node made ready, whatever the node's status; without   *)
(* one nothing but the statuses changes.  A frontier that meets the        *)
(* completed nodes is refused by RunState.  The workflow is looked up only *)
(* when all this is stored: if it is unknown the call raises.              *)
(***************************************************************************)
ResumeRun(r, answered) ==
    LET resolved == IF answered THEN runState[r].pending ELSE <<>>
        asked    == Elements(resolved)
    IN  /\ CallersMayAct
        /\ run[r] \in Suspended
        /\ \E frontier \in MergeUnique(runState[r].frontier, resolved) :
              /\ Elements(frontier) \cap runState[r].completed = {}
              /\ runState' = [runState EXCEPT ![r] = Resumed(@, frontier, answered)]
        /\ thread' = [thread EXCEPT !.status = "active"]
        /\ threadState' = [threadState EXCEPT !.status = "active"]
        /\ run' = [run EXCEPT ![r] = "running"]
        /\ node' = [node EXCEPT ![r] =
              [n \in Node |-> IF n \in asked THEN "ready" ELSE node[r][n]]]
        /\ interrupt' = [interrupt EXCEPT ![r] =
              [n \in Node |-> IF n \in asked THEN "resolved" ELSE interrupt[r][n]]]
        /\ \/ LoopAt(r, "decide", <<>>)
           \/ WorkflowMayVanish /\ UNCHANGED loop
        /\ UNCHANGED <<artifact, actions>>

\* cancel_run: the interrupts stay open and pending.
CancelRun(r) ==
    /\ CallersMayAct
    /\ Live(r)
    /\ ReleaseThread
    /\ run' = [run EXCEPT ![r] = "cancelled"]
    /\ runState' = [runState EXCEPT ![r] =
          [Ended(@, "cancelled") EXCEPT !.waiting = {}, !.blocked = {}]]
    /\ node' = [node EXCEPT ![r] =
          [n \in Node |-> IF node[r][n] \in TerminalNodeStatus THEN node[r][n]
                                                                ELSE "cancelled"]]
    /\ UNCHANGED <<artifact, actions, interrupt, loop>>

-----------------------------------------------------------------------------
(* The scheduler loop                                                       *)

Ready(r) == ReadyNodes(node[r], artifact[r], actions[r], Elements(runState[r].pending))

CompleteFirst(r) ==
    /\ Ready(r) # {} /\ AvailableSlots(runState[r].active) > 0
    /\ ~TerminalConditionMet(node[r])

CanDispatch(r) == Ready(r) # {} /\ AvailableSlots(runState[r].active) > 0

\* Both re-reads of the loop return when the run is over.
LoopExits(r) ==
    /\ loop[r].at \in {"decide", "dispatch"}
    /\ Terminal(r)
    /\ LoopAt(r, "idle", <<>>)
    /\ UNCHANGED <<thread, threadState, run, runState, node, artifact, actions, interrupt>>

Dispatch(r) ==
    /\ loop[r].at = "decide" /\ ~Terminal(r)
    /\ CanDispatch(r)
    /\ \E batch \in Batches(Ready(r), runState[r].frontier, runState[r].active) :
          /\ runState' = [runState EXCEPT ![r] = [@ EXCEPT !.frontier = batch]]
          /\ LoopAt(r, "dispatch", batch)
    /\ UNCHANGED <<thread, threadState, run, node, artifact, actions, interrupt>>

\* The decisions that end the loop, in the order decide() tries them.
Settle(r) ==
    /\ loop[r].at = "decide" /\ ~Terminal(r)
    /\ ~CanDispatch(r)
    /\ IF TerminalConditionMet(node[r])
       THEN EndRun(r, "completed")
       ELSE IF runState[r].pending # <<>>
       THEN SuspendRun(r, "interrupted")
       ELSE IF \/ runState[r].active \cup runState[r].waiting \cup runState[r].blocked # {}
               \/ Ready(r) # {}
               \/ ~DeadlockDetection
       THEN SuspendRun(r, "waiting")
       ELSE EndRun(r, "failed")                          \* NO_PROGRESS
    /\ LoopAt(r, "idle", <<>>)
    /\ UNCHANGED <<node, artifact, actions, interrupt>>

BatchDone(r) ==
    /\ loop[r].at = "dispatch" /\ loop[r].batch = <<>> /\ ~Terminal(r)
    /\ LoopAt(r, "decide", <<>>)
    /\ UNCHANGED <<thread, threadState, run, runState, node, artifact, actions, interrupt>>

TakingBlindly(r, n) ==
    /\ loop[r].at = "dispatch" /\ loop[r].batch # <<>>
    /\ n = Head(loop[r].batch)

\* The next node of the batch, after the re-read that found the run not over.
Taking(r, n) ==
    /\ loop[r].at = "dispatch" /\ loop[r].batch # <<>> /\ ~Terminal(r)
    /\ n = Head(loop[r].batch)

\* EXECUTOR_NOT_AVAILABLE
NoExecutor(r, n) ==
    /\ Taking(r, n)
    /\ n \in Unavailable
    /\ EndRun(r, "failed")
    /\ LoopAt(r, "dispatch", Tail(loop[r].batch))
    /\ UNCHANGED <<node, artifact, actions, interrupt>>

Started(state, n, frontier) ==
    [state EXCEPT !.frontier = frontier, !.active = @ \cup {n}]

\* _execute_node up to the call of the executor, which keeps the node at the
\* head of the batch.
NodeStarts(r, n) ==
    /\ Taking(r, n)
    /\ n \notin Unavailable
    /\ \E frontier \in WithoutNode(runState[r].frontier, n) :
          runState' = [runState EXCEPT ![r] = Started(@, n, frontier)]
    /\ node' = [node EXCEPT ![r][n] = "running"]
    /\ LoopAt(r, "execute", loop[r].batch)
    /\ UNCHANGED <<thread, threadState, run, artifact, actions, interrupt>>

\* An exception of the input selection (before the node is marked running) or
\* of the executor leaves the loop and reaches the caller; nothing is written.
NodeRaises(r, n) ==
    /\ \/ Taking(r, n) /\ n \notin Unavailable
       \/ loop[r].at = "execute" /\ n = Head(loop[r].batch)
    /\ n \in Raises
    /\ LoopAt(r, "idle", <<>>)
    /\ UNCHANGED <<thread, threadState, run, runState, node, artifact, actions, interrupt>>

\* A node's place in one of the status lists after its result.
Moved(list, n, result, status) ==
    (list \ {n}) \cup (IF result.status = status THEN {n} ELSE {})

StillActive(state, n, result) ==
    [state EXCEPT !.completed = Moved(@, n, result, "succeeded"),
                  !.failed    = Moved(@, n, result, "failed"),
                  !.waiting   = Moved(@, n, result, "waiting"),
                  !.blocked   = Moved(@, n, result, "blocked"),
                  !.pending   = IF result.asks THEN Append(@, n) ELSE @]

InterruptForgotten(state, n, result) ==
    [state EXCEPT !.active    = @ \ {n},
                  !.completed = Moved(@, n, result, "succeeded"),
                  !.failed    = Moved(@, n, result, "failed"),
                  !.waiting   = Moved(@, n, result, "waiting"),
                  !.blocked   = Moved(@, n, result, "blocked")]

\* _build_result_patch on the run state.
WithResult(state, n, result) ==
    [state EXCEPT !.active    = @ \ {n},
                  !.completed = Moved(@, n, result, "succeeded"),
                  !.failed    = Moved(@, n, result, "failed"),
                  !.waiting   = Moved(@, n, result, "waiting"),
                  !.blocked   = Moved(@, n, result, "blocked"),
                  !.pending   = IF result.asks THEN Append(@, n) ELSE @]

(***************************************************************************)
(* _execute_node after the executor's answer.  The answer is applied to    *)
(* the state as it is now; nothing looks again at whether the run is over. *)
(* A failed node fails the run and releases the thread.  The first         *)
(* artifact of a node stays its output (StateReducer.apply).               *)
(***************************************************************************)
NodeReturns(r, n) ==
    /\ loop[r].at = "execute" /\ n = Head(loop[r].batch)
    /\ \E result \in ExecutorResults(n, interrupt[r][n] = "resolved") :
          /\ node' = [node EXCEPT ![r][n] = result.status]
          /\ artifact' = [artifact EXCEPT ![r][n] = IF @ = NoArtifact THEN result.artifact ELSE @]
          /\ actions' = [actions EXCEPT ![r][n] = @ \cup result.actions]
          /\ interrupt' = [interrupt EXCEPT ![r][n] = IF result.asks THEN "open" ELSE @]
          /\ IF result.status = "failed"
             THEN /\ ReleaseThread
                  /\ run' = [run EXCEPT ![r] = "failed"]
                  /\ runState' = [runState EXCEPT ![r] =
                        Ended(WithResult(@, n, result), "failed")]
             ELSE /\ runState' = [runState EXCEPT ![r] = WithResult(@, n, result)]
                  /\ UNCHANGED <<thread, threadState, run>>
    /\ LoopAt(r, "dispatch", Tail(loop[r].batch))

LoopStep(r) ==
    \/ LoopExits(r) \/ Dispatch(r) \/ Settle(r) \/ BatchDone(r)
    \/ \E n \in Node : NoExecutor(r, n) \/ NodeStarts(r, n) \/ NodeReturns(r, n)

Call(r) ==
    \/ StartRun(r) \/ CancelRun(r)
    \/ \E answered \in BOOLEAN : ResumeRun(r, answered)

Next == \E r \in Run : Call(r) \/ LoopStep(r) \/ \E n \in Node : NodeRaises(r, n)

(***************************************************************************)
(* Nothing obliges a client to call.  A loop runs on its caller's thread   *)
(* and blocks only in executors, which are taken to answer or raise.       *)
(***************************************************************************)
Spec == Init /\ [][Next]_vars

FairSpec ==
    Spec /\ \A r \in Run : WF_vars(LoopStep(r) \/ \E n \in Node : NodeRaises(r, n))
=============================================================================
