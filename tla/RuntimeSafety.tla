--------------------------- MODULE RuntimeSafety ---------------------------
(***************************************************************************)
(* What RuntimeService promises of its threads and runs: the rules the     *)
(* design specification of the runtime states (sections 6, 8, 10 and 11)   *)
(* and those the callers in the console rely on.                           *)
(***************************************************************************)
EXTENDS Runtime

-----------------------------------------------------------------------------
(* Relations between the records of one run                                 *)

\* The node lists of the run state and the node states tell the same story,
\* although every one of them is patched on its own.  A completed, failed or
\* waiting node is in exactly its list, and an active node is running.
ListsMatchNodes ==
    \A r \in Run :
        /\ runState[r].completed = {n \in Node : node[r][n] = "succeeded"}
        /\ runState[r].failed = {n \in Node : node[r][n] = "failed"}
        /\ runState[r].active = {n \in Node : node[r][n] = "running"}
        /\ \A n \in runState[r].waiting : node[r][n] = "waiting"
        /\ \A n \in runState[r].blocked : node[r][n] \in {"blocked", "running"}

\* The frontier never holds a node that runs, has run or is over, it holds no
\* node twice, the active nodes stay within max_parallel_nodes, and a run that
\* is over or suspended has no frontier left to be dispatched from.
FrontierSound ==
    \A r \in Run :
        LET list == runState[r].frontier
        IN  /\ \A n \in Elements(list) : node[r][n] \in {"pending", "ready", "blocked"}
            /\ Cardinality(Elements(list)) = Len(list)
            /\ Cardinality(runState[r].active) <= MaxParallel
            /\ run[r] # "running" => list = <<>>

\* A pending interrupt of a run is one that is open, and every open one is
\* pending, through asking, answering, asking again and cancelling.
PendingAreOpen ==
    \A r \in Run :
        {n \in Node : interrupt[r][n] = "open"} = Elements(runState[r].pending)

\* All that the scheduler reads of a run beside its nodes is sound: the node
\* lists, the frontier, and the pending interrupts.
NodeListsSound == ListsMatchNodes /\ FrontierSound /\ PendingAreOpen

\* The status of a run and the current run of the thread are kept in two
\* records each; no commit leaves them apart (_persist_snapshot; the store is taken to
\* save the records of a commit all or none).
RecordsAgree ==
    /\ threadState.active = thread.current
    /\ \A r \in Run : runState[r].status = run[r]

\* The run that is over has let go of the thread, and the run the thread names
\* is not over: a thread is neither locked by a finished run nor free while
\* its run goes on.  Holds when no caller acts while an executor runs.
OneLiveRunPerThread ==
    \A r \in Run : Live(r) <=> thread.current = r

\* "At most one active run" of a thread.
AtMostOneLiveRun == Cardinality({r \in Run : Live(r)}) <= 1

-----------------------------------------------------------------------------
(* Where a run stops                                                        *)

\* The scheduler does not stop a run while a node could run: a run that was
\* suspended or completed has no ready node left, so no branch is forgotten.
StoppedRunIsDrained ==
    \A r \in Run : run[r] \in Suspended \cup {"completed"} => Ready(r) = {}

\* A suspended run can be resumed to some effect.  An interrupted one has open
\* interrupts, all of nodes that wait or are blocked (of a completed node the
\* resume would be refused); a waiting one has none and has a node that waits or
\* is blocked (when deadlocks are detected).
StopsAreAnswerable ==
    \A r \in Run :
        /\ run[r] = "interrupted" =>
              /\ runState[r].pending # <<>>
              /\ \A n \in Elements(runState[r].pending) :
                    node[r][n] \in {"waiting", "blocked"}
        /\ run[r] = "waiting" /\ DeadlockDetection =>
              /\ runState[r].pending = <<>>
              /\ runState[r].waiting \cup runState[r].blocked # {}

\* A human gate holds: a node that waits for all its sources, a gate among them,
\* is not reached before the gate was answered, whatever branch ran meanwhile.
GatesHold ==
    \A r \in Run, e \in Edge :
        /\ Kind[e.from] = "human_gate" /\ e.cond.kind = "always"
        /\ Join[e.to].kind = "all_success"
        /\ node[r][e.to] \notin {"pending", "cancelled"}
        => interrupt[r][e.from] = "resolved"

-----------------------------------------------------------------------------
(* What no step may do                                                      *)

\* A node starts only in a run that is running and has no failed node, and not
\* again once it is over: neither a second pass of the scheduler, nor the rest
\* of a batch, nor a late result takes a node back to running.  (Where two calls
\* of threads overlap within a step of this module, a node can start again.)
OnlyFreshNodesStart ==
    [][\A r \in Run, n \in Node :
          node[r][n] # "running" /\ node'[r][n] = "running"
          => /\ node[r][n] \notin TerminalNodeStatus
             /\ run[r] = "running" /\ runState[r].failed = {}]_vars

\* "A run that is over produces no more node updates", nor does its own status
\* change.  Holds when no caller acts while an executor runs.
TerminalRunFrozen ==
    [][\A r \in Run :
          Terminal(r) => run'[r] = run[r] /\ node'[r] = node[r]]_vars

-----------------------------------------------------------------------------
(* What must happen, when executors answer                                  *)

\* A call that runs the scheduler returns: the loop reaches an end, a stop, or
\* an exception.  (Executors that block also ask here; one that blocks without
\* asking is ready again at once and keeps the loop for ever.)
LoopReturns == \A r \in Run : loop[r].at # "idle" ~> loop[r].at = "idle"

\* A node made ready (the entry, or one whose interrupt was answered) is taken
\* or the run ends.
ReadyIsServed ==
    \A r \in Run, n \in Node :
        node[r][n] = "ready" ~> node[r][n] # "ready" \/ Terminal(r)

-----------------------------------------------------------------------------
(* The thread as its clients see it                                          *)

Phase(r) == IF run[r] \in Suspended THEN "suspended" ELSE run[r]

Lifecycle == INSTANCE RunLifecycle WITH
    current <- thread.current, phase <- [r \in Run |-> Phase(r)]

\* Without callers that act while an executor runs, a thread with its scheduler
\* loop is the life cycle of RunLifecycle: one run at a time, over for good once
\* over.
LifecycleKept == Lifecycle!Spec
=============================================================================
