----------------------------- MODULE RunCommits -----------------------------
(***************************************************************************)
(* How RuntimeService writes: one run in memory stores that several        *)
(* threads of the embedding program share.  Module Runtime lets a call     *)
(* commit in one step; here a commit is what the code does: the patch is   *)
(* reduced on a snapshot the caller holds and saved, the events are        *)
(* numbered, checked and appended one by one, the snapshot is read again   *)
(* to note the last event in it, and once more for the checkpoint.         *)
(*                                                                         *)
(* Reading a snapshot is one step and so is saving one, although the code  *)
(* takes them record by record (runtime_service.py:902): what is left when *)
(* it is interrupted among them is not modelled, and no property of this   *)
(* module relates two records.  Every other call of a store is a step.  An *)
(* exception leaves everything done so far in the stores and ends the      *)
(* call.  Records are reduced to what the runtime itself writes and reads  *)
(* back.  The workflow has unconditional edges, the default join and no    *)
(* terminal condition of its own; Runtime has the others.                  *)
(***************************************************************************)
EXTENDS StateReducer, Integers, Sequences

CONSTANTS
    Caller,     \* threads of the program; one of them is in start_run
    Starter,    \* that one
    Node, Edge, Entry,
    MaxParallel,\* max_parallel_nodes
    MaxCalls,   \* cancel_run and resume_run calls of all callers together
    MaxEvents   \* a bound: no node is started once the run has so many events

ASSUME CallerAssumption == Starter \in Caller /\ MaxCalls \in Nat /\ MaxEvents \in Nat
ASSUME WorkflowAssumption ==
    Entry \in Node /\ Edge \subseteq Node \X Node /\ MaxParallel \in Nat \ {0}

VARIABLES
    store,       \* the state store: the records of the run and of its thread
    events,      \* the run's events in the event store: their sequence numbers
    checkpoints, \* the checkpoints of the run, in the order of creation
    caller,      \* where a thread is in its call, and the snapshot it holds
    calls        \* calls made so far

vars == <<store, events, checkpoints, caller, calls>>

TerminalRunStatus == {"completed", "failed", "cancelled"}
TerminalNodeStatus == {"succeeded", "failed", "cancelled"}
Suspended == {"waiting", "interrupted"}

\* Of a thread record and state, busy is the reference to this run and paused
\* the status; of a run state, stopped are the waiting and blocked nodes, and last
\* is the last event.
Initial ==
    [threadRecord |-> [version |-> 2, busy |-> TRUE, paused |-> FALSE, checkpoint |-> 1],
     runRecord    |-> [version |-> 0, status |-> "running"],
     threadState  |-> [version |-> 1, busy |-> TRUE, paused |-> FALSE, artifacts |-> {}],
     runState     |-> [version |-> 1, status |-> "running", frontier |-> {Entry},
                      active |-> {}, stopped |-> {}, pending |-> {}, last |-> 3],
     nodes        |-> [n \in Node |->
                         [version |-> 0, status |-> IF n = Entry THEN "ready" ELSE "pending",
                          output |-> {}, decisions |-> {}]],
     artifacts    |-> {},
     interrupts   |-> NoUpdate]

Resting == [at |-> "idle"]

\* start_run has written the run, its three events and its first checkpoint;
\* its caller is about to run the scheduler loop.
Init ==
    /\ store = Initial
    /\ events = <<1, 2, 3>>
    /\ checkpoints = <<[number |-> 3, state |-> Initial.runState, last |-> 3]>>
    /\ caller = [c \in Caller |-> IF c = Starter THEN [at |-> "decide"] ELSE Resting]
    /\ calls = 0

-----------------------------------------------------------------------------
(* The stores                                                               *)

\* What _persist_snapshot makes of the store: interrupts and artifacts that the
\* snapshot does not know stay, everything else is overwritten.
Persisted(snapshot) ==
    [snapshot EXCEPT
        !.artifacts  = @ \cup store.artifacts,
        !.interrupts = [i \in DOMAIN store.interrupts \cup DOMAIN snapshot.interrupts |->
                           IF i \in DOMAIN snapshot.interrupts THEN snapshot.interrupts[i]
                           ELSE store.interrupts[i]]]

\* latest_for_run.
LatestNumber == IF events = <<>> THEN 0 ELSE events[Len(events)]

\* The check append makes of every event (the mistaken variant trusts the check
\* of the batch).
AnyNumber(number) == number > 0
Increases(number) == number > LatestNumber

-----------------------------------------------------------------------------
(* The parts of a commit                                                    *)

Moved(c, where) == caller' = [caller EXCEPT ![c] = where]

\* _execute_node keeps the snapshot of a failed result for _mark_run_failed.
Held(job, snapshot) ==
    IF job.at = "failing"
    THEN [at |-> "failing", batch |-> job.batch, snapshot |-> snapshot] ELSE job

\* A commit: the reduced snapshot is to be saved, then count events appended
\* and a checkpoint made; then the caller goes on at job.
Commit(c, snapshot, patch, count, job) ==
    IF Refused(snapshot, patch) THEN Moved(c, Resting)
    ELSE LET reduced == Reduced(snapshot, patch)
         IN  Moved(c, [at |-> "save", snapshot |-> reduced,
                       then |-> IF count = 0 THEN job
                                ELSE [at |-> "number", count |-> count, job |-> Held(job, reduced)]])

\* Another save of the commit.
SaveThen(c, snapshot, then) == Moved(c, [at |-> "save", snapshot |-> snapshot, then |-> then])

\* _persist_snapshot.
SaveSnapshot(c) ==
    /\ caller[c].at = "save"
    /\ store' = Persisted(caller[c].snapshot)
    /\ Moved(c, caller[c].then)
    /\ UNCHANGED <<events, checkpoints, calls>>

\* emit_run_events: the next number is the latest one plus one ...
NumberEvents(c) ==
    /\ caller[c].at = "number"
    /\ Moved(c, [at |-> "check", count |-> caller[c].count, next |-> LatestNumber + 1,
                 job |-> caller[c].job])
    /\ UNCHANGED <<store, events, checkpoints, calls>>

\* ... append_batch checks the whole batch against the events of that moment ...
CheckBatch(c) ==
    /\ caller[c].at = "check"
    /\ IF caller[c].next > LatestNumber
       THEN Moved(c, [at |-> "append", count |-> caller[c].count, next |-> caller[c].next,
                      job |-> caller[c].job])
       ELSE Moved(c, Resting)
    /\ UNCHANGED <<store, events, checkpoints, calls>>

\* ... and appends event by event, each checked again.
AppendEvent(c) ==
    /\ caller[c].at = "append"
    /\ UNCHANGED <<store, checkpoints, calls>>
    /\ \/ /\ ~Increases(caller[c].next)
          /\ Moved(c, Resting)
          /\ UNCHANGED events
       \/ /\ Increases(caller[c].next)
          /\ events' = Append(events, caller[c].next)
          /\ IF caller[c].count = 1
             THEN Moved(c, [at |-> "note", last |-> caller[c].next, job |-> caller[c].job])
             ELSE Moved(c, [at |-> "append", count |-> caller[c].count - 1,
                            next |-> caller[c].next + 1, job |-> caller[c].job])

\* _append_run_events reads the snapshot again and notes the last event in it.
NoteLastEvent(c) ==
    /\ caller[c].at = "note"
    /\ SaveThen(c, Reduced(store, [EmptyPatch EXCEPT !.runState = [last |-> caller[c].last]]),
               [at |-> "snapshot", job |-> caller[c].job])
    /\ UNCHANGED <<store, events, checkpoints, calls>>

\* _checkpoint: the snapshot is read first ...
ReadSnapshot(c) ==
    /\ caller[c].at = "snapshot"
    /\ Moved(c, [at |-> "cursor", snapshot |-> store, job |-> caller[c].job])
    /\ UNCHANGED <<store, events, checkpoints, calls>>

\* ... then the latest event, whose number the checkpoint gets ...
ReadCursor(c) ==
    /\ caller[c].at = "cursor"
    /\ Moved(c, [at |-> "create", snapshot |-> caller[c].snapshot, cursor |-> LatestNumber,
                 job |-> caller[c].job])
    /\ UNCHANGED <<store, events, checkpoints, calls>>

\* The state a checkpoint saves is the snapshot read before the cursor (the
\* mistaken variant reads it last).
StateByNow(c) == store
StateToSave(c) == caller[c].snapshot

\* ... then the checkpoint is created, with the latest event as of now in its
\* payload, and its identifier noted in the thread record.
CreateCheckpoint(c) ==
    /\ caller[c].at = "create"
    /\ checkpoints' = Append(checkpoints,
          [number |-> caller[c].cursor, state |-> StateToSave(c).runState,
           last |-> LatestNumber])
    /\ SaveThen(c, Reduced(caller[c].snapshot,
                     [EmptyPatch EXCEPT !.threadRecord = [checkpoint |-> Len(checkpoints) + 1]]),
               caller[c].job)
    /\ UNCHANGED <<store, events, calls>>

-----------------------------------------------------------------------------
(* The operations                                                           *)

\* The run is over, and its thread free.
Release(status) ==
    [EmptyPatch EXCEPT !.threadRecord = [busy |-> FALSE],
                       !.threadState = [busy |-> FALSE, paused |-> FALSE],
                       !.runRecord = [status |-> status],
                       !.runState = [status |-> status, frontier |-> {}, active |-> {}]]

Suspend(status) ==
    [EmptyPatch EXCEPT !.threadRecord = [paused |-> TRUE], !.threadState = [paused |-> TRUE],
                       !.runRecord = [status |-> status],
                       !.runState = [status |-> status, frontier |-> {}]]

Upstream(n) == {m \in Node : <<m, n>> \in Edge}

\* Its open interrupt keeps a node from being ready, as far as the run state still
\* names it.
Asking(snapshot, n) ==
    \E i \in snapshot.runState.pending \cap DOMAIN snapshot.interrupts :
        snapshot.interrupts[i].node = n

ReadyIn(snapshot) ==
    LET status(n) == snapshot.nodes[n].status
        joined(n) == IF Upstream(n) = {} THEN n = Entry
                     ELSE \A m \in Upstream(n) : status(m) = "succeeded"
        open(n) == status(n) \in {"pending", "blocked"} /\ ~Asking(snapshot, n)
    IN  {n \in Node : status(n) = "ready" \/ (open(n) /\ joined(n))}

\* The nodes the scheduler dispatches: as many ready ones as there are slots.
Batches(snapshot) ==
    LET slots == MaxParallel - Cardinality(snapshot.runState.active)
    IN  {b \in SUBSET ReadyIn(snapshot) \ {{}} :
            \/ Cardinality(b) = slots
            \/ Cardinality(b) < slots /\ b = ReadyIn(snapshot)}

\* What the scheduler makes of a snapshot it dispatches nothing from.
Settled(snapshot) ==
    LET state == snapshot.runState
    IN  IF \A n \in Node : snapshot.nodes[n].status \in TerminalNodeStatus
        THEN Release("completed")
        ELSE IF state.pending # {} THEN Suspend("interrupted")
        ELSE IF state.active \cup state.stopped # {} THEN Suspend("waiting")
        ELSE Release("failed")

Over(snapshot) == snapshot.runRecord.status \in TerminalRunStatus

\* A turn of _run_scheduler_loop on the snapshot it reads: it returns, or saves
\* the frontier it will dispatch, or ends or suspends the run and returns.
Decide(c) ==
    /\ caller[c].at = "decide"
    /\ UNCHANGED <<store, events, checkpoints, calls>>
    /\ \/ Over(store) /\ Moved(c, Resting)
       \/ /\ ~Over(store) /\ Batches(store) = {}
          /\ Commit(c, store, Settled(store), 1, Resting)
       \/ /\ ~Over(store)
          /\ \E batch \in Batches(store) :
                 Commit(c, store, [EmptyPatch EXCEPT !.runState = [frontier |-> batch]], 0,
                        [at |-> "dispatch", batch |-> batch])

\* Where the loop goes on after a node.
AfterNode(batch) == IF batch = {} THEN [at |-> "decide"] ELSE [at |-> "dispatch", batch |-> batch]

\* The next node of the batch is written as running and its start committed.
Starts(c, n) ==
    /\ Len(events) < MaxEvents
    /\ Commit(c, store,
              [EmptyPatch EXCEPT !.runState = [active   |-> store.runState.active \cup {n},
                                              frontier |-> store.runState.frontier \ {n}],
                                 !.nodes = [m \in {n} |-> [status |-> "running"]]],
              1, [at |-> "execute", node |-> n, batch |-> caller[c].batch \ {n}])

\* EXECUTOR_NOT_AVAILABLE.
NoExecutor(c, n) ==
    Commit(c, store, Release("failed"), 1, AfterNode(caller[c].batch \ {n}))

\* For each node of the batch the snapshot is read again; a run that is over ends
\* the loop, and so does a node whose input cannot be selected.
StartNode(c) ==
    /\ caller[c].at = "dispatch"
    /\ UNCHANGED <<store, events, checkpoints, calls>>
    /\ \/ Moved(c, Resting)
       \/ ~Over(store) /\ \E n \in caller[c].batch : Starts(c, n) \/ NoExecutor(c, n)

\* The executor returns: the snapshot is read again and the result committed, its
\* output as an artifact.  One that asks raises an interrupt, and is here always
\* a tool that a policy decision holds back.
ExecutorReturns(c, status) ==
    /\ caller[c].at = "execute"
    /\ UNCHANGED <<store, events, checkpoints, calls>>
    /\ LET n    == caller[c].node
           asks == status \in {"blocked", "waiting"}
           new  == <<c, Cardinality(DOMAIN store.interrupts)>>
           rest == store.runState.stopped \ {n}
       IN  Commit(c, store,
              [EmptyPatch EXCEPT
                  !.runState  = [active  |-> store.runState.active \ {n},
                                 stopped |-> IF asks THEN rest \cup {n} ELSE rest],
                  !.nodes     = [m \in {n} |-> [status |-> status]],
                  !.artifacts = IF status = "failed" THEN {}
                                ELSE {[id |-> <<c, Cardinality(store.artifacts)>>, producer |-> n]},
                  !.raised    = IF asks THEN {[id |-> new, node |-> n]} ELSE {},
                  !.decisions = IF asks THEN {[id |-> new, node |-> n]} ELSE {}],
              IF asks THEN 2 ELSE 1,
              IF status = "failed" THEN [at |-> "failing", batch |-> caller[c].batch]
              ELSE AfterNode(caller[c].batch))

\* The executor raises: the exception ends the call.
ExecutorRaises(c) ==
    /\ caller[c].at = "execute"
    /\ Moved(c, Resting)
    /\ UNCHANGED <<store, events, checkpoints, calls>>

\* _mark_run_failed, on the snapshot with the result: neither the event noted
\* nor the checkpoint made since then is in it.
MarkFailed(c) ==
    /\ caller[c].at = "failing"
    /\ Commit(c, caller[c].snapshot, Release("failed"), 1, AfterNode(caller[c].batch))
    /\ UNCHANGED <<store, events, checkpoints, calls>>

\* cancel_run of a run that is not over.
CancelRun(c) ==
    /\ caller[c].at = "idle" /\ calls < MaxCalls
    /\ ~Over(store)
    /\ calls' = calls + 1
    /\ LET open == {n \in Node : store.nodes[n].status \notin TerminalNodeStatus}
       IN  Commit(c, store,
                  [Release("cancelled") EXCEPT
                      !.runState = [status |-> "cancelled", frontier |-> {}, active |-> {},
                                    stopped |-> {}],
                      !.nodes = [n \in open |-> [status |-> "cancelled"]]],
                  1, Resting)
    /\ UNCHANGED <<store, events, checkpoints>>

\* resume_run: with an answer every pending interrupt is resolved, one event
\* each, and its node made ready; then the caller runs the scheduler loop.
ResumeRun(c, answered) ==
    /\ caller[c].at = "idle" /\ calls < MaxCalls
    /\ store.runRecord.status \in Suspended
    /\ calls' = calls + 1
    /\ LET asked == IF answered THEN store.runState.pending ELSE {}
           nodes == {store.interrupts[i].node : i \in asked \cap DOMAIN store.interrupts}
       IN  Commit(c, store,
                  [EmptyPatch EXCEPT
                      !.threadRecord = [paused |-> FALSE], !.threadState = [paused |-> FALSE],
                      !.runRecord = [status |-> "running"],
                      !.runState = [status |-> "running",
                                    stopped |-> store.runState.stopped \ nodes,
                                    frontier |-> store.runState.frontier \cup nodes],
                      !.nodes    = [n \in nodes |-> [status |-> "ready"]],
                      !.answers  = [i \in asked |-> [status |-> "resolved"]]],
                  Cardinality(asked) + 1, [at |-> "decide"])
    /\ UNCHANGED <<store, events, checkpoints>>

Step(c) ==
    \/ SaveSnapshot(c) \/ NumberEvents(c) \/ CheckBatch(c) \/ AppendEvent(c)
    \/ NoteLastEvent(c) \/ ReadSnapshot(c) \/ ReadCursor(c) \/ CreateCheckpoint(c)
    \/ Decide(c) \/ StartNode(c)
    \/ \E status \in {"succeeded", "failed", "blocked", "waiting"} : ExecutorReturns(c, status)
    \/ ExecutorRaises(c) \/ MarkFailed(c)

Next == \E c \in Caller :
    Step(c) \/ CancelRun(c) \/ \E answered \in BOOLEAN : ResumeRun(c, answered)

Spec == Init /\ [][Next]_vars
=============================================================================
