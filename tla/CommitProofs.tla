---------------------------- MODULE CommitProofs ----------------------------
(***************************************************************************)
(* Why the event log of a run has no gaps and no repetitions for any       *)
(* number of threads: whatever a thread has taken for the next number, the *)
(* log has at least all the numbers below it, and append takes only one    *)
(* that is above the last.                                                 *)
(***************************************************************************)
EXTENDS CommitSafety, TLAPS

\* Where a caller may go on after a commit: never into the numbering of another.
JobStep == {"idle", "decide", "dispatch", "execute", "failing"}
CommitStep == {"number", "check", "append", "note", "snapshot", "cursor", "create"}
Numbered == {"check", "append"}

\* What a caller may hold when the log has len events.
Bound(x, len) ==
    /\ x.at \in JobStep \cup CommitStep \cup {"save"}
    /\ x.at \in CommitStep => x.job.at \in JobStep
    /\ x.at \in Numbered => x.next \in Nat /\ x.next <= len + 1
    /\ x.at = "save" =>
          /\ x.then.at \in JobStep \cup {"number", "snapshot"}
          /\ x.then.at \in {"number", "snapshot"} => x.then.job.at \in JobStep

CallersBound ==
    /\ caller = [c \in Caller |-> caller[c]]
    /\ \A c \in Caller : Bound(caller[c], Len(events))

LogInv == events \in Seq(Nat) /\ NumbersAreDense /\ CallersBound
-----------------------------------------------------------------------------
(***************************************************************************)
(* The latest number is the length of a log without gaps.                  *)
(***************************************************************************)
LEMMA LatestIsLength ==
    ASSUME events \in Seq(Nat), NumbersAreDense
    PROVE  /\ LatestNumber = Len(events)
           /\ Len(events) \in Nat
<1>1. Len(events) \in Nat
  OBVIOUS
<1>2. CASE events = <<>>
  BY <1>2 DEF LatestNumber
<1>3. CASE events # <<>>
  <2>1. Len(events) \in 1 .. Len(events)
    BY <1>3
  <2> QED
    BY <1>3, <2>1 DEF LatestNumber, NumbersAreDense
<1> QED
  BY <1>1, <1>2, <1>3

(***************************************************************************)
(* A step of one caller leaves the others bound, the log having grown or   *)
(* not.                                                                    *)
(***************************************************************************)
LEMMA MoveKeepsBound ==
    ASSUME LogInv, NEW c \in Caller, NEW where, Moved(c, where),
           events' \in Seq(Nat), Len(events) <= Len(events'),
           Bound(where, Len(events'))
    PROVE  CallersBound'
<1>1. caller' = [d \in Caller |-> caller'[d]]
  BY DEF Moved, LogInv, CallersBound
<1>2. ASSUME NEW d \in Caller
      PROVE  Bound(caller'[d], Len(events'))
  <2>1. CASE d = c
    <3>1. caller'[d] = where
      BY <2>1 DEF Moved, LogInv, CallersBound
    <3> QED
      BY <3>1
  <2>2. CASE d # c
    <3>1. caller'[d] = caller[d]
      BY <2>2 DEF Moved, LogInv, CallersBound
    <3>2. Bound(caller[d], Len(events))
      BY DEF LogInv, CallersBound
    <3>3. Len(events) \in Nat /\ Len(events') \in Nat
      BY DEF LogInv
    <3>4. Bound(caller[d], Len(events'))
      BY <3>2, <3>3 DEF Bound
    <3> QED
      BY <3>1, <3>4
  <2> QED
    BY <2>1, <2>2
<1> QED
  BY <1>1, <1>2 DEF CallersBound

(***************************************************************************)
(* The same for a step that leaves the log alone.                          *)
(***************************************************************************)
LEMMA MoveKeepsLog ==
    ASSUME LogInv, NEW c \in Caller, NEW where, Moved(c, where),
           UNCHANGED events, Bound(where, Len(events))
    PROVE  LogInv'
<1>1. Len(events) \in Nat
  BY DEF LogInv
<1>2. events' = events /\ events' \in Seq(Nat) /\ Len(events) <= Len(events')
  BY <1>1 DEF LogInv
<1>3. CallersBound'
  BY <1>2, MoveKeepsBound
<1> QED
  BY <1>2, <1>3 DEF LogInv, NumbersAreDense

(***************************************************************************)
(* A commit, refused or not, leaves its caller bound.                      *)
(***************************************************************************)
LEMMA CommitKeepsLog ==
    ASSUME LogInv, NEW c \in Caller, NEW snapshot, NEW patch, NEW count, NEW job,
           Commit(c, snapshot, patch, count, job), job.at \in JobStep,
           UNCHANGED events
    PROVE  LogInv'
<1>1. Bound(Resting, Len(events))
  BY DEF Bound, Resting, JobStep, CommitStep, Numbered
<1>2. CASE Refused(snapshot, patch)
  <2>1. Moved(c, Resting)
    BY <1>2 DEF Commit
  <2> QED
    BY <1>1, <2>1, MoveKeepsLog
<1>3. CASE ~Refused(snapshot, patch)
  <2> DEFINE reduced == Reduced(snapshot, patch)
             then == IF count = 0 THEN job
                     ELSE [at |-> "number", count |-> count, job |-> Held(job, reduced)]
             where == [at |-> "save", snapshot |-> reduced, then |-> then]
  <2>1. Moved(c, where)
    BY <1>3 DEF Commit
  <2>2. Held(job, reduced).at \in JobStep
    BY DEF Held, JobStep
  <2>3. /\ then.at \in JobStep \cup {"number", "snapshot"}
        /\ then.at \in {"number", "snapshot"} => then.job.at \in JobStep
    <3>1. CASE count = 0
      BY <3>1 DEF JobStep
    <3>2. CASE count # 0
      <4>1. then = [at |-> "number", count |-> count, job |-> Held(job, reduced)]
        BY <3>2
      <4> HIDE DEF then
      <4>2. then.at = "number" /\ then.job.at \in JobStep
        BY <4>1, <2>2
      <4> QED
        BY <4>2
    <3> QED
      BY <3>1, <3>2
  <2> HIDE DEF then, reduced
  <2>4. Bound(where, Len(events))
    BY <2>3 DEF Bound, JobStep, CommitStep, Numbered
  <2> QED
    BY <2>1, <2>4, MoveKeepsLog
<1> QED
  BY <1>2, <1>3
-----------------------------------------------------------------------------
(***************************************************************************)
(* The steps between two calls of the stores.                              *)
(***************************************************************************)
LEMMA StoresKeepLog ==
    ASSUME LogInv, NEW c \in Caller,
           \/ SaveSnapshot(c) \/ NumberEvents(c) \/ CheckBatch(c)
           \/ NoteLastEvent(c) \/ ReadSnapshot(c) \/ ReadCursor(c) \/ CreateCheckpoint(c)
    PROVE  LogInv'
<1> DEFINE x == caller[c]
<1>1. Bound(x, Len(events)) /\ UNCHANGED events
  BY DEF LogInv, CallersBound, SaveSnapshot, NumberEvents, CheckBatch, NoteLastEvent,
         ReadSnapshot, ReadCursor, CreateCheckpoint
<1>2. LatestNumber = Len(events) /\ Len(events) \in Nat
  BY LatestIsLength DEF LogInv
<1>3. x.at \in CommitStep => x.job.at \in JobStep
  BY <1>1 DEF Bound
<1>4. Bound(Resting, Len(events))
  BY DEF Bound, Resting, JobStep, CommitStep, Numbered
<1>5. CASE SaveSnapshot(c)
  <2>1. Moved(c, x.then) /\ x.at = "save"
    BY <1>5 DEF SaveSnapshot
  <2>2. /\ x.then.at \in JobStep \cup {"number", "snapshot"}
        /\ x.then.at \in {"number", "snapshot"} => x.then.job.at \in JobStep
    BY <1>1, <2>1 DEF Bound
  <2>3. Bound(x.then, Len(events))
    BY <2>2 DEF Bound, JobStep, CommitStep, Numbered
  <2> QED
    BY <1>1, <2>1, <2>3, MoveKeepsLog
<1>6. CASE NumberEvents(c)
  <2> DEFINE where == [at |-> "check", count |-> x.count, next |-> LatestNumber + 1, job |-> x.job]
  <2>1. Moved(c, where) /\ x.at = "number"
    BY <1>6 DEF NumberEvents
  <2>2. x.job.at \in JobStep
    BY <1>3, <2>1 DEF CommitStep
  <2>3. Bound(where, Len(events))
    BY <1>2, <2>2 DEF Bound, JobStep, CommitStep, Numbered
  <2> QED
    BY <1>1, <2>1, <2>3, MoveKeepsLog
<1>7. CASE CheckBatch(c)
  <2> DEFINE where == [at |-> "append", count |-> x.count, next |-> x.next, job |-> x.job]
  <2>1. x.at = "check"
    BY <1>7 DEF CheckBatch
  <2>2. x.job.at \in JobStep /\ x.next \in Nat /\ x.next <= Len(events) + 1
    BY <1>1, <1>3, <2>1 DEF Bound, CommitStep, Numbered
  <2>3. Bound(where, Len(events))
    BY <2>2 DEF Bound, JobStep, CommitStep, Numbered
  <2>4. Moved(c, where) \/ Moved(c, Resting)
    BY <1>7 DEF CheckBatch
  <2> QED
    BY <1>1, <1>4, <2>3, <2>4, MoveKeepsLog
<1>8. CASE NoteLastEvent(c)
  <2> DEFINE reduced == Reduced(store, [EmptyPatch EXCEPT !.runState = [last |-> x.last]])
             where == [at |-> "save", snapshot |-> reduced,
                       then |-> [at |-> "snapshot", job |-> x.job]]
  <2>1. Moved(c, where) /\ x.at = "note"
    BY <1>8 DEF NoteLastEvent, SaveThen
  <2>2. x.job.at \in JobStep
    BY <1>3, <2>1 DEF CommitStep
  <2> HIDE DEF reduced
  <2>3. Bound(where, Len(events))
    BY <2>2 DEF Bound, JobStep, CommitStep, Numbered
  <2> QED
    BY <1>1, <2>1, <2>3, MoveKeepsLog
<1>9. CASE ReadSnapshot(c)
  <2> DEFINE where == [at |-> "cursor", snapshot |-> store, job |-> x.job]
  <2>1. Moved(c, where) /\ x.at = "snapshot"
    BY <1>9 DEF ReadSnapshot
  <2>2. x.job.at \in JobStep
    BY <1>3, <2>1 DEF CommitStep
  <2>3. Bound(where, Len(events))
    BY <2>2 DEF Bound, JobStep, CommitStep, Numbered
  <2> QED
    BY <1>1, <2>1, <2>3, MoveKeepsLog
<1>10. CASE ReadCursor(c)
  <2> DEFINE where == [at |-> "create", snapshot |-> x.snapshot, cursor |-> LatestNumber,
                       job |-> x.job]
  <2>1. Moved(c, where) /\ x.at = "cursor"
    BY <1>10 DEF ReadCursor
  <2>2. x.job.at \in JobStep
    BY <1>3, <2>1 DEF CommitStep
  <2>3. Bound(where, Len(events))
    BY <2>2 DEF Bound, JobStep, CommitStep, Numbered
  <2> QED
    BY <1>1, <2>1, <2>3, MoveKeepsLog
<1>11. CASE CreateCheckpoint(c)
  <2> DEFINE reduced == Reduced(x.snapshot,
                 [EmptyPatch EXCEPT !.threadRecord = [checkpoint |-> Len(checkpoints) + 1]])
             where == [at |-> "save", snapshot |-> reduced, then |-> x.job]
  <2>1. Moved(c, where) /\ x.at = "create"
    BY <1>11 DEF CreateCheckpoint, SaveThen
  <2>2. x.job.at \in JobStep
    BY <1>3, <2>1 DEF CommitStep
  <2> HIDE DEF reduced
  <2>3. Bound(where, Len(events))
    BY <2>2 DEF Bound, JobStep, CommitStep, Numbered
  <2> QED
    BY <1>1, <2>1, <2>3, MoveKeepsLog
<1> QED
  BY <1>5, <1>6, <1>7, <1>8, <1>9, <1>10, <1>11

(***************************************************************************)
(* An event that is appended has the next number: its caller's is at most  *)
(* that, and append lets it pass only when it is above the last.           *)
(***************************************************************************)
LEMMA AppendKeepsLog ==
    ASSUME LogInv, NEW c \in Caller, AppendEvent(c)
    PROVE  LogInv'
<1> DEFINE x == caller[c]
<1>1. x.at = "append" /\ Bound(x, Len(events))
  BY DEF AppendEvent, LogInv, CallersBound
<1>2. x.next \in Nat /\ x.next <= Len(events) + 1 /\ x.job.at \in JobStep
  BY <1>1 DEF Bound, CommitStep, Numbered
<1>3. LatestNumber = Len(events) /\ Len(events) \in Nat /\ events \in Seq(Nat)
  BY LatestIsLength DEF LogInv
<1>4. CASE ~Increases(x.next)
  <2>1. Moved(c, Resting) /\ UNCHANGED events
    BY <1>4 DEF AppendEvent
  <2>2. Bound(Resting, Len(events))
    BY DEF Bound, Resting, JobStep, CommitStep, Numbered
  <2> QED
    BY <2>1, <2>2, MoveKeepsLog
<1>5. CASE Increases(x.next)
  <2>1. x.next = Len(events) + 1
    BY <1>2, <1>3, <1>5 DEF Increases
  <2>2. events' = Append(events, x.next)
    BY <1>5 DEF AppendEvent
  <2>3. events' \in Seq(Nat) /\ Len(events') = Len(events) + 1
    BY <1>2, <1>3, <2>2
  <2>4. NumbersAreDense'
    <3> SUFFICES ASSUME NEW i \in 1 .. Len(events') PROVE events'[i] = i
      BY DEF NumbersAreDense
    <3>1. CASE i = Len(events) + 1
      BY <1>2, <1>3, <2>1, <2>2, <3>1
    <3>2. CASE i # Len(events) + 1
      <4>1. i \in 1 .. Len(events)
        BY <1>3, <2>3, <3>2
      <4>2. events'[i] = events[i]
        BY <1>2, <1>3, <2>2, <4>1
      <4> QED
        BY <4>1, <4>2 DEF LogInv, NumbersAreDense
    <3> QED
      BY <3>1, <3>2
  <2> DEFINE noting == [at |-> "note", last |-> x.next, job |-> x.job]
             more == [at |-> "append", count |-> x.count - 1, next |-> x.next + 1, job |-> x.job]
  <2>5. Moved(c, noting) \/ Moved(c, more)
    BY <1>5 DEF AppendEvent
  <2>6. Bound(noting, Len(events'))
    BY <1>2 DEF Bound, JobStep, CommitStep, Numbered
  <2>7. x.next + 1 \in Nat /\ x.next + 1 <= Len(events') + 1
    BY <1>2, <1>3, <2>1, <2>3
  <2>8. Bound(more, Len(events'))
    BY <1>2, <2>7 DEF Bound, JobStep, CommitStep, Numbered
  <2>9. CallersBound'
    BY <1>3, <2>3, <2>5, <2>6, <2>8, MoveKeepsBound
  <2> QED
    BY <2>3, <2>4, <2>9 DEF LogInv
<1> QED
  BY <1>4, <1>5
-----------------------------------------------------------------------------
(***************************************************************************)
(* The operations only commit, or end their call.                          *)
(***************************************************************************)
LEMMA OperationsKeepLog ==
    ASSUME LogInv, NEW c \in Caller,
           \/ Decide(c) \/ StartNode(c)
           \/ \E status \in {"succeeded", "failed", "blocked", "waiting"} : ExecutorReturns(c, status)
           \/ ExecutorRaises(c) \/ MarkFailed(c) \/ CancelRun(c)
           \/ \E answered \in BOOLEAN : ResumeRun(c, answered)
    PROVE  LogInv'
<1>1. UNCHANGED events
  BY DEF Decide, StartNode, ExecutorReturns, ExecutorRaises, MarkFailed, CancelRun, ResumeRun
<1>2. Bound(Resting, Len(events))
  BY DEF Bound, Resting, JobStep, CommitStep, Numbered
<1>3. ASSUME Moved(c, Resting) PROVE LogInv'
  BY <1>1, <1>2, <1>3, MoveKeepsLog
<1>4. ASSUME NEW snapshot, NEW patch, NEW count, NEW job, job.at \in JobStep,
             Commit(c, snapshot, patch, count, job)
      PROVE  LogInv'
  BY <1>1, <1>4, CommitKeepsLog
<1>5. Resting.at \in JobStep
  BY DEF Resting, JobStep
<1>6. \A batch : AfterNode(batch).at \in JobStep
  BY DEF AfterNode, JobStep
<1>7. CASE Decide(c)
  <2>1. CASE Moved(c, Resting)
    BY <1>3, <2>1
  <2>2. CASE Commit(c, store, Settled(store), 1, Resting)
    BY <1>4, <1>5, <2>2
  <2>3. ASSUME NEW batch,
               Commit(c, store, [EmptyPatch EXCEPT !.runState = [frontier |-> batch]], 0,
                      [at |-> "dispatch", batch |-> batch])
        PROVE  LogInv'
    <3> DEFINE patch == [EmptyPatch EXCEPT !.runState = [frontier |-> batch]]
               job == [at |-> "dispatch", batch |-> batch]
    <3>1. job.at \in JobStep
      BY DEF JobStep
    <3>2. Commit(c, store, patch, 0, job)
      BY <2>3
    <3> HIDE DEF patch, job
    <3> QED
      BY <1>4, <3>1, <3>2
  <2> QED
    BY <1>7, <2>1, <2>2, <2>3 DEF Decide
<1>8. CASE StartNode(c)
  <2>1. CASE Moved(c, Resting)
    BY <1>3, <2>1
  <2>2. ASSUME NEW n \in caller[c].batch, Starts(c, n)
        PROVE  LogInv'
    <3> DEFINE patch ==
                 [EmptyPatch EXCEPT !.runState = [active   |-> store.runState.active \cup {n},
                                                  frontier |-> store.runState.frontier \ {n}],
                                    !.nodes = [m \in {n} |-> [status |-> "running"]]]
               job == [at |-> "execute", node |-> n, batch |-> caller[c].batch \ {n}]
    <3>1. Commit(c, store, patch, 1, job)
      BY <2>2 DEF Starts
    <3>2. job.at \in JobStep
      BY DEF JobStep
    <3> HIDE DEF patch, job
    <3> QED
      BY <1>4, <3>1, <3>2
  <2>3. ASSUME NEW n \in caller[c].batch, NoExecutor(c, n)
        PROVE  LogInv'
    <3>1. Commit(c, store, Release("failed"), 1, AfterNode(caller[c].batch \ {n}))
      BY <2>3 DEF NoExecutor
    <3> QED
      BY <1>4, <1>6, <3>1
  <2> QED
    BY <1>8, <2>1, <2>2, <2>3 DEF StartNode
<1>9. ASSUME NEW status \in {"succeeded", "failed", "blocked", "waiting"}, ExecutorReturns(c, status)
      PROVE  LogInv'
  <2> DEFINE job == IF status = "failed" THEN [at |-> "failing", batch |-> caller[c].batch]
                    ELSE AfterNode(caller[c].batch)
  <2>1. \E patch, count : Commit(c, store, patch, count, job)
    BY <1>9 DEF ExecutorReturns
  <2>2. job.at \in JobStep
    BY <1>6 DEF JobStep
  <2> HIDE DEF job
  <2> QED
    BY <1>4, <2>1, <2>2
<1>10. CASE ExecutorRaises(c)
  BY <1>3, <1>10 DEF ExecutorRaises
<1>11. CASE MarkFailed(c)
  <2>1. Commit(c, caller[c].snapshot, Release("failed"), 1, AfterNode(caller[c].batch))
    BY <1>11 DEF MarkFailed
  <2> QED
    BY <1>4, <1>6, <2>1
<1>12. CASE CancelRun(c)
  <2>1. \E patch : Commit(c, store, patch, 1, Resting)
    BY <1>12 DEF CancelRun
  <2> QED
    BY <1>4, <1>5, <2>1
<1>13. ASSUME NEW answered \in BOOLEAN, ResumeRun(c, answered)
       PROVE  LogInv'
  <2> DEFINE job == [at |-> "decide"]
  <2>1. \E patch, count : Commit(c, store, patch, count, job)
    BY <1>13 DEF ResumeRun
  <2>2. job.at \in JobStep
    BY DEF JobStep
  <2> QED
    BY <1>4, <2>1, <2>2
<1> QED
  BY <1>7, <1>8, <1>9, <1>10, <1>11, <1>12, <1>13
-----------------------------------------------------------------------------
(***************************************************************************)
(* A new run has its first three events.                                   *)
(***************************************************************************)
LEMMA InitHasLog == Init => LogInv
<1> SUFFICES ASSUME Init PROVE LogInv
  OBVIOUS
<1>1. events = <<1, 2, 3>>
  BY DEF Init
<1>2. events \in Seq(Nat) /\ Len(events) = 3
  BY <1>1
<1>3. NumbersAreDense
  BY <1>1, <1>2 DEF NumbersAreDense
<1>4. caller = [c \in Caller |-> IF c = Starter THEN [at |-> "decide"] ELSE Resting]
  BY DEF Init
<1>5. \A c \in Caller : Bound(caller[c], Len(events))
  BY <1>4 DEF Bound, Resting, JobStep, CommitStep, Numbered
<1>6. caller = [c \in Caller |-> caller[c]]
  BY <1>4
<1> QED
  BY <1>2, <1>3, <1>5, <1>6 DEF LogInv, CallersBound

(***************************************************************************)
(* Every step keeps the log and what the callers hold.                     *)
(***************************************************************************)
LEMMA StepKeepsLog == LogInv /\ [Next]_vars => LogInv'
<1> SUFFICES ASSUME LogInv, [Next]_vars PROVE LogInv'
  OBVIOUS
<1>1. CASE UNCHANGED vars
  BY <1>1 DEF vars, LogInv, NumbersAreDense, CallersBound
<1>2. ASSUME NEW c \in Caller,
             \/ Step(c) \/ CancelRun(c)
             \/ \E answered \in BOOLEAN : ResumeRun(c, answered)
      PROVE  LogInv'
  <2>1. CASE AppendEvent(c)
    BY <2>1, AppendKeepsLog
  <2>2. CASE ~AppendEvent(c)
    BY <1>2, <2>2, StoresKeepLog, OperationsKeepLog DEF Step
  <2> QED
    BY <2>1, <2>2
<1> QED
  BY <1>1, <1>2 DEF Next

(***************************************************************************)
(* The events of a run are numbered 1, 2, 3, ... whatever number of        *)
(* threads commit for it at once: emit_run_events takes the number after   *)
(* the last one it sees, and append refuses all that do not increase.      *)
(***************************************************************************)
THEOREM LogIsDense == Spec => []NumbersAreDense
<1>1. LogInv => NumbersAreDense
  BY DEF LogInv
<1> QED
  BY <1>1, InitHasLog, StepKeepsLog, PTL DEF Spec
-----------------------------------------------------------------------------
(***************************************************************************)
(* Why a checkpoint covers the state in it for any number of threads: the  *)
(* last event a snapshot names, held by a thread or stored, is in the log; *)
(* a checkpoint takes its number after its state was read; and the log     *)
(* only grows.                                                             *)
(***************************************************************************)

\* A snapshot that names an event of a log of len and one of made checkpoints.
Sound(s, len, made) ==
    /\ {"runState", "threadRecord"} \subseteq DOMAIN s
    /\ "last" \in DOMAIN s.runState
    /\ s.runState.last \in Nat /\ s.runState.last <= len
    /\ "checkpoint" \in DOMAIN s.threadRecord
    /\ s.threadRecord.checkpoint \in Nat /\ s.threadRecord.checkpoint <= made

SoundJob(job, len, made) == job.at = "failing" => Sound(job.snapshot, len, made)

\* What a caller holds.
SoundCall(x, len, made) ==
    /\ SoundJob(x, len, made)
    /\ x.at \in CommitStep => SoundJob(x.job, len, made)
    /\ x.at = "save" =>
          /\ Sound(x.snapshot, len, made)
          /\ SoundJob(x.then, len, made)
          /\ x.then.at \in CommitStep => SoundJob(x.then.job, len, made)
    /\ x.at = "note" => x.last \in Nat /\ x.last <= len
    /\ x.at \in {"cursor", "create"} => Sound(x.snapshot, len, made)
    /\ x.at = "create" =>
          x.cursor \in Nat /\ x.snapshot.runState.last <= x.cursor /\ x.cursor <= len

Covers(k, len) ==
    /\ k.state.last \in Nat /\ k.number \in Nat /\ k.last \in Nat
    /\ k.state.last <= k.number /\ k.number <= k.last /\ k.last <= len

SnapshotsSound ==
    /\ Sound(store, Len(events), Len(checkpoints))
    /\ \A c \in Caller : SoundCall(caller[c], Len(events), Len(checkpoints))

AllCover == \A i \in 1 .. Len(checkpoints) : Covers(checkpoints[i], Len(events))

CoverInv ==
    /\ LogInv
    /\ Len(checkpoints) \in Nat /\ checkpoints = [i \in 1 .. Len(checkpoints) |-> checkpoints[i]]
    /\ SnapshotsSound
    /\ AllCover

\* A patch that names neither a later event nor a later checkpoint.
SoundPatch(patch, len, made) ==
    /\ "last" \in DOMAIN patch.runState => patch.runState.last \in Nat /\ patch.runState.last <= len
    /\ "checkpoint" \in DOMAIN patch.threadRecord =>
          patch.threadRecord.checkpoint \in Nat /\ patch.threadRecord.checkpoint <= made
-----------------------------------------------------------------------------
(***************************************************************************)
(* An update changes a field only to what it says.                         *)
(***************************************************************************)
LEMMA UpdatedField ==
    ASSUME NEW record, NEW updates, NEW f \in DOMAIN record, f # "version"
    PROVE  /\ f \in DOMAIN Updated(record, updates)
           /\ Updated(record, updates)[f] = IF f \in DOMAIN updates THEN updates[f] ELSE record[f]
BY DEF Updated, Bumped

(***************************************************************************)
(* The reducer makes a sound snapshot of a sound snapshot.                 *)
(***************************************************************************)
LEMMA ReducedIsSound ==
    ASSUME NEW s, NEW patch, NEW len, NEW made, Sound(s, len, made), SoundPatch(patch, len, made)
    PROVE  Sound(Reduced(s, patch), len, made)
<1> DEFINE r == Reduced(s, patch)
           u == Updated(s.runState, patch.runState)
           v == BumpedIf(patch.raised # {}, u)
<1>1. \E p : r.runState = BumpedIf(DOMAIN patch.answers # {}, [v EXCEPT !.pending = p])
  BY DEF Reduced
<1>2. r.threadRecord = Updated(s.threadRecord, patch.threadRecord)
  BY DEF Reduced
<1>3. {"runState", "threadRecord"} \subseteq DOMAIN r
  BY DEF Reduced
<1> HIDE DEF r
<1>4. /\ "last" \in DOMAIN u
      /\ u["last"] = IF "last" \in DOMAIN patch.runState THEN patch.runState["last"]
                     ELSE s.runState["last"]
  BY UpdatedField DEF Sound
<1> HIDE DEF u
<1>5. "last" \in DOMAIN v /\ v["last"] = u["last"]
  BY <1>4 DEF BumpedIf, Bumped
<1> HIDE DEF v
<1>6. "last" \in DOMAIN r.runState /\ r.runState["last"] = u["last"]
  BY <1>1, <1>5 DEF BumpedIf, Bumped
<1>7. u["last"] \in Nat /\ u["last"] <= len
  BY <1>4 DEF Sound, SoundPatch
<1>8. /\ "checkpoint" \in DOMAIN r.threadRecord
      /\ r.threadRecord["checkpoint"] \in Nat /\ r.threadRecord["checkpoint"] <= made
  BY <1>2, UpdatedField DEF Sound, SoundPatch
<1> QED
  BY <1>3, <1>6, <1>7, <1>8 DEF Sound, r

(***************************************************************************)
(* What is sound stays so while the log and the checkpoints grow.          *)
(***************************************************************************)
LEMMA SoundGrows ==
    ASSUME NEW len \in Nat, NEW made \in Nat, NEW len2 \in Nat, NEW made2 \in Nat,
           len <= len2, made <= made2
    PROVE  /\ \A s : Sound(s, len, made) => Sound(s, len2, made2)
           /\ \A x : SoundCall(x, len, made) => SoundCall(x, len2, made2)
<1>1. \A s : Sound(s, len, made) => Sound(s, len2, made2)
  BY DEF Sound
<1>2. \A job : SoundJob(job, len, made) => SoundJob(job, len2, made2)
  BY <1>1 DEF SoundJob
<1>3. ASSUME NEW x, SoundCall(x, len, made)
      PROVE  SoundCall(x, len2, made2)
  BY <1>1, <1>2, <1>3 DEF SoundCall
<1> QED
  BY <1>1, <1>3

(***************************************************************************)
(* A move of one caller to a sound place keeps the callers sound.          *)
(***************************************************************************)
LEMMA MoveKeepsSound ==
    ASSUME CoverInv, NEW c \in Caller, NEW where, Moved(c, where),
           events' \in Seq(Nat), Len(events) <= Len(events'),
           Len(checkpoints') \in Nat, Len(checkpoints) <= Len(checkpoints'),
           SoundCall(where, Len(events'), Len(checkpoints'))
    PROVE  \A d \in Caller : SoundCall(caller'[d], Len(events'), Len(checkpoints'))
<1>1. Len(events) \in Nat /\ Len(events') \in Nat /\ Len(checkpoints) \in Nat
  BY DEF CoverInv, LogInv
<1> SUFFICES ASSUME NEW d \in Caller
             PROVE  SoundCall(caller'[d], Len(events'), Len(checkpoints'))
  OBVIOUS
<1>2. CASE d = c
  <2>1. caller'[d] = where
    BY <1>2 DEF Moved, CoverInv, LogInv, CallersBound
  <2> QED
    BY <2>1
<1>3. CASE d # c
  <2>1. caller'[d] = caller[d]
    BY <1>3 DEF Moved, CoverInv, LogInv, CallersBound
  <2>2. SoundCall(caller[d], Len(events), Len(checkpoints))
    BY DEF CoverInv, SnapshotsSound
  <2> QED
    BY <1>1, <2>1, <2>2, SoundGrows
<1> QED
  BY <1>2, <1>3

(***************************************************************************)
(* The same for a step that leaves the log and the checkpoints alone.      *)
(***************************************************************************)
LEMMA MoveKeepsCover ==
    ASSUME CoverInv, LogInv', NEW c \in Caller, NEW where, Moved(c, where),
           UNCHANGED <<events, checkpoints>>,
           Sound(store', Len(events), Len(checkpoints)),
           SoundCall(where, Len(events), Len(checkpoints))
    PROVE  CoverInv'
<1>1. /\ Len(events) \in Nat /\ Len(checkpoints) \in Nat
      /\ events' = events /\ checkpoints' = checkpoints /\ events' \in Seq(Nat)
  BY DEF CoverInv, LogInv
<1>2. Len(events) <= Len(events') /\ Len(checkpoints) <= Len(checkpoints')
  BY <1>1
<1>3. SnapshotsSound'
  BY <1>1, <1>2, MoveKeepsSound DEF SnapshotsSound
<1> QED
  BY <1>1, <1>3 DEF CoverInv, AllCover

(***************************************************************************)
(* A commit of a sound snapshot and a sound patch.                         *)
(***************************************************************************)
LEMMA CommitKeepsCover ==
    ASSUME CoverInv, LogInv', NEW c \in Caller, NEW snapshot, NEW patch, NEW count, NEW job,
           Commit(c, snapshot, patch, count, job), job.at \in JobStep,
           Sound(snapshot, Len(events), Len(checkpoints)),
           SoundPatch(patch, Len(events), Len(checkpoints)),
           count = 0 => SoundJob(job, Len(events), Len(checkpoints)),
           UNCHANGED <<store, events, checkpoints>>
    PROVE  CoverInv'
<1> DEFINE len == Len(events)
           made == Len(checkpoints)
           reduced == Reduced(snapshot, patch)
           then == IF count = 0 THEN job
                   ELSE [at |-> "number", count |-> count, job |-> Held(job, reduced)]
           where == [at |-> "save", snapshot |-> reduced, then |-> then]
<1>1. Sound(store', len, made)
  BY DEF CoverInv, SnapshotsSound
<1>2. SoundCall(Resting, len, made)
  BY DEF SoundCall, SoundJob, Resting, CommitStep
<1>3. CASE Refused(snapshot, patch)
  <2>1. Moved(c, Resting)
    BY <1>3 DEF Commit
  <2> QED
    BY <1>1, <1>2, <2>1, MoveKeepsCover
<1>4. CASE ~Refused(snapshot, patch)
  <2>1. Moved(c, where)
    BY <1>4 DEF Commit
  <2>2. Sound(reduced, len, made)
    BY ReducedIsSound
  <2> HIDE DEF reduced
  <2>3. SoundJob(then, len, made) /\ (then.at \in CommitStep => SoundJob(then.job, len, made))
    <3>1. CASE count = 0
      BY <3>1 DEF JobStep, CommitStep
    <3>2. CASE count # 0
      <4>1. SoundJob(Held(job, reduced), len, made)
        BY <2>2 DEF SoundJob, Held
      <4>2. then = [at |-> "number", count |-> count, job |-> Held(job, reduced)]
        BY <3>2
      <4> HIDE DEF then
      <4> QED
        BY <4>1, <4>2 DEF SoundJob
    <3> QED
      BY <3>1, <3>2
  <2> HIDE DEF then
  <2>4. SoundCall(where, len, made)
    BY <2>2, <2>3 DEF SoundCall, SoundJob, CommitStep
  <2> QED
    BY <1>1, <2>1, <2>4, MoveKeepsCover
<1> QED
  BY <1>3, <1>4
-----------------------------------------------------------------------------
(***************************************************************************)
(* The steps between two calls of the stores that leave the log and the    *)
(* checkpoints alone.                                                      *)
(***************************************************************************)
LEMMA StoresKeepCover ==
    ASSUME CoverInv, LogInv', NEW c \in Caller,
           \/ SaveSnapshot(c) \/ NumberEvents(c) \/ CheckBatch(c)
           \/ NoteLastEvent(c) \/ ReadSnapshot(c) \/ ReadCursor(c)
    PROVE  CoverInv'
<1> DEFINE x == caller[c]
           len == Len(events)
           made == Len(checkpoints)
<1>1. SoundCall(x, len, made) /\ Sound(store, len, made) /\ UNCHANGED <<events, checkpoints>>
  BY DEF CoverInv, SnapshotsSound, SaveSnapshot, NumberEvents, CheckBatch, NoteLastEvent,
         ReadSnapshot, ReadCursor
<1>2. LatestNumber = len /\ len \in Nat
  BY LatestIsLength DEF CoverInv, LogInv
<1>3. x.at \in CommitStep => SoundJob(x.job, len, made)
  BY <1>1 DEF SoundCall
<1>4. SoundCall(Resting, len, made)
  BY DEF SoundCall, SoundJob, Resting, CommitStep
<1>5. CASE SaveSnapshot(c)
  <2>1. Moved(c, x.then) /\ x.at = "save" /\ store' = Persisted(x.snapshot)
    BY <1>5 DEF SaveSnapshot
  <2>2. Sound(x.snapshot, len, made)
    BY <1>1, <2>1 DEF SoundCall
  <2>3. Sound(store', len, made)
    BY <2>1, <2>2 DEF Persisted, Sound
  <2>4. /\ x.then.at \in JobStep \cup {"number", "snapshot"}
        /\ SoundJob(x.then, len, made)
        /\ x.then.at \in CommitStep => SoundJob(x.then.job, len, made)
    BY <1>1, <2>1 DEF SoundCall, CoverInv, LogInv, CallersBound, Bound
  <2>5. SoundCall(x.then, len, made)
    BY <2>4 DEF SoundCall, JobStep, CommitStep
  <2> QED
    BY <1>1, <2>1, <2>3, <2>5, MoveKeepsCover
<1>6. ASSUME UNCHANGED store, NEW where, Moved(c, where), SoundCall(where, len, made)
      PROVE  CoverInv'
  BY <1>1, <1>6, MoveKeepsCover
<1>7. CASE NumberEvents(c)
  <2> DEFINE where == [at |-> "check", count |-> x.count, next |-> LatestNumber + 1, job |-> x.job]
  <2>1. Moved(c, where) /\ x.at = "number" /\ UNCHANGED store
    BY <1>7 DEF NumberEvents
  <2>2. SoundCall(where, len, made)
    BY <1>3, <2>1 DEF SoundCall, SoundJob, CommitStep
  <2> QED
    BY <1>6, <2>1, <2>2
<1>8. CASE CheckBatch(c)
  <2> DEFINE where == [at |-> "append", count |-> x.count, next |-> x.next, job |-> x.job]
  <2>1. x.at = "check" /\ UNCHANGED store /\ (Moved(c, where) \/ Moved(c, Resting))
    BY <1>8 DEF CheckBatch
  <2>2. SoundCall(where, len, made)
    BY <1>3, <2>1 DEF SoundCall, SoundJob, CommitStep
  <2> QED
    BY <1>4, <1>6, <2>1, <2>2
<1>9. CASE NoteLastEvent(c)
  <2> DEFINE patch == [EmptyPatch EXCEPT !.runState = [last |-> x.last]]
             reduced == Reduced(store, patch)
             where == [at |-> "save", snapshot |-> reduced,
                       then |-> [at |-> "snapshot", job |-> x.job]]
  <2>1. Moved(c, where) /\ x.at = "note" /\ UNCHANGED store
    BY <1>9 DEF NoteLastEvent, SaveThen
  <2>2. patch.runState = [last |-> x.last] /\ patch.threadRecord = NoUpdate
    BY DEF EmptyPatch
  <2>3. x.last \in Nat /\ x.last <= len
    BY <1>1, <2>1 DEF SoundCall
  <2> HIDE DEF patch
  <2>4. SoundPatch(patch, len, made)
    BY <2>2, <2>3 DEF SoundPatch, NoUpdate
  <2>5. Sound(reduced, len, made)
    BY <1>1, <2>4, ReducedIsSound
  <2> HIDE DEF reduced
  <2>6. SoundCall(where, len, made)
    BY <1>3, <2>1, <2>5 DEF SoundCall, SoundJob, CommitStep
  <2> QED
    BY <1>6, <2>1, <2>6
<1>10. CASE ReadSnapshot(c)
  <2> DEFINE where == [at |-> "cursor", snapshot |-> store, job |-> x.job]
  <2>1. Moved(c, where) /\ x.at = "snapshot" /\ UNCHANGED store
    BY <1>10 DEF ReadSnapshot
  <2>2. SoundCall(where, len, made)
    BY <1>1, <1>3, <2>1 DEF SoundCall, SoundJob, CommitStep
  <2> QED
    BY <1>6, <2>1, <2>2
<1>11. CASE ReadCursor(c)
  <2> DEFINE where == [at |-> "create", snapshot |-> x.snapshot, cursor |-> LatestNumber,
                       job |-> x.job]
  <2>1. Moved(c, where) /\ x.at = "cursor" /\ UNCHANGED store
    BY <1>11 DEF ReadCursor
  <2>2. Sound(x.snapshot, len, made)
    BY <1>1, <2>1 DEF SoundCall
  <2>3. x.snapshot.runState.last <= len
    BY <2>2 DEF Sound
  <2>4. SoundCall(where, len, made)
    BY <1>2, <1>3, <2>1, <2>2, <2>3 DEF SoundCall, SoundJob, CommitStep
  <2> QED
    BY <1>6, <2>1, <2>4
<1> QED
  BY <1>5, <1>7, <1>8, <1>9, <1>10, <1>11

(***************************************************************************)
(* The log only grows, and the caller notes the event it appended.         *)
(***************************************************************************)
LEMMA AppendKeepsCover ==
    ASSUME CoverInv, LogInv', NEW c \in Caller, AppendEvent(c)
    PROVE  CoverInv'
<1> DEFINE x == caller[c]
           len == Len(events)
           made == Len(checkpoints)
<1>1. /\ x.at = "append" /\ UNCHANGED <<store, checkpoints>>
      /\ Sound(store, len, made) /\ SoundJob(x.job, len, made)
  BY DEF AppendEvent, CoverInv, SnapshotsSound, SoundCall, CommitStep
<1>2. x.next \in Nat /\ x.next <= len + 1
  BY <1>1 DEF CoverInv, LogInv, CallersBound, Bound, Numbered
<1>3. len \in Nat /\ made \in Nat /\ events \in Seq(Nat) /\ events' \in Seq(Nat)
  BY DEF CoverInv, LogInv
<1>4. CASE ~Increases(x.next)
  <2>1. Moved(c, Resting) /\ UNCHANGED events
    BY <1>4 DEF AppendEvent
  <2>2. SoundCall(Resting, len, made)
    BY DEF SoundCall, SoundJob, Resting, CommitStep
  <2> QED
    BY <1>1, <2>1, <2>2, MoveKeepsCover
<1>5. CASE Increases(x.next)
  <2> DEFINE noting == [at |-> "note", last |-> x.next, job |-> x.job]
             more == [at |-> "append", count |-> x.count - 1, next |-> x.next + 1, job |-> x.job]
  <2>1. events' = Append(events, x.next) /\ (Moved(c, noting) \/ Moved(c, more))
    BY <1>5 DEF AppendEvent
  <2>2. Len(events') = len + 1
    BY <1>2, <1>3, <2>1
  <2>3. made = Len(checkpoints') /\ checkpoints' = checkpoints /\ store' = store
    BY <1>1
  <2>4. SoundJob(x.job, len + 1, made) /\ Sound(store, len + 1, made)
    <3>1. len + 1 \in Nat /\ len <= len + 1 /\ made <= made
      BY <1>3
    <3>2. \A s : Sound(s, len, made) => Sound(s, len + 1, made)
      BY <1>3, <3>1, SoundGrows
    <3> QED
      BY <1>1, <3>2 DEF SoundJob
  <2>5. SoundCall(noting, len + 1, made) /\ SoundCall(more, len + 1, made)
    BY <1>2, <2>4 DEF SoundCall, SoundJob, CommitStep
  <2>6. \A d \in Caller : SoundCall(caller'[d], len + 1, made)
    <3>1. ASSUME NEW where, Moved(c, where), SoundCall(where, len + 1, made)
          PROVE  \A d \in Caller : SoundCall(caller'[d], len + 1, made)
      BY <1>3, <2>2, <2>3, <3>1, MoveKeepsSound
    <3> QED
      BY <2>1, <2>5, <3>1
  <2>7. SnapshotsSound'
    BY <2>2, <2>3, <2>4, <2>6 DEF SnapshotsSound
  <2>8. AllCover'
    BY <1>3, <2>2, <2>3 DEF CoverInv, AllCover, Covers
  <2> QED
    BY <2>3, <2>7, <2>8 DEF CoverInv
<1> QED
  BY <1>4, <1>5

(***************************************************************************)
(* A checkpoint is created with a number at or after the last event of its *)
(* state, and the thread names it.                                         *)
(***************************************************************************)
LEMMA CreateKeepsCover ==
    ASSUME CoverInv, LogInv', NEW c \in Caller, CreateCheckpoint(c)
    PROVE  CoverInv'
<1> DEFINE x == caller[c]
           len == Len(events)
           made == Len(checkpoints)
           k == [number |-> x.cursor, state |-> x.snapshot.runState, last |-> LatestNumber]
           patch == [EmptyPatch EXCEPT !.threadRecord = [checkpoint |-> made + 1]]
           reduced == Reduced(x.snapshot, patch)
           where == [at |-> "save", snapshot |-> reduced, then |-> x.job]
<1>1. /\ x.at = "create" /\ UNCHANGED <<store, events>>
      /\ checkpoints' = Append(checkpoints, k) /\ Moved(c, where)
  BY DEF CreateCheckpoint, SaveThen, StateToSave
<1>2. SoundCall(x, len, made) /\ Sound(store, len, made)
  BY DEF CoverInv, SnapshotsSound
<1>3. LatestNumber = len /\ len \in Nat /\ made \in Nat /\ events \in Seq(Nat)
  BY LatestIsLength DEF CoverInv, LogInv
<1>4. Sound(x.snapshot, len, made) /\ SoundJob(x.job, len, made) /\ x.job.at \in JobStep
  BY <1>1, <1>2 DEF SoundCall, CommitStep, CoverInv, LogInv, CallersBound, Bound
<1>5. Covers(k, len)
  BY <1>1, <1>2, <1>3, <1>4 DEF SoundCall, Covers, Sound
<1>6. Len(checkpoints') = made + 1
      /\ checkpoints' = [i \in 1 .. made + 1 |-> IF i = made + 1 THEN k ELSE checkpoints[i]]
  BY <1>1, <1>3 DEF CoverInv
<1>7. AllCover'
  BY <1>1, <1>3, <1>5, <1>6 DEF CoverInv, AllCover
<1>8. patch.threadRecord = [checkpoint |-> made + 1] /\ patch.runState = NoUpdate
  BY DEF EmptyPatch
<1> HIDE DEF patch
<1>9. SoundPatch(patch, len, made + 1)
  BY <1>3, <1>8 DEF SoundPatch, NoUpdate
<1>10. /\ Sound(x.snapshot, len, made + 1) /\ SoundJob(x.job, len, made + 1)
       /\ Sound(store, len, made + 1)
  BY <1>2, <1>3, <1>4, SoundGrows DEF SoundJob
<1>11. Sound(reduced, len, made + 1)
  BY <1>9, <1>10, ReducedIsSound
<1> HIDE DEF reduced
<1>12. SoundCall(where, len, made + 1)
  BY <1>4, <1>10, <1>11 DEF SoundCall, SoundJob, JobStep, CommitStep
<1>13. \A d \in Caller : SoundCall(caller'[d], len, made + 1)
  BY <1>1, <1>3, <1>6, <1>12, MoveKeepsSound
<1>14. SnapshotsSound'
  BY <1>1, <1>6, <1>10, <1>13 DEF SnapshotsSound
<1> QED
  BY <1>3, <1>6, <1>7, <1>14 DEF CoverInv
-----------------------------------------------------------------------------
(***************************************************************************)
(* The operations commit sound snapshots and patches that name neither an  *)
(* event nor a checkpoint, or end their call.                              *)
(***************************************************************************)
LEMMA OperationsKeepCover ==
    ASSUME CoverInv, LogInv', NEW c \in Caller,
           \/ Decide(c) \/ StartNode(c)
           \/ \E status \in {"succeeded", "failed", "blocked", "waiting"} : ExecutorReturns(c, status)
           \/ ExecutorRaises(c) \/ MarkFailed(c) \/ CancelRun(c)
           \/ \E answered \in BOOLEAN : ResumeRun(c, answered)
    PROVE  CoverInv'
<1> DEFINE len == Len(events)
           made == Len(checkpoints)
           Plain(patch) == /\ "last" \notin DOMAIN patch.runState
                           /\ "checkpoint" \notin DOMAIN patch.threadRecord
<1>1. UNCHANGED <<store, events, checkpoints>>
  BY DEF Decide, StartNode, ExecutorReturns, ExecutorRaises, MarkFailed, CancelRun, ResumeRun
<1>2. Sound(store, len, made) /\ Sound(store', len, made)
  BY <1>1 DEF CoverInv, SnapshotsSound
<1>3. ASSUME Moved(c, Resting) PROVE CoverInv'
  <2>1. SoundCall(Resting, len, made)
    BY DEF SoundCall, SoundJob, Resting, CommitStep
  <2> QED
    BY <1>1, <1>2, <1>3, <2>1, MoveKeepsCover
<1>4. ASSUME NEW snapshot, NEW patch, NEW count, NEW job,
             Commit(c, snapshot, patch, count, job), job.at \in JobStep,
             Sound(snapshot, len, made), Plain(patch), count = 0 => SoundJob(job, len, made)
      PROVE  CoverInv'
  <2>1. SoundPatch(patch, len, made)
    BY <1>4 DEF SoundPatch
  <2> QED
    BY <1>1, <1>4, <2>1, CommitKeepsCover
<1>5. \A status : Plain(Release(status)) /\ Plain(Suspend(status))
  BY DEF Release, Suspend, EmptyPatch
<1>6. Resting.at \in JobStep /\ \A batch : AfterNode(batch).at \in JobStep
  BY DEF Resting, AfterNode, JobStep
<1>7. CASE Decide(c)
  <2>1. CASE Moved(c, Resting)
    BY <1>3, <2>1
  <2>2. CASE Commit(c, store, Settled(store), 1, Resting)
    <3>1. Plain(Settled(store))
      <4> HIDE DEF Plain
      <4> QED
        BY <1>5 DEF Settled
    <3> HIDE DEF Plain
    <3> QED
      BY <1>2, <1>4, <1>6, <2>2, <3>1
  <2>3. ASSUME NEW batch,
               Commit(c, store, [EmptyPatch EXCEPT !.runState = [frontier |-> batch]], 0,
                      [at |-> "dispatch", batch |-> batch])
        PROVE  CoverInv'
    <3> DEFINE patch == [EmptyPatch EXCEPT !.runState = [frontier |-> batch]]
               job == [at |-> "dispatch", batch |-> batch]
    <3>1. Plain(patch)
      BY DEF EmptyPatch, NoUpdate
    <3>2. job.at \in JobStep /\ SoundJob(job, len, made)
      BY DEF JobStep, SoundJob
    <3>3. Commit(c, store, patch, 0, job)
      BY <2>3
    <3> HIDE DEF patch, job, Plain
    <3> QED
      BY <1>2, <1>4, <3>1, <3>2, <3>3
  <2> QED
    BY <1>7, <2>1, <2>2, <2>3 DEF Decide
<1>8. CASE StartNode(c)
  <2>1. CASE Moved(c, Resting)
    BY <1>3, <2>1
  <2>2. ASSUME NEW n \in caller[c].batch, Starts(c, n)
        PROVE  CoverInv'
    <3> DEFINE patch ==
                 [EmptyPatch EXCEPT !.runState = [active   |-> store.runState.active \cup {n},
                                                  frontier |-> store.runState.frontier \ {n}],
                                    !.nodes = [m \in {n} |-> [status |-> "running"]]]
               job == [at |-> "execute", node |-> n, batch |-> caller[c].batch \ {n}]
    <3>1. Commit(c, store, patch, 1, job)
      BY <2>2 DEF Starts
    <3>2. Plain(patch)
      BY DEF EmptyPatch, NoUpdate
    <3>3. job.at \in JobStep
      BY DEF JobStep
    <3> HIDE DEF patch, job, Plain
    <3> QED
      BY <1>2, <1>4, <3>1, <3>2, <3>3
  <2>3. ASSUME NEW n \in caller[c].batch, NoExecutor(c, n)
        PROVE  CoverInv'
    <3>1. Commit(c, store, Release("failed"), 1, AfterNode(caller[c].batch \ {n}))
      BY <2>3 DEF NoExecutor
    <3> HIDE DEF Plain
    <3> QED
      BY <1>2, <1>4, <1>5, <1>6, <3>1
  <2> QED
    BY <1>8, <2>1, <2>2, <2>3 DEF StartNode
<1>9. ASSUME NEW status \in {"succeeded", "failed", "blocked", "waiting"}, ExecutorReturns(c, status)
      PROVE  CoverInv'
  <2> DEFINE job == IF status = "failed" THEN [at |-> "failing", batch |-> caller[c].batch]
                    ELSE AfterNode(caller[c].batch)
             patch(stopped, nodes, new, raised, decisions) ==
               [EmptyPatch EXCEPT
                   !.runState  = [active  |-> store.runState.active \ {caller[c].node},
                                  stopped |-> stopped],
                   !.nodes     = nodes,
                   !.artifacts = new,
                   !.raised    = raised,
                   !.decisions = decisions]
  <2>1. \E stopped, nodes, new, raised, decisions : \E count \in {1, 2} :
            Commit(c, store, patch(stopped, nodes, new, raised, decisions), count, job)
    BY <1>9 DEF ExecutorReturns
  <2>2. \A stopped, nodes, new, raised, decisions :
            Plain(patch(stopped, nodes, new, raised, decisions))
    BY DEF EmptyPatch, NoUpdate
  <2>3. job.at \in JobStep
    BY <1>6 DEF JobStep
  <2> HIDE DEF patch, job, Plain
  <2>4. PICK stopped, nodes, new, raised, decisions : \E count \in {1, 2} :
            Commit(c, store, patch(stopped, nodes, new, raised, decisions), count, job)
    BY <2>1
  <2>5. Plain(patch(stopped, nodes, new, raised, decisions))
    BY <2>2
  <2> QED
    BY <1>2, <1>4, <2>3, <2>4, <2>5
<1>10. CASE ExecutorRaises(c)
  BY <1>3, <1>10 DEF ExecutorRaises
<1>11. CASE MarkFailed(c)
  <2>1. /\ Commit(c, caller[c].snapshot, Release("failed"), 1, AfterNode(caller[c].batch))
        /\ caller[c].at = "failing"
    BY <1>11 DEF MarkFailed
  <2>2. Sound(caller[c].snapshot, len, made)
    BY <2>1 DEF CoverInv, SnapshotsSound, SoundCall, SoundJob
  <2> HIDE DEF Plain
  <2> QED
    BY <1>4, <1>5, <1>6, <2>1, <2>2
<1>12. CASE CancelRun(c)
  <2> DEFINE patch(nodes) ==
               [Release("cancelled") EXCEPT
                   !.runState = [status |-> "cancelled", frontier |-> {}, active |-> {},
                                 stopped |-> {}],
                   !.nodes = nodes]
  <2>1. \E nodes : Commit(c, store, patch(nodes), 1, Resting)
    BY <1>12 DEF CancelRun
  <2>2. \A nodes : Plain(patch(nodes))
    BY DEF Release, EmptyPatch
  <2> HIDE DEF patch, Plain
  <2>3. PICK nodes : Commit(c, store, patch(nodes), 1, Resting)
    BY <2>1
  <2>4. Plain(patch(nodes))
    BY <2>2
  <2> QED
    BY <1>2, <1>4, <1>6, <2>3, <2>4
<1>13. ASSUME NEW answered \in BOOLEAN, ResumeRun(c, answered)
       PROVE  CoverInv'
  <2> DEFINE job == [at |-> "decide"]
             patch(stopped, frontier, nodes, answers) ==
               [EmptyPatch EXCEPT
                   !.threadRecord = [paused |-> FALSE], !.threadState = [paused |-> FALSE],
                   !.runRecord = [status |-> "running"],
                   !.runState = [status |-> "running", stopped |-> stopped,
                                 frontier |-> frontier],
                   !.nodes    = nodes,
                   !.answers  = answers]
  <2>1. \E stopped, frontier, nodes, answers, count :
            Commit(c, store, patch(stopped, frontier, nodes, answers), count, job)
    BY <1>13 DEF ResumeRun
  <2>2. \A stopped, frontier, nodes, answers : Plain(patch(stopped, frontier, nodes, answers))
    BY DEF EmptyPatch
  <2>3. job.at \in JobStep /\ SoundJob(job, len, made)
    BY DEF JobStep, SoundJob
  <2> HIDE DEF patch, job, Plain
  <2>4. PICK stopped, frontier, nodes, answers, count :
            Commit(c, store, patch(stopped, frontier, nodes, answers), count, job)
    BY <2>1
  <2>5. Plain(patch(stopped, frontier, nodes, answers))
    BY <2>2
  <2> QED
    BY <1>2, <1>4, <2>3, <2>4, <2>5
<1> QED
  BY <1>7, <1>8, <1>9, <1>10, <1>11, <1>12, <1>13
-----------------------------------------------------------------------------
(***************************************************************************)
(* A new run has three events, and one checkpoint with the last of them.   *)
(***************************************************************************)
LEMMA InitCovers == Init => CoverInv
<1> SUFFICES ASSUME Init PROVE CoverInv
  OBVIOUS
<1>1. LogInv
  BY InitHasLog
<1>2. Len(events) = 3
  BY DEF Init
<1>3. /\ checkpoints = <<[number |-> 3, state |-> Initial.runState, last |-> 3]>>
      /\ Len(checkpoints) = 1
  BY DEF Init
<1>4. Initial.runState.last = 3 /\ Initial.threadRecord.checkpoint = 1
  BY DEF Initial
<1>5. Sound(store, Len(events), Len(checkpoints))
  BY <1>2, <1>3 DEF Init, Initial, Sound
<1>6. ASSUME NEW c \in Caller
      PROVE  SoundCall(caller[c], Len(events), Len(checkpoints))
  BY DEF Init, Resting, SoundCall, SoundJob, CommitStep
<1>7. AllCover
  BY <1>2, <1>3, <1>4 DEF AllCover, Covers
<1> QED
  BY <1>1, <1>3, <1>5, <1>6, <1>7 DEF CoverInv, SnapshotsSound

(***************************************************************************)
(* Every step keeps the snapshots sound and the checkpoints covering.      *)
(***************************************************************************)
LEMMA StepKeepsCover == CoverInv /\ [Next]_vars => CoverInv'
<1> SUFFICES ASSUME CoverInv, [Next]_vars PROVE CoverInv'
  OBVIOUS
<1>1. LogInv'
  BY StepKeepsLog DEF CoverInv
<1>2. CASE UNCHANGED vars
  BY <1>1, <1>2 DEF vars, CoverInv, SnapshotsSound, AllCover
<1>3. ASSUME NEW c \in Caller,
             \/ Step(c) \/ CancelRun(c)
             \/ \E answered \in BOOLEAN : ResumeRun(c, answered)
      PROVE  CoverInv'
  <2>1. CASE AppendEvent(c)
    BY <1>1, <2>1, AppendKeepsCover
  <2>2. CASE CreateCheckpoint(c)
    BY <1>1, <2>2, CreateKeepsCover
  <2>3. CASE ~AppendEvent(c) /\ ~CreateCheckpoint(c)
    BY <1>1, <1>3, <2>3, StoresKeepCover, OperationsKeepCover DEF Step
  <2> QED
    BY <2>1, <2>2, <2>3
<1> QED
  BY <1>2, <1>3 DEF Next

(***************************************************************************)
(* A checkpoint covers its own state, whatever number of threads commit:   *)
(* no event up to the last one its state names comes after the number it   *)
(* has (_checkpoint reads the snapshot, then the latest event, then saves),*)
(* and the thread names a checkpoint that is there.                        *)
(***************************************************************************)
THEOREM CheckpointsCover == Spec => []CheckpointsCoverTheirState
<1>1. CoverInv => CheckpointsCoverTheirState
  BY DEF CoverInv, SnapshotsSound, AllCover, Covers, Sound, CheckpointsCoverTheirState
<1> QED
  BY <1>1, InitCovers, StepKeepsCover, PTL DEF Spec
=============================================================================
