-------------------------- MODULE PlaygroundProofs --------------------------
(***************************************************************************)
(* Why the playground keeps its promises for any number of messages and    *)
(* sessions, however often an agent reports, whatever the database refuses *)
(* and whenever the server restarts: where the worker of a task stands     *)
(* says what its log and the tables hold, a session is born before a call  *)
(* settles on it and is not born twice, and no answer on its way to the    *)
(* page tells of an exchange that is not in the tables.                    *)
(***************************************************************************)
EXTENDS PlaygroundSafety, TLAPS

USE DEF Asked

\* The variables as records.
TaskRecord == [status : TaskStatus \cup {"absent"}, result : Result, error : BOOLEAN,
               log : Seq(TaskStatus)]
CallRecord == [at : CallAt, session : Session \cup {NoSession}, page : BOOLEAN]
WorkerRecord == [at : WorkerAt, outcome : Result]
PageRecord == [submitting : BOOLEAN, session : Session \cup {NoSession},
               live : Answer \cup {NoTask}, armed : Answer \cup {NoTask}, due : BOOLEAN,
               answers : SUBSET Answer, refreshing : BOOLEAN, shown : Task \cup {NoTask}]
SessionTable == [Session -> {"unborn", "open", "deleted"}]
MessageTable == SUBSET [session : Session, task : Task, role : {"user", "agent"}]

Records ==
    /\ session \in SessionTable
    /\ message \in MessageTable
    /\ task \in [Task -> TaskRecord]
    /\ call \in [Task -> CallRecord]
    /\ worker \in [Task -> WorkerRecord]
    /\ reports \in [Task -> 0 .. MaxProgress]
    /\ page \in PageRecord
    /\ restarts \in 0 .. MaxRestarts

-----------------------------------------------------------------------------
(* Where the worker stands says what the task tells and its log holds.      *)

Logged(x, status) == \E i \in DOMAIN x.log : x.log[i] = status

SaysHow(x, w) ==
    \/ x.status = "completed" /\ x.result = w.outcome /\ x.result # "none" /\ ~x.error
    \/ x.status = "failed" /\ x.result = "none" /\ x.error

Exchanging == {"user", "reply", "rename", "ended", "finish"}

Sound(x, w) ==
    /\ w.at = "none" <=> x.status = "absent"
    /\ w.at # "done" => x.result = "none" /\ ~x.error
    /\ x.status \in {"completed", "failed"} => Logged(x, x.status)
    /\ w.at \in {"concluding", "finish"} => Logged(x, "completed")
    /\ w.at = "fail" => Logged(x, "failed")
    /\ w.at \in Exchanging => w.outcome # "none"
    /\ w.at = "reply" => w.outcome = "responded"
    /\ w.at = "done" => SaysHow(x, w)

-----------------------------------------------------------------------------
(* Sessions, calls and the exchange in the tables.                          *)

Born(s) == s = NoSession \/ session[s] \in {"open", "deleted"}

\* A call that has not started its worker yet; its task has left no rows.
Early == {"unsent", "resolve", "create", "enqueue"}
NoRows(t) == \A m \in message : m.task # t
Untouched(t) == call[t].at \in Early => worker[t].at = "none" /\ NoRows(t)

\* A worker runs for a session.
Settled(t) == call[t].at = "enqueue" \/ worker[t].at # "none" => call[t].session \in Session

Whole(t) == Asked(t) /\ (Saved(t, "agent") <=> worker[t].outcome = "responded")

BeforeReply == {"begin", "begun", "agent", "reporting", "concluding", "user", "reply"}
AfterReply == {"rename", "ended", "finish"}

Exchange(t) ==
    SessionOpen(t) =>
        /\ worker[t].at \in BeforeReply => ~Saved(t, "agent")
        /\ worker[t].at = "reply" => Asked(t)
        /\ worker[t].at \in AfterReply => Whole(t)
        /\ task[t].result # "none" => Whole(t)
        /\ Saved(t, "agent") => Asked(t)

TaskInv(t) ==
    /\ Sound(task[t], worker[t])
    /\ Born(call[t].session)
    /\ Untouched(t)
    /\ Settled(t)
    /\ Exchange(t)

\* What a page may show of a task: its worker is done with it for ever.
Told(t) ==
    /\ call[t].at \notin Early
    /\ worker[t].at \in {"done", "none"}
    /\ SessionOpen(t) => /\ Asked(t)
                         /\ worker[t].outcome = "responded" => Saved(t, "agent")

PageInv ==
    /\ Born(page.session)
    /\ page.shown \in Task => Told(page.shown)
    /\ \A a \in page.answers : a.result # "none" => Told(a.task)

PlaygroundInv == Records /\ (\A t \in Task : TaskInv(t)) /\ PageInv

-----------------------------------------------------------------------------
(* Frames: what leaves a task alone keeps what is known of it.              *)

\* A step does not touch a task: its records stay, its session is not born
\* again, and its rows stay as long as its session is open.
Same(t) ==
    /\ task'[t] = task[t] /\ worker'[t] = worker[t] /\ call'[t] = call[t]
    /\ Born(call[t].session)'
    /\ SessionOpen(t)' => SessionOpen(t) /\ \A role : Saved(t, role)' <=> Saved(t, role)
    /\ NoRows(t) => NoRows(t)'

LEMMA SameKeeps ==
    ASSUME NEW t \in Task, Same(t)
    PROVE  (TaskInv(t) => TaskInv(t)') /\ (Told(t) => Told(t)')
<1>1. Told(t) => Told(t)'
  BY DEF Same, Told
<1>2. TaskInv(t) => Exchange(t)'
  BY DEF Same, TaskInv, Exchange, Whole
<1>3. TaskInv(t) => Sound(task[t], worker[t])'
  BY DEF Same, TaskInv
<1>4. TaskInv(t) => Untouched(t)' /\ Settled(t)' /\ Born(call[t].session)'
  BY DEF Same, TaskInv, Untouched, Settled
<1> QED
  BY <1>1, <1>2, <1>3, <1>4 DEF TaskInv

\* A task whose call has not started its worker has no exchange to keep whole.
LEMMA UntouchedHasNoExchange ==
    ASSUME NEW t \in Task, NoRows(t)', task'[t].result = "none",
           worker'[t].at \in {"begin", "none"}
    PROVE  Exchange(t)'
<1>1. \A role : ~Saved(t, role)'
  BY DEF NoRows, Saved
<1> QED
  BY <1>1 DEF Exchange, AfterReply

\* Every task but one is left alone, and that one is not shown or stays told.
LEMMA OneTaskMoves ==
    ASSUME PlaygroundInv, Records', NEW t \in Task, TaskInv(t)', Told(t) => Told(t)',
           \A u \in Task \ {t} : Same(u), UNCHANGED page, \A s \in Session : Born(s) => Born(s)'
    PROVE  PlaygroundInv'
<1>1. \A u \in Task : TaskInv(u)'
  BY SameKeeps DEF PlaygroundInv
<1>2. \A u \in Task : Told(u) => Told(u)'
  BY SameKeeps
<1>3. PageInv'
  <2>1. Born(page.session)'
    BY DEF PlaygroundInv, PageInv, Born, Records, PageRecord
  <2>2. \A a \in page.answers : a.task \in Task
    BY DEF PlaygroundInv, Records, PageRecord, Answer
  <2> QED
    BY <1>2, <2>1, <2>2 DEF PlaygroundInv, PageInv
<1> QED
  BY <1>1, <1>3 DEF PlaygroundInv
-----------------------------------------------------------------------------
(* The worker thread.                                                       *)

Row(t, role) == [session |-> call[t].session, task |-> t, role |-> role]

\* A step of the worker of t: it leaves x of the task and w of the worker, and
\* adds at most a row of its own.
WorkerActs(t, x, w) ==
    /\ worker[t].at \notin {"none", "done"} /\ w.at # "none"
    /\ x \in TaskRecord /\ w \in WorkerRecord
    /\ task' = [task EXCEPT ![t] = x]
    /\ worker' = [worker EXCEPT ![t] = w]
    /\ message' = message \/ \E role \in {"user", "agent"} : message' = message \cup {Row(t, role)}
    /\ reports' \in [Task -> 0 .. MaxProgress]
    /\ UNCHANGED <<session, call, page, restarts>>

LEMMA WorkerActsKeeps ==
    ASSUME PlaygroundInv, NEW t \in Task, NEW x, NEW w, WorkerActs(t, x, w),
           Sound(x, w), Exchange(t)'
    PROVE  PlaygroundInv'
<1>1. task'[t] = x /\ worker'[t] = w /\ call'[t] = call[t] /\ call[t].session \in Session
      /\ \A u \in Task \ {t} : task'[u] = task[u] /\ worker'[u] = worker[u]
  BY DEF WorkerActs, PlaygroundInv, Records, TaskInv, Settled
<1>2. Records'
  <2>1. task' \in [Task -> TaskRecord] /\ worker' \in [Task -> WorkerRecord]
    BY DEF WorkerActs, PlaygroundInv, Records
  <2>2. message' \in MessageTable
    BY <1>1 DEF WorkerActs, PlaygroundInv, Records, MessageTable, Row
  <2> QED
    BY <2>1, <2>2 DEF WorkerActs, PlaygroundInv, Records
<1>3. ASSUME NEW u \in Task \ {t} PROVE Same(u)
  <2>1. \A role : Saved(u, role)' <=> Saved(u, role)
    BY DEF WorkerActs, Saved, Row
  <2>2. NoRows(u) => NoRows(u)'
    BY DEF WorkerActs, NoRows, Row
  <2>3. Born(call[u].session)' /\ SessionOpen(u)' = SessionOpen(u)
    BY DEF WorkerActs, PlaygroundInv, TaskInv, Born, SessionOpen, Open
  <2> QED
    BY <1>1, <2>1, <2>2, <2>3 DEF Same, WorkerActs
<1>4. TaskInv(t)'
  BY <1>1 DEF WorkerActs, PlaygroundInv, TaskInv, Untouched, Settled, Born
<1>5. ~Told(t) /\ \A s \in Session : Born(s) => Born(s)'
  BY DEF Told, WorkerActs, Born
<1>6. UNCHANGED page
  BY DEF WorkerActs
<1> QED
  BY <1>2, <1>3, <1>4, <1>5, <1>6, OneTaskMoves

\* A worker that adds no row and publishes no result keeps its exchange, if it
\* does not claim more than it did.
LEMMA NoRowNoClaim ==
    ASSUME NEW t \in Task, Exchange(t), UNCHANGED <<session, call, message>>,
           task'[t].result = "none",
           worker'[t].at \in BeforeReply => worker[t].at \in BeforeReply,
           worker'[t].at = "reply" => worker[t].at = "reply",
           worker'[t].at \in AfterReply =>
               worker[t].at \in AfterReply /\ worker'[t].outcome = worker[t].outcome
    PROVE  Exchange(t)'
  BY DEF Exchange, Whole, Saved, SessionOpen, Open

LEMMA LoggedStays ==
    ASSUME NEW log \in Seq(TaskStatus), NEW status \in TaskStatus, NEW x, NEW y,
           x.log = log, y.log = Append(log, status)
    PROVE  Logged(y, status) /\ \A other : Logged(x, other) => Logged(y, other)
<1>1. \A i \in DOMAIN log : i \in DOMAIN Append(log, status) /\ Append(log, status)[i] = log[i]
  OBVIOUS
<1>2. Len(log) + 1 \in DOMAIN Append(log, status) /\ Append(log, status)[Len(log) + 1] = status
  OBVIOUS
<1> QED
  BY <1>1, <1>2 DEF Logged

\* What Logs, Sets and WorkerMoves leave.
Noted(x, status) == [x EXCEPT !.log = Append(@, status)]
Stated(x, status) == [x EXCEPT !.status = status]
At(w, to) == [w EXCEPT !.at = to]

LEMMA NotedIs ==
    ASSUME NEW x \in TaskRecord, NEW status \in TaskStatus
    PROVE  /\ Noted(x, status) \in TaskRecord
           /\ Noted(x, status).status = x.status
           /\ Noted(x, status).result = x.result
           /\ Noted(x, status).error = x.error
           /\ Logged(Noted(x, status), status)
           /\ \A other : Logged(x, other) => Logged(Noted(x, status), other)
<1> DEFINE y == Noted(x, status)
<1>1. x.log \in Seq(TaskStatus)
  BY DEF TaskRecord
<1>2. y.log = Append(x.log, status) /\ y.status = x.status /\ y.result = x.result /\ y.error = x.error
  BY DEF Noted, TaskRecord
<1>3. Append(x.log, status) \in Seq(TaskStatus)
  BY <1>1
<1>4. y \in TaskRecord
  BY <1>3 DEF Noted, TaskRecord
<1> HIDE DEF y
<1>5. Logged(y, status) /\ \A other : Logged(x, other) => Logged(y, other)
  BY <1>1, <1>2, LoggedStays
<1> QED
  BY <1>2, <1>4, <1>5 DEF y

LEMMA StatedIs ==
    ASSUME NEW x \in TaskRecord, NEW status \in TaskStatus
    PROVE  /\ Stated(x, status) \in TaskRecord
           /\ Stated(x, status).status = status
           /\ Stated(x, status).result = x.result
           /\ Stated(x, status).error = x.error
           /\ \A other : Logged(Stated(x, status), other) <=> Logged(x, other)
  BY DEF Stated, TaskRecord, Logged

LEMMA AtIs ==
    ASSUME NEW w \in WorkerRecord, NEW to \in WorkerAt
    PROVE  /\ At(w, to) \in WorkerRecord
           /\ At(w, to).at = to
           /\ At(w, to).outcome = w.outcome
  BY DEF At, WorkerRecord

LEMMA MovesAre ==
    ASSUME NEW t, NEW from, NEW to, NEW status
    PROVE  /\ Logs(t, status) => task' = [task EXCEPT ![t] = Noted(task[t], status)]
           /\ Sets(t, status) => task' = [task EXCEPT ![t] = Stated(task[t], status)]
           /\ WorkerMoves(t, from, to) =>
                  worker[t].at = from /\ worker' = [worker EXCEPT ![t] = At(worker[t], to)]
  BY DEF Logs, Sets, WorkerMoves, Noted, Stated, At

\* The worker moves on, logs or sets a status of the task, and leaves the rest.
\* What is asked of the places it goes between is what Sound promises of them.
LEMMA SpeakingKeeps ==
    ASSUME PlaygroundInv, NEW t \in Task, NEW status \in TaskStatus,
           NEW from \in WorkerAt, NEW to \in WorkerAt, WorkerMoves(t, from, to),
           from \notin {"none", "done"}, to \notin {"none", "done", "reply"},
           \/ Logs(t, status) /\ (to \in {"concluding", "finish"} => status = "completed")
                              /\ (to = "fail" => status = "failed")
           \/ Sets(t, status) /\ to \notin {"concluding", "finish", "fail"}
                              /\ status \notin {"completed", "failed"},
           reports' \in [Task -> 0 .. MaxProgress],
           UNCHANGED <<session, message, call, page, restarts>>,
           to \in BeforeReply => from \in BeforeReply,
           to \in AfterReply => from \in AfterReply,
           to \in Exchanging => from \in Exchanging
    PROVE  PlaygroundInv'
<1>1. task[t] \in TaskRecord /\ worker[t] \in WorkerRecord /\ worker[t].at = from
      /\ Sound(task[t], worker[t]) /\ Exchange(t)
  BY DEF PlaygroundInv, Records, TaskInv, WorkerMoves
<1> DEFINE w == At(worker[t], to)
<1>2. w \in WorkerRecord /\ w.at = to /\ w.outcome = worker[t].outcome
      /\ worker' = [worker EXCEPT ![t] = w]
  BY <1>1, AtIs, MovesAre
<1> HIDE DEF w
<1>3. ASSUME NEW x \in TaskRecord, task' = [task EXCEPT ![t] = x], Sound(x, w)
      PROVE  PlaygroundInv'
  <2>1. WorkerActs(t, x, w)
    BY <1>1, <1>2, <1>3 DEF WorkerActs
  <2>2. task'[t] = x /\ worker'[t] = w
    BY <1>2, <1>3 DEF PlaygroundInv, Records
  <2>3. x.result = "none"
    BY <1>2, <1>3 DEF Sound
  <2>4. Exchange(t)'
    BY <1>1, <1>2, <2>2, <2>3, NoRowNoClaim
  <2> QED
    BY <1>3, <2>1, <2>4, WorkerActsKeeps
<1>4. CASE Logs(t, status) /\ (to \in {"concluding", "finish"} => status = "completed")
           /\ (to = "fail" => status = "failed")
  <2> DEFINE x == Noted(task[t], status)
  <2>1. /\ x \in TaskRecord /\ x.status = task[t].status /\ x.result = task[t].result
        /\ x.error = task[t].error /\ Logged(x, status)
        /\ \A other : Logged(task[t], other) => Logged(x, other)
    BY <1>1, NotedIs
  <2>2. task' = [task EXCEPT ![t] = x]
    BY <1>4, MovesAre
  <2> HIDE DEF x
  <2>3. Sound(x, w)
    BY <1>1, <1>2, <1>4, <2>1 DEF Sound
  <2> QED
    BY <1>3, <2>1, <2>2, <2>3
<1>5. CASE Sets(t, status) /\ to \notin {"concluding", "finish", "fail"}
           /\ status \notin {"completed", "failed"}
  <2> DEFINE x == Stated(task[t], status)
  <2>1. /\ x \in TaskRecord /\ x.status = status /\ x.result = task[t].result
        /\ x.error = task[t].error /\ \A other : Logged(x, other) <=> Logged(task[t], other)
    BY <1>1, StatedIs
  <2>2. task' = [task EXCEPT ![t] = x]
    BY <1>5, MovesAre
  <2> HIDE DEF x
  <2>3. Sound(x, w)
    BY <1>1, <1>2, <1>5, <2>1 DEF Sound, TaskStatus
  <2> QED
    BY <1>3, <2>1, <2>2, <2>3
<1> QED
  BY <1>4, <1>5

LEMMA SpeakersKeep ==
    ASSUME PlaygroundInv, NEW t \in Task,
           \/ Begin(t) \/ LogBegin(t) \/ AgentReports(t) \/ ReportApplied(t)
           \/ AgentConcludes(t) \/ LogEnd(t) \/ LogFailure(t)
    PROVE  PlaygroundInv'
<1> USE DEF WorkerAt, BeforeReply, AfterReply, Exchanging, TaskStatus
<1>0. reports \in [Task -> 0 .. MaxProgress]
  BY DEF PlaygroundInv, Records
<1>1. CASE Begin(t)
  BY <1>0, <1>1, SpeakingKeeps DEF Begin
<1>2. CASE LogBegin(t)
  BY <1>0, <1>2, SpeakingKeeps DEF LogBegin
<1>3. CASE AgentReports(t)
  <2>1. reports' \in [Task -> 0 .. MaxProgress]
    BY <1>0, <1>3, BoundsAssumption DEF AgentReports
  <2> QED
    BY <1>3, <2>1, SpeakingKeeps DEF AgentReports
<1>4. CASE ReportApplied(t)
  BY <1>0, <1>4, SpeakingKeeps DEF ReportApplied
<1>5. CASE AgentConcludes(t)
  BY <1>0, <1>5, SpeakingKeeps DEF AgentConcludes
<1>6. CASE LogEnd(t)
  BY <1>0, <1>6, SpeakingKeeps DEF LogEnd
<1>7. CASE LogFailure(t)
  BY <1>0, <1>7, SpeakingKeeps DEF LogFailure
<1> QED
  BY <1>1, <1>2, <1>3, <1>4, <1>5, <1>6, <1>7

\* The agent's turn ends with an outcome, or breaks down.
LEMMA TurnEndKeeps ==
    ASSUME PlaygroundInv, NEW t \in Task,
           ConclusionApplied(t) \/ AgentAnswers(t) \/ WorkerRaises(t) \/ Rename(t)
    PROVE  PlaygroundInv'
<1>1. task[t] \in TaskRecord /\ worker[t] \in WorkerRecord /\ Sound(task[t], worker[t])
      /\ Exchange(t) /\ reports \in [Task -> 0 .. MaxProgress]
  BY DEF PlaygroundInv, Records, TaskInv
\* Whatever it leaves, it adds no row and publishes no result.
<1>2. ASSUME NEW x \in TaskRecord, NEW w \in WorkerRecord,
             task' = [task EXCEPT ![t] = x], worker' = [worker EXCEPT ![t] = w],
             worker[t].at \notin {"none", "done"}, w.at \notin {"none", "done", "reply"},
             UNCHANGED <<session, message, call, reports, page, restarts>>, Sound(x, w),
             w.at \in BeforeReply => worker[t].at \in BeforeReply,
             w.at \in AfterReply => worker[t].at \in AfterReply /\ w.outcome = worker[t].outcome
      PROVE  PlaygroundInv'
  <2>1. WorkerActs(t, x, w)
    BY <1>1, <1>2 DEF WorkerActs
  <2>2. task'[t] = x /\ worker'[t] = w
    BY <1>2 DEF PlaygroundInv, Records
  <2>3. x.result = "none"
    BY <1>2 DEF Sound
  <2>4. Exchange(t)'
    BY <1>1, <1>2, <2>2, <2>3, NoRowNoClaim
  <2> QED
    BY <1>2, <2>1, <2>4, WorkerActsKeeps
<1>3. CASE ConclusionApplied(t)
  <2> DEFINE x == Stated(task[t], "completed")
             w == [at |-> "user", outcome |-> "responded"]
  <2>1. /\ x \in TaskRecord /\ x.status = "completed" /\ x.result = task[t].result
        /\ x.error = task[t].error /\ \A other : Logged(x, other) <=> Logged(task[t], other)
    BY <1>1, StatedIs DEF TaskStatus
  <2>2. task' = [task EXCEPT ![t] = x] /\ worker' = [worker EXCEPT ![t] = w]
        /\ worker[t].at = "concluding"
    BY <1>3, MovesAre DEF ConclusionApplied
  <2>3. w \in WorkerRecord /\ w.at = "user" /\ w.outcome = "responded"
    BY DEF WorkerRecord, WorkerAt, Result
  <2> HIDE DEF x, w
  <2>4. Sound(x, w)
    BY <1>1, <2>1, <2>2, <2>3 DEF Sound, Exchanging
  <2> QED
    BY <1>2, <1>3, <2>1, <2>2, <2>3, <2>4 DEF ConclusionApplied, BeforeReply, AfterReply
<1>4. CASE AgentAnswers(t)
  <2>1. PICK outcome \in {"responded", "refused"} :
            worker' = [worker EXCEPT ![t] = [at |-> "user", outcome |-> outcome]]
    BY <1>4 DEF AgentAnswers
  <2> DEFINE w == [at |-> "user", outcome |-> outcome]
  <2>2. w \in WorkerRecord /\ w.at = "user" /\ w.outcome # "none"
    BY DEF WorkerRecord, WorkerAt, Result
  <2>3. worker' = [worker EXCEPT ![t] = w] /\ worker[t].at = "agent"
    BY <1>4, <2>1 DEF AgentAnswers
  <2> HIDE DEF w
  <2>4. Sound(task[t], w)
    BY <1>1, <2>2, <2>3 DEF Sound, Exchanging
  <2>5. task' = [task EXCEPT ![t] = task[t]]
    BY <1>4 DEF AgentAnswers, PlaygroundInv, Records
  <2> QED
    BY <1>1, <1>2, <1>4, <2>2, <2>3, <2>4, <2>5 DEF AgentAnswers, BeforeReply, AfterReply
<1>5. CASE WorkerRaises(t)
  <2> DEFINE w == At(worker[t], "failing")
  <2>1. w \in WorkerRecord /\ w.at = "failing" /\ w.outcome = worker[t].outcome
    BY <1>1, AtIs DEF WorkerAt
  <2>2. worker' = [worker EXCEPT ![t] = w] /\ worker[t].at \in {"agent", "user", "reply", "rename"}
    BY <1>5 DEF WorkerRaises, At
  <2> HIDE DEF w
  <2>3. Sound(task[t], w)
    BY <1>1, <2>1, <2>2 DEF Sound, Exchanging
  <2>4. task' = [task EXCEPT ![t] = task[t]]
    BY <1>5 DEF WorkerRaises, PlaygroundInv, Records
  <2> QED
    BY <1>1, <1>2, <1>5, <2>1, <2>2, <2>3, <2>4 DEF WorkerRaises, BeforeReply, AfterReply
<1>6. CASE Rename(t)
  <2> DEFINE w == At(worker[t], "ended")
  <2>1. w \in WorkerRecord /\ w.at = "ended" /\ w.outcome = worker[t].outcome
    BY <1>1, AtIs DEF WorkerAt
  <2>2. worker' = [worker EXCEPT ![t] = w] /\ worker[t].at = "rename"
    BY <1>6 DEF Rename, WorkerMoves, At
  <2> HIDE DEF w
  <2>3. Sound(task[t], w)
    BY <1>1, <2>1, <2>2 DEF Sound, Exchanging
  <2>4. task' = [task EXCEPT ![t] = task[t]]
    BY <1>6 DEF Rename, PlaygroundInv, Records
  <2> QED
    BY <1>1, <1>2, <1>6, <2>1, <2>2, <2>3, <2>4 DEF Rename, BeforeReply, AfterReply
<1> QED
  BY <1>3, <1>4, <1>5, <1>6

\* What is known of the rows of a task after one is added.
LEMMA InsertAdds ==
    ASSUME NEW t, NEW role, Insert(t, role), UNCHANGED call
    PROVE  /\ message' = message \cup {Row(t, role)}
           /\ Saved(t, role)'
           /\ \A other : other # role => (Saved(t, other)' <=> Saved(t, other))
  BY DEF Insert, Row, Saved

LEMMA SavesKeep ==
    ASSUME PlaygroundInv, NEW t \in Task, SaveUserMessage(t) \/ SaveReply(t)
    PROVE  PlaygroundInv'
<1>1. task[t] \in TaskRecord /\ worker[t] \in WorkerRecord /\ Sound(task[t], worker[t])
      /\ Exchange(t) /\ reports \in [Task -> 0 .. MaxProgress]
  BY DEF PlaygroundInv, Records, TaskInv
<1>2. UNCHANGED <<session, task, call, reports, page, restarts>>
  BY DEF SaveUserMessage, SaveReply
<1>3. task' = [task EXCEPT ![t] = task[t]] /\ task'[t] = task[t]
  BY <1>2 DEF PlaygroundInv, Records
<1>4. SessionOpen(t)' = SessionOpen(t)
  BY <1>2 DEF SessionOpen, Open
<1>5. CASE SaveUserMessage(t)
  <2> DEFINE to == IF worker[t].outcome = "responded" THEN "reply" ELSE "rename"
             w == At(worker[t], to)
  <2>0. to \in {"reply", "rename"} /\ (to = "reply" <=> worker[t].outcome = "responded")
    OBVIOUS
  <2>1. w \in WorkerRecord /\ w.at = to /\ w.outcome = worker[t].outcome
    BY <1>1, <2>0, AtIs DEF WorkerAt
  <2>2. worker[t].at = "user" /\ worker' = [worker EXCEPT ![t] = w]
    BY <1>5 DEF SaveUserMessage, WorkerMoves, At
  <2>3. /\ message' = message \/ message' = message \cup {Row(t, "user")}
        /\ Asked(t)'
        /\ Saved(t, "agent")' <=> Saved(t, "agent")
    <3>1. CASE t \in Blank
      BY <1>2, <1>5, <3>1 DEF SaveUserMessage, Saved
    <3>2. CASE t \notin Blank
      BY <1>2, <1>5, <3>2, InsertAdds DEF SaveUserMessage
    <3> QED
      BY <3>1, <3>2
  <2> HIDE DEF to, w
  <2>4. Sound(task[t], w)
    BY <1>1, <2>0, <2>1, <2>2 DEF Sound, Exchanging
  <2>5. WorkerActs(t, task[t], w)
    BY <1>1, <1>2, <1>3, <2>0, <2>1, <2>2, <2>3 DEF WorkerActs
  <2>6. worker'[t] = w /\ task[t].result = "none"
    BY <1>1, <2>2 DEF PlaygroundInv, Records, Sound
  <2>7. Exchange(t)'
    BY <1>1, <1>3, <1>4, <2>0, <2>1, <2>2, <2>3, <2>6
    DEF Exchange, Whole, BeforeReply, AfterReply
  <2> QED
    BY <2>4, <2>5, <2>7, WorkerActsKeeps
<1>6. CASE SaveReply(t)
  <2> DEFINE w == At(worker[t], "rename")
  <2>1. w \in WorkerRecord /\ w.at = "rename" /\ w.outcome = worker[t].outcome
    BY <1>1, AtIs DEF WorkerAt
  <2>2. worker[t].at = "reply" /\ worker' = [worker EXCEPT ![t] = w]
    BY <1>6 DEF SaveReply, WorkerMoves, At
  <2>3. message' = message \cup {Row(t, "agent")} /\ Saved(t, "agent")'
        /\ (Saved(t, "user")' <=> Saved(t, "user"))
    BY <1>2, <1>6, InsertAdds DEF SaveReply
  <2> HIDE DEF w
  <2>4. Sound(task[t], w) /\ w.outcome = "responded"
    BY <1>1, <2>1, <2>2 DEF Sound, Exchanging
  <2>5. WorkerActs(t, task[t], w)
    BY <1>1, <1>2, <1>3, <2>1, <2>2, <2>3 DEF WorkerActs
  <2>6. worker'[t] = w /\ task[t].result = "none"
    BY <1>1, <2>2 DEF PlaygroundInv, Records, Sound
  <2>7. Exchange(t)'
    BY <1>1, <1>3, <1>4, <2>1, <2>2, <2>3, <2>4, <2>6
    DEF Exchange, Whole, BeforeReply, AfterReply
  <2> QED
    BY <2>4, <2>5, <2>7, WorkerActsKeeps
<1> QED
  BY <1>5, <1>6

\* The worker publishes the result, or the failure, and is done.
LEMMA ClosingKeeps ==
    ASSUME PlaygroundInv, NEW t \in Task, Finish(t) \/ Fail(t)
    PROVE  PlaygroundInv'
<1>1. task[t] \in TaskRecord /\ worker[t] \in WorkerRecord /\ Sound(task[t], worker[t])
      /\ Exchange(t) /\ reports \in [Task -> 0 .. MaxProgress]
  BY DEF PlaygroundInv, Records, TaskInv
<1>2. UNCHANGED <<session, message, call, reports, page, restarts>>
  BY DEF Finish, Fail
<1>3. SessionOpen(t)' = SessionOpen(t) /\ \A role : Saved(t, role)' <=> Saved(t, role)
  BY <1>2 DEF SessionOpen, Open, Saved
<1> DEFINE w == At(worker[t], "done")
<1>4. w \in WorkerRecord /\ w.at = "done" /\ w.outcome = worker[t].outcome
  BY <1>1, AtIs DEF WorkerAt
<1>5. worker[t].at \in {"finish", "fail"} /\ worker' = [worker EXCEPT ![t] = w]
  BY MovesAre DEF Finish, Fail
<1> HIDE DEF w
<1>6. CASE Finish(t)
  <2> DEFINE x == [task[t] EXCEPT !.status = "completed", !.result = worker[t].outcome,
                                  !.error = FALSE]
  <2>1. worker[t].outcome \in Result /\ worker[t].at = "finish"
    BY <1>1, <1>6 DEF WorkerRecord, Finish, WorkerMoves
  <2>2. x \in TaskRecord /\ x.status = "completed" /\ x.result = worker[t].outcome /\ ~x.error
        /\ \A other : Logged(x, other) <=> Logged(task[t], other)
    BY <1>1, <2>1 DEF TaskRecord, TaskStatus, Logged
  <2>3. task' = [task EXCEPT ![t] = x]
    BY <1>6 DEF Finish
  <2> HIDE DEF x
  <2>4. Sound(x, w)
    BY <1>1, <1>4, <2>1, <2>2 DEF Sound, SaysHow, Exchanging
  <2>5. WorkerActs(t, x, w)
    BY <1>1, <1>2, <1>4, <1>5, <2>2, <2>3 DEF WorkerActs
  <2>6. worker'[t] = w /\ task'[t] = x
    BY <1>5, <2>3 DEF PlaygroundInv, Records
  <2>7. Exchange(t)'
    BY <1>1, <1>3, <1>4, <2>1, <2>2, <2>6 DEF Exchange, Whole, BeforeReply, AfterReply
  <2> QED
    BY <2>4, <2>5, <2>7, WorkerActsKeeps
<1>7. CASE Fail(t)
  <2> DEFINE x == [task[t] EXCEPT !.status = "failed", !.error = TRUE]
  <2>1. worker[t].at = "fail"
    BY <1>7 DEF Fail, WorkerMoves
  <2>2. x \in TaskRecord /\ x.status = "failed" /\ x.result = task[t].result /\ x.error
        /\ \A other : Logged(x, other) <=> Logged(task[t], other)
    BY <1>1 DEF TaskRecord, TaskStatus, Logged
  <2>3. task' = [task EXCEPT ![t] = x]
    BY <1>7 DEF Fail
  <2> HIDE DEF x
  <2>4. Sound(x, w) /\ x.result = "none"
    BY <1>1, <1>4, <2>1, <2>2 DEF Sound, SaysHow, Exchanging
  <2>5. WorkerActs(t, x, w)
    BY <1>1, <1>2, <1>4, <1>5, <2>2, <2>3 DEF WorkerActs
  <2>6. worker'[t] = w /\ task'[t] = x
    BY <1>5, <2>3 DEF PlaygroundInv, Records
  <2>7. Exchange(t)'
    BY <1>1, <1>3, <1>4, <2>1, <2>4, <2>6 DEF Exchange, Whole, BeforeReply, AfterReply
  <2> QED
    BY <2>4, <2>5, <2>7, WorkerActsKeeps
<1> QED
  BY <1>6, <1>7

LEMMA WorkerStepKeeps ==
    ASSUME PlaygroundInv, NEW t \in Task, WorkerStep(t)
    PROVE  PlaygroundInv'
  BY SpeakersKeep, TurnEndKeeps, SavesKeep, ClosingKeeps DEF WorkerStep
-----------------------------------------------------------------------------
(* Submissions and their request threads.                                   *)

\* A step of the request thread of t, or of the user who sends it: y is what
\* it leaves of the call.
LEMMA CallMovesOn ==
    ASSUME PlaygroundInv, NEW t \in Task, NEW y \in CallRecord,
           call' = [call EXCEPT ![t] = y],
           UNCHANGED <<message, task, worker, reports, restarts>>,
           session' \in SessionTable, page' \in PageRecord,
           \A s \in Session : Born(s) => Born(s)' /\ (s \in Open' => s \in Open),
           call[t].at \in Early \/ (y.at \notin Early /\ y.session = call[t].session),
           y.at = "enqueue" => y.session \in Session,
           y.session # NoSession => Born(y.session)',
           Born(page.session)',
           page'.shown \in {NoTask, page.shown}, page'.answers \subseteq page.answers
    PROVE  PlaygroundInv'
<1>1. call'[t] = y /\ \A u \in Task \ {t} : call'[u] = call[u]
  BY DEF PlaygroundInv, Records
<1>2. Records'
  BY DEF PlaygroundInv, Records
<1>3. \A s \in Session \cup {NoSession} : Born(s) => Born(s)'
  BY DEF Born
<1>4. ASSUME NEW u \in Task, call'[u] = call[u] PROVE Same(u)
  <2>1. call[u].session \in Session \cup {NoSession} /\ Born(call[u].session)
    BY DEF PlaygroundInv, Records, CallRecord, TaskInv
  <2>2. SessionOpen(u)' => SessionOpen(u)
    BY <1>4, <2>1, NullAssumption DEF SessionOpen, Open
  <2>3. \A role : Saved(u, role)' <=> Saved(u, role)
    BY <1>4 DEF Saved
  <2>4. NoRows(u) => NoRows(u)'
    BY DEF NoRows
  <2> QED
    BY <1>3, <1>4, <2>1, <2>2, <2>3, <2>4 DEF Same, Born
<1>5. ASSUME NEW u \in Task PROVE TaskInv(u)' /\ (Told(u) => Told(u)')
  <2>0. TaskInv(u)
    BY DEF PlaygroundInv
  <2>1. CASE u # t
    BY <1>1, <1>4, <2>0, <2>1, SameKeeps
  <2>2. CASE u = t /\ call[t].at \in Early
    <3>1. worker[t].at = "none" /\ NoRows(t) /\ Sound(task[t], worker[t])
      BY <2>0, <2>2 DEF TaskInv, Untouched
    <3>2. worker'[t].at = "none" /\ NoRows(t)' /\ Sound(task[t], worker[t])'
          /\ task'[t].result = "none"
      BY <3>1 DEF NoRows, Sound
    <3>3. Exchange(t)'
      BY <3>2, UntouchedHasNoExchange
    <3>4. Born(call[t].session)' /\ Settled(t)' /\ Untouched(t)'
      BY <1>1, <3>2 DEF Born, Settled, Untouched
    <3> QED
      BY <2>2, <3>2, <3>3, <3>4 DEF TaskInv, Told
  <2>3. CASE u = t /\ y.at \notin Early /\ call[t].at \notin Early /\ y.session = call[t].session
    <3>1. call[t].session \in Session \cup {NoSession} /\ Born(call[t].session)
      BY <2>0 DEF PlaygroundInv, Records, CallRecord, TaskInv
    <3>2. SessionOpen(t)' => SessionOpen(t)
      BY <1>1, <2>3, <3>1, NullAssumption DEF SessionOpen, Open
    <3>3. \A role : Saved(t, role)' <=> Saved(t, role)
      BY <1>1, <2>3 DEF Saved
    <3>4. Sound(task[t], worker[t])' /\ Born(call[t].session)'
      BY <1>1, <1>3, <2>0, <2>3, <3>1 DEF TaskInv, Born
    <3>5. Untouched(t)' /\ Settled(t)'
      BY <1>1, <2>0, <2>3 DEF TaskInv, Untouched, Settled, Early
    <3>6. Exchange(t)'
      <4>1. worker'[t] = worker[t] /\ task'[t] = task[t] /\ Exchange(t)
        <5>1. worker' = worker /\ task' = task
          OBVIOUS
        <5>2. Exchange(t)
          BY <2>0, <2>3 DEF TaskInv
        <5> QED
          BY <5>1, <5>2
      <4>2. (Saved(t, "user")' <=> Saved(t, "user")) /\ (Saved(t, "agent")' <=> Saved(t, "agent"))
        BY <3>3
      <4> QED
        BY <3>2, <4>1, <4>2 DEF Exchange, Whole
    <3>7. Told(t) => Told(t)'
      BY <1>1, <2>3, <3>2, <3>3 DEF Told
    <3> QED
      BY <2>3, <3>4, <3>5, <3>6, <3>7 DEF TaskInv
  <2> QED
    BY <2>1, <2>2, <2>3
<1>6. PageInv'
  <2>2. \A a \in page'.answers : a \in page.answers /\ a.task \in Task
    BY DEF PlaygroundInv, Records, PageRecord, Answer
  <2>3. page'.shown \in Task => Told(page.shown)'
    <3>1. page'.shown \in Task => page'.shown = page.shown /\ Told(page.shown)
      BY NullAssumption DEF PlaygroundInv, PageInv
    <3>2. \A u \in Task : Told(u) => Told(u)'
      BY <1>5
    <3>3. ASSUME NEW u \in Task, page'.shown = u PROVE Told(page.shown)'
      BY <3>1, <3>2, <3>3 DEF Told, SessionOpen, Saved
    <3> QED
      BY <3>3
  <2> QED
    BY <1>5, <2>2, <2>3 DEF PlaygroundInv, PageInv
<1> QED
  BY <1>2, <1>5, <1>6 DEF PlaygroundInv

\* The request thread starts the worker of its task.
LEMMA EnqueueKeeps ==
    ASSUME PlaygroundInv, NEW t \in Task, Enqueue(t) PROVE PlaygroundInv'
<1> DEFINE x == [NoSnapshot EXCEPT !.status = "queued", !.log = <<"queued">>]
           w == At(worker[t], "begin")
           y == [call[t] EXCEPT !.at = "answer"]
<1>1. TaskInv(t) /\ task[t] \in TaskRecord /\ worker[t] \in WorkerRecord /\ call[t] \in CallRecord
  BY DEF PlaygroundInv, Records
<1>2. call[t].at = "enqueue" /\ worker[t].at = "none"
      /\ UNCHANGED <<session, message, reports, page, restarts>>
  BY DEF Enqueue, CallMoves, WorkerMoves
<1>3. /\ x.status = "queued" /\ x.result = "none" /\ x.error = FALSE
      /\ x \in TaskRecord
  <2>1. <<"queued">> \in Seq(TaskStatus)
    BY DEF TaskStatus
  <2> QED
    BY <2>1 DEF NoSnapshot, TaskRecord, TaskStatus, Result
<1>4. w \in WorkerRecord /\ w.at = "begin"
  BY <1>1, AtIs DEF WorkerAt
<1>5. y \in CallRecord /\ y.at = "answer" /\ y.session = call[t].session
  BY <1>1 DEF CallRecord, CallAt
<1>6. task' = [task EXCEPT ![t] = x] /\ worker' = [worker EXCEPT ![t] = w]
      /\ call' = [call EXCEPT ![t] = y]
  BY DEF Enqueue, CallMoves, WorkerMoves, At
<1> HIDE DEF x, w, y
<1>7. task'[t] = x /\ worker'[t] = w /\ call'[t] = y
      /\ \A u \in Task \ {t} : task'[u] = task[u] /\ worker'[u] = worker[u] /\ call'[u] = call[u]
  BY <1>6 DEF PlaygroundInv, Records
<1>8. Records'
  BY <1>2, <1>3, <1>4, <1>5, <1>6 DEF PlaygroundInv, Records
<1>9. TaskInv(t)'
  <2>1. Sound(x, w)
    BY <1>3, <1>4 DEF Sound, Exchanging
  <2>2. call[t].session \in Session /\ Born(call[t].session)
    BY <1>1, <1>2 DEF TaskInv, Settled
  <2>3. NoRows(t)'
    BY <1>1, <1>2 DEF TaskInv, Untouched, Early, NoRows
  <2>4. Exchange(t)'
    BY <1>3, <1>4, <1>7, <2>3, UntouchedHasNoExchange
  <2> QED
    BY <1>2, <1>4, <1>5, <1>7, <2>1, <2>2, <2>4 DEF TaskInv, Untouched, Settled, Born, Early
<1>10. ASSUME NEW u \in Task \ {t} PROVE Same(u)
  <2>1. Born(call[u].session)
    BY DEF PlaygroundInv, TaskInv
  <2>2. \A role : Saved(u, role)' <=> Saved(u, role)
    BY <1>2, <1>7 DEF Saved
  <2> QED
    BY <1>2, <1>7, <2>1, <2>2 DEF Same, Born, SessionOpen, Open, NoRows
<1>11. ~Told(t) /\ \A s \in Session : Born(s) => Born(s)'
  BY <1>2 DEF Told, Born, Early
<1> QED
  BY <1>2, <1>8, <1>9, <1>10, <1>11, OneTaskMoves

\* A session that is opened was not born, and no other is.
LEMMA OpeningIsBirth ==
    ASSUME Records, NEW s \in Session, session[s] = "unborn",
           session' = [session EXCEPT ![s] = "open"]
    PROVE  /\ session' \in SessionTable
           /\ Born(s)'
           /\ \A r \in Session : Born(r) => Born(r)' /\ (r \in Open' => r \in Open)
  BY NullAssumption DEF Records, SessionTable, Born, Open

\* A call that settles on a session.
SettleAt(f, t, a, s) == [f EXCEPT ![t].at = a, ![t].session = s]
SetTo(f, t, y) == [f EXCEPT ![t] = y]
LEMMA SettlesOn ==
    ASSUME NEW f \in [Task -> CallRecord], NEW t \in Task, NEW a \in CallAt, NEW s \in Session
    PROVE  \E y \in CallRecord : /\ y.at = a /\ y.session = s
                                 /\ SettleAt(f, t, a, s) = SetTo(f, t, y)
<1> DEFINE y == [at |-> a, session |-> s, page |-> f[t].page]
           g == [f EXCEPT ![t].at = a]
           h == [g EXCEPT ![t].session = s]
<1>1. f[t] \in CallRecord /\ DOMAIN f = Task
  OBVIOUS
<1>2. [[f[t] EXCEPT !.at = a] EXCEPT !.session = s] = y
  <2>1. ASSUME NEW r \in CallRecord
        PROVE  [[r EXCEPT !.at = a] EXCEPT !.session = s] =
                   [at |-> a, session |-> s, page |-> r.page]
    <3>1. r = [at |-> r.at, session |-> r.session, page |-> r.page]
      BY DEF CallRecord
    <3>2. [r EXCEPT !.at = a] = [at |-> a, session |-> r.session, page |-> r.page]
      BY <3>1
    <3>3. [[at |-> a, session |-> r.session, page |-> r.page] EXCEPT !.session = s] =
              [at |-> a, session |-> s, page |-> r.page]
      OBVIOUS
    <3> QED
      BY <3>2, <3>3
  <2> QED
    BY <1>1, <2>1
<1>3. DOMAIN g = Task /\ g[t] = [f[t] EXCEPT !.at = a] /\ \A u \in Task \ {t} : g[u] = f[u]
  BY <1>1
<1>4. h = [u \in Task |-> IF u = t THEN [g[t] EXCEPT !.session = s] ELSE g[u]]
  <2> HIDE DEF g
  <2> QED
    BY <1>3
<1>5. h = [u \in Task |-> IF u = t THEN y ELSE f[u]]
  <2> HIDE DEF g, h, y
  <2>1. [g[t] EXCEPT !.session = s] = y
    BY <1>2, <1>3
  <2> QED
    BY <1>3, <1>4, <2>1
<1>6. [f EXCEPT ![t] = y] = [u \in Task |-> IF u = t THEN y ELSE f[u]]
  <2> HIDE DEF y
  <2> QED
    BY <1>1
<1>7. y \in CallRecord /\ y.at = a /\ y.session = s
  BY <1>1 DEF CallRecord
<1>8. SettleAt(f, t, a, s) = h
  BY DEF SettleAt
<1>9. SetTo(f, t, y) = [f EXCEPT ![t] = y]
  BY DEF SetTo
<1> HIDE DEF h, y
<1> QED
  BY <1>5, <1>6, <1>7, <1>8, <1>9

LEMMA CallStepKeeps ==
    ASSUME PlaygroundInv, NEW t \in Task, CallStep(t) PROVE PlaygroundInv'
<1>1. call[t] \in CallRecord /\ page \in PageRecord /\ session \in SessionTable /\ Records
      /\ Born(call[t].session) /\ Born(page.session)
  BY DEF PlaygroundInv, Records, TaskInv, PageInv
<1>2. CASE ResolveSession(t)
  <2>1. PICK y \in CallRecord :
            /\ call' = [call EXCEPT ![t] = y]
            /\ y.at \in {"enqueue", "create", "refuse"}
            /\ y.session \in Open \/ (y.at # "enqueue" /\ y.session = call[t].session)
    <3>1. ASSUME NEW s \in Open, call' = [call EXCEPT ![t].at = "enqueue", ![t].session = s]
          PROVE  \E y \in CallRecord :
                     /\ call' = [call EXCEPT ![t] = y]
                     /\ y.at \in {"enqueue", "create", "refuse"}
                     /\ y.session \in Open \/ (y.at # "enqueue" /\ y.session = call[t].session)
      <4>1. call \in [Task -> CallRecord] /\ s \in Session /\ "enqueue" \in CallAt
        BY <1>1 DEF CallAt, Records, Open
      <4>2. PICK y \in CallRecord : /\ y.at = "enqueue" /\ y.session = s
                                    /\ SettleAt(call, t, "enqueue", s) = SetTo(call, t, y)
        BY <4>1, SettlesOn
      <4>3. call' = [call EXCEPT ![t] = y]
        BY <3>1, <4>2 DEF SettleAt, SetTo
      <4> QED
        BY <4>2, <4>3
    <3>2. ASSUME NEW to \in {"create", "refuse", "enqueue"}, CallMoves(t, "resolve", to),
                 to = "enqueue" => call[t].session \in Open
          PROVE  \E y \in CallRecord :
                     /\ call' = [call EXCEPT ![t] = y]
                     /\ y.at \in {"enqueue", "create", "refuse"}
                     /\ y.session \in Open \/ (y.at # "enqueue" /\ y.session = call[t].session)
      <4> DEFINE y == [call[t] EXCEPT !.at = to]
      <4>1. y \in CallRecord /\ y.at = to /\ y.session = call[t].session
        BY <1>1 DEF CallRecord, CallAt
      <4>2. call' = [call EXCEPT ![t] = y]
        BY <3>2 DEF CallMoves
      <4> QED
        BY <3>2, <4>1, <4>2
    <3> QED
      BY <1>2, <3>1, <3>2 DEF ResolveSession
  <2>2. call[t].at = "resolve" /\ UNCHANGED <<session, message, task, worker, reports, page, restarts>>
    BY <1>2 DEF ResolveSession, CallMoves
  <2>3. \A s \in Session : Born(s) => Born(s)' /\ (s \in Open' => s \in Open)
    BY <2>2 DEF Born, Open
  <2>4. Born(page.session)' /\ Born(y.session)' /\ (y.at = "enqueue" => y.session \in Session)
    BY <1>1, <2>1, <2>2 DEF Born, Open
  <2> QED
    BY <1>1, <2>1, <2>2, <2>3, <2>4, CallMovesOn DEF Early
<1>3. CASE CreateLatest(t)
  <2>1. PICK s \in Unborn : /\ session' = [session EXCEPT ![s] = "open"]
                            /\ call' = [call EXCEPT ![t].at = "enqueue", ![t].session = s]
    BY <1>3 DEF CreateLatest
  <2>2. s \in Session /\ session[s] = "unborn" /\ call \in [Task -> CallRecord]
        /\ "enqueue" \in CallAt
    BY <1>1 DEF Unborn, Records, CallAt
  <2>3. PICK y \in CallRecord : /\ y.at = "enqueue" /\ y.session = s
                                /\ SettleAt(call, t, "enqueue", s) = SetTo(call, t, y)
    BY <2>2, SettlesOn
  <2>4. call[t].at = "create" /\ UNCHANGED <<message, task, worker, reports, page, restarts>>
    BY <1>3 DEF CreateLatest
  <2>5. /\ session' \in SessionTable /\ Born(s)'
        /\ \A r \in Session : Born(r) => Born(r)' /\ (r \in Open' => r \in Open)
    BY <1>1, <2>1, <2>2, OpeningIsBirth
  <2>6. Born(page.session)' /\ Born(y.session)'
    BY <1>1, <2>3, <2>4, <2>5 DEF Born, PageRecord
  <2>7. call' = [call EXCEPT ![t] = y]
    BY <2>1, <2>3 DEF SettleAt, SetTo
  <2> QED
    BY <1>1, <2>2, <2>3, <2>4, <2>5, <2>6, <2>7, CallMovesOn DEF Early
<1>4. CASE AnswerCall(t) \/ RefuseCall(t)
  <2>0. PICK y : y = [call[t] EXCEPT !.at = "over"]
    OBVIOUS
  <2>1. y \in CallRecord /\ y.at = "over" /\ y.session = call[t].session
    BY <1>1, <2>0 DEF CallRecord, CallAt
  <2>2. /\ call' = [call EXCEPT ![t] = y] /\ call[t].at \in {"answer", "refuse"}
        /\ UNCHANGED <<session, message, task, worker, reports, restarts>>
    BY <1>4, <2>0 DEF AnswerCall, RefuseCall, CallMoves
  <2>3. page' \in PageRecord /\ page'.answers = page.answers /\ page'.shown = page.shown
        /\ page'.session \in {page.session, call[t].session}
    <3>1. CASE AnswerCall(t)
      <4>1. Snapshot(t) \in Answer
        <5>1. task[t] \in TaskRecord
          BY DEF PlaygroundInv, Records
        <5> QED
          BY <5>1 DEF Snapshot, Answer, TaskRecord
      <4>2. page' = page \/ page' = [page EXCEPT !.live = Snapshot(t), !.due = TRUE,
                                                 !.session = call[t].session]
        BY <3>1 DEF AnswerCall
      <4>3. CASE page' = [page EXCEPT !.live = Snapshot(t), !.due = TRUE, !.session = call[t].session]
        <5>1. call[t].session \in Session \cup {NoSession}
          BY <1>1 DEF CallRecord
        <5> QED
          BY <1>1, <4>1, <4>3, <5>1 DEF PageRecord
      <4> QED
        BY <1>1, <4>2, <4>3
    <3>2. CASE RefuseCall(t)
      BY <1>1, <3>2 DEF RefuseCall, PageRecord
    <3> QED
      BY <1>4, <3>1, <3>2
  <2>4. Born(page.session)' /\ \A r \in Session : Born(r) => Born(r)' /\ (r \in Open' => r \in Open)
    <3>1. Born(page.session)'
      BY <1>1, <2>2, <2>3 DEF Born
    <3>2. \A r \in Session : Born(r) => Born(r)' /\ (r \in Open' => r \in Open)
      BY <2>2 DEF Born, Open
    <3> QED
      BY <3>1, <3>2
  <2>5. Born(y.session)'
    BY <1>1, <2>1, <2>2 DEF Born
  <2> QED
    BY <1>1, <2>1, <2>2, <2>3, <2>4, <2>5, CallMovesOn DEF Early
<1> QED
  BY <1>2, <1>3, <1>4, EnqueueKeeps DEF CallStep

\* A message is sent: by the page, for its session, or by another client.
LEMMA SendingKeeps ==
    ASSUME PlaygroundInv, NEW t \in Task, Submit(t) \/ ClientSends(t) PROVE PlaygroundInv'
<1>1. call[t] \in CallRecord /\ page \in PageRecord /\ session \in SessionTable
      /\ Born(call[t].session) /\ Born(page.session)
  BY DEF PlaygroundInv, Records, TaskInv, PageInv
<1>2. page.session \in Session \cup {NoSession}
  BY <1>1 DEF PageRecord
<1>3. PICK y : y = IF Submit(t)
                   THEN [at |-> "resolve", session |-> page.session, page |-> TRUE]
                   ELSE [call[t] EXCEPT !.at = "resolve"]
  OBVIOUS
<1>4. y \in CallRecord /\ y.at = "resolve" /\ y.session \in {page.session, call[t].session}
  BY <1>1, <1>2, <1>3 DEF CallRecord, CallAt
<1>5. call' = [call EXCEPT ![t] = y] /\ call[t].at = "unsent"
      /\ UNCHANGED <<session, message, task, worker, reports, restarts>>
  <2>1. CASE Submit(t)
    BY <1>3, <2>1 DEF Submit
  <2>2. CASE ~Submit(t)
    BY <1>3, <2>2 DEF ClientSends, CallMoves
  <2> QED
    BY <2>1, <2>2
<1>6. page' \in PageRecord /\ page'.answers = page.answers /\ page'.session = page.session
      /\ page'.shown \in {NoTask, page.shown}
  <2>1. CASE Submit(t)
    BY <1>1, <2>1 DEF Submit, PageRecord
  <2>2. CASE ClientSends(t)
    BY <1>1, <2>2 DEF ClientSends
  <2> QED
    BY <2>1, <2>2
<1>7. Born(page.session)' /\ Born(y.session)'
  BY <1>1, <1>4, <1>5, <1>6 DEF Born
<1>8. \A r \in Session : Born(r) => Born(r)' /\ (r \in Open' => r \in Open)
  BY <1>5 DEF Born, Open
<1> QED
  BY <1>1, <1>4, <1>5, <1>6, <1>7, <1>8, CallMovesOn DEF Early

\* Sessions come and go; what is known of every task stays.
LEMMA SessionsMoveOn ==
    ASSUME PlaygroundInv, UNCHANGED <<task, call, worker, reports, restarts>>,
           session' \in SessionTable, message' \subseteq message, page' \in PageRecord,
           \A s \in Session : Born(s) => Born(s)' /\ (s \in Open' => s \in Open),
           \A s \in Open' : \A m \in message : m.session = s => m \in message',
           Born(page.session)',
           page'.shown \in {NoTask, page.shown}, page'.answers = page.answers
    PROVE  PlaygroundInv'
<1>1. Records'
  BY DEF PlaygroundInv, Records, MessageTable
<1>2. ASSUME NEW u \in Task PROVE Same(u)
  <2>1. call[u].session \in Session \cup {NoSession} /\ Born(call[u].session)
    BY DEF PlaygroundInv, Records, CallRecord, TaskInv
  <2>2. SessionOpen(u)' => SessionOpen(u) /\ call[u].session \in Open'
    BY <2>1, NullAssumption DEF SessionOpen, Open
  <2>3. call[u].session \in Open' => \A role : Saved(u, role)' <=> Saved(u, role)
    BY DEF Saved
  <2>4. NoRows(u) => NoRows(u)'
    BY DEF NoRows
  <2>5. Born(call[u].session)'
    BY <2>1 DEF Born
  <2> QED
    BY <2>2, <2>3, <2>4, <2>5 DEF Same
<1>3. \A u \in Task : TaskInv(u)' /\ (Told(u) => Told(u)')
  BY <1>2, SameKeeps DEF PlaygroundInv
<1>4. PageInv'
  <2>1. \A a \in page.answers : a.task \in Task
    BY DEF PlaygroundInv, Records, PageRecord, Answer
  <2>2. page'.shown \in Task => Told(page.shown)'
    <3>1. page'.shown \in Task => page'.shown = page.shown /\ Told(page.shown)
      BY NullAssumption DEF PlaygroundInv, PageInv
    <3>2. ASSUME NEW u \in Task, page'.shown = u PROVE Told(page.shown)'
      BY <1>3, <3>1, <3>2 DEF Told, SessionOpen, Saved
    <3> QED
      BY <3>2
  <2> QED
    BY <1>3, <2>1, <2>2 DEF PlaygroundInv, PageInv
<1> QED
  BY <1>1, <1>3, <1>4 DEF PlaygroundInv

LEMMA ClearedIsPage ==
    ASSUME page \in PageRecord, NEW s \in Session \cup {NoSession}
    PROVE  /\ Cleared(s) \in PageRecord /\ Cleared(s).session = s
           /\ Cleared(s).shown = NoTask /\ Cleared(s).answers = page.answers
  BY DEF Cleared, PageRecord

\* A deleted session is closed for good, and takes its own rows along.
LEMMA DeletingIsClosing ==
    ASSUME Records, NEW s \in Session, DeleteSession(s)
    PROVE  /\ session' \in SessionTable /\ message' \subseteq message
           /\ \A r \in Session : Born(r) => Born(r)' /\ (r \in Open' => r \in Open)
           /\ \A r \in Open' : \A m \in message : m.session = r => m \in message'
           /\ UNCHANGED <<task, call, worker, reports, restarts>>
  BY NullAssumption DEF Records, SessionTable, DeleteSession, Born, Open

LEMMA UserStepKeeps ==
    ASSUME PlaygroundInv, UserStep PROVE PlaygroundInv'
<1>1. page \in PageRecord /\ session \in SessionTable /\ Records /\ Born(page.session)
      /\ page.session \in Session \cup {NoSession}
  BY DEF PlaygroundInv, Records, PageInv, PageRecord
<1>2. ASSUME NEW s \in Session, PageCreatesSession(s) PROVE PlaygroundInv'
  <2>1. session[s] = "unborn" /\ session' = [session EXCEPT ![s] = "open"] /\ page' = Cleared(s)
        /\ UNCHANGED <<message, task, call, worker, reports, restarts>>
    BY <1>2 DEF PageCreatesSession
  <2>2. /\ session' \in SessionTable /\ Born(s)'
        /\ \A r \in Session : Born(r) => Born(r)' /\ (r \in Open' => r \in Open)
    BY <1>1, <2>1, OpeningIsBirth
  <2>3. /\ page' \in PageRecord /\ page'.session = s
        /\ page'.shown = NoTask /\ page'.answers = page.answers
    BY <1>1, <2>1, ClearedIsPage
  <2>4. Born(page.session)'
    BY <2>2, <2>3 DEF Born
  <2> QED
    BY <2>1, <2>2, <2>3, <2>4, SessionsMoveOn
<1>3. ASSUME NEW s \in Session, PageSelectsSession(s) PROVE PlaygroundInv'
  <2>1. session[s] # "unborn" /\ page' = [page EXCEPT !.session = s]
        /\ UNCHANGED <<session, message, task, call, worker, reports, restarts>>
    BY <1>3 DEF PageSelectsSession
  <2>2. page' \in PageRecord /\ page'.session = s /\ page'.shown = page.shown
        /\ page'.answers = page.answers
    BY <1>1, <2>1 DEF PageRecord
  <2>3. Born(page.session)'
    BY <1>1, <2>1, <2>2 DEF Born, SessionTable
  <2>4. \A r \in Session : Born(r) => Born(r)' /\ (r \in Open' => r \in Open)
    BY <2>1 DEF Born, Open
  <2> QED
    BY <1>1, <2>1, <2>2, <2>3, <2>4, SessionsMoveOn
<1>4. ASSUME NEW s \in Session, PageDeletesSession(s) PROVE PlaygroundInv'
  <2>1. PICK next \in (Open \ {s}) \cup {NoSession} : page' = Cleared(next)
    BY <1>4 DEF PageDeletesSession
  <2>2. DeleteSession(s) /\ next \in Session \cup {NoSession}
    BY <1>4, <2>1 DEF PageDeletesSession, Open
  <2>3. /\ page' \in PageRecord /\ page'.session = next
        /\ page'.shown = NoTask /\ page'.answers = page.answers
    BY <1>1, <2>1, <2>2, ClearedIsPage
  <2>4. next \in Session => Born(next)'
    <3>1. next \in Session => Born(next)
      BY <2>1, NullAssumption DEF Born, Open
    <3> QED
      BY <1>1, <2>2, <3>1, DeletingIsClosing
  <2>5. Born(page.session)'
    BY <2>2, <2>3, <2>4 DEF Born
  <2> QED
    BY <1>1, <2>2, <2>3, <2>5, DeletingIsClosing, SessionsMoveOn
<1>5. ASSUME NEW s \in Session, ClientDeletesSession(s) PROVE PlaygroundInv'
  <2>1. DeleteSession(s) /\ page' = page
    BY <1>5 DEF ClientDeletesSession
  <2>2. page.session \in Session => (Born(page.session) => session'[page.session] \in {"open", "deleted"})
    BY <1>1, <2>1, NullAssumption DEF DeleteSession, Born, SessionTable
  <2>3. Born(page.session)'
    BY <1>1, <2>1, <2>2 DEF Born
  <2> QED
    BY <1>1, <2>1, <2>3, DeletingIsClosing, SessionsMoveOn
<1> QED
  BY <1>2, <1>3, <1>4, <1>5, SendingKeeps DEF UserStep
-----------------------------------------------------------------------------
(* The page and the restart.                                                *)

\* A task that has a result is told: its worker is done and the exchange whole.
LEMMA ResultIsTold ==
    ASSUME PlaygroundInv, NEW t \in Task, task[t].result # "none"
    PROVE  Told(t)
<1>1. Sound(task[t], worker[t]) /\ Untouched(t) /\ Exchange(t)
  BY DEF PlaygroundInv, TaskInv
<1>2. worker[t].at = "done"
  BY <1>1 DEF Sound
<1> QED
  BY <1>1, <1>2 DEF Told, Untouched, Exchange, Whole

\* Only the page moves, and what it learns is told.
LEMMA PageMovesOn ==
    ASSUME PlaygroundInv, UNCHANGED <<session, message, task, call, worker, reports, restarts>>,
           page' \in PageRecord, Born(page.session)',
           page'.shown \in Task => page'.shown = page.shown \/ Told(page'.shown),
           \A a \in page'.answers : a \in page.answers \/ (a.result # "none" => Told(a.task))
    PROVE  PlaygroundInv'
<1>1. Records'
  BY DEF PlaygroundInv, Records
<1>2. ASSUME NEW u \in Task PROVE Same(u)
  <2>1. Born(call[u].session)
    BY DEF PlaygroundInv, TaskInv
  <2> QED
    BY <2>1 DEF Same, Born, SessionOpen, Open, Saved, NoRows
<1>3. \A u \in Task : TaskInv(u)' /\ (Told(u) => Told(u)')
  BY <1>2, SameKeeps DEF PlaygroundInv
<1>4. \A u : Told(u) => Told(u)'
  BY DEF Told, SessionOpen, Open, Saved
<1>5. page'.shown \in Task => Told(page.shown)'
  <2>1. page'.shown \in Task => Told(page'.shown)
    BY DEF PlaygroundInv, PageInv
  <2>2. ASSUME NEW u \in Task, page'.shown = u PROVE Told(page.shown)'
    BY <2>1, <2>2 DEF Told, SessionOpen, Open, Saved
  <2> QED
    BY <2>2
<1>6. PageInv'
  BY <1>4, <1>5 DEF PlaygroundInv, PageInv
<1> QED
  BY <1>1, <1>3, <1>6 DEF PlaygroundInv

\* What the page makes of an answer.
LEMMA ReceivesIsPage ==
    ASSUME page \in PageRecord, NEW a \in Answer, call[a.task].session \in Session \cup {NoSession}
    PROVE  /\ Receives(page, a) \in PageRecord
           /\ Receives(page, a).answers \subseteq page.answers
           /\ \/ Receives(page, a).shown = page.shown
              \/ HasResult(a) /\ Receives(page, a).shown = a.task
           /\ Receives(page, a).session \in {page.session, call[a.task].session}
<1> DEFINE p == Receives(page, a)
<1>1. a.task \in Task /\ page.answers \in SUBSET Answer /\ page.submitting \in BOOLEAN
      /\ page.due \in BOOLEAN /\ page.refreshing \in BOOLEAN
  BY DEF PageRecord, Answer
<1>2. DOMAIN page = {"submitting", "session", "live", "armed", "due", "answers", "refreshing", "shown"}
  BY DEF PageRecord
<1>3. p.answers = page.answers \ {a}
  BY <1>2 DEF Receives
<1>4. p.live = IF a.status = "gone" THEN page.live ELSE a
  BY <1>2 DEF Receives
<1>5. p.shown = IF HasResult(a) THEN a.task ELSE page.shown
  BY <1>2 DEF Receives
<1>6. p.session = IF HasResult(a) THEN call[a.task].session ELSE page.session
  BY <1>2 DEF Receives
<1>7. p.due \in BOOLEAN
  BY <1>1, <1>2 DEF Receives
<1>8. p.refreshing \in BOOLEAN
  BY <1>1, <1>2 DEF Receives, HasResult
<1>9. p.submitting \in BOOLEAN
  BY <1>1, <1>2 DEF Receives
<1>10. p.armed = page.armed
  BY <1>2 DEF Receives
<1>11. DOMAIN p = DOMAIN page /\ p = [n \in DOMAIN p |-> p[n]]
  BY <1>2 DEF Receives
<1> HIDE DEF p
<1>12. /\ p.live \in Answer \cup {NoTask} /\ p.armed \in Answer \cup {NoTask}
       /\ p.shown \in Task \cup {NoTask} /\ p.session \in Session \cup {NoSession}
       /\ p.answers \in SUBSET Answer
  BY <1>1, <1>3, <1>4, <1>5, <1>6, <1>10 DEF PageRecord
<1>13. p \in PageRecord
  BY <1>2, <1>7, <1>8, <1>9, <1>11, <1>12 DEF PageRecord
<1>14. p.answers \subseteq page.answers
  BY <1>3
<1>15. p.shown = page.shown \/ (HasResult(a) /\ p.shown = a.task)
  BY <1>5 DEF HasResult
<1>16. p.session \in {page.session, call[a.task].session}
  BY <1>6
<1> QED
  BY <1>13, <1>14, <1>15, <1>16, Zenon DEF p

LEMMA PageStepKeeps ==
    ASSUME PlaygroundInv, PageRenders \/ Poll \/ PollReturns \/ RefreshReturns
    PROVE  PlaygroundInv'
<1>1. page \in PageRecord /\ Born(page.session) /\ page.session \in Session \cup {NoSession}
      /\ page.answers \subseteq Answer
  BY DEF PlaygroundInv, Records, PageInv, PageRecord
<1>2. UNCHANGED <<session, message, task, call, worker, reports, restarts>>
  BY DEF PageRenders, Poll, PollReturns, RefreshReturns
<1>3. CASE PageRenders
  <2>1. page' \in PageRecord /\ page'.answers = {} /\ page'.shown = page.shown
        /\ page'.session = page.session
    BY <1>1, <1>3 DEF PageRenders, PageRecord
  <2> QED
    BY <1>1, <1>2, <2>1, PageMovesOn DEF Born
<1>4. CASE Poll
  <2> DEFINE t == page.armed.task
             a == Snapshot(t)
  <2>1. t \in Task
    BY <1>1, <1>4 DEF Poll, Polling, PageRecord, Answer
  <2>2. a \in Answer /\ a.task = t /\ a.result = task[t].result
    <3>1. task[t] \in TaskRecord
      BY <2>1 DEF PlaygroundInv, Records
    <3> HIDE DEF t
    <3> QED
      BY <2>1, <3>1 DEF Snapshot, Answer, TaskRecord
  <2>3. page' = [page EXCEPT !.answers = @ \cup {a}]
    BY <1>4 DEF Poll
  <2>4. a.result # "none" => Told(a.task)
    BY <2>1, <2>2, ResultIsTold
  <2> HIDE DEF a
  <2>5. page' \in PageRecord /\ page'.answers = page.answers \cup {a} /\ page'.shown = page.shown
        /\ page'.session = page.session
    BY <1>1, <2>2, <2>3 DEF PageRecord
  <2> QED
    BY <1>1, <1>2, <2>4, <2>5, PageMovesOn DEF Born
<1>5. CASE PollReturns
  <2>1. PICK a \in page.answers : page' = Receives(page, a)
    BY <1>5 DEF PollReturns
  <2>2. a \in Answer /\ a.task \in Task
    BY <1>1, <2>1 DEF Answer
  <2>3. call[a.task].session \in Session \cup {NoSession} /\ Born(call[a.task].session)
    BY <2>2 DEF PlaygroundInv, Records, CallRecord, TaskInv
  <2>4. /\ page' \in PageRecord /\ page'.answers \subseteq page.answers
        /\ page'.shown = page.shown \/ (HasResult(a) /\ page'.shown = a.task)
        /\ page'.session \in {page.session, call[a.task].session}
    BY <1>1, <2>1, <2>2, <2>3, ReceivesIsPage
  <2>5. HasResult(a) => Told(a.task)
    BY <2>1 DEF PlaygroundInv, PageInv, HasResult
  <2>6. Born(page.session)'
    BY <1>1, <1>2, <2>3, <2>4 DEF Born
  <2> QED
    BY <1>2, <2>4, <2>5, <2>6, PageMovesOn
<1>6. CASE RefreshReturns
  <2>1. page' \in PageRecord /\ page'.answers = page.answers /\ page'.shown = page.shown
        /\ page'.session = page.session
    BY <1>1, <1>6 DEF RefreshReturns, PageRecord
  <2> QED
    BY <1>1, <1>2, <2>1, PageMovesOn DEF Born
<1> QED
  BY <1>3, <1>4, <1>5, <1>6

\* The server forgets its tasks; what the page was told stays in the tables.
LEMMA RestartKeeps ==
    ASSUME PlaygroundInv, Restart PROVE PlaygroundInv'
<1>1. Records /\ UNCHANGED <<session, message, reports, page>>
  BY DEF PlaygroundInv, Restart
<1>2. NoSnapshot \in TaskRecord
  <2>1. <<>> \in Seq(TaskStatus)
    OBVIOUS
  <2> QED
    BY <2>1 DEF NoSnapshot, TaskRecord, Result
<1>3. ASSUME NEW t \in Task
      PROVE  /\ task'[t] = NoSnapshot
             /\ worker'[t] \in WorkerRecord
             /\ worker'[t].at = "none" /\ worker'[t].outcome = worker[t].outcome
             /\ call'[t] \in CallRecord /\ call'[t].session = call[t].session
             /\ call'[t].at = IF call[t].at \in {"unsent", "over"} THEN call[t].at ELSE "refuse"
  <2>1. worker[t] \in WorkerRecord /\ call[t] \in CallRecord
    BY <1>1 DEF Records
  <2>2. /\ task'[t] = NoSnapshot
        /\ worker'[t] = [worker[t] EXCEPT !.at = "none"]
        /\ call'[t] = [call[t] EXCEPT !.at = IF @ \in {"unsent", "over"} THEN @ ELSE "refuse"]
    BY DEF Restart
  <2>3. worker'[t] \in WorkerRecord
        /\ worker'[t].at = "none" /\ worker'[t].outcome = worker[t].outcome
    BY <2>1, <2>2 DEF WorkerRecord, WorkerAt
  <2>4. call'[t] \in CallRecord /\ call'[t].session = call[t].session
        /\ call'[t].at = IF call[t].at \in {"unsent", "over"} THEN call[t].at ELSE "refuse"
    <3>1. ASSUME NEW y \in CallRecord, NEW z,
                 z = [y EXCEPT !.at = IF y.at \in {"unsent", "over"} THEN y.at ELSE "refuse"]
          PROVE  z \in CallRecord /\ z.session = y.session
                 /\ z.at = IF y.at \in {"unsent", "over"} THEN y.at ELSE "refuse"
      BY <3>1 DEF CallRecord, CallAt
    <3> QED
      BY <2>1, <2>2, <3>1
  <2> QED
    BY <2>2, <2>3, <2>4
<1>4. Records'
  <2>1. task' \in [Task -> TaskRecord]
    BY <1>2 DEF Restart
  <2>2. worker' \in [Task -> WorkerRecord] /\ call' \in [Task -> CallRecord]
    BY <1>3 DEF Restart
  <2>3. restarts' \in 0 .. MaxRestarts
    BY <1>1, BoundsAssumption DEF Records, Restart
  <2> QED
    BY <1>1, <2>1, <2>2, <2>3 DEF Records
<1>5. ASSUME NEW t \in Task
      PROVE  /\ SessionOpen(t)' = SessionOpen(t) /\ Born(call[t].session)' = Born(call[t].session)
             /\ \A role : Saved(t, role)' <=> Saved(t, role)
  BY <1>1, <1>3 DEF SessionOpen, Open, Born, Saved
<1>6. ASSUME NEW t \in Task PROVE TaskInv(t)'
  <2>0. TaskInv(t)
    BY DEF PlaygroundInv
  <2>1. Sound(task[t], worker[t])'
    BY <1>3 DEF Sound, NoSnapshot, Exchanging
  <2>2. Untouched(t)' /\ Settled(t)'
    BY <1>1, <1>3, <2>0 DEF TaskInv, Untouched, Settled, NoRows, Early
  <2>3. Exchange(t)'
    BY <1>3, <1>5, <2>0 DEF TaskInv, Exchange, Whole, NoSnapshot, BeforeReply, AfterReply
  <2> QED
    BY <1>5, <2>0, <2>1, <2>2, <2>3 DEF TaskInv
<1>7. ASSUME NEW t \in Task, Told(t) PROVE Told(t)'
  BY <1>3, <1>5, <1>7 DEF Told, Early
<1>8. PageInv'
  <2>1. \A a \in page.answers : a.task \in Task
    BY <1>1 DEF Records, PageRecord, Answer
  <2>2. Born(page.session)'
    BY <1>1 DEF PlaygroundInv, PageInv, Born
  <2>3. page.shown \in Task => Told(page.shown)'
    <3>1. ASSUME NEW u \in Task, page.shown = u PROVE Told(page.shown)'
      <4>1. Told(u)'
        BY <1>7, <3>1 DEF PlaygroundInv, PageInv
      <4> QED
        BY <1>1, <3>1, <4>1 DEF Told, SessionOpen, Saved
    <3> QED
      BY <3>1
  <2> QED
    BY <1>1, <1>7, <2>1, <2>2, <2>3 DEF PlaygroundInv, PageInv
<1> QED
  BY <1>4, <1>6, <1>8 DEF PlaygroundInv

LEMMA InitPlaygroundInv == Init => PlaygroundInv
<1> SUFFICES ASSUME Init PROVE PlaygroundInv
  OBVIOUS
<1>1. Records
  <2>1. <<>> \in Seq(TaskStatus)
    OBVIOUS
  <2>2. NoSnapshot \in TaskRecord
    BY <2>1 DEF NoSnapshot, TaskRecord, Result
  <2>3. page \in PageRecord
    BY DEF Init, PageRecord
  <2>4. call \in [Task -> CallRecord] /\ worker \in [Task -> WorkerRecord]
    BY DEF Init, CallRecord, CallAt, WorkerRecord, WorkerAt, Result
  <2>5. task \in [Task -> TaskRecord]
    BY <2>2 DEF Init
  <2>6. session \in SessionTable /\ message \in MessageTable
    BY DEF Init, SessionTable, MessageTable
  <2>7. reports \in [Task -> 0 .. MaxProgress] /\ restarts \in 0 .. MaxRestarts
    BY BoundsAssumption DEF Init
  <2> QED
    BY <2>3, <2>4, <2>5, <2>6, <2>7 DEF Records
<1>2. ASSUME NEW t \in Task PROVE TaskInv(t)
  <2>1. /\ task[t] = NoSnapshot /\ call[t].at = "unsent" /\ call[t].session = NoSession
        /\ worker[t].at = "none" /\ message = {}
    BY DEF Init
  <2>2. Sound(task[t], worker[t])
    BY <2>1 DEF Sound, NoSnapshot, Exchanging
  <2> QED
    BY <2>1, <2>2 DEF TaskInv, Born, Untouched, Settled, NoRows, Exchange, NoSnapshot,
       BeforeReply, AfterReply, Saved
<1>3. PageInv
  BY NullAssumption DEF Init, PageInv, Born
<1> QED
  BY <1>1, <1>2, <1>3 DEF PlaygroundInv

LEMMA StutterKeeps == PlaygroundInv /\ UNCHANGED vars => PlaygroundInv'
<1> SUFFICES ASSUME PlaygroundInv, UNCHANGED vars PROVE PlaygroundInv'
  OBVIOUS
<1>1. UNCHANGED <<session, message, task, call, worker, reports, page, restarts>>
  BY DEF vars
<1>2. page \in PageRecord /\ Born(page.session)
  BY DEF PlaygroundInv, Records, PageInv
<1>3. page' \in PageRecord /\ Born(page.session)'
  BY <1>1, <1>2 DEF Born
<1> QED
  BY <1>1, <1>3, PageMovesOn

LEMMA PlaygroundInvHolds == Spec => []PlaygroundInv
<1>1. PlaygroundInv /\ [Next]_vars => PlaygroundInv'
  BY StutterKeeps, CallStepKeeps, WorkerStepKeeps, UserStepKeeps, PageStepKeeps, RestartKeeps
  DEF Next
<1> QED
  BY <1>1, InitPlaygroundInv, PTL DEF Spec
-----------------------------------------------------------------------------
\* Every variable of the playground keeps its type.
THEOREM TypeCorrect == Spec => []TypeOK
<1>1. PlaygroundInv => TypeOK
  BY DEF PlaygroundInv, Records, TypeOK, SessionTable, MessageTable, TaskRecord, CallRecord,
         WorkerRecord, PageRecord
<1> QED
  BY <1>1, PlaygroundInvHolds, PTL

\* A task whose worker is done says how, and no final status comes before its
\* event, whatever the agent reports (_run_message_task, _record_progress_event).
THEOREM EndsGetTold == Spec => []EndsAreTold
<1>1. PlaygroundInv => EndsAreTold
  <2> SUFFICES ASSUME PlaygroundInv PROVE EndsAreTold
    OBVIOUS
  <2>1. \A t \in Task : Sound(task[t], worker[t]) /\ task[t] \in TaskRecord
    BY DEF PlaygroundInv, Records, TaskInv
  <2>2. FinishedTaskSaysHow
    BY <2>1 DEF FinishedTaskSaysHow, Ended, Sound, SaysHow
  <2>3. EndIsLogged
    BY <2>1 DEF EndIsLogged, Sound, Logged
  <2> QED
    BY <2>2, <2>3 DEF EndsAreTold
<1> QED
  BY <1>1, PlaygroundInvHolds, PTL

\* The tables hold the exchange of every task that has a result, and no reply
\* without its question (_run_agent_session_request, _persist_chat_exchange).
THEOREM ExchangesAreKept == Spec => []ExchangesAreWhole
<1>1. PlaygroundInv => ExchangesAreWhole
  <2> SUFFICES ASSUME PlaygroundInv PROVE ExchangesAreWhole
    OBVIOUS
  <2>1. \A t \in Task : Exchange(t) /\ Sound(task[t], worker[t])
    BY DEF PlaygroundInv, TaskInv
  <2>2. \A t \in Task : task[t].result # "none" => task[t].result = worker[t].outcome
    BY <2>1 DEF Sound, SaysHow
  <2>3. ResultIsSaved
    BY <2>1, <2>2 DEF ResultIsSaved, Exchange, Whole
  <2>4. RepliesHaveQuestions
    BY <2>1 DEF RepliesHaveQuestions, Exchange
  <2> QED
    BY <2>3, <2>4 DEF ExchangesAreWhole
<1> QED
  BY <1>1, PlaygroundInvHolds, PTL

\* What the page shows is in the history it reads, whatever the order of the
\* responses and across restarts (the polling effect of the page).
THEOREM ShownIsKept == Spec => []ShownIsSaved
<1>1. PlaygroundInv => ShownIsSaved
  BY DEF PlaygroundInv, PageInv, ShownIsSaved, Told
<1> QED
  BY <1>1, PlaygroundInvHolds, PTL
=============================================================================
