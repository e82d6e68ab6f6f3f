----------------------------- MODULE Playground -----------------------------
(***************************************************************************)
(* The agent playground: a page of the web console that submits messages   *)
(* and polls for their outcome (AgentPlaygroundPage.tsx; AgentsWorkspace   *)
(* does the same), the request threads and one worker thread per message   *)
(* of AgentPlaygroundFacade, and the chat tables in SQLite.                *)
(*                                                                         *)
(* One step is one section under the task lock, one database transaction,  *)
(* or one reaction of the page (an event handler, a promise callback, a    *)
(* rendering with its effects).  All sessions belong to the one agent of   *)
(* the page.                                                               *)
(***************************************************************************)
EXTENDS Naturals, Sequences, FiniteSets

CONSTANTS
    Task,          \* messages that get sent
    PageTask,      \* those among them that the page may send
    ClientTask,    \* those that another client may send
    Blank,         \* those that are empty, or white space only
    Session,       \* session identifiers that may be drawn
    NoSession,     \* no session: null, or an absent session_id
    NoTask,        \* liveTask, result or answer is null
    MaxProgress,   \* bound on the progress reports of an agent before its last
    MaxAnswers,    \* bound on the different responses on their way to the page
    MaxRestarts,   \* bound on the restarts of the server
    DatabaseMayFail

ASSUME NullAssumption == NoSession \notin Session /\ NoTask \notin Task
ASSUME TaskAssumption == Task = PageTask \cup ClientTask /\ Blank \subseteq Task
ASSUME BoundsAssumption ==
    MaxProgress \in Nat /\ MaxAnswers \in Nat /\ MaxRestarts \in Nat
    /\ DatabaseMayFail \in BOOLEAN

VARIABLES
    session,   \* rows of agent_chat_sessions
    message,   \* rows of agent_chat_messages
    task,      \* _session_tasks
    call,      \* the request thread of a submission: who sent it, and the session
               \* it settles on
    worker,    \* where the worker thread of a task is
    reports,   \* progress reports made so far
    page,      \* state and effects of the page
    restarts

vars == <<session, message, task, call, worker, reports, page, restarts>>

TaskStatus == {"queued", "running", "completed", "failed"}
Result == {"none", "responded", "refused"}
NoSnapshot == [status |-> "absent", result |-> "none", error |-> FALSE, log |-> <<>>]

\* Where a worker stands: what it does next, or "done".
WorkerAt == {"none", "begin", "begun", "agent", "reporting", "concluding",
             "user", "reply", "rename", "ended", "finish", "failing", "fail", "done"}

CallAt == {"unsent", "resolve", "create", "enqueue", "answer", "refuse", "over"}

\* What a response to a poll carries; "gone" is the error for an unknown task.
Answer == [task : Task, status : TaskStatus \cup {"gone"}, result : Result]

TypeOK ==
    /\ session \in [Session -> {"unborn", "open", "deleted"}]
    /\ message \subseteq [session : Session, task : Task, role : {"user", "agent"}]
    /\ \A t \in Task :
          /\ task[t].status \in TaskStatus \cup {"absent"} /\ task[t].result \in Result
          /\ task[t].error \in BOOLEAN /\ task[t].log \in Seq(TaskStatus)
    /\ call \in [Task -> [at : CallAt, session : Session \cup {NoSession}, page : BOOLEAN]]
    /\ worker \in [Task -> [at : WorkerAt, outcome : Result]]
    /\ reports \in [Task -> 0 .. MaxProgress]
    /\ page.submitting \in BOOLEAN
    /\ page.session \in Session \cup {NoSession}
    /\ page.live \in Answer \cup {NoTask} /\ page.armed \in Answer \cup {NoTask}
    /\ page.answers \subseteq Answer
    /\ page.due \in BOOLEAN /\ page.refreshing \in BOOLEAN
    /\ page.shown \in Task \cup {NoTask}
    /\ restarts \in 0 .. MaxRestarts

Init ==
    /\ session = [s \in Session |-> "unborn"]
    /\ message = {}
    /\ task = [t \in Task |-> NoSnapshot]
    /\ call = [t \in Task |-> [at |-> "unsent", session |-> NoSession, page |-> FALSE]]
    /\ worker = [t \in Task |-> [at |-> "none", outcome |-> "none"]]
    /\ reports = [t \in Task |-> 0]
    /\ page = [submitting |-> FALSE, session |-> NoSession, live |-> NoTask, armed |-> NoTask,
               due |-> FALSE, answers |-> {}, refreshing |-> FALSE, shown |-> NoTask]
    /\ restarts = 0

Open == {s \in Session : session[s] = "open"}
Unborn == {s \in Session : session[s] = "unborn"}

WorkerMoves(t, from, to) ==
    /\ worker[t].at = from
    /\ worker' = [worker EXCEPT ![t].at = to]

CallMoves(t, from, to) ==
    /\ call[t].at = from
    /\ call' = [call EXCEPT ![t].at = to]

\* _append_session_task_event and _update_session_task
Logs(t, status) == task' = [task EXCEPT ![t].log = Append(@, status)]
Sets(t, status) == task' = [task EXCEPT ![t].status = status]

\* Variants that the properties must tell from the code stand before what they vary.

\* What get_message_task answers for a task.
Snapshot(t) ==
    [task |-> t, result |-> task[t].result,
     status |-> IF task[t].status = "absent" THEN "gone" ELSE task[t].status]

-----------------------------------------------------------------------------
(* Submissions: the page's handleSubmit, another client of the API, and the *)
(* request thread in start_message_task                                     *)

\* The page names its current session.  If it has none it sends null, which the
\* service reads as "None", the name of a session nobody has.  The keyboard shortcut
\* submits again while an earlier submission is under way, and a blank message too.
Submit(t) ==
    /\ t \in PageTask /\ call[t].at = "unsent"
    /\ call' = [call EXCEPT ![t] = [at |-> "resolve", session |-> page.session, page |-> TRUE]]
    /\ page' = [page EXCEPT !.submitting = TRUE, !.shown = NoTask]
    /\ UNCHANGED <<session, message, task, worker, reports, restarts>>

\* A request without a session_id: get_or_create_latest_session.
ClientSends(t) ==
    /\ t \in ClientTask
    /\ CallMoves(t, "unsent", "resolve")
    /\ UNCHANGED <<session, message, task, worker, reports, page, restarts>>

\* Which open session has the latest updated_at depends on clock readings taken
\* outside the transactions that store them: any of them.
ResolveSession(t) ==
    /\ call[t].at = "resolve"
    /\ IF ~call[t].page
       THEN \/ \E s \in Open :
                  call' = [call EXCEPT ![t].at = "enqueue", ![t].session = s]
            \/ Open = {} /\ CallMoves(t, "resolve", "create")
       ELSE CallMoves(t, "resolve", IF call[t].session \in Open THEN "enqueue" ELSE "refuse")
    /\ UNCHANGED <<session, message, task, worker, reports, page, restarts>>

CreateLatest(t) ==
    /\ call[t].at = "create"
    /\ \E s \in Unborn :
          /\ session' = [session EXCEPT ![s] = "open"]
          /\ call' = [call EXCEPT ![t].at = "enqueue", ![t].session = s]
    /\ UNCHANGED <<message, task, worker, reports, page, restarts>>

\* The task is stored and its worker started before anybody can know its name.
Enqueue(t) ==
    /\ CallMoves(t, "enqueue", "answer")
    /\ task' = [task EXCEPT ![t] = [NoSnapshot EXCEPT !.status = "queued", !.log = <<"queued">>]]
    /\ WorkerMoves(t, "none", "begin")
    /\ UNCHANGED <<session, message, reports, page, restarts>>

AnswerCall(t) ==
    /\ CallMoves(t, "answer", "over")
    /\ page' = IF call[t].page
               THEN [page EXCEPT !.live = Snapshot(t), !.due = TRUE, !.session = call[t].session]
               ELSE page
    /\ UNCHANGED <<session, message, task, worker, reports, restarts>>

RefuseCall(t) ==
    /\ CallMoves(t, "refuse", "over")
    /\ page' = IF call[t].page THEN [page EXCEPT !.submitting = FALSE] ELSE page
    /\ UNCHANGED <<session, message, task, worker, reports, restarts>>

-----------------------------------------------------------------------------
(* The worker thread: _run_message_task                                     *)

Begin(t) ==
    /\ WorkerMoves(t, "begin", "begun")
    /\ Sets(t, "running")
    /\ UNCHANGED <<session, message, call, reports, page, restarts>>

LogBegin(t) ==
    /\ WorkerMoves(t, "begun", "agent")
    /\ Logs(t, "running")
    /\ UNCHANGED <<session, message, call, reports, page, restarts>>

\* _record_progress_event: the event first, then the status it carries.
AgentReports(t) ==
    /\ reports[t] < MaxProgress
    /\ WorkerMoves(t, "agent", "reporting")
    /\ Logs(t, "running")
    /\ reports' = [reports EXCEPT ![t] = @ + 1]
    /\ UNCHANGED <<session, message, call, page, restarts>>

ReportApplied(t) ==
    /\ WorkerMoves(t, "reporting", "agent")
    /\ Sets(t, "running")
    /\ UNCHANGED <<session, message, call, reports, page, restarts>>

\* ... the status set before the event
ConcludesAtOnce(t) ==
    /\ WorkerMoves(t, "agent", "concluding")
    /\ Sets(t, "completed")
    /\ UNCHANGED <<session, message, call, reports, page, restarts>>

\* The last report of an agent loop says that the turn is completed.
AgentConcludes(t) ==
    /\ WorkerMoves(t, "agent", "concluding")
    /\ Logs(t, "completed")
    /\ UNCHANGED <<session, message, call, reports, page, restarts>>

ConclusionApplied(t) ==
    /\ worker[t].at = "concluding"
    /\ Sets(t, "completed")
    /\ worker' = [worker EXCEPT ![t] = [at |-> "user", outcome |-> "responded"]]
    /\ UNCHANGED <<session, message, call, reports, page, restarts>>

\* An agent without a loop answers, or its implementation does not succeed.
AgentAnswers(t) ==
    /\ worker[t].at = "agent"
    /\ \E outcome \in {"responded", "refused"} :
          worker' = [worker EXCEPT ![t] = [at |-> "user", outcome |-> outcome]]
    /\ UNCHANGED <<session, message, task, call, reports, page, restarts>>

\* ... a thread that dies of the exception
WorkerDies(t) ==
    /\ worker[t].at \in {"agent"} \cup (IF DatabaseMayFail THEN {"user", "reply", "rename"} ELSE {})
    /\ worker' = [worker EXCEPT ![t].at = "none"]
    /\ UNCHANGED <<session, message, task, call, reports, page, restarts>>

\* An exception on the way to the agent, in it, or of the database.
WorkerRaises(t) ==
    /\ worker[t].at \in {"agent"} \cup (IF DatabaseMayFail THEN {"user", "reply", "rename"} ELSE {})
    /\ worker' = [worker EXCEPT ![t].at = "failing"]
    /\ UNCHANGED <<session, message, task, call, reports, page, restarts>>

\* _insert_message: the row is stored whether or not its session still exists.
Insert(t, role) ==
    message' = message \cup {[session |-> call[t].session, task |-> t, role |-> role]}

\* ... a failed insertion that is passed over
SaveUserMessageIfPossible(t) ==
    /\ WorkerMoves(t, "user", IF worker[t].outcome = "responded" THEN "reply" ELSE "rename")
    /\ IF t \in Blank THEN UNCHANGED message
       ELSE Insert(t, "user") \/ (DatabaseMayFail /\ UNCHANGED message)
    /\ UNCHANGED <<session, task, call, reports, page, restarts>>

\* A blank question is not stored; the agent has answered it all the same.
SaveUserMessage(t) ==
    /\ WorkerMoves(t, "user", IF worker[t].outcome = "responded" THEN "reply" ELSE "rename")
    /\ IF t \in Blank THEN UNCHANGED message ELSE Insert(t, "user")
    /\ UNCHANGED <<session, task, call, reports, page, restarts>>

\* No agent leaves its reply blank: each puts a text of its own in place of one.
SaveReply(t) ==
    /\ WorkerMoves(t, "reply", "rename")
    /\ Insert(t, "agent")
    /\ UNCHANGED <<session, task, call, reports, page, restarts>>

\* rename_session_if_placeholder; titles are left out.
Rename(t) ==
    /\ WorkerMoves(t, "rename", "ended")
    /\ UNCHANGED <<session, message, task, call, reports, page, restarts>>

LogEnd(t) ==
    /\ WorkerMoves(t, "ended", "finish")
    /\ Logs(t, "completed")
    /\ UNCHANGED <<session, message, call, reports, page, restarts>>

Finish(t) ==
    /\ WorkerMoves(t, "finish", "done")
    /\ task' = [task EXCEPT ![t] =
          [@ EXCEPT !.status = "completed", !.result = worker[t].outcome, !.error = FALSE]]
    /\ UNCHANGED <<session, message, call, reports, page, restarts>>

LogFailure(t) ==
    /\ WorkerMoves(t, "failing", "fail")
    /\ Logs(t, "failed")
    /\ UNCHANGED <<session, message, call, reports, page, restarts>>

Fail(t) ==
    /\ WorkerMoves(t, "fail", "done")
    /\ task' = [task EXCEPT ![t] = [@ EXCEPT !.status = "failed", !.error = TRUE]]
    /\ UNCHANGED <<session, message, call, reports, page, restarts>>

-----------------------------------------------------------------------------
(* Sessions                                                                 *)

\* setLiveTask(null) and setResult(null), on the way to another session
Cleared(s) == [page EXCEPT !.session = s, !.live = NoTask, !.due = @ \/ page.live # NoTask,
                           !.shown = NoTask]

\* handleCreateSession with create_chat_session
PageCreatesSession(s) ==
    /\ session[s] = "unborn"
    /\ session' = [session EXCEPT ![s] = "open"]
    /\ page' = Cleared(s)
    /\ UNCHANGED <<message, task, call, worker, reports, restarts>>

\* onChangeSession, with a list of sessions that may be old
PageSelectsSession(s) ==
    /\ session[s] # "unborn"
    /\ page' = [page EXCEPT !.session = s]
    /\ UNCHANGED <<session, message, task, call, worker, reports, restarts>>

\* delete_session: the rows of the session's messages, then its own
DeleteSession(s) ==
    /\ session[s] = "open"
    /\ session' = [session EXCEPT ![s] = "deleted"]
    /\ message' = {m \in message : m.session # s}
    /\ UNCHANGED <<task, call, worker, reports, restarts>>

PageDeletesSession(s) ==
    /\ page.session = s
    /\ DeleteSession(s)
    /\ \E next \in (Open \ {s}) \cup {NoSession} :
          /\ next = NoSession <=> Open = {s}
          /\ page' = Cleared(next)

\* Another page or client
ClientDeletesSession(s) == DeleteSession(s) /\ UNCHANGED page

-----------------------------------------------------------------------------
(* The page's effects                                                       *)

Polling == page.armed # NoTask /\ page.armed.status \in {"queued", "running"}

\* A rendering with a new liveTask runs the effect's cleanup: what it asked for
\* before is dropped when it comes.
PageRenders ==
    /\ page.due
    /\ page' = [page EXCEPT !.due = FALSE, !.armed = page.live,
                            !.answers = {}, !.refreshing = FALSE]
    /\ UNCHANGED <<session, message, task, call, worker, reports, restarts>>

\* The interval fires and the server reads the task.
Poll ==
    /\ Polling /\ Cardinality(page.answers) < MaxAnswers
    /\ page' = [page EXCEPT !.answers = @ \cup {Snapshot(page.armed.task)}]
    /\ UNCHANGED <<session, message, task, call, worker, reports, restarts>>

\* ... without the test for the result
HasStatus(a) == a.status = "completed"

HasResult(a) == a.status = "completed" /\ a.result # "none"

\* ... with the task kept until it has a result
ReceivesResults(p, a) ==
    [p EXCEPT !.answers = @ \ {a},
              !.live  = IF HasResult(a) THEN a ELSE @,
              !.due   = @ \/ HasResult(a),
              !.shown = IF HasResult(a) THEN a.task ELSE @,
              !.submitting = @ /\ a.status \notin {"failed", "gone"}]

Receives(p, a) ==
    [p EXCEPT !.answers = @ \ {a},
              !.live    = IF a.status = "gone" THEN @ ELSE a,
              !.due     = @ \/ a.status # "gone",
              !.shown   = IF HasResult(a) THEN a.task ELSE @,
              !.session = IF HasResult(a) THEN call[a.task].session ELSE @,
              !.refreshing = @ \/ HasResult(a),
              !.submitting = @ /\ a.status \notin {"failed", "gone"}]

\* Responses arrive in any order.
PollReturns ==
    /\ \E a \in page.answers : page' = Receives(page, a)
    /\ UNCHANGED <<session, message, task, call, worker, reports, restarts>>

\* The sessions and the history have been read again, and no rendering has run
\* the effect's cleanup meanwhile.
RefreshReturns ==
    /\ page.refreshing
    /\ page' = [page EXCEPT !.refreshing = FALSE, !.submitting = FALSE]
    /\ UNCHANGED <<session, message, task, call, worker, reports, restarts>>

-----------------------------------------------------------------------------

\* Tasks and threads live in the server's memory; sessions and messages stay.
Restart ==
    /\ restarts < MaxRestarts
    /\ restarts' = restarts + 1
    /\ task' = [t \in Task |-> NoSnapshot]
    /\ worker' = [t \in Task |-> [worker[t] EXCEPT !.at = "none"]]
    /\ call' = [t \in Task |->
          [call[t] EXCEPT !.at = IF @ \in {"unsent", "over"} THEN @ ELSE "refuse"]]
    /\ UNCHANGED <<session, message, reports, page>>

CallStep(t) ==
    ResolveSession(t) \/ CreateLatest(t) \/ Enqueue(t) \/ AnswerCall(t) \/ RefuseCall(t)

WorkerStep(t) ==
    \/ Begin(t) \/ LogBegin(t) \/ AgentReports(t) \/ ReportApplied(t)
    \/ AgentConcludes(t) \/ ConclusionApplied(t) \/ AgentAnswers(t) \/ WorkerRaises(t)
    \/ SaveUserMessage(t) \/ SaveReply(t) \/ Rename(t) \/ LogEnd(t) \/ Finish(t)
    \/ LogFailure(t) \/ Fail(t)

UserStep ==
    \/ \E t \in Task : Submit(t) \/ ClientSends(t)
    \/ \E s \in Session : \/ PageCreatesSession(s) \/ PageSelectsSession(s)
                          \/ PageDeletesSession(s) \/ ClientDeletesSession(s)

Next ==
    \/ \E t \in Task : CallStep(t) \/ WorkerStep(t)
    \/ UserStep \/ PageRenders \/ Poll \/ PollReturns \/ RefreshReturns \/ Restart

Spec == Init /\ [][Next]_vars

(***************************************************************************)
(* Threads run, an agent's turn ends, the browser renders, its interval    *)
(* fires and responses come.  Users and restarts owe nothing.              *)
(***************************************************************************)
FairSpec ==
    /\ Spec
    /\ \A t \in Task : WF_vars(CallStep(t)) /\ WF_vars(WorkerStep(t))
    /\ WF_vars(PageRenders) /\ WF_vars(Poll) /\ WF_vars(PollReturns) /\ WF_vars(RefreshReturns)
=============================================================================
