-------------------------- MODULE PlaygroundSafety --------------------------
(***************************************************************************)
(* What the playground owes its users: what a finished task says, what the *)
(* chat tables hold when it says so, and what the page does about it.      *)
(***************************************************************************)
EXTENDS Playground

Saved(t, role) == [session |-> call[t].session, task |-> t, role |-> role] \in message

\* The question of a task is in the tables if it is one: a blank one is left out.
Asked(t) == Saved(t, "user") \/ t \in Blank

SessionOpen(t) == call[t].session \in Open

Gone(t) == task[t].status = "absent"

Ended(t) == worker[t].at = "done" /\ ~Gone(t)

-----------------------------------------------------------------------------
(* Safety                                                                   *)

\* A task whose worker is done tells its outcome one way only: completed with a
\* result and no error, or failed with an error and no result, whatever statuses
\* the agent's own progress reports put in between (_run_message_task,
\* _record_progress_event).
FinishedTaskSaysHow ==
    \A t \in Task : Ended(t) =>
        \/ task[t].status = "completed" /\ task[t].result # "none" /\ ~task[t].error
        \/ task[t].status = "failed" /\ task[t].result = "none" /\ task[t].error

\* Nobody reads a final status whose event is not in the task's log yet: each
\* status is logged in a lock section of its own, before it is set.
EndIsLogged ==
    \A t \in Task :
        task[t].status \in {"completed", "failed"} =>
            \E i \in DOMAIN task[t].log : task[t].log[i] = task[t].status

\* A result is published after its exchange is in the tables (unless the session
\* was deleted meanwhile): the question unless it is blank, and the reply when the
\* agent gave one (_run_agent_session_request, _persist_chat_exchange).
ResultIsSaved ==
    \A t \in Task :
        task[t].result # "none" /\ SessionOpen(t) =>
            /\ Asked(t)
            /\ Saved(t, "agent") <=> task[t].result = "responded"

\* A failed database or a restart may cut an exchange short, and never leaves a
\* reply without its question in a session one can open: only the reply to a blank
\* question stands alone.
RepliesHaveQuestions ==
    \A t \in Task : SessionOpen(t) /\ Saved(t, "agent") => Asked(t)

\* A task says how it ended exactly when its log says so.
EndsAreTold == FinishedTaskSaysHow /\ EndIsLogged

\* The chat tables hold the exchange of a task as far as the task says.
ExchangesAreWhole == ResultIsSaved /\ RepliesHaveQuestions

\* What a page shows as the result of a task is in the tables, the reply and the
\* question unless it is blank, as long as the session exists, and across restarts:
\* the history that the page reads when the result comes has the exchange, also
\* when another task is under way (the polling effect of the page).
ShownIsSaved ==
    \A t \in Task : page.shown = t /\ SessionOpen(t) =>
        /\ Asked(t)
        /\ worker[t].outcome = "responded" => Saved(t, "agent")

-----------------------------------------------------------------------------
(* Liveness                                                                 *)

\* A task that was accepted ends, unless a restart of the server forgets it:
\* no exception on the way keeps its worker from closing it (_run_message_task).
TaskEnds ==
    \A t \in Task : task[t].status = "queued" ~> Ended(t) \/ Gone(t)

\* A page does not go on polling a task that has ended: it learns that it has,
\* whatever the order in which responses come (the polling effect of the page).
PollingStops ==
    \A t \in Task :
        Ended(t) /\ Polling /\ page.armed.task = t
            ~> ~(Polling /\ page.armed.task = t) \/ Gone(t)
=============================================================================
