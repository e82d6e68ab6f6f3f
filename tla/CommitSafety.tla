---------------------------- MODULE CommitSafety ----------------------------
(***************************************************************************)
(* What the event log and the checkpoints keep although the threads that   *)
(* commit for a run do not wait for each other.                            *)
(***************************************************************************)
EXTENDS RunCommits

\* The events of a run are numbered 1, 2, 3, ... without a gap or a repetition
\* ("sequence_no must increase"): of two threads that took the same number one
\* is refused, in the middle of its batch or before it.
NumbersAreDense == \A i \in 1 .. Len(events) : events[i] = i

\* A checkpoint covers its own state: the last event the saved run state names
\* is not later than the number of the checkpoint, which is not later than the
\* last event its payload names.  Events read from the number on never start
\* after something the state does not have yet.  And the thread never names a
\* checkpoint that was not created.
CheckpointsCoverTheirState ==
    /\ \A i \in 1 .. Len(checkpoints) :
          /\ checkpoints[i].state.last <= checkpoints[i].number
          /\ checkpoints[i].number <= checkpoints[i].last
          /\ checkpoints[i].last <= Len(events)
    /\ store.threadRecord.checkpoint <= Len(checkpoints)
=============================================================================
