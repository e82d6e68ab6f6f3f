---------------------------- MODULE RunLifecycle ----------------------------
(***************************************************************************)
(* What a thread promises of its runs, without nodes, interrupts or a      *)
(* scheduler: one run at a time, each of them ending once, for good, in    *)
(* one of three ways.                                                      *)
(***************************************************************************)
CONSTANTS Run, NoRun

VARIABLES
    current,   \* the run that has the thread
    phase      \* where every run is

vars == <<current, phase>>

Outcome == {"completed", "failed", "cancelled"}

TypeOK ==
    /\ current \in Run \cup {NoRun}
    /\ phase \in [Run -> {"absent", "running", "suspended"} \cup Outcome]

Init ==
    /\ current = NoRun
    /\ phase = [r \in Run |-> "absent"]

Begin(r) ==
    /\ current = NoRun
    /\ phase[r] = "absent"
    /\ current' = r
    /\ phase' = [phase EXCEPT ![r] = "running"]

Suspend(r) ==
    /\ current = r /\ phase[r] = "running"
    /\ phase' = [phase EXCEPT ![r] = "suspended"]
    /\ UNCHANGED current

Resume(r) ==
    /\ current = r /\ phase[r] = "suspended"
    /\ phase' = [phase EXCEPT ![r] = "running"]
    /\ UNCHANGED current

Finish(r) ==
    /\ current = r
    /\ \/ phase[r] = "running" /\ \E outcome \in Outcome : phase' = [phase EXCEPT ![r] = outcome]
       \/ phase[r] = "suspended" /\ phase' = [phase EXCEPT ![r] = "cancelled"]
    /\ current' = NoRun

Next == \E r \in Run : Begin(r) \/ Suspend(r) \/ Resume(r) \/ Finish(r)

Spec == Init /\ [][Next]_vars
=============================================================================
