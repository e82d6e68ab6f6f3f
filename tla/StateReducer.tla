---------------------------- MODULE StateReducer ----------------------------
(***************************************************************************)
(* StateReducer.apply: a snapshot of one run and a patch give the next     *)
(* snapshot.  A record that is touched gets the next version; the pending  *)
(* interrupts of the run state follow the interrupts.                      *)
(*                                                                         *)
(* A record is a function of its fields; updates are a function of the     *)
(* fields to set, NoUpdate when there are none.  Reduced is defined for    *)
(* patches that Refused does not refuse.                                   *)
(***************************************************************************)
EXTENDS Naturals, FiniteSets

NoUpdate == <<>>

EmptyPatch ==
    [threadRecord |-> NoUpdate, runRecord |-> NoUpdate, threadState |-> NoUpdate,
     runState |-> NoUpdate, nodes |-> NoUpdate, artifacts |-> {}, raised |-> {},
     answers |-> NoUpdate, decisions |-> {}]

Bumped(record) == [record EXCEPT !.version = @ + 1]

Updated(record, updates) ==
    IF DOMAIN updates = {} THEN record
    ELSE Bumped([f \in DOMAIN record |-> IF f \in DOMAIN updates THEN updates[f] ELSE record[f]])

BumpedIf(condition, record) == IF condition THEN Bumped(record) ELSE record

NodesUpdated(nodes, updates) ==
    [n \in DOMAIN nodes |->
        IF n \in DOMAIN updates THEN Updated(nodes[n], updates[n]) ELSE nodes[n]]

\* The artifact of a producer is named by the first output it has.
ArtifactsAdded(nodes, artifacts) ==
    [n \in DOMAIN nodes |->
        IF nodes[n].output = {} /\ \E a \in artifacts : a.producer = n
        THEN Bumped([nodes[n] EXCEPT !.output = {a \in artifacts : a.producer = n}])
        ELSE nodes[n]]

DecisionsNoted(nodes, decisions) ==
    [n \in DOMAIN nodes |->
        LET new == {d \in decisions : d.node = n} \ nodes[n].decisions
        IN  [nodes[n] EXCEPT !.decisions = @ \cup new, !.version = @ + Cardinality(new)]]

\* Interrupts are raised open.
InterruptsRaised(interrupts, raised) ==
    [i \in DOMAIN interrupts \cup {r.id : r \in raised} |->
        IF i \in DOMAIN interrupts THEN interrupts[i]
        ELSE [version |-> 0, status |-> "open", node |-> (CHOOSE r \in raised : r.id = i).node]]

InterruptsAnswered(interrupts, answers) ==
    [i \in DOMAIN interrupts |->
        IF i \in DOMAIN answers THEN Updated(interrupts[i], answers[i]) ELSE interrupts[i]]

\* An answered interrupt stays pending only when the update leaves it open.
PendingAfter(pending, raised, interrupts, answered) ==
    {i \in pending \cup {r.id : r \in raised} \cup answered :
        i \in answered => interrupts[i].status = "open"}

\* What apply raises ValueError for.
Refused(snapshot, patch) ==
    \/ ~(DOMAIN patch.nodes \subseteq DOMAIN snapshot.nodes)
    \/ patch.artifacts \cap snapshot.artifacts # {}
    \/ {r.id : r \in patch.raised} \cap DOMAIN snapshot.interrupts # {}
    \/ ~(DOMAIN patch.answers \subseteq
            DOMAIN snapshot.interrupts \cup {r.id : r \in patch.raised})

Reduced(snapshot, patch) ==
    LET raised     == InterruptsRaised(snapshot.interrupts, patch.raised)
        interrupts == InterruptsAnswered(raised, patch.answers)
        answered   == DOMAIN patch.answers
        threads    == Updated(snapshot.threadState, patch.threadState)
        state      == BumpedIf(patch.raised # {}, Updated(snapshot.runState, patch.runState))
        nodes      == ArtifactsAdded(NodesUpdated(snapshot.nodes, patch.nodes), patch.artifacts)
    IN  [threadRecord |-> Updated(snapshot.threadRecord, patch.threadRecord),
         runRecord    |-> Updated(snapshot.runRecord, patch.runRecord),
         threadState  |-> BumpedIf(patch.artifacts # {},
                             [threads EXCEPT !.artifacts = @ \cup patch.artifacts]),
         runState     |-> BumpedIf(answered # {},
                             [state EXCEPT !.pending =
                                 PendingAfter(@, patch.raised, interrupts, answered)]),
         nodes        |-> DecisionsNoted(nodes, patch.decisions),
         artifacts    |-> snapshot.artifacts \cup patch.artifacts,
         interrupts   |-> interrupts]
=============================================================================
