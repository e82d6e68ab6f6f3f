---------------------------- MODULE WorkflowGraph ----------------------------
(***************************************************************************)
(* A compiled workflow (CompiledWorkflow of workflow_models.py) and the    *)
(* pure functions the runtime asks of it: which nodes may run now, in      *)
(* which order the scheduler takes them, and whether the run is over       *)
(* (selectors.py and scheduler.py).  The functions take the part of the    *)
(* snapshot they read as arguments: the status of every node, the payload  *)
(* of its output artifact and the policy actions recorded on it.           *)
(*                                                                         *)
(* Node identifiers are numbers: the code compares them (it sorts ready    *)
(* nodes by identifier) and does nothing else with them.                   *)
(***************************************************************************)
EXTENDS Integers, Sequences, FiniteSets

CONSTANTS
    Node,               \* keys of CompiledWorkflow.node_map
    Entry,              \* entry_node_id
    Edge,               \* edge_specs, each with its own edge_id
    Join,               \* join_policy of every node
    TerminalCondition,  \* terminal_conditions; {} when none is declared
    Payload,            \* classes of artifact payload that conditions tell apart
    NoArtifact,         \* output_artifact_id is None
    MaxParallel,        \* SchedulerConfig.max_parallel_nodes
    QueuePolicy         \* SchedulerConfig.node_queue_policy

NodeStatus == {"pending", "ready", "running", "waiting", "blocked",
               "succeeded", "failed", "skipped", "cancelled"}

\* TERMINAL_NODE_STATUSES
TerminalNodeStatus == {"succeeded", "failed", "skipped", "cancelled"}

PolicyAction == {"allow", "deny", "require_approval", "redact", "degrade", "retry_later"}

(***************************************************************************)
(* An edge condition: "always" (also a missing condition), "result" (a     *)
(* test of the source's artifact: RESULT_FIELD_EQUALS and                  *)
(* RESULT_FIELD_EXISTS, given by the payload classes that satisfy it),     *)
(* "policy" (POLICY_ACTION: an action recorded on the source) or "custom"  *)
(* (CUSTOM_REF, never satisfied).                                          *)
(***************************************************************************)
EdgeCondition == [kind : {"always", "result", "policy", "custom"},
                  accepts : SUBSET (Payload \cup PolicyAction)]

JoinPolicy == [kind : {"all_success", "any_success", "all_done", "quorum"},
               quorum : Nat]

TerminalConditionSpec ==
    [kind : {"all_terminal", "node_completed", "fatal_failure", "custom"},
     node : Node]

ASSUME NodeAssumption == Node \subseteq Nat /\ IsFiniteSet(Node) /\ Entry \in Node
ASSUME EdgeAssumption ==
    Edge \subseteq [id : Nat, from : Node, to : Node, cond : EdgeCondition]
ASSUME JoinAssumption == Join \in [Node -> JoinPolicy]
ASSUME TerminalAssumption == TerminalCondition \subseteq TerminalConditionSpec
ASSUME PayloadAssumption == NoArtifact \notin Payload
ASSUME SchedulerAssumption ==
    MaxParallel \in Nat \ {0} /\ QueuePolicy \in {"fifo", "priority"}

-----------------------------------------------------------------------------
(* Lists.  The runtime keeps lists without duplicates.                      *)

Elements(list) == {list[i] : i \in DOMAIN list}

\* The pairs of a list in the order the list has them.
ListOrder(list) ==
    {<<list[p[1]], list[p[2]]>> : p \in {q \in (DOMAIN list) \X (DOMAIN list) : q[1] < q[2]}}

\* The lists of the members of S that agree with a strict order (one, when the
\* order is total on S).
Listings(S, order) ==
    {list \in [1 .. Cardinality(S) -> S] :
        \A i, j \in 1 .. Cardinality(S) : i < j => <<list[i], list[j]>> \in order}

\* [candidate for candidate in list if candidate != n]
WithoutNode(list, n) == Listings(Elements(list) \ {n}, ListOrder(list))

\* _merge_unique(base, incoming)
MergeUnique(base, incoming) ==
    {base \o rest :
        rest \in Listings(Elements(incoming) \ Elements(base), ListOrder(incoming))}

-----------------------------------------------------------------------------
(* DefaultStateSelector                                                     *)

Incoming(n) == {e \in Edge : e.to = n}

EdgeConditionSatisfied(e, artifact, actions) ==
    \/ e.cond.kind = "always"
    \/ e.cond.kind = "policy" /\ actions[e.from] \cap e.cond.accepts # {}
    \/ e.cond.kind = "result" /\ artifact[e.from] \in e.cond.accepts

(***************************************************************************)
(* Only the edges whose condition holds now take part in the join: an edge *)
(* with a test on a source that has no artifact yet is left out of it.     *)
(***************************************************************************)
DependenciesSatisfied(n, status, artifact, actions) ==
    LET upstream  == {e \in Incoming(n) : EdgeConditionSatisfied(e, artifact, actions)}
        succeeded == {e \in upstream : status[e.from] = "succeeded"}
    IN  IF Incoming(n) = {}
        THEN n = Entry
        ELSE /\ upstream # {}
             /\ \/ Join[n].kind = "all_success" /\ succeeded = upstream
                \/ Join[n].kind = "any_success" /\ succeeded # {}
                \/ /\ Join[n].kind = "all_done"
                   /\ \A e \in upstream : status[e.from] \in TerminalNodeStatus
                \/ Join[n].kind = "quorum" /\ Cardinality(succeeded) >= Join[n].quorum

ReadyAgain(status, artifact, actions, asking) ==
    {n \in Node :
        \/ status[n] = "ready"
        \/ /\ status[n] \in {"pending", "blocked", "succeeded"}
           /\ n \notin asking
           /\ DependenciesSatisfied(n, status, artifact, actions)}

ReadyThoughAsking(status, artifact, actions, asking) ==
    {n \in Node :
        \/ status[n] = "ready"
        \/ /\ status[n] \in {"pending", "blocked"}
           /\ DependenciesSatisfied(n, status, artifact, actions)}

\* select_ready_nodes; asking is the set of nodes with a pending interrupt.
ReadyNodes(status, artifact, actions, asking) ==
    {n \in Node :
        \/ status[n] = "ready"
        \/ /\ status[n] \in {"pending", "blocked"}
           /\ n \notin asking
           /\ DependenciesSatisfied(n, status, artifact, actions)}

TerminalConditionMet(status) ==
    LET allTerminal == \A n \in Node : status[n] \in TerminalNodeStatus
    IN  IF TerminalCondition = {}
        THEN allTerminal
        ELSE \E c \in TerminalCondition :
                \/ c.kind = "all_terminal" /\ allTerminal
                \/ c.kind = "node_completed" /\ status[c.node] = "succeeded"
                \/ c.kind = "fatal_failure" /\ \E n \in Node : status[n] = "failed"

-----------------------------------------------------------------------------
(* FrontierScheduler                                                        *)

Position(list, n) ==
    IF n \in Elements(list) THEN CHOOSE i \in DOMAIN list : list[i] = n
                            ELSE Len(list) + 1

\* The sort key of _order_ready_nodes: by place in the frontier, then by
\* identifier; the priority policy sorts by identifier alone.
ReadyOrder(frontier) ==
    {p \in Node \X Node :
        IF QueuePolicy = "priority" \/ Position(frontier, p[1]) = Position(frontier, p[2])
        THEN p[1] < p[2]
        ELSE Position(frontier, p[1]) < Position(frontier, p[2])}

AvailableSlots(active) ==
    IF Cardinality(active) < MaxParallel THEN MaxParallel - Cardinality(active) ELSE 0

\* The first free slots of the ordered ready nodes.
Batches(ready, frontier, active) ==
    {SubSeq(list, 1, IF Len(list) < AvailableSlots(active)
                     THEN Len(list) ELSE AvailableSlots(active)) :
        list \in Listings(ready, ReadyOrder(frontier))}
=============================================================================
