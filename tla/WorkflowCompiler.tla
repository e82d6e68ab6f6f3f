--------------------------- MODULE WorkflowCompiler ---------------------------
(***************************************************************************)
(* WorkflowCompiler.compile: which definitions become the workflow that    *)
(* WorkflowGraph takes as given, and what the compiled workflow is.  A     *)
(* definition is a record of lists, as its author wrote it:                *)
(*   nodes       [id, type, agentRef, merges, approval, join] of every     *)
(*               NodeSpec (agentRef, merges and approval say that the      *)
(*               field is not None);                                       *)
(*   edges       [id, from, to, cond] of every EdgeSpec;                   *)
(*   entry       entry_node_id;                                            *)
(*   allowCycles allow_cycles;                                             *)
(*   ends        terminal_conditions, a set of [kind, node].               *)
(* The cache of the compiler is left out: a definition is registered once  *)
(* under its name and version.                                             *)
(***************************************************************************)
EXTENDS Integers, Sequences, FiniteSets

Ids(specs) == {specs[i].id : i \in DOMAIN specs}

\* _require_unique of the dataclasses
UniqueIds(specs) == \A i, j \in DOMAIN specs : specs[i].id = specs[j].id => i = j

\* NodeSpec.__post_init__, and JoinPolicy's for its join policy
NodeSpecHolds(spec) ==
    /\ spec.agentRef => spec.type = "agent"
    /\ spec.type = "merge" => spec.merges
    /\ spec.type = "human_gate" => spec.approval
    /\ spec.join.kind = "quorum" => spec.join.quorum > 0

\* WorkflowDefinition.__post_init__
DefinitionHolds(d) ==
    /\ d.nodes # <<>>
    /\ \A i \in DOMAIN d.nodes : NodeSpecHolds(d.nodes[i])
    /\ UniqueIds(d.nodes) /\ d.entry \in Ids(d.nodes)
    /\ UniqueIds(d.edges)

EdgesInto(d, n) == {i \in DOMAIN d.edges : d.edges[i].to = n}
EdgesOut(d, n) == {i \in DOMAIN d.edges : d.edges[i].from = n}

EdgeReferencesHold(d) ==
    \A i \in DOMAIN d.edges : {d.edges[i].from, d.edges[i].to} \subseteq Ids(d.nodes)

TerminalConditionsHold(d) ==
    \A c \in d.ends : c.kind = "node_completed" => c.node \in Ids(d.nodes)

\* The quorum is compared with all incoming edges; a node without any is let
\* through, and so is an entry that has some.
NodeConstraintsHold(d) ==
    \A i \in DOMAIN d.nodes :
        LET spec     == d.nodes[i]
            incoming == EdgesInto(d, spec.id)
        IN  /\ spec.type = "merge" => incoming # {}
            /\ spec.type = "human_gate" => spec.approval
            /\ spec.join.kind = "quorum" /\ incoming # {} =>
                  spec.join.quorum <= Cardinality(incoming)

-----------------------------------------------------------------------------
(* _contains_cycle: a depth-first search with the nodes on the way down     *)
(* (visiting) and those done with (visited).                                *)

RECURSIVE VisitAll(_, _, _), VisitNode(_, _, _)

VisitNode(d, n, search) ==
    IF n \in search.visiting THEN [search EXCEPT !.cycle = TRUE]
    ELSE IF n \in search.visited THEN search
    ELSE LET below == VisitAll(d, {d.edges[i].to : i \in EdgesOut(d, n)},
                               [search EXCEPT !.visiting = @ \cup {n}])
         IN  IF below.cycle THEN below
             ELSE [below EXCEPT !.visiting = @ \ {n}, !.visited = @ \cup {n}]

\* any(visit(n) for n in nodes): the order does not change the answer.
VisitAll(d, nodes, search) ==
    IF search.cycle \/ nodes = {} THEN search
    ELSE LET n == CHOOSE first \in nodes : TRUE
         IN  VisitAll(d, nodes \ {n}, VisitNode(d, n, search))

ContainsCycle(d) ==
    VisitAll(d, Ids(d.nodes), [visiting |-> {}, visited |-> {}, cycle |-> FALSE]).cycle

\* What the search is for: some nodes each have an edge to one of them.
HasCycle(d) ==
    \E S \in (SUBSET Ids(d.nodes)) \ {{}} :
        \A n \in S : \E i \in EdgesOut(d, n) : d.edges[i].to \in S

-----------------------------------------------------------------------------

\* The definitions compile() lets through.
Compiles(d) ==
    /\ DefinitionHolds(d)
    /\ EdgeReferencesHold(d)
    /\ TerminalConditionsHold(d)
    /\ NodeConstraintsHold(d)
    /\ ContainsCycle(d) => d.allowCycles /\ d.ends # {}

SpecOf(d, n) == d.nodes[CHOOSE i \in DOMAIN d.nodes : d.nodes[i].id = n]

\* CompiledWorkflow: the lists as node_map, edges and terminal conditions.
Compiled(d) ==
    [node  |-> Ids(d.nodes),
     kind  |-> [n \in Ids(d.nodes) |-> SpecOf(d, n).type],
     join  |-> [n \in Ids(d.nodes) |-> SpecOf(d, n).join],
     edge  |-> {d.edges[i] : i \in DOMAIN d.edges},
     entry |-> d.entry,
     ends  |-> d.ends]

-----------------------------------------------------------------------------
(* InMemoryWorkflowProvider: a version is the tuple of its numbers.         *)

\* Tuples compare as in Python: the first difference decides, and a tuple is
\* after its own beginning.
VersionAfter(v, w) ==
    \E i \in DOMAIN v :
        /\ i <= Len(w) + 1
        /\ \A j \in 1 .. i - 1 : v[j] = w[j]
        /\ i \in DOMAIN w => v[i] > w[i]

\* get_definition without a version
LatestVersion(versions) ==
    CHOOSE v \in versions : \A w \in versions \ {v} : VersionAfter(v, w)

-----------------------------------------------------------------------------

\* One version is the latest, whichever are registered.
ASSUME VersionAssumption ==
    LET Versions == UNION {[1 .. n -> {1, 9, 10}] : n \in 1 .. 2}
    IN  \A v, w \in Versions :
            v # w => LatestVersion({v, w}) \in {v, w}
                     /\ (VersionAfter(v, w) <=> ~VersionAfter(w, v))

\* The search finds a cycle in a graph of three nodes just when it has one.
ASSUME SearchAssumption ==
    \A pairs \in SUBSET ((1 .. 3) \X (1 .. 3)) :
        LET d == [nodes |-> [i \in 1 .. 3 |-> [id |-> i]],
                  edges |-> [p \in pairs |-> [from |-> p[1], to |-> p[2]]]]
        IN  ContainsCycle(d) <=> HasCycle(d)
=============================================================================
