------------------------------ MODULE Workflows ------------------------------
(***************************************************************************)
(* The small workflows the runtime is checked on, as the definitions their *)
(* author would register; the runtime is given what the compiler makes of  *)
(* them.                                                                   *)
(***************************************************************************)
EXTENDS WorkflowCompiler

LOCAL Always(id, from, to) ==
    [id |-> id, from |-> from, to |-> to, cond |-> [kind |-> "always", accepts |-> {}]]

LOCAL If(id, from, to, kind, accepts) ==
    [id |-> id, from |-> from, to |-> to, cond |-> [kind |-> kind, accepts |-> accepts]]

LOCAL JoinOf(kind, quorum) == [kind |-> kind, quorum |-> quorum]

LOCAL Joining(id, type, join) ==
    [id |-> id, type |-> type, agentRef |-> type = "agent", merges |-> type = "merge",
     approval |-> type = "human_gate", join |-> join]

\* A node without a join policy waits for all its sources.
LOCAL NodeOf(id, type) == Joining(id, type, JoinOf("all_success", 0))

\* Review: an agent drafts (1); a person approves (2) while a tool publishes a
\* good draft (3); both are merged (4).
ReviewDefinition ==
    [entry |-> 1, allowCycles |-> FALSE, ends |-> {},
     nodes |-> <<NodeOf(1, "agent"), NodeOf(2, "human_gate"), NodeOf(3, "tool"),
                 NodeOf(4, "merge")>>,
     edges |-> <<Always(1, 1, 2), If(2, 1, 3, "result", {"ok"}), Always(3, 2, 4),
                 If(4, 3, 4, "policy", {"allow"})>>]

\* Fan: after a condition (1) an agent (2) and, depending on the condition, a
\* tool (3), a gate (4) or a node nothing can execute (7); a quorum of two (5)
\* ends the run, an all_done join (6) may still run after it.
FanDefinition ==
    [entry |-> 1, allowCycles |-> FALSE,
     ends |-> {[kind |-> "node_completed", node |-> 5], [kind |-> "fatal_failure", node |-> 1],
               [kind |-> "custom", node |-> 1]},
     nodes |-> <<NodeOf(1, "condition"), NodeOf(2, "agent"),
                 Joining(3, "tool", JoinOf("any_success", 0)), NodeOf(4, "human_gate"),
                 Joining(5, "merge", JoinOf("quorum", 2)),
                 Joining(6, "noop", JoinOf("all_done", 0)), NodeOf(7, "noop")>>,
     edges |-> <<Always(1, 1, 2), If(2, 1, 3, "result", {"ok"}), If(3, 1, 4, "result", {"bad"}),
                 Always(4, 2, 5), Always(5, 3, 5), If(6, 4, 5, "result", {"approval_required"}),
                 Always(7, 2, 6), Always(8, 5, 6), If(9, 3, 6, "custom", {}),
                 If(10, 1, 7, "result", {"empty"})>>]

\* Step: one agent, then a noop.
StepDefinition ==
    [entry |-> 1, allowCycles |-> FALSE, ends |-> {},
     nodes |-> <<NodeOf(1, "agent"), NodeOf(2, "noop")>>, edges |-> <<Always(1, 1, 2)>>]

\* The compiler lets them through, and none of what it refuses: a quorum larger
\* than the sources, an edge to no node, a loop without an end.
ASSUME CompilerAssumption ==
    /\ \A d \in {ReviewDefinition, FanDefinition, StepDefinition} : Compiles(d)
    /\ ~Compiles([FanDefinition EXCEPT !.nodes[5].join.quorum = 4])
    /\ ~Compiles([FanDefinition EXCEPT !.edges[3].to = 8])
    /\ ~Compiles([ReviewDefinition EXCEPT !.edges[4].to = 1])
    /\ ~Compiles([ReviewDefinition EXCEPT !.edges[4].to = 1, !.allowCycles = TRUE])
    /\ ~Compiles([StepDefinition EXCEPT !.nodes[2].type = "merge"])
=============================================================================
