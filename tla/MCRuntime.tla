------------------------------ MODULE MCRuntime ------------------------------
(***************************************************************************)
(* Small workflows for the model checker.                                  *)
(***************************************************************************)
EXTENDS RuntimeSafety, Workflows, TLC

Symmetry == Permutations(Run)

Answer(status, payload, asks) ==
    [status |-> status, artifact |-> payload, asks |-> asks, actions |-> {}]

Payloads == {"ok", "bad", "approved", "approval_required", "empty"}

NoEnd == {}

-----------------------------------------------------------------------------
(* Review                                                                    *)

ReviewNode == Compiled(ReviewDefinition).node
ReviewEdge == Compiled(ReviewDefinition).edge
ReviewKind == Compiled(ReviewDefinition).kind
ReviewJoin == Compiled(ReviewDefinition).join
ReviewOutput == <<{}, {}, {"ok"}, {"ok"}>>
ReviewBinds == {1, 2}
ReviewVerdict == <<{}, {}, {"allow", "require_approval", "retry_later"}, {}>>

\* The agent succeeds, fails, waits, or asks a question.
ReviewAnswers ==
    [n \in ReviewNode |->
        IF n = 1 THEN {Answer("succeeded", "ok", FALSE), Answer("succeeded", "bad", FALSE),
                       Answer("failed", "NoArtifact", FALSE),
                       Answer("waiting", "NoArtifact", FALSE),
                       Answer("blocked", "NoArtifact", TRUE)}
                 ELSE {}]

-----------------------------------------------------------------------------
(* Fan                                                                       *)

FanNode == Compiled(FanDefinition).node
FanEdge == Compiled(FanDefinition).edge
FanKind == Compiled(FanDefinition).kind
FanJoin == Compiled(FanDefinition).join
FanEnd == Compiled(FanDefinition).ends
FanOutput == <<{"ok", "bad", "empty"}, {}, {"ok"}, {}, {"ok"}, {"ok"}, {"ok"}>>
FanBinds == {1, 4}
\* Without a policy engine, or with one that redacts the tool's input.
FanVerdict ==
    [n \in FanNode |->
        IF FanKind[n] = "tool"
        THEN {"none", StaticVerdict([deny |-> {}, approval |-> {}, redact |-> {n}], n)}
        ELSE {}]
FanAnswers ==
    [n \in FanNode |->
        IF n = 2 THEN {Answer("succeeded", "NoArtifact", FALSE),
                       Answer("failed", "NoArtifact", FALSE),
                       Answer("waiting", "NoArtifact", FALSE)}
                 ELSE {}]

-----------------------------------------------------------------------------
(* Step                                                                      *)

StepNode == Compiled(StepDefinition).node
StepEdge == Compiled(StepDefinition).edge
StepKind == Compiled(StepDefinition).kind
StepJoin == Compiled(StepDefinition).join
StepOutput == <<{}, {"ok"}>>
StepVerdict == <<{}, {}>>
StepAnswers == <<{Answer("succeeded", "NoArtifact", FALSE), Answer("failed", "NoArtifact", FALSE),
                  Answer("blocked", "NoArtifact", TRUE)}, {}>>
=============================================================================
