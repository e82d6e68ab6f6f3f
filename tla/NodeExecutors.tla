---------------------------- MODULE NodeExecutors ----------------------------
(***************************************************************************)
(* What a node's executor may answer: the node types of basic.py, the tool *)
(* executor with the policy check in front of the tool, and agent          *)
(* implementations, of which only the result type is known.  An answer is  *)
(* reduced to what the runtime acts on: the status, the artifact the       *)
(* runtime makes of it, whether it asks the operator (it carries           *)
(* interrupts) and the policy actions it records.                          *)
(***************************************************************************)
EXTENDS WorkflowGraph

CONSTANTS
    Kind,         \* node_type of every node
    Binds,        \* nodes with an output_binding: their output becomes an artifact
    Output,       \* payload classes the node's own work may produce
    Verdict,      \* policy answers for the node's tool; "none": no policy engine
    AgentResult   \* answers of the node's agent implementation

NodeKind == {"noop", "condition", "merge", "human_gate", "tool", "agent"}

NodeResult ==
    [status : {"succeeded", "failed", "waiting", "blocked"},
     artifact : Payload \cup {NoArtifact},
     asks : BOOLEAN,
     actions : SUBSET PolicyAction]

ASSUME KindAssumption == Kind \in [Node -> NodeKind]
ASSUME BindsAssumption == Binds \subseteq Node
ASSUME OutputAssumption ==
    /\ {"approved", "approval_required", "empty"} \subseteq Payload
    /\ Output \in [Node -> SUBSET Payload]
ASSUME VerdictAssumption == Verdict \in [Node -> SUBSET (PolicyAction \cup {"none"})]
ASSUME AgentAssumption == AgentResult \in [Node -> SUBSET NodeResult]

-----------------------------------------------------------------------------

\* The runtime turns an output into an artifact only under an output_binding.
Bound(n, payload) == IF n \in Binds THEN payload ELSE NoArtifact

Succeeded(n, payload, actions) ==
    [status |-> "succeeded", artifact |-> Bound(n, payload), asks |-> FALSE,
     actions |-> actions]

Failed(actions) ==
    [status |-> "failed", artifact |-> NoArtifact, asks |-> FALSE, actions |-> actions]

\* An output of class payload together with an approval interrupt.
ApprovalRequested(n, payload, actions) ==
    [status |-> "waiting", artifact |-> Bound(n, payload), asks |-> TRUE,
     actions |-> actions]

\* noop, condition and merge always succeed with an output; so does a human gate
\* that requires no approval, which is a noop here.
BuiltinResults(n) == {Succeeded(n, p, {}) : p \in Output[n]}

\* A mistaken variant of the gate below, which the properties must notice.
GateOpen(n, answered) == {Succeeded(n, "approved", {})}

(***************************************************************************)
(* A human gate with a required approval: it asks until one interrupt of   *)
(* its node has been answered, and passes then, whatever the answer says.  *)
(***************************************************************************)
HumanGateResults(n, answered) ==
    IF answered THEN {Succeeded(n, "approved", {})}
                ELSE {ApprovalRequested(n, "approval_required", {})}

\* The tool itself, behind a policy check that let it through.
ToolRuns(n, actions) ==
    {Succeeded(n, p, actions) : p \in Output[n]} \cup {Failed(actions)}

\* StaticPolicyEngine.pre_tool_invoke: the first list that names the tool decides.
StaticVerdict(engine, tool) ==
    IF tool \in engine.deny THEN "deny"
    ELSE IF tool \in engine.approval THEN "require_approval"
    ELSE IF tool \in engine.redact THEN "redact"
    ELSE "allow"

(***************************************************************************)
(* PolicyAwareToolInvoker in front of the tool, ToolNodeExecutor behind    *)
(* it.  Any other action is refused like a denial, a redaction without a   *)
(* path to redact included.  An approval that was given is not looked at:  *)
(* the policy is asked again.                                              *)
(***************************************************************************)
ToolResults(n) ==
    UNION {CASE v = "none"             -> ToolRuns(n, {})
             [] v = "allow"            -> ToolRuns(n, {v})
             [] v = "redact"           -> ToolRuns(n, {v}) \cup {Failed({v})}
             [] v = "require_approval" -> {ApprovalRequested(n, "empty", {v})}
             [] v \in {"deny", "degrade", "retry_later"} -> {Failed({v})} :
           v \in Verdict[n]}

\* BasicNodeExecutor.execute with the tool and agent executors as delegates.
ExecutorResults(n, answered) ==
    CASE Kind[n] \in {"noop", "condition", "merge"} -> BuiltinResults(n)
      [] Kind[n] = "human_gate" -> HumanGateResults(n, answered)
      [] Kind[n] = "tool"       -> ToolResults(n)
      [] Kind[n] = "agent"      -> AgentResult[n]
=============================================================================
