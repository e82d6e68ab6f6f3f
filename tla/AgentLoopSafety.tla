--------------------------- MODULE AgentLoopSafety ---------------------------
(***************************************************************************)
(* What the policy of the agent loop is for.                               *)
(***************************************************************************)
EXTENDS AgentLoop

Entry == [call : Call, ok : BOOLEAN, shows : Path \cup {NoPath},
          applicable : BOOLEAN, matches : 0..MaxMatches]

\* Every variable holds what invoke keeps in it.
TypeOK ==
    /\ turns \in 0..MaxTurns /\ turn \in Turn
    /\ recalled.hit \in BOOLEAN /\ recalled.targets \in Seq(Path)
    /\ saved \subseteq Seq(Path)
    /\ step \in 1..MaxSteps + 1
    /\ at \in {"reason", "call", "finalize", "conclude", "done", "failed"}
    /\ decision \in Call \cup {NoCall}
    /\ trace \in Seq(Entry) /\ Len(trace) <= MaxSteps
    /\ files \in [DOMAIN files -> Patterns]
    /\ changes \in 0..MaxChanges

\* Whatever the policy makes of a suggestion - a dedicated tool, the reading
\* of a remembered file, a preview, a listing of the workspace - it never
\* decides to call a tool that is not bound to the agent, or with no invoker.
OnlyBoundTools ==
    at = "call" => turn.invoker /\ decision.tool \in turn.tools

\* No edit is attempted in a turn before a call of the same turn has answered
\* about its target, whatever earlier turns remembered of it, and none whose
\* conditions of success are unknown (_edit_readiness_status).
EditsAreReady ==
    \A i \in 1..Len(trace) :
        trace[i].call.tool \in Editing =>
            /\ ConditionsKnown
            /\ \E j \in 1..i - 1 : trace[j].ok /\ trace[j].shows = EditTarget(trace[i].call)

\* An agent that has the preview tool attempts a structured edit only after a
\* preview of that edit that found it applicable; an edit that states no number,
\* or states it as text, may rely on the preview of another number.
EditsArePreviewed ==
    \A i \in 1..Len(trace) :
        trace[i].call.tool \in Structured /\ "preview_structured_edit" \in turn.tools =>
            \E j \in 1..i - 1 :
                /\ trace[j].applicable
                /\ trace[j].call.kind = trace[i].call.tool
                /\ trace[j].call.path = trace[i].call.path
                /\ trace[j].call.text = trace[i].call.text
                /\ StatesNumber(trace[i].call) =>
                       trace[j].call.expected = trace[i].call.expected

\* A preview tells the truth: when a structured edit that states by a number how
\* many occurrences it expects is about to be made, and the file still holds as
\* many as its preview counted, the edit is not refused.
PreviewPredicts ==
    at = "call" /\ decision.tool \in Structured /\ StatesNumber(decision)
        /\ "preview_structured_edit" \in turn.tools
        /\ Exists(decision.path) /\ Matches(decision) = trace[FirstPreview(decision)].matches
    => ~EditRefuses(decision)

\* A tool of broad exploration answers at most twice in a turn, even when the
\* suggestions mix the tools or the gate of edits asks for a listing.
BroadIsBounded ==
    \A tool \in Broad : Cardinality({i \in Uses(tool) : trace[i].ok}) <= 2

\* A turn that has begun to reason ends, with a reply or with a failure.
TurnEnds == at = "reason" ~> at \in {"done", "failed"}

=============================================================================
