--------------------------- MODULE AgentLoopProofs ---------------------------
(***************************************************************************)
(* What the policy of the agent loop guarantees for every set of tools, of *)
(* paths and of turns, and whatever the language model suggests: a call    *)
(* that is made is bound, an edit is ready and a structured edit previewed.*)
(***************************************************************************)
EXTENDS AgentLoopSafety, SequenceTheorems, FiniteSetTheorems, TLAPS

\* The step counts the calls of the turn, and a decision to call is a call.
CallsCounted ==
    /\ at \in {"reason", "call"} => step <= MaxSteps /\ Len(trace) = step - 1
    /\ at = "call" => decision \in Call

\* What the gates establish of a call about to be made.
DecisionReady ==
    at = "call" /\ decision.tool \in Editing => Ready(decision)
PreviewedBy(call, seen) ==
    /\ seen.applicable
    /\ seen.call.kind = call.tool
    /\ seen.call.path = call.path
    /\ seen.call.text = call.text
    /\ StatesNumber(call) => seen.call.expected = call.expected
\* The first preview of the edit about to be made is one that allows it.
FirstPreviewAllows(call) ==
    /\ FirstPreview(call) \in Previews(call)
    /\ trace[FirstPreview(call)].applicable
DecisionPreviewed ==
    at = "call" /\ decision.tool \in Structured /\ "preview_structured_edit" \in turn.tools =>
        \E j \in 1..Len(trace) : PreviewedBy(decision, trace[j])

LoopInv ==
    /\ TypeOK /\ CallsCounted
    /\ OnlyBoundTools /\ DecisionReady /\ DecisionPreviewed
    /\ EditsAreReady /\ EditsArePreviewed
-----------------------------------------------------------------------------
(***************************************************************************)
(* The calls the policy makes up are calls.                                *)
(***************************************************************************)
Paths == Path \cup {NoPath}

LEMMA OnIsCall ==
    ASSUME NEW tool \in Tool, NEW path \in Paths
    PROVE  /\ On(tool, path) \in Call
           /\ On(tool, path).tool = tool
           /\ On(tool, path).path = path
<1> 0 \in 0..MaxMatches
  BY BoundsAreNumbers
<1> QED
  BY DEF On, Call, Paths

LEMMA NoCallIsNone == NoCall.tool = "none" /\ NoCall \notin Call
  BY DEF NoCall, On, Call, Tool, Editing, Broad, Structured

LEMMA PreviewIsCall ==
    ASSUME NEW call \in Call, call.tool \in Structured
    PROVE  /\ PreviewOf(call) \in Call
           /\ PreviewOf(call).tool = "preview_structured_edit"
  BY DEF PreviewOf, Call, Tool, Structured

LEMMA TargetIsPath ==
    ASSUME TypeOK
    PROVE  /\ Target \in Paths
           /\ turn.hint \in Paths
           /\ turn.candidate \in Paths
           /\ turn.tools \subseteq Tool
  BY TurnsAreRequests DEF TypeOK, Target, Paths
-----------------------------------------------------------------------------
(***************************************************************************)
(* The policy chain, operator by operator.                                 *)
(***************************************************************************)
Bound(call) == call \in Call /\ call.tool \in turn.tools
BoundOrNone(call) == call = NoCall \/ Bound(call)

\* Reading a file that was not looked at is a call the agent may make.
LEMMA ReadIsBound ==
    ASSUME TypeOK, NEW path \in Paths, Unread(path)
    PROVE  Bound(Read(path)) /\ Read(path).tool \notin Editing \cup Broad
<1>1. "read_file" \in turn.tools /\ "read_file" \in Tool
  BY TargetIsPath DEF Unread
<1>2. Read(path) \in Call /\ Read(path).tool = "read_file"
  BY <1>1, OnIsCall DEF Read
<1> QED
  BY <1>1, <1>2 DEF Bound, Editing, Structured, Broad

LEMMA ListIsBound ==
    ASSUME TypeOK, "list_files" \in turn.tools
    PROVE  Bound(ListAll) /\ ListAll.tool \notin Editing
<1>1. Root \in Paths /\ "list_files" \in Tool
  BY TargetIsPath, PathsAreNamed DEF Paths
<1>2. ListAll \in Call /\ ListAll.tool = "list_files"
  BY <1>1, OnIsCall DEF ListAll
<1> QED
  BY <1>2 DEF Bound, Editing, Structured

LEMMA DirectivesAreBound ==
    ASSUME TypeOK, NEW tool \in Structured, Directives(tool) # {}
    PROVE  Bound(TheCall(Directives(tool)))
<1> DEFINE i == CHOOSE i \in Directives(tool) : TRUE
<1>1. i \in Directives(tool)
  OBVIOUS
<1>2. turn.directives \in Seq(Call)
  BY TurnsAreRequests DEF TypeOK
<1>3. i \in 1..Len(turn.directives) /\ turn.directives[i].tool = tool /\ tool \in turn.tools
  BY <1>1 DEF Directives
<1> QED
  BY <1>2, <1>3 DEF Bound, TheCall

LEMMA PreferredIsBound ==
    ASSUME TypeOK
    PROVE  BoundOrNone(Preferred)
<1>1. BoundOrNone(turn.direct)
  BY TurnsAreRequests, WordingIsConsistent DEF TypeOK, BoundOrNone, Bound
<1>2. \A tool \in Structured : Directives(tool) # {} => Bound(TheCall(Directives(tool)))
  BY DirectivesAreBound
<1>3. \A path \in {Target, turn.candidate, turn.hint} : Unread(path) => Bound(Read(path))
  BY ReadIsBound, TargetIsPath
<1>4. "list_files" \in turn.tools => Bound(ListAll)
  BY ListIsBound
<1> QED
  BY <1>1, <1>2, <1>3, <1>4 DEF Preferred, BoundOrNone, Structured

LEMMA AskedIsBound ==
    ASSUME TypeOK, NEW call, BoundOrNone(call)
    PROVE  BoundOrNone(Previewed(Focused(Redirected(call))))
<1>1. BoundOrNone(Redirected(call))
  BY PreferredIsBound DEF Redirected
<1>2. \A one : BoundOrNone(one) => BoundOrNone(Focused(one))
  BY ReadIsBound, TargetIsPath DEF Focused, BoundOrNone
<1>3. \A one : BoundOrNone(one) => BoundOrNone(Previewed(one))
  <2> SUFFICES ASSUME NEW one, BoundOrNone(one) PROVE BoundOrNone(Previewed(one))
    OBVIOUS
  <2>1. CASE one.tool \in Structured /\ "preview_structured_edit" \in turn.tools
             /\ Previews(one) = {}
    <3>1. one \in Call
      BY <2>1, NoCallIsNone DEF BoundOrNone, Bound, Structured
    <3> QED
      BY <2>1, <3>1, PreviewIsCall DEF Previewed, BoundOrNone, Bound
  <2>2. CASE ~(one.tool \in Structured /\ "preview_structured_edit" \in turn.tools
               /\ Previews(one) = {})
    BY <2>2 DEF Previewed, BoundOrNone
  <2> QED
    BY <2>1, <2>2
<1> QED
  BY <1>1, <1>2, <1>3

LEMMA GatedIsBound ==
    ASSUME TypeOK, NEW call, BoundOrNone(call)
    PROVE  BoundOrNone(Gated(call))
<1>1. call.tool \in Editing => EditTarget(call) \in Paths
  <2>1. call.tool \in Editing => call \in Call
    BY NoCallIsNone DEF BoundOrNone, Bound, Editing, Structured
  <2> QED
    BY <2>1, TargetIsPath DEF EditTarget, Paths, Call
<1> QED
  BY <1>1, ReadIsBound, ListIsBound DEF Gated, BoundOrNone

\* What the policy decides to call is bound and can be called.
LEMMA AdjustedIsBound ==
    ASSUME TypeOK, NEW suggestion \in Suggestion \cup {NoCall}, Adjusted(suggestion) # NoCall
    PROVE  turn.invoker /\ Bound(Adjusted(suggestion))
<1> DEFINE suggested == Normalized(suggestion)
           asked == Previewed(Focused(Redirected(suggested)))
<1>1. BoundOrNone(suggested)
  <2>1. suggestion = NoCall \/ suggestion \in Call
    BY SuggestionsAreCalls
  <2> QED
    BY <2>1 DEF Normalized, BoundOrNone, Bound
<1>2. BoundOrNone(asked)
  BY <1>1, AskedIsBound
<1>3. BoundOrNone(Gated(asked))
  BY <1>2, GatedIsBound
<1>4. Adjusted(suggestion) \in {Gated(asked), NoCall}
  BY DEF Adjusted, Tired, Unrepeated
<1>5. turn.invoker
  BY DEF Adjusted
<1> QED
  BY <1>3, <1>4, <1>5 DEF BoundOrNone
-----------------------------------------------------------------------------
(***************************************************************************)
(* What the gates of edits establish.                                      *)
(***************************************************************************)
\* An edit passes _edit_readiness_status or is not made.
LEMMA AdjustedIsReady ==
    ASSUME NEW suggestion, Adjusted(suggestion).tool \in Editing
    PROVE  Ready(Adjusted(suggestion))
<1> DEFINE asked == Previewed(Focused(Redirected(Normalized(suggestion))))
<1>1. Adjusted(suggestion) \in {Gated(asked), NoCall}
  BY DEF Adjusted, Tired, Unrepeated
<1>2. NoCall.tool \notin Editing /\ ListAll.tool \notin Editing
      /\ \A path : Read(path).tool \notin Editing
  BY DEF NoCall, ListAll, Read, On, Editing, Structured
<1>3. Adjusted(suggestion) = Gated(asked) /\ Gated(asked).tool \in Editing
  BY <1>1, <1>2
<1>4. Gated(asked) = asked /\ Ready(asked)
  BY <1>2, <1>3 DEF Gated
<1> QED
  BY <1>3, <1>4

\* A structured edit has previews, the first of which found it applicable.
LEMMA AdjustedIsAllowed ==
    ASSUME TypeOK, NEW suggestion \in Suggestion \cup {NoCall},
           Adjusted(suggestion).tool \in Structured,
           "preview_structured_edit" \in turn.tools
    PROVE  FirstPreviewAllows(Adjusted(suggestion))
<1> DEFINE one == Focused(Redirected(Normalized(suggestion)))
           asked == Previewed(one)
           final == Adjusted(suggestion)
<1>1. final \in {Gated(asked), NoCall}
  BY DEF Adjusted, Tired, Unrepeated
<1>2. NoCall.tool \notin Structured /\ ListAll.tool \notin Structured
      /\ \A path : Read(path).tool \notin Structured
  BY DEF NoCall, ListAll, Read, On, Structured
<1>3. final = asked /\ asked.tool \in Structured
  BY <1>1, <1>2 DEF Gated
<1>4. one.tool \in Structured /\ Previews(one) # {} /\ trace[FirstPreview(one)].applicable
      /\ asked = one
  <2>1. Previews(one) = {} /\ one.tool \in Structured => asked.tool = "preview_structured_edit"
    <3>1. asked = PreviewOf(one) => asked.tool = "preview_structured_edit"
      <4>1. BoundOrNone(Normalized(suggestion))
        BY SuggestionsAreCalls DEF Normalized, BoundOrNone, Bound
      <4>2. BoundOrNone(one)
        BY <4>1, PreferredIsBound, ReadIsBound, TargetIsPath DEF Focused, Redirected, BoundOrNone
      <4>3. CASE one.tool \in Structured
        BY <4>2, <4>3, <1>2, PreviewIsCall DEF BoundOrNone, Bound
      <4>4. CASE one.tool \notin Structured
        BY <4>4, <1>3 DEF Previewed
      <4> QED
        BY <4>3, <4>4
    <3> QED
      BY <3>1 DEF Previewed
  <2> QED
    BY <2>1, <1>2, <1>3 DEF Previewed, Structured
<1>5. Len(trace) \in 0..4 /\ Previews(one) \subseteq 1..Len(trace)
  <2>1. trace \in Seq(Entry) /\ Len(trace) <= 4
    BY DEF TypeOK, MaxSteps
  <2>2. Len(trace) \in 0..4
    <3>1. Len(trace) \in Nat
      BY <2>1, LenProperties
    <3>2. \A n \in Nat : n <= 4 => n \in 0..4
      OBVIOUS
    <3> QED
      BY <2>1, <3>1, <3>2, Zenon
  <2>3. Previews(one) \subseteq 1..Len(trace)
    BY DEF Previews
  <2> QED
    BY <2>2, <2>3
<1>6. \E i \in Previews(one) : \A j \in Previews(one) : i <= j
  <2>1. ASSUME NEW some, some # {}, some \subseteq 1..4
        PROVE  \E i \in some : \A j \in some : i <= j
    <3>1. some \subseteq {1, 2, 3, 4}
      BY <2>1
    <3>2. CASE 1 \in some
      BY <3>1, <3>2
    <3>3. CASE 1 \notin some /\ 2 \in some
      BY <3>1, <3>3
    <3>4. CASE 1 \notin some /\ 2 \notin some /\ 3 \in some
      BY <3>1, <3>4
    <3>5. CASE some = {4}
      BY <3>5
    <3> QED
      BY <2>1, <3>1, <3>2, <3>3, <3>4, <3>5
  <2>2. Previews(one) \subseteq 1..4
    <3> DEFINE n == Len(trace)
    <3>1. ASSUME n \in 0..4 PROVE 1..n \subseteq 1..4
      <4> HIDE DEF n
      <4> QED
        BY <3>1
    <3> QED
      BY <1>5, <3>1
  <2> QED
    BY <1>4, <2>1, <2>2
<1>7. FirstPreview(one) \in Previews(one)
  BY <1>6 DEF FirstPreview
<1> QED
  BY <1>3, <1>4, <1>7 DEF FirstPreviewAllows

LEMMA AdjustedIsPreviewed ==
    ASSUME TypeOK, NEW suggestion \in Suggestion \cup {NoCall},
           Adjusted(suggestion).tool \in Structured,
           "preview_structured_edit" \in turn.tools
    PROVE  \E j \in 1..Len(trace) : PreviewedBy(Adjusted(suggestion), trace[j])
<1> DEFINE first == FirstPreview(Adjusted(suggestion))
<1>1. first \in Previews(Adjusted(suggestion)) /\ trace[first].applicable
  BY AdjustedIsAllowed DEF FirstPreviewAllows
<1>2. first \in 1..Len(trace) /\ PreviewedBy(Adjusted(suggestion), trace[first])
  BY <1>1 DEF PreviewedBy, Previews
<1> QED
  BY <1>2
-----------------------------------------------------------------------------
(***************************************************************************)
(* The tools answer with entries of the trace.                             *)
(***************************************************************************)
IsOutcome(o, call) ==
    /\ o.entry \in Entry
    /\ o.entry.call = call
    /\ o.files \in [DOMAIN o.files -> Patterns]

LEMMA OutcomeIsOutcome ==
    ASSUME NEW call \in Call, NEW ok \in BOOLEAN, NEW shows \in Paths,
           NEW left, left \in [DOMAIN left -> Patterns]
    PROVE  IsOutcome(Outcome(call, ok, shows, left), call)
<1> 0 \in 0..MaxMatches
  BY BoundsAreNumbers
<1> QED
  BY DEF Outcome, IsOutcome, Entry, Paths

\* Changing or deleting a file leaves files.
LEMMA ChangedIsFiles ==
    ASSUME TypeOK, NEW path
    PROVE  /\ \A left \in Changed(path) : left \in [DOMAIN left -> Patterns]
           /\ Rewritten(path) \subseteq Changed(path)
           /\ Without(path) \in [DOMAIN Without(path) -> Patterns]
<1>1. \A pattern \in Patterns : With(path, pattern) \in [DOMAIN With(path, pattern) -> Patterns]
  BY DEF TypeOK, With
<1>2. Without(path) \in [DOMAIN Without(path) -> Patterns]
  BY DEF TypeOK, Without
<1> QED
  BY <1>1, <1>2 DEF Rewritten, Changed

LEMMA ShownIsPath ==
    ASSUME NEW path \in Path PROVE Shown[path] \in Paths
  BY PathsAreNamed DEF Paths

\* How often the text of a call occurs in its file.
LEMMA MatchesIsCount ==
    ASSUME TypeOK, NEW call \in Call, Exists(call.path), call.text # NoText
    PROVE  Matches(call) \in 0..MaxMatches
<1>1. call.text \in Text /\ files[Shown[call.path]] \in Patterns
  BY DEF TypeOK, Exists, Call
<1> QED
  BY <1>1 DEF Matches, Patterns

LEMMA PreviewIsOutcome ==
    ASSUME TypeOK, NEW call \in Call, Exists(call.path), call.text # NoText
    PROVE  IsOutcome(Previewing(call), call)
<1>1. Applicable(call) \in BOOLEAN
  BY DEF Applicable
<1>2. Shown[call.path] \in Paths
  BY ShownIsPath DEF Exists
<1>3. Previewing(call).entry \in Entry
  BY <1>1, <1>2, MatchesIsCount DEF Previewing, Entry, Paths
<1> QED
  BY <1>3 DEF Previewing, IsOutcome, TypeOK

\* Whatever comes of a call is an entry about that call.
LEMMA InvokedIsOutcome ==
    ASSUME TypeOK, NEW call \in Call, NEW o \in Invoked(call)
    PROVE  IsOutcome(o, call)
<1>1. files \in [DOMAIN files -> Patterns]
  BY DEF TypeOK
<1>2. IsOutcome(Refused(call), call)
  BY <1>1, OutcomeIsOutcome DEF Refused, Paths
<1>3. ASSUME NEW answer \in Outcomes(call) PROVE IsOutcome(answer, call)
  <2> DEFINE shown == Shown[call.path]
  <2>0. call.tool \in Tool
    BY DEF Call
  <2>1. call.path \in Path => shown \in Paths
    BY ShownIsPath
  <2>2. Exists(call.path) => call.path \in Path
    BY DEF Exists
  <2>3. \A path : /\ \A left \in Changed(path) : left \in [DOMAIN left -> Patterns]
                  /\ Rewritten(path) \subseteq Changed(path)
                  /\ Without(path) \in [DOMAIN Without(path) -> Patterns]
    BY ChangedIsFiles
  <2>4. ASSUME NEW shows \in Paths, NEW left, left \in [DOMAIN left -> Patterns]
        PROVE  \A ok \in BOOLEAN : IsOutcome(Outcome(call, ok, shows, left), call)
    BY <2>4, OutcomeIsOutcome
  <2>5. ASSUME answer \in Reads(call) PROVE IsOutcome(answer, call)
    BY <1>1, <1>2, <2>1, <2>2, <2>4, <2>5 DEF Reads, Answers
  <2>6. ASSUME answer \in Explores(call) PROVE IsOutcome(answer, call)
    <3>1. Root \in Paths
      BY PathsAreNamed DEF Paths
    <3> QED
      BY <1>1, <1>2, <2>4, <2>6, <3>1 DEF Explores
  <2>7. ASSUME answer \in PreviewsOf(call) PROVE IsOutcome(answer, call)
    BY <1>2, <2>7, PreviewIsOutcome DEF PreviewsOf
  <2>8. ASSUME answer \in Edits(call) PROVE IsOutcome(answer, call)
    <3>1. AfterEdit(call) \subseteq Rewritten(shown)
      BY DEF AfterEdit
    <3> QED
      BY <1>2, <2>1, <2>2, <2>3, <2>4, <2>8, <3>1 DEF Edits
  <2>9. ASSUME answer \in Patches(call) PROVE IsOutcome(answer, call)
    BY <1>2, <2>1, <2>3, <2>4, <2>9 DEF Patches
  <2>10. ASSUME answer \in Deletes(call) PROVE IsOutcome(answer, call)
    BY <1>2, <2>1, <2>2, <2>3, <2>4, <2>10 DEF Deletes
  <2>11. ASSUME answer \in Runs(call) PROVE IsOutcome(answer, call)
    <3>1. PICK ok \in BOOLEAN, left \in {files} \cup UNION {Changed(p) : p \in DOMAIN files} :
              answer = Outcome(call, ok, NoPath, left)
      BY <2>11 DEF Runs
    <3>2. left \in [DOMAIN left -> Patterns]
      BY <1>1, <2>3, <3>1
    <3> QED
      BY <2>4, <3>1, <3>2 DEF Paths
  <2>12. \/ answer \in Reads(call) \/ answer \in Explores(call) \/ answer \in PreviewsOf(call)
         \/ answer \in Edits(call) \/ answer \in Patches(call) \/ answer \in Deletes(call)
         \/ answer \in Runs(call)
    BY <1>3, <2>0 DEF Outcomes, Tool, Editing, Structured, Broad
  <2> QED
    BY <2>5, <2>6, <2>7, <2>8, <2>9, <2>10, <2>11, <2>12
<1> QED
  BY <1>2, <1>3 DEF Invoked
-----------------------------------------------------------------------------
(***************************************************************************)
(* The inductive invariant.                                                *)
(***************************************************************************)
LEMMA BlankTrace == \A S : <<>> \in Seq(S) /\ Len(<<>>) = 0
  OBVIOUS

LEMMA InitLoopInv == Init => LoopInv
<1> SUFFICES ASSUME Init PROVE LoopInv
  OBVIOUS
<1>1. turn \in Turn
  BY TurnsAreRequests DEF Init
<1>2. files \in [DOMAIN files -> Patterns]
  BY WorkspacesAreFiles DEF Init
<1>3. TypeOK
  BY <1>1, <1>2, BlankTrace, BoundsAreNumbers DEF Init, TypeOK, NoMemory, MaxSteps
<1> QED
  BY <1>3, BlankTrace DEF Init, LoopInv, CallsCounted, OnlyBoundTools, DecisionReady,
     DecisionPreviewed, EditsAreReady, EditsArePreviewed

\* Nothing a turn knew survives it but the snapshots.
LEMMA BeginTurnKeeps == LoopInv /\ BeginTurn => LoopInv'
<1> SUFFICES ASSUME LoopInv, BeginTurn PROVE LoopInv'
  OBVIOUS
<1>1. recalled'.hit \in BOOLEAN /\ recalled'.targets \in Seq(Path)
  <2>1. recalled' \in Memories
    BY DEF BeginTurn
  <2>2. CASE recalled' = NoMemory
    BY <2>2, BlankTrace DEF NoMemory
  <2>3. CASE \E t \in saved : recalled' = [hit |-> TRUE, targets |-> t]
    BY <2>3 DEF LoopInv, TypeOK
  <2> QED
    BY <2>1, <2>2, <2>3 DEF Memories
<1>2. at' \in {"reason", "done", "failed"} /\ trace' = <<>> /\ step' = 1
  BY DEF BeginTurn
<1>3. turns' \in 0..MaxTurns
  BY BoundsAreNumbers DEF LoopInv, TypeOK, BeginTurn
<1>4. TypeOK'
  BY <1>1, <1>2, <1>3, BlankTrace DEF LoopInv, TypeOK, BeginTurn, MaxSteps
<1> QED
  BY <1>2, <1>4, BlankTrace DEF LoopInv, CallsCounted, OnlyBoundTools, DecisionReady,
     DecisionPreviewed, EditsAreReady, EditsArePreviewed, MaxSteps

\* Steps that leave the turn and its calls alone and decide nothing.
LEMMA QuietKeeps ==
    ASSUME LoopInv, TypeOK', CallsCounted',
           UNCHANGED <<turn, trace>>,
           at' # "call" \/ UNCHANGED <<at, decision, recalled>>
    PROVE  LoopInv'
<1>1. EditsAreReady' /\ EditsArePreviewed'
  BY DEF LoopInv, EditsAreReady, EditsArePreviewed, ConditionsKnown, EditTarget
<1>2. OnlyBoundTools'
  BY DEF LoopInv, OnlyBoundTools
<1>3. DecisionReady'
  BY DEF LoopInv, DecisionReady, Ready, EditTarget, HasResult, ContextSeen, HasAnyResult,
         ConditionsKnown
<1>4. DecisionPreviewed'
  BY DEF LoopInv, DecisionPreviewed, PreviewedBy
<1> QED
  BY <1>1, <1>2, <1>3, <1>4 DEF LoopInv

LEMMA DecideKeeps == LoopInv /\ Decide => LoopInv'
<1> SUFFICES ASSUME LoopInv, Decide PROVE LoopInv'
  OBVIOUS
<1>0. TypeOK /\ CallsCounted
  BY DEF LoopInv
<1>1. PICK suggestion \in Suggestion \cup {NoCall} : decision' = Adjusted(suggestion)
  BY DEF Decide
<1>2. CASE decision' = NoCall
  <2>1. TypeOK' /\ CallsCounted' /\ at' # "call"
    BY <1>0, <1>2 DEF TypeOK, CallsCounted, Decide
  <2> QED
    BY <2>1, QuietKeeps DEF Decide
<1>3. CASE decision' # NoCall
  <2>1. turn.invoker /\ Bound(decision')
    BY <1>0, <1>1, <1>3, AdjustedIsBound
  <2>2. TypeOK' /\ CallsCounted'
    BY <1>0, <1>3, <2>1 DEF TypeOK, CallsCounted, Decide, Bound
  <2>3. OnlyBoundTools'
    BY <2>1 DEF OnlyBoundTools, Bound, Decide
  <2>4. decision'.tool \in Editing => Ready(decision')
    BY <1>1, AdjustedIsReady
  <2>5. DecisionReady'
    BY <2>4 DEF DecisionReady, Decide, Ready, EditTarget, HasResult, ContextSeen, HasAnyResult,
                ConditionsKnown
  <2>6. decision'.tool \in Structured /\ "preview_structured_edit" \in turn.tools =>
            \E j \in 1..Len(trace) : PreviewedBy(decision', trace[j])
    BY <1>0, <1>1, AdjustedIsPreviewed
  <2>7. DecisionPreviewed'
    BY <2>6 DEF DecisionPreviewed, Decide, PreviewedBy
  <2>8. EditsAreReady' /\ EditsArePreviewed'
    BY DEF LoopInv, Decide, EditsAreReady, EditsArePreviewed, ConditionsKnown, EditTarget
  <2> QED
    BY <2>2, <2>3, <2>5, <2>7, <2>8 DEF LoopInv
<1> QED
  BY <1>2, <1>3

\* The call that is made was decided on: its gates still hold, whatever the
\* tools or somebody else did to the files.
LEMMA CallToolKeeps == LoopInv /\ CallTool => LoopInv'
<1> SUFFICES ASSUME LoopInv, CallTool PROVE LoopInv'
  OBVIOUS
<1>1. TypeOK /\ decision \in Call /\ step <= MaxSteps /\ Len(trace) = step - 1
      /\ step \in 1..MaxSteps + 1 /\ at = "call" /\ trace \in Seq(Entry)
  BY DEF LoopInv, CallsCounted, CallTool, TypeOK
<1>2. PICK outcome \in Invoked(decision) :
          trace' = Append(trace, outcome.entry) /\ files' = outcome.files
  BY DEF CallTool
<1> DEFINE e == outcome.entry
           n == Len(trace)
<1>3. e \in Entry /\ e.call = decision /\ files' \in [DOMAIN files' -> Patterns]
  BY <1>1, <1>2, InvokedIsOutcome DEF IsOutcome
<1>4. n \in Nat /\ trace' \in Seq(Entry) /\ Len(trace') = n + 1
      /\ trace'[n + 1] = e /\ \A i \in 1..n : trace'[i] = trace[i]
  BY <1>1, <1>2, <1>3
<1>5. step' = step + 1 /\ at' \in {"reason", "finalize"} /\ (at' = "reason" => step' <= MaxSteps)
  <2>1. step' = step + 1 /\ at' = AfterCall
    BY DEF CallTool
  <2> QED
    BY <1>1, <2>1 DEF AfterCall, MaxSteps
<1>6. TypeOK' /\ CallsCounted'
  <2>1. step' \in 1..MaxSteps + 1 /\ Len(trace') <= MaxSteps /\ Len(trace') = step' - 1
    BY <1>1, <1>4, <1>5 DEF MaxSteps
  <2> QED
    BY <1>1, <1>3, <1>4, <1>5, <2>1 DEF TypeOK, CallsCounted, CallTool
<1>7. at' # "call"
  BY <1>5
<1>8. EditsAreReady'
  <2> SUFFICES ASSUME NEW i \in 1..n + 1, trace'[i].call.tool \in Editing
               PROVE  /\ ConditionsKnown
                      /\ \E j \in 1..i - 1 : trace'[j].ok
                             /\ trace'[j].shows = EditTarget(trace'[i].call)
    BY <1>4 DEF EditsAreReady, ConditionsKnown, EditTarget, CallTool
  <2>1. CASE i \in 1..n
    BY <1>4, <2>1 DEF LoopInv, EditsAreReady
  <2>2. CASE i = n + 1
    <3>1. Ready(decision)
      BY <1>1, <1>3, <1>4, <2>2 DEF LoopInv, DecisionReady
    <3>2. PICK j \in 1..n : trace[j].ok /\ trace[j].shows = EditTarget(decision)
      BY <3>1 DEF Ready, HasResult
    <3> QED
      BY <1>3, <1>4, <2>2, <3>1, <3>2 DEF Ready
  <2> QED
    BY <1>4, <2>1, <2>2
<1>9. EditsArePreviewed'
  <2> SUFFICES ASSUME NEW i \in 1..n + 1, trace'[i].call.tool \in Structured,
                      "preview_structured_edit" \in turn.tools
               PROVE  \E j \in 1..i - 1 : PreviewedBy(trace'[i].call, trace'[j])
    BY <1>4 DEF EditsArePreviewed, CallTool, PreviewedBy
  <2>1. CASE i \in 1..n
    BY <1>4, <2>1 DEF LoopInv, EditsArePreviewed, PreviewedBy
  <2>2. CASE i = n + 1
    <3>1. PICK j \in 1..n : PreviewedBy(decision, trace[j])
      BY <1>1, <1>3, <1>4, <2>2 DEF LoopInv, DecisionPreviewed
    <3> QED
      BY <1>3, <1>4, <2>2, <3>1
  <2> QED
    BY <1>4, <2>1, <2>2
<1> QED
  BY <1>6, <1>7, <1>8, <1>9 DEF LoopInv, OnlyBoundTools, DecisionReady, DecisionPreviewed

\* The target files of a snapshot are paths.
LEMMA AddKeepsPaths ==
    ASSUME NEW paths \in Seq(Path), NEW path \in Paths PROVE Add(paths, path) \in Seq(Path)
  BY DEF Add, Paths

LEMMA ConcludeKeeps == LoopInv /\ Conclude => LoopInv'
<1> SUFFICES ASSUME LoopInv, Conclude PROVE LoopInv'
  OBVIOUS
<1>1. TypeOK /\ CallsCounted
  BY DEF LoopInv
<1>2. EditTarget(decision) \in Paths
  <2>1. decision.path \in Paths
    BY <1>1 DEF TypeOK, Call, NoCall, On, Paths
  <2> QED
    BY <1>1, <2>1, TargetIsPath DEF EditTarget
<1>3. TargetFiles \in Seq(Path)
  BY <1>1, <1>2, TargetIsPath, AddKeepsPaths DEF TargetFiles, TypeOK
<1>4. TypeOK' /\ CallsCounted'
  BY <1>1, <1>3 DEF TypeOK, CallsCounted, Conclude
<1> QED
  BY <1>4, QuietKeeps DEF Conclude, LoopInv

LEMMA OthersKeep ==
    LoopInv /\ (DecisionFails \/ Finalize \/ FileChanges \/ UNCHANGED vars) => LoopInv'
<1>1. LoopInv => TypeOK /\ CallsCounted
  BY DEF LoopInv
<1>2. ASSUME LoopInv, DecisionFails PROVE LoopInv'
  <2>1. TypeOK' /\ CallsCounted'
    BY <1>1, <1>2 DEF TypeOK, CallsCounted, DecisionFails
  <2> QED
    BY <1>2, <2>1, QuietKeeps DEF DecisionFails
<1>3. ASSUME LoopInv, Finalize PROVE LoopInv'
  <2>1. TypeOK' /\ CallsCounted'
    BY <1>1, <1>3 DEF TypeOK, CallsCounted, Finalize
  <2> QED
    BY <1>3, <2>1, QuietKeeps DEF Finalize
<1>4. ASSUME LoopInv, FileChanges PROVE LoopInv'
  <2>1. files' \in [DOMAIN files' -> Patterns]
    BY <1>1, <1>4, ChangedIsFiles DEF FileChanges
  <2>2. changes' \in 0..MaxChanges
    BY <1>1, <1>4, BoundsAreNumbers DEF FileChanges, TypeOK
  <2>3. TypeOK' /\ CallsCounted'
    BY <1>1, <1>4, <2>1, <2>2 DEF TypeOK, CallsCounted, FileChanges
  <2> QED
    BY <1>4, <2>3, QuietKeeps DEF FileChanges
<1>5. ASSUME LoopInv, UNCHANGED vars PROVE LoopInv'
  <2>1. TypeOK' /\ CallsCounted'
    BY <1>1, <1>5 DEF TypeOK, CallsCounted, vars
  <2> QED
    BY <1>5, <2>1, QuietKeeps DEF vars
<1> QED
  BY <1>2, <1>3, <1>4, <1>5

LEMMA LoopInvHolds == Spec => []LoopInv
<1>1. LoopInv /\ [Next]_vars => LoopInv'
  BY BeginTurnKeeps, DecideKeeps, CallToolKeeps, ConcludeKeeps, OthersKeep DEF Next, LoopStep
<1> QED
  BY <1>1, InitLoopInv, PTL DEF Spec
-----------------------------------------------------------------------------
\* Every variable of the loop keeps its type, whatever the model suggests.
THEOREM TypeCorrect == Spec => []TypeOK
<1>1. LoopInv => TypeOK
  BY DEF LoopInv
<1> QED
  BY <1>1, LoopInvHolds, PTL

\* policy.py and llm_loop.py never let a call through that is not bound.
THEOREM CallsAreBound == Spec => []OnlyBoundTools
<1>1. LoopInv => OnlyBoundTools
  BY DEF LoopInv
<1> QED
  BY <1>1, LoopInvHolds, PTL

\* _edit_readiness_status gates every edit of every turn.
THEOREM EditsFollowLooks == Spec => []EditsAreReady
<1>1. LoopInv => EditsAreReady
  BY DEF LoopInv
<1> QED
  BY <1>1, LoopInvHolds, PTL

\* _matching_structured_edit_preview finds the preview of that very edit.
THEOREM EditsFollowPreviews == Spec => []EditsArePreviewed
<1>1. LoopInv => EditsArePreviewed
  BY DEF LoopInv
<1> QED
  BY <1>1, LoopInvHolds, PTL
-----------------------------------------------------------------------------
(***************************************************************************)
(* What the previews count and how often broad exploration answers: two    *)
(* facts about the whole turn that rest on the invariant above.            *)
(***************************************************************************)
Answered(tool) == {i \in Uses(tool) : trace[i].ok}

\* An applicable preview counted what its call expects.
CountedRight(seen) ==
    seen.applicable =>
        /\ seen.matches # 0
        /\ seen.call.expected # 0 => seen.matches = seen.call.expected
PreviewsCountRight == \A i \in 1..Len(trace) : CountedRight(trace[i])

DecisionAllowed ==
    at = "call" /\ decision.tool \in Structured /\ "preview_structured_edit" \in turn.tools =>
        FirstPreviewAllows(decision)

\* A broad call is made only while the tool has answered at most once.
RoomFor(tool) == Cardinality(Answered(tool)) <= 1
DecisionHasRoom == at = "call" /\ decision.tool \in Broad => RoomFor(decision.tool)

PolicyInv == PreviewsCountRight /\ DecisionAllowed /\ DecisionHasRoom /\ BroadIsBounded

\* What an entry of a call says of its text, whatever became of the call.
LEMMA InvokedCountsRight ==
    ASSUME TypeOK, NEW call \in Call, NEW o \in Invoked(call)
    PROVE  CountedRight(o.entry)
<1>1. \A ok, shows, left : CountedRight(Outcome(call, ok, shows, left).entry)
  BY DEF Outcome, CountedRight
<1>2. CountedRight(Refused(call).entry)
  BY <1>1 DEF Refused
<1>3. CountedRight(Previewing(call).entry)
  <2> DEFINE entry == Previewing(call).entry
  <2>1. entry.applicable = Applicable(call) /\ entry.matches = Matches(call) /\ entry.call = call
    BY DEF Previewing
  <2>2. Applicable(call) => Matches(call) # 0 /\ (call.expected # 0 => Matches(call) = call.expected)
    BY DEF Applicable
  <2> QED
    BY <2>1, <2>2 DEF CountedRight
<1>4. ASSUME NEW answer \in Outcomes(call) PROVE CountedRight(answer.entry)
  <2>1. CASE answer \in Reads(call) \cup Explores(call) \cup Patches(call) \cup Deletes(call)
    BY <1>1, <1>2, <2>1 DEF Reads, Answers, Explores, Patches, Deletes
  <2>2. CASE answer \in PreviewsOf(call)
    BY <1>2, <1>3, <2>2 DEF PreviewsOf
  <2>3. CASE answer \in Edits(call)
    BY <1>1, <1>2, <2>3 DEF Edits
  <2>4. CASE answer \in Runs(call)
    BY <1>1, <2>4 DEF Runs
  <2>5. \/ answer \in Reads(call) \cup Explores(call) \cup Patches(call) \cup Deletes(call)
        \/ answer \in PreviewsOf(call) \/ answer \in Edits(call) \/ answer \in Runs(call)
    <3>1. call.tool \in Tool
      BY DEF Call
    <3> QED
      BY <1>4, <3>1 DEF Outcomes, Tool, Editing, Structured, Broad
  <2> QED
    BY <2>1, <2>2, <2>3, <2>4, <2>5
<1> QED
  BY <1>2, <1>4 DEF Invoked

\* The uses of a tool are some of the calls of the turn.
LEMMA UsesAreCounted ==
    ASSUME TypeOK, NEW tool
    PROVE  /\ IsFiniteSet(Uses(tool)) /\ IsFiniteSet(Answered(tool))
           /\ Cardinality(Uses(tool)) \in Nat /\ Cardinality(Answered(tool)) \in Nat
           /\ Cardinality(Answered(tool)) <= Cardinality(Uses(tool))
           /\ Cardinality(Uses(tool)) <= Len(trace)
<1>1. Len(trace) \in Nat
  BY LenProperties DEF TypeOK
<1>2. IsFiniteSet(1..Len(trace)) /\ Cardinality(1..Len(trace)) = Len(trace)
  <2> DEFINE n == Len(trace)
  <2> HIDE DEF n
  <2>0. n \in Nat
    BY <1>1 DEF n
  <2>1. IsFiniteSet(1..n) /\ Cardinality(1..n) = IF 1 > n THEN 0 ELSE n - 1 + 1
    BY <2>0, FS_Interval
  <2>2. Cardinality(1..n) = n
    BY <2>0, <2>1
  <2> QED
    BY <2>1, <2>2 DEF n
<1>3. Uses(tool) \subseteq 1..Len(trace) /\ Answered(tool) \subseteq Uses(tool)
  BY DEF Uses, Answered
<1>4. IsFiniteSet(Uses(tool)) /\ Cardinality(Uses(tool)) <= Cardinality(1..Len(trace))
  BY <1>2, <1>3, FS_Subset
<1>5. IsFiniteSet(Answered(tool)) /\ Cardinality(Answered(tool)) <= Cardinality(Uses(tool))
  BY <1>3, <1>4, FS_Subset
<1> QED
  BY <1>2, <1>4, <1>5, FS_CardinalityType

\* The guards against repetition leave room for a broad call: either they
\* counted the tool that is called, or no call of the turn has answered.
LEMMA AdjustedLeavesRoom ==
    ASSUME TypeOK, Len(trace) = step - 1, NEW suggestion \in Suggestion \cup {NoCall},
           Adjusted(suggestion).tool \in Broad
    PROVE  RoomFor(Adjusted(suggestion).tool)
<1> DEFINE asked == Previewed(Focused(Redirected(Normalized(suggestion))))
           final == Adjusted(suggestion)
<1>1. NoCall.tool \notin Broad /\ \A path : Read(path).tool \notin Broad
  BY DEF NoCall, Read, On, Broad
<1>2. final = Gated(asked)
      /\ ~(step >= 3 /\ asked.tool \in Broad /\ Cardinality(Uses(asked.tool)) >= 2)
  BY <1>1 DEF Adjusted, Tired, Unrepeated
<1>3. CASE final = asked
  <2> DEFINE uses == Cardinality(Uses(asked.tool))
  <2>1. asked.tool \in Broad /\ (step >= 3 => ~(uses >= 2))
    BY <1>2, <1>3
  <2>2. uses \in Nat /\ uses <= Len(trace) /\ step \in Nat
        /\ Cardinality(Answered(asked.tool)) \in Nat
        /\ Cardinality(Answered(asked.tool)) <= uses
    BY UsesAreCounted DEF TypeOK, MaxSteps
  <2>3. uses <= 1
    BY <2>1, <2>2
  <2> QED
    BY <1>3, <2>2, <2>3 DEF RoomFor
<1>4. CASE final # asked
  <2>1. ~ContextSeen
    BY <1>1, <1>2, <1>4 DEF Gated
  <2>2. Answered(final.tool) = {}
    BY <2>1 DEF ContextSeen, HasAnyResult, Answered, Uses
  <2> QED
    BY <2>2, FS_EmptySet DEF RoomFor
<1> QED
  BY <1>3, <1>4

LEMMA InitPolicyInv == Init => PolicyInv
<1> SUFFICES ASSUME Init PROVE PolicyInv
  OBVIOUS
<1>1. trace = <<>> /\ at = "done" /\ Len(trace) = 0
  BY BlankTrace DEF Init
<1>2. \A tool : Answered(tool) = {}
  BY <1>1 DEF Answered, Uses
<1>3. BroadIsBounded
  BY <1>2, FS_EmptySet DEF BroadIsBounded, Answered
<1> QED
  BY <1>1, <1>3 DEF PolicyInv, PreviewsCountRight, DecisionAllowed, DecisionHasRoom

\* Steps that leave the calls of the turn alone and decide nothing.
LEMMA QuietKeepsPolicy ==
    ASSUME PolicyInv, UNCHANGED <<turn, trace>>,
           at' # "call" \/ UNCHANGED <<at, decision>>
    PROVE  PolicyInv'
<1>1. PreviewsCountRight' /\ BroadIsBounded'
  BY DEF PolicyInv, PreviewsCountRight, CountedRight, BroadIsBounded, Uses
<1>2. DecisionAllowed'
  <2>1. CASE at' # "call"
    BY <2>1 DEF DecisionAllowed
  <2>2. CASE UNCHANGED <<at, decision>>
    <3>1. Previews(decision)' = Previews(decision)
      BY <2>2 DEF Previews
    <3>2. FirstPreview(decision)' = FirstPreview(decision)
      BY <3>1 DEF FirstPreview
    <3> QED
      BY <2>2, <3>1, <3>2 DEF PolicyInv, DecisionAllowed, FirstPreviewAllows
  <2> QED
    BY <2>1, <2>2
<1>3. DecisionHasRoom'
  BY DEF PolicyInv, DecisionHasRoom, RoomFor, Answered, Uses
<1> QED
  BY <1>1, <1>2, <1>3 DEF PolicyInv

LEMMA DecideKeepsPolicy == LoopInv /\ PolicyInv /\ Decide => PolicyInv'
<1> SUFFICES ASSUME LoopInv, PolicyInv, Decide PROVE PolicyInv'
  OBVIOUS
<1>0. TypeOK /\ Len(trace) = step - 1
  BY DEF LoopInv, CallsCounted, Decide
<1>1. PICK suggestion \in Suggestion \cup {NoCall} : decision' = Adjusted(suggestion)
  BY DEF Decide
<1>2. UNCHANGED <<turn, trace>>
  BY DEF Decide
<1>3. PreviewsCountRight' /\ BroadIsBounded'
  BY <1>2 DEF PolicyInv, PreviewsCountRight, CountedRight, BroadIsBounded, Uses
<1>4. decision'.tool \in Structured /\ "preview_structured_edit" \in turn.tools =>
          FirstPreviewAllows(decision')
  BY <1>0, <1>1, AdjustedIsAllowed
<1>5. DecisionAllowed'
  BY <1>2, <1>4 DEF DecisionAllowed, FirstPreviewAllows, FirstPreview, Previews
<1>6. decision'.tool \in Broad => RoomFor(decision'.tool)
  BY <1>0, <1>1, AdjustedLeavesRoom
<1>7. DecisionHasRoom'
  BY <1>2, <1>6 DEF DecisionHasRoom, RoomFor, Answered, Uses
<1> QED
  BY <1>3, <1>5, <1>7 DEF PolicyInv

\* A call adds one entry to the trace: its preview counted right, and only
\* the tool that was called may have answered once more.
LEMMA CallToolKeepsPolicy == LoopInv /\ PolicyInv /\ CallTool => PolicyInv'
<1> SUFFICES ASSUME LoopInv, PolicyInv, CallTool PROVE PolicyInv'
  OBVIOUS
<1>1. TypeOK /\ decision \in Call /\ at = "call" /\ trace \in Seq(Entry)
  BY DEF LoopInv, CallsCounted, CallTool, TypeOK
<1>2. PICK outcome \in Invoked(decision) : trace' = Append(trace, outcome.entry)
  BY DEF CallTool
<1> DEFINE e == outcome.entry
           n == Len(trace)
<1>3. e \in Entry /\ e.call = decision /\ CountedRight(e)
  BY <1>1, <1>2, InvokedIsOutcome, InvokedCountsRight DEF IsOutcome
<1>4. n \in Nat /\ Len(trace') = n + 1
      /\ trace'[n + 1] = e /\ \A i \in 1..n : trace'[i] = trace[i]
  BY <1>1, <1>2, <1>3
<1>5. at' # "call"
  BY DEF CallTool, AfterCall
<1>6. PreviewsCountRight'
  <2> SUFFICES ASSUME NEW i \in 1..n + 1 PROVE CountedRight(trace'[i])
    BY <1>4 DEF PreviewsCountRight, CountedRight
  <2>1. CASE i \in 1..n
    BY <1>4, <2>1 DEF PolicyInv, PreviewsCountRight
  <2>2. CASE i = n + 1
    BY <1>3, <1>4, <2>2
  <2> QED
    BY <1>4, <2>1, <2>2
<1>7. BroadIsBounded'
  <2> SUFFICES ASSUME NEW tool \in Broad PROVE Cardinality(Answered(tool)') <= 2
    BY DEF BroadIsBounded, Answered
  <2>1. IsFiniteSet(Answered(tool)) /\ Cardinality(Answered(tool)) \in Nat
    BY <1>1, UsesAreCounted
  <2>2. CASE decision.tool = tool
    <3>1. Cardinality(Answered(tool)) <= 1
      BY <1>1, <2>2 DEF PolicyInv, DecisionHasRoom, RoomFor
    <3>2. Answered(tool)' \subseteq Answered(tool) \cup {n + 1}
      BY <1>4 DEF Answered, Uses
    <3>3. IsFiniteSet(Answered(tool) \cup {n + 1})
          /\ Cardinality(Answered(tool) \cup {n + 1}) <= 2
      <4> DEFINE some == Answered(tool)
      <4>1. IsFiniteSet(some) /\ Cardinality(some) \in Nat /\ Cardinality(some) <= 1
        BY <2>1, <3>1
      <4> HIDE DEF some
      <4>2. /\ IsFiniteSet(some \cup {n + 1})
            /\ \/ Cardinality(some \cup {n + 1}) = Cardinality(some)
               \/ Cardinality(some \cup {n + 1}) = Cardinality(some) + 1
        BY <4>1, FS_AddElement
      <4>3. Cardinality(some \cup {n + 1}) <= 2
        BY <4>1, <4>2
      <4> QED
        BY <4>2, <4>3 DEF some
    <3>4. Cardinality(Answered(tool)') <= Cardinality(Answered(tool) \cup {n + 1})
      BY <3>2, <3>3, FS_Subset
    <3>5. Cardinality(Answered(tool)') \in Nat
          /\ Cardinality(Answered(tool) \cup {n + 1}) \in Nat
      BY <3>2, <3>3, FS_Subset, FS_CardinalityType
    <3> QED
      BY <3>3, <3>4, <3>5
  <2>3. CASE decision.tool # tool
    <3>1. Answered(tool)' = Answered(tool)
      BY <1>3, <1>4, <2>3 DEF Answered, Uses
    <3> QED
      BY <3>1 DEF PolicyInv, BroadIsBounded, Answered
  <2> QED
    BY <2>2, <2>3
<1> QED
  BY <1>5, <1>6, <1>7 DEF PolicyInv, DecisionAllowed, DecisionHasRoom

LEMMA NextKeepsPolicy == LoopInv /\ PolicyInv /\ [Next]_vars => PolicyInv'
<1> SUFFICES ASSUME LoopInv, PolicyInv, [Next]_vars PROVE PolicyInv'
  OBVIOUS
<1>1. CASE BeginTurn
  <2>1. trace' = <<>> /\ Len(trace') = 0 /\ at' # "call"
    BY <1>1, BlankTrace DEF BeginTurn
  <2>2. \A tool : Answered(tool)' = {}
    BY <2>1 DEF Answered, Uses
  <2>3. BroadIsBounded'
    BY <2>2, FS_EmptySet DEF BroadIsBounded, Answered
  <2> QED
    BY <2>1, <2>3 DEF PolicyInv, PreviewsCountRight, DecisionAllowed, DecisionHasRoom
<1>2. CASE DecisionFails
  BY <1>2, QuietKeepsPolicy DEF DecisionFails
<1>3. CASE Finalize
  BY <1>3, QuietKeepsPolicy DEF Finalize
<1>4. CASE Conclude
  BY <1>4, QuietKeepsPolicy DEF Conclude
<1>5. CASE FileChanges
  BY <1>5, QuietKeepsPolicy DEF FileChanges
<1>6. CASE UNCHANGED vars
  BY <1>6, QuietKeepsPolicy DEF vars
<1> QED
  BY <1>1, <1>2, <1>3, <1>4, <1>5, <1>6, DecideKeepsPolicy, CallToolKeepsPolicy
  DEF Next, LoopStep

LEMMA PolicyInvHolds == Spec => []PolicyInv
<1> QED
  BY NextKeepsPolicy, InitPolicyInv, LoopInvHolds, PTL DEF Spec

\* Tired and the gate of edits bound broad exploration, whatever is suggested.
THEOREM ExplorationIsBounded == Spec => []BroadIsBounded
<1>1. PolicyInv => BroadIsBounded
  BY DEF PolicyInv
<1> QED
  BY <1>1, PolicyInvHolds, PTL

\* An edit that expects what its preview counted is not refused while the
\* file still holds as many occurrences (_structured_edit_preview_status).
THEOREM PreviewsPredict == Spec => []PreviewPredicts
<1>1. LoopInv /\ PolicyInv => PreviewPredicts
  <2> SUFFICES ASSUME PolicyInv, at = "call", decision.tool \in Structured,
                      StatesNumber(decision), "preview_structured_edit" \in turn.tools,
                      Matches(decision) = trace[FirstPreview(decision)].matches
               PROVE  ~EditRefuses(decision)
    BY DEF PreviewPredicts
  <2> DEFINE first == FirstPreview(decision)
  <2>1. first \in Previews(decision) /\ trace[first].applicable
    BY DEF PolicyInv, DecisionAllowed, FirstPreviewAllows
  <2>2. first \in 1..Len(trace) /\ trace[first].call.expected = decision.expected
    BY <2>1 DEF Previews, StatesNumber
  <2>3. trace[first].matches # 0 /\ trace[first].matches = decision.expected
    BY <2>1, <2>2 DEF PolicyInv, PreviewsCountRight, CountedRight, StatesNumber
  <2> QED
    BY <2>3 DEF EditRefuses, StatesNumber
<1> QED
  BY <1>1, LoopInvHolds, PolicyInvHolds, PTL
=============================================================================
