------------------------------ MODULE AgentLoop ------------------------------
(***************************************************************************)
(* The loop of a software supply chain agent.  In a turn the language      *)
(* model suggests a call of a tool or an answer; policy.py adjusts the     *)
(* suggestion (prefers a dedicated tool, sends exploration back to a       *)
(* remembered file, demands a preview and a look at the target before an   *)
(* edit, stops repetitions); the call, if any, is made and its result is   *)
(* kept; after MaxSteps calls the model must answer.  The turn ends by     *)
(* saving a snapshot that later turns may recall.                          *)
(*                                                                         *)
(* Of a file only the number of occurrences of each fragment of text that  *)
(* structured edits look for is modelled; every tool that reads, searches, *)
(* changes or runs something behaves as one of the tools in Tool.          *)
(***************************************************************************)
EXTENDS Naturals, Sequences, FiniteSets

CONSTANTS
    Path,        \* spellings of paths: in messages, hints and suggested calls
    NoPath,
    Root,        \* the spelling of the workspace root
    Shown,       \* the path a tool's output shows for a spelling
    Text,        \* fragments of text that structured edits look for
    NoText,
    MaxMatches,  \* bound: occurrences of one fragment in one file
    Workspaces,  \* the files a workspace may hold at first
    Turn,        \* what may be asked of the agent
    Suggestion,  \* the calls the language model may suggest
    MaxTurns,    \* bound: turns
    MaxDenials,  \* bound: failed calls of a turn after which only tools refuse
    MaxChanges   \* bound: changes of files made by somebody else

Structured == {"replace_in_file", "insert_in_file"}
Editing == Structured \cup {"apply_patch", "delete_file"}
Broad == {"list_files", "ripgrep_search"}
Tool == Editing \cup Broad \cup
        {"read_file", "preview_structured_edit", "git_diff", "shell_run"}

\* A call of a tool; kind is the edit a preview is for, expected the number of
\* occurrences that the tool reads (0: not stated; one below 1, which every tool
\* refuses, is left out), quoted that it was sent as text, which the tools convert
\* and the policy takes for none; all asks to replace every one.
Call == [tool : Tool, path : Path \cup {NoPath}, kind : Structured \cup {"none"},
         text : Text \cup {NoText}, expected : 0..MaxMatches, quoted : BOOLEAN, all : BOOLEAN]

\* A call that states no more than a tool and a path.
On(tool, path) ==
    [tool |-> tool, path |-> path, kind |-> "none", text |-> NoText,
     expected |-> 0, quoted |-> FALSE, all |-> FALSE]
\* The decision to answer: no tool, empty input.
NoCall == On("none", NoPath)

\* Inputs of two tools are equal only when their fields are the same.
Input(call) ==
    [call EXCEPT !.tool = CASE call.tool \in {"read_file", "delete_file"} -> "path"
                            [] call.tool \in {"git_diff", "none"} -> "empty"
                            [] OTHER -> call.tool]
Patterns == [Text -> 0..MaxMatches]

ASSUME PathsAreNamed ==
    /\ NoPath \notin Path /\ Root \in Path
    /\ Shown \in [Path -> Path] /\ Shown[Root] = Root
    /\ \A p \in Path : Shown[Shown[p]] = Shown[p]
ASSUME BoundsAreNumbers == MaxMatches \in Nat /\ MaxTurns \in Nat /\ MaxDenials \in Nat /\ MaxChanges \in Nat

ASSUME TurnsAreRequests ==
    Turn # {} /\ Turn \subseteq
        [kind : {"task", "empty", "inventory"},
         llm : BOOLEAN,                    \* an LLM invoker is configured
         invoker : BOOLEAN,                \* a tool invoker is configured
         tools : SUBSET Tool,              \* tools bound to the agent
         direct : Call \cup {NoCall},      \* what the wording alone calls for
         directives : Seq(Call),           \* edits the message spells out
         candidate : Path \cup {NoPath},   \* the path found in the message
         hint : Path \cup {NoPath},        \* the first of changed_files_hint
         edits : BOOLEAN,                  \* the message asks for an edit
         continues : BOOLEAN,              \* the message asks to go on
         goal : BOOLEAN]                   \* a goal or acceptance criteria

\* The rules that look only at the wording name a bound tool, and a message
\* that spells out an edit names the file.
ASSUME WordingIsConsistent ==
    \A t \in Turn :
        /\ t.direct = NoCall \/ t.direct.tool \in t.tools
        /\ \A i \in 1..Len(t.directives) :
               /\ t.directives[i].tool \in Structured /\ t.directives[i].expected = 1
               /\ ~t.directives[i].quoted
               /\ t.directives[i].path = t.candidate /\ t.candidate # NoPath
ASSUME SuggestionsAreCalls == Suggestion \subseteq Call
ASSUME WorkspacesAreFiles ==
    \A w \in Workspaces :
        DOMAIN w \subseteq {Shown[p] : p \in Path} \ {Root} /\ w \in [DOMAIN w -> Patterns]

VARIABLES
    turns,      \* turns begun
    turn,       \* the request of the turn
    recalled,   \* [hit, targets]: the memory loaded for the turn
    saved,      \* the target files of the snapshots written so far
    step,       \* the step of the loop
    at,         \* where the turn is
    decision,   \* the latest adjusted decision
    trace,      \* the calls of the turn and what came of them
    files,      \* the workspace
    changes     \* changes made by somebody else

vars == <<turns, turn, recalled, saved, step, at, decision, trace, files, changes>>

MaxSteps == 4
-----------------------------------------------------------------------------
(***************************************************************************)
(* What the turn knows.                                                    *)
(***************************************************************************)
\* _has_tool_result_for_path compares the path of the output as text.
HasResultOrMemory(path) ==
    \/ \E i \in 1..Len(trace) : trace[i].ok /\ trace[i].shows = path
    \/ \E i \in 1..Len(recalled.targets) : recalled.targets[i] = path
HasResult(path) == \E i \in 1..Len(trace) : trace[i].ok /\ trace[i].shows = path
HasAnyResult == \E i \in 1..Len(trace) : trace[i].ok

\* The first remembered target file; hints come after what is remembered.
Target == IF recalled.targets # <<>> THEN recalled.targets[1] ELSE turn.hint

UnreadAnyhow(path) == path # NoPath /\ ~HasResult(path)
Unread(path) == path # NoPath /\ ~HasResult(path) /\ "read_file" \in turn.tools
ListAll == On("list_files", Root)
Read(path) == On("read_file", path)
-----------------------------------------------------------------------------
(***************************************************************************)
(* policy.py: the chain that adjusts a decision.                           *)
(***************************************************************************)
\* An edit spelled out by the message, once its file has been looked at.
Directives(tool) ==
    {i \in 1..Len(turn.directives) :
        /\ turn.edits /\ HasResult(turn.candidate)
        /\ turn.directives[i].tool = tool /\ tool \in turn.tools}
TheCall(some) == turn.directives[CHOOSE i \in some : TRUE]

\* The first rule of _preferred_tool_decision that fits.
Preferred ==
    LET noCandidate == turn.edits /\ turn.candidate = NoPath
    IN  IF turn.direct # NoCall THEN turn.direct
        ELSE IF Directives("replace_in_file") # {} THEN TheCall(Directives("replace_in_file"))
        ELSE IF Directives("insert_in_file") # {} THEN TheCall(Directives("insert_in_file"))
        ELSE IF (noCandidate \/ turn.continues) /\ Unread(Target) THEN Read(Target)
        ELSE IF turn.edits /\ Unread(turn.candidate) THEN Read(turn.candidate)
        ELSE IF noCandidate /\ Unread(turn.hint) THEN Read(turn.hint)
        ELSE IF noCandidate /\ "list_files" \in turn.tools /\ ~HasAnyResult THEN ListAll
        ELSE NoCall

\* The later downgrade of shell.run has nothing left to do after this.
Redirected(call) ==
    IF (call = NoCall \/ call.tool = "shell_run") /\ Preferred # NoCall THEN Preferred ELSE call

Focused(call) == IF call.tool \in Broad /\ Unread(Target) THEN Read(Target) ELSE call

PreviewOf(call) ==
    [call EXCEPT !.tool = "preview_structured_edit", !.kind = call.tool, !.all = FALSE]
\* _matching_structured_edit_preview: an expectation that is not stated as a
\* number matches every preview of the fragment.
StatesNumber(call) == call.expected # 0 /\ ~call.quoted
Previews(call) ==
    {i \in 1..Len(trace) :
        /\ trace[i].ok
        /\ trace[i].call.tool = "preview_structured_edit"
        /\ trace[i].call.kind = call.tool
        /\ trace[i].call.path = call.path
        /\ trace[i].call.text = call.text
        /\ StatesNumber(call) => /\ StatesNumber(trace[i].call)
                                 /\ trace[i].call.expected = call.expected}
FirstPreview(call) == CHOOSE i \in Previews(call) : \A j \in Previews(call) : i <= j

PreviewedOnce(call) ==
    IF call.tool \notin Structured \/ "preview_structured_edit" \notin turn.tools THEN call
    ELSE IF Previews(call) = {} THEN PreviewOf(call)
    ELSE call
Previewed(call) ==
    IF call.tool \notin Structured \/ "preview_structured_edit" \notin turn.tools THEN call
    ELSE IF Previews(call) = {} THEN PreviewOf(call)
    ELSE IF trace[FirstPreview(call)].applicable THEN call
    ELSE NoCall

\* _current_edit_target_path and _edit_readiness_status
EditTarget(call) ==
    IF call.path # NoPath THEN call.path
    ELSE IF turn.candidate # NoPath THEN turn.candidate
    ELSE turn.hint
ContextSeen == HasAnyResult \/ recalled.hit \/ turn.hint # NoPath
ConditionsKnown == turn.goal \/ turn.hint # NoPath
Ready(call) ==
    /\ EditTarget(call) # NoPath
    /\ HasResult(EditTarget(call))
    /\ ContextSeen
    /\ ConditionsKnown

Gated(call) ==
    IF call.tool \notin Editing \/ Ready(call) THEN call
    ELSE IF Unread(EditTarget(call)) THEN Read(EditTarget(call))
    ELSE IF ~ContextSeen /\ "list_files" \in turn.tools THEN ListAll
    ELSE NoCall

\* The guards against repetition look at the tool asked for before the gate
\* of edits, and at the input the model suggested.
Unrepeated(call, asked, suggested) ==
    IF /\ trace # <<>>
       /\ asked.tool = trace[Len(trace)].call.tool
       /\ Input(suggested) = Input(trace[Len(trace)].call)
    THEN NoCall ELSE call

Uses(tool) == {i \in 1..Len(trace) : trace[i].call.tool = tool}
TiredLate(call, asked) ==
    IF step > 3 /\ asked.tool \in Broad /\ Cardinality(Uses(asked.tool)) >= 2
    THEN NoCall ELSE call
Tired(call, asked) ==
    IF step >= 3 /\ asked.tool \in Broad /\ Cardinality(Uses(asked.tool)) >= 2
    THEN NoCall ELSE call

\* _normalize_decision_output drops a call of a tool that is not bound.
Normalized(call) == IF call.tool \in turn.tools THEN call ELSE NoCall

Adjusted(suggestion) ==
    LET suggested == Normalized(suggestion)
        asked == Previewed(Focused(Redirected(suggested)))
        policy == Tired(Unrepeated(Gated(asked), asked, suggested), asked)
    IN  IF turn.invoker THEN policy ELSE NoCall
-----------------------------------------------------------------------------
(***************************************************************************)
(* The tools (domain_packs/operations): the outcomes a call may have, each *)
(* with the files it leaves.                                               *)
(***************************************************************************)
Outcome(call, ok, shows, left) ==
    [entry |-> [call |-> call, ok |-> ok, shows |-> shows, applicable |-> FALSE, matches |-> 0],
     files |-> left]
Refused(call) == Outcome(call, FALSE, NoPath, files)
Answers(call) == Outcome(call, TRUE, Shown[call.path], files)

Exists(path) == path \in Path /\ Shown[path] \in DOMAIN files
Matches(call) == files[Shown[call.path]][call.text]

\* _structured_edit_preview_status
ApplicableIfFound(call) == Matches(call) # 0
Applicable(call) ==
    /\ Matches(call) # 0
    /\ call.expected # 0 => Matches(call) = call.expected
    /\ call.expected = 0 => Matches(call) = 1

\* The conditions the edits themselves check; only a replacement may be told
\* to take every occurrence.
EditRefuses(call) ==
    \/ Matches(call) = 0
    \/ call.expected # 0 /\ Matches(call) # call.expected
    \/ ~call.all /\ call.expected = 0 /\ Matches(call) > 1

Without(path) == [p \in DOMAIN files \ {path} |-> files[p]]
With(path, pattern) == [p \in DOMAIN files \cup {path} |-> IF p = path THEN pattern ELSE files[p]]
Rewritten(path) == {With(path, pattern) : pattern \in Patterns}
Changed(path) == Rewritten(path) \cup {Without(p) : p \in DOMAIN files \cap {path}}

\* A replacement takes away one occurrence, or none when the new text holds
\* the old one, and an insertion takes away none.
AfterEdit(call) ==
    LET fewer == IF call.tool = "replace_in_file"
                 THEN IF call.all THEN Matches(call) ELSE 1
                 ELSE 0
    IN  {left \in Rewritten(Shown[call.path]) :
            left[Shown[call.path]][call.text] + fewer >= Matches(call)}

Reads(call) == {IF Exists(call.path) THEN Answers(call) ELSE Refused(call)}
Explores(call) ==
    {IF call.path \in {NoPath, Root} THEN Outcome(call, TRUE, Root, files) ELSE Refused(call)}
Previewing(call) ==
    [entry |-> [call |-> call, ok |-> TRUE, shows |-> Shown[call.path],
                applicable |-> Applicable(call), matches |-> Matches(call)],
     files |-> files]
PreviewsOf(call) ==
    {IF Exists(call.path) /\ call.text # NoText /\ call.kind \in Structured
     THEN Previewing(call) ELSE Refused(call)}
Edits(call) ==
    IF Exists(call.path) /\ call.text # NoText /\ ~EditRefuses(call)
    THEN {Outcome(call, TRUE, Shown[call.path], left) : left \in AfterEdit(call)}
    ELSE {Refused(call)}
\* A patch adds, deletes or rewrites a file, or does not apply.
Patches(call) ==
    {Refused(call)} \cup
    IF call.path \in Path \ {Root}
    THEN {Outcome(call, TRUE, Shown[call.path], left) : left \in Changed(Shown[call.path])}
    ELSE {}
Deletes(call) ==
    {IF Exists(call.path)
     THEN Outcome(call, TRUE, Shown[call.path], Without(Shown[call.path]))
     ELSE Refused(call)}
\* A command may have changed a file before it runs out of time.
Runs(call) ==
    {Outcome(call, ok, NoPath, left) :
         ok \in BOOLEAN, left \in {files} \cup UNION {Changed(p) : p \in DOMAIN files}}

Outcomes(call) ==
    CASE call.tool = "read_file" -> Reads(call)
      [] call.tool \in Broad \cup {"git_diff"} -> Explores(call)
      [] call.tool = "preview_structured_edit" -> PreviewsOf(call)
      [] call.tool \in Structured -> Edits(call)
      [] call.tool = "apply_patch" -> Patches(call)
      [] call.tool = "delete_file" -> Deletes(call)
      [] call.tool = "shell_run" -> Runs(call)

\* _invoke_tool_if_available: a tool that is not bound is refused; any call
\* may be refused by the policy of tools or break down.
Failures == {i \in 1..Len(trace) : ~trace[i].ok}
Invoked(call) ==
    LET bound == turn.invoker /\ call.tool \in turn.tools
        denied == ~bound \/ Cardinality(Failures) < MaxDenials
    IN  (IF denied THEN {Refused(call)} ELSE {}) \cup (IF bound THEN Outcomes(call) ELSE {})
-----------------------------------------------------------------------------
(***************************************************************************)
(* The turn.                                                               *)
(***************************************************************************)
NoMemory == [hit |-> FALSE, targets |-> <<>>]
Memories == {NoMemory} \cup {[hit |-> TRUE, targets |-> t] : t \in saved}

Init ==
    /\ turns = 0
    /\ turn = CHOOSE t \in Turn : TRUE
    /\ recalled = NoMemory /\ saved = {}
    /\ step = 1 /\ at = "done" /\ decision = NoCall /\ trace = <<>>
    /\ files \in Workspaces /\ changes = 0

\* invoke up to the loop: the memory is recalled (or is not found), a blank
\* message fails, a question about skills and a missing LLM are answered at once.
BeginTurn ==
    /\ at \in {"done", "failed"} /\ turns < MaxTurns
    /\ turns' = turns + 1
    /\ turn' \in Turn
    /\ recalled' \in Memories
    /\ step' = 1 /\ decision' = NoCall /\ trace' = <<>>
    /\ at' = IF turn'.kind = "empty" THEN "failed"
             ELSE IF turn'.kind = "inventory" \/ ~turn'.llm THEN "done"
             ELSE "reason"
    /\ UNCHANGED <<saved, files, changes>>

\* The model's answer is adjusted; an answer without a call ends the loop.
Decide ==
    /\ at = "reason"
    /\ \E suggestion \in Suggestion \cup {NoCall} : decision' = Adjusted(suggestion)
    /\ at' = IF decision' = NoCall THEN "conclude" ELSE "call"
    /\ UNCHANGED <<turns, turn, recalled, saved, step, trace, files, changes>>

\* The model fails, or returns something that is no decision.
DecisionFails ==
    /\ at = "reason"
    /\ at' = "failed"
    /\ UNCHANGED <<turns, turn, recalled, saved, step, decision, trace, files, changes>>

AfterCall == IF step < MaxSteps THEN "reason" ELSE "finalize"

\* One call; its result joins the trace and the tool context.
CallToolUntilItAnswers ==
    /\ at = "call"
    /\ \E outcome \in Invoked(decision) :
           /\ trace' = IF outcome.entry.ok THEN Append(trace, outcome.entry) ELSE trace
           /\ step' = IF outcome.entry.ok THEN step + 1 ELSE step
           /\ at' = IF outcome.entry.ok THEN AfterCall ELSE "reason"
           /\ files' = outcome.files
    /\ UNCHANGED <<turns, turn, recalled, saved, decision, changes>>
CallTool ==
    /\ at = "call"
    /\ \E outcome \in Invoked(decision) :
           /\ trace' = Append(trace, outcome.entry)
           /\ files' = outcome.files
    /\ step' = step + 1
    /\ at' = AfterCall
    /\ UNCHANGED <<turns, turn, recalled, saved, decision, changes>>

\* After the last step the model writes the reply, or fails to.
Finalize ==
    /\ at = "finalize"
    /\ at' \in {"conclude", "failed"}
    /\ UNCHANGED <<turns, turn, recalled, saved, step, decision, trace, files, changes>>

\* _task_memory_snapshot: the remembered targets, the hint, the target of
\* the latest decision, without repetitions.
Add(paths, path) ==
    IF path = NoPath \/ \E i \in 1..Len(paths) : paths[i] = path THEN paths
    ELSE Append(paths, path)
TargetFiles ==
    Add(Add(recalled.targets, turn.hint), EditTarget(decision))

\* The snapshot is written, or the memory fails and the turn ends without it.
Conclude ==
    /\ at = "conclude"
    /\ at' = "done"
    /\ saved' \in {saved, saved \cup {TargetFiles}}
    /\ UNCHANGED <<turns, turn, recalled, step, decision, trace, files, changes>>

\* Somebody else edits or deletes a file of the workspace.  Only calls look
\* at files, so a change at another time is one made before the next call.
FileChanges ==
    /\ at = "call" /\ changes < MaxChanges
    /\ changes' = changes + 1
    /\ \E p \in DOMAIN files : files' \in Changed(p)
    /\ UNCHANGED <<turns, turn, recalled, saved, step, at, decision, trace>>

LoopStep == Decide \/ DecisionFails \/ CallTool \/ Finalize \/ Conclude
Next == BeginTurn \/ LoopStep \/ FileChanges
Spec == Init /\ [][Next]_vars
\* The invokers of models and tools return or report a failure.
FairSpec == Spec /\ WF_vars(LoopStep)
=============================================================================
