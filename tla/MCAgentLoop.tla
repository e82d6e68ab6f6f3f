----------------------------- MODULE MCAgentLoop -----------------------------
(***************************************************************************)
(* Small turns for the model checker: a file spelled in two ways, a file   *)
(* that does not exist, and the requests that reach every rule.            *)
(***************************************************************************)
EXTENDS AgentLoopSafety, TLC

CONSTANTS a, dotA, b, root, t

MCPath == {a, dotA, b, root}
MCShown == [p \in MCPath |-> IF p = dotA THEN a ELSE p]

Reading == {"read_file", "list_files"}
Plain == [kind |-> "task", llm |-> TRUE, invoker |-> TRUE, tools |-> Tool, direct |-> NoCall,
          directives |-> <<>>, candidate |-> NoPath, hint |-> NoPath,
          edits |-> FALSE, continues |-> FALSE, goal |-> TRUE]

Replace(path, expected) ==
    [On("replace_in_file", path) EXCEPT !.text = t, !.expected = expected]
InText(call) == [call EXCEPT !.quoted = TRUE]
Insert(path) == [On("insert_in_file", path) EXCEPT !.text = t, !.expected = 1]

Patching == Reading \cup {"replace_in_file", "preview_structured_edit"}

MCTurn == {
    \* an edit of a named file; of a hinted file; of whatever is remembered
    [Plain EXCEPT !.edits = TRUE, !.candidate = a],
    [Plain EXCEPT !.edits = TRUE, !.hint = dotA, !.goal = FALSE, !.tools = Reading \cup {"apply_patch"}],
    [Plain EXCEPT !.edits = TRUE, !.continues = TRUE, !.tools = Reading \cup {"apply_patch"}],
    \* an edit spelled out
    [Plain EXCEPT !.edits = TRUE, !.candidate = a, !.directives = <<Insert(a), Replace(a, 1)>>,
                  !.tools = Patching \cup {"insert_in_file"}],
    \* no way to read; no invoker; nothing to do
    [Plain EXCEPT !.edits = TRUE, !.tools = {"list_files", "apply_patch"}],
    [Plain EXCEPT !.invoker = FALSE],
    [Plain EXCEPT !.kind = "empty"]}

\* One call too many of the same tool takes two inputs.  A model that sends a one as
\* text is treated as one that states no number: both want a single occurrence.
MCSuggestion == {ListAll, On("list_files", NoPath), On("apply_patch", a), InText(Replace(a, 1))}

MCWorkspaces == {[p \in {a} |-> [x \in {t} |-> n]] : n \in {1}}
=============================================================================
