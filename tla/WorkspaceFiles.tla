---------------------------- MODULE WorkspaceFiles ----------------------------
(***************************************************************************)
(* The file tools of the workspace server: what each makes of an agent's   *)
(* workspace.  A tree says of every path below the workspace whether it is *)
(* absent, a directory or a file with a text.                              *)
(***************************************************************************)
EXTENDS Naturals, FiniteSets

CONSTANTS
    Path, Root,
    Parent,    \* of every path but the root
    Outside,   \* stands for a path that leads out of the workspace
    Text

ASSUME FilesAssumption ==
    /\ Root \in Path /\ Outside \notin Path
    /\ Parent \in [Path \ {Root} -> Path]
    /\ {"absent", "directory"} \cap Text = {}

Tree == [Path -> {"absent", "directory"} \cup Text]

FileTool == {"fs.list_dir", "fs.read_file", "fs.write_file", "fs.make_dir",
             "fs.search_files", "fs.delete_file"}

IsFile(tree, p) == tree[p] \in Text

\* p and the paths above it.
Above[p \in Path] == IF p = Root THEN {Root} ELSE {p} \cup Above[Parent[p]]

\* path.mkdir(parents=True, exist_ok=True)
MayMake(tree, p) == \A q \in Above[p] : ~IsFile(tree, q)
WithDirectory(tree, p) == [q \in Path |-> IF q \in Above[p] THEN "directory" ELSE tree[q]]

(***************************************************************************)
(* The workspace of the session, as _workspace_root_from_context wants it: *)
(* registered, enabled, and a directory that exists.                       *)
(***************************************************************************)
Resolves(registered, tree, p) == registered /\ tree[Root] = "directory" /\ p \in Path

\* Whether the handler returns a result; otherwise it raises, and has changed nothing.
Succeeds(tool, tree, p) ==
    CASE tool = "fs.list_dir" -> tree[p] = "directory"
      [] tool \in {"fs.read_file", "fs.delete_file"} -> IsFile(tree, p)
      [] tool = "fs.write_file" ->
             tree[p] # "directory" /\ MayMake(tree, Parent[p])
      [] tool = "fs.make_dir" -> MayMake(tree, p)
      [] tool = "fs.search_files" -> TRUE

After(tool, tree, p, text) ==
    CASE tool = "fs.write_file" -> [WithDirectory(tree, Parent[p]) EXCEPT ![p] = text]
      [] tool = "fs.make_dir" -> WithDirectory(tree, p)
      [] tool = "fs.delete_file" -> [tree EXCEPT ![p] = "absent"]
      [] OTHER -> tree

\* The tools whose result carries a side effect of its own.
Recording == {"fs.write_file", "fs.make_dir", "fs.delete_file"}
=============================================================================
