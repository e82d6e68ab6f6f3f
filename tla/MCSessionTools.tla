---------------------------- MODULE MCSessionTools ----------------------------
(***************************************************************************)
(* A small instance for TLC: an internal and an external server, whose     *)
(* tools "x" get one reference.                                            *)
(***************************************************************************)
EXTENDS SessionToolsSafety

MCPath == {"root", "d", "f"}
MCParent == [p \in {"d", "f"} |-> IF p = "f" THEN "d" ELSE "root"]

MCRef == Server \X (FileTool \cup OtherTool)
MCRefOf == [o \in MCRef |-> IF o[2] \in OtherTool THEN <<1, o[2]>> ELSE o]

Internal(tools) == [enabled |-> TRUE, external |-> FALSE, tools |-> tools]
External(tools) == [enabled |-> TRUE, external |-> TRUE, tools |-> tools]
AllTools == <<"fs.list_dir", "fs.read_file", "fs.write_file", "fs.make_dir", "fs.search_files",
              "fs.delete_file", "x">>

MCRegistered ==
    {<<Internal(AllTools), External(<<"fs.read_file", "x">>)>>,
     <<Internal(<<"fs.make_dir">>), [External(<<"fs.read_file", "x">>) EXCEPT !.enabled = FALSE]>>,
     <<Internal(<<"x", "x">>), <<>> >>}
=============================================================================
