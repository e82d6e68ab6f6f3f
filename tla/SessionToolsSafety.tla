-------------------------- MODULE SessionToolsSafety --------------------------
(***************************************************************************)
(* What the tools of a session promise.                                    *)
(***************************************************************************)
EXTENDS SessionTools

(***************************************************************************)
(* A tool the agent was told of is answered by the server it was told of,  *)
(* by that server's kind of handler, when the registry has not changed     *)
(* before the session was built and no other enabled tool has the same     *)
(* reference: never by another server's tool of that name, and never with  *)
(* TOOL_NOT_FOUND.                                                         *)
(***************************************************************************)
Distinct(reg, o) ==
    \A s \in Enabled(reg) : \A t \in ToolsOf(reg, s) : RefOf[<<s, t>>] = RefOf[o] => <<s, t>> = o

CallsGoWhereOffered ==
    session.at = "ready" /\ session.shown = session.built =>
        \A o \in Offered : Distinct(session.built, o) =>
            /\ Routed(session.built, RefOf[o]) = o
            /\ answer.to = o =>
                  CASE answer.by = "external" -> session.shown[o[1]].external
                    [] answer.by = "workspace" -> ~session.shown[o[1]].external /\ o[2] \in FileTool
                    [] answer.by = "none" -> ~session.shown[o[1]].external /\ o[2] \notin FileTool
                    [] answer.by = "policy" -> session.confirmed

(***************************************************************************)
(* A call changes the workspace only in a session none of whose active     *)
(* skills asks for confirmation, and then says so: what the handlers do is *)
(* what _tool_descriptor declares, which is all the policy looks at, and   *)
(* the result records a local write.  (The directory itself comes and goes *)
(* by other hands.)                                                        *)
(***************************************************************************)
ChangesAreDeclared ==
    [][tree' # tree /\ tree'[Root] = tree[Root] =>
           /\ Calling /\ ~session.confirmed
           /\ answer'.ok /\ answer'.recorded = {"local_write"}]_vars
=============================================================================
