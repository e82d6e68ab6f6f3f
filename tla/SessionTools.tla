----------------------------- MODULE SessionTools -----------------------------
(***************************************************************************)
(* The tools of a session of the playground: what the agent is told it may *)
(* call, the registry of tools and the gateway that are built for the      *)
(* session, and a call on its way through observation, policy, routing and *)
(* gateway to a handler.                                                   *)
(*                                                                         *)
(* A registry of servers lists, for every server, its tools in the order   *)
(* of its entry.  Servers are numbers in the order of their names.         *)
(***************************************************************************)
EXTENDS WorkspaceFiles, Sequences

CONSTANTS
    Server, OtherTool,
    Ref, RefOf,      \* build_mcp_tool_ref: names that differ may give one reference
    Registered,      \* the registries a session may find
    NoServer

Tool == FileTool \cup OtherTool
Entry == [enabled : BOOLEAN, external : BOOLEAN, tools : Seq(Tool)]

ASSUME ToolsAssumption ==
    /\ Server \subseteq Nat /\ NoServer \notin Server
    /\ RefOf \in [Server \X Tool -> Ref]
    /\ \A reg \in Registered : \A s \in Server : reg[s] = <<>> \/ reg[s] \in Entry

\* <<>> stands for a server that is not registered.
Enabled(reg) == {s \in Server : reg[s] # <<>> /\ reg[s].enabled}
ToolsOf(reg, s) == {reg[s].tools[i] : i \in DOMAIN reg[s].tools}

-----------------------------------------------------------------------------
(* MCPRuntimeFactory.build and _tool_registry_snapshot.                     *)

\* register_tool refuses a name its server has already, and build with it.
Buildable(reg) ==
    \A s \in Enabled(reg) : Cardinality(ToolsOf(reg, s)) = Len(reg[s].tools)

Descriptors(reg) == UNION {{s} \X DOMAIN reg[s].tools : s \in Enabled(reg)}
Comes(d, e) == d[1] < e[1] \/ (d[1] = e[1] /\ d[2] <= e[2])
RefAt(reg, d) == RefOf[<<d[1], reg[d[1]].tools[d[2]]>>]

\* Of the descriptors with one reference the first is registered.
Routed(reg, ref) ==
    LET named == {d \in Descriptors(reg) : RefAt(reg, d) = ref}
    IN  IF named = {} THEN <<NoServer, "none">>
        ELSE LET d == CHOOSE d \in named : \A e \in named : Comes(d, e)
             IN  <<d[1], reg[d[1]].tools[d[2]]>>

\* Mistaken variant: making a directory is forgotten.
KindOfWrites(tool) == IF tool \in {"fs.write_file", "fs.delete_file"} THEN "local_write" ELSE "read_only"

\* _tool_descriptor
SideEffectKind(tool) ==
    IF tool \in {"fs.write_file", "fs.make_dir", "fs.delete_file"} THEN "local_write" ELSE "read_only"

\* Mistaken variant: a handler is found by the name of its tool.
HandlerByName(reg, s, tool) ==
    LET named == {t \in Enabled(reg) : tool \in ToolsOf(reg, t)}
        t == CHOOSE t \in named : \A u \in named : u <= t
    IN  IF reg[t].external THEN "external" ELSE IF tool \in FileTool THEN "workspace" ELSE "none"

\* register_handler
Handler(reg, s, tool) ==
    IF reg[s].external THEN "external" ELSE IF tool \in FileTool THEN "workspace" ELSE "none"

-----------------------------------------------------------------------------

VARIABLES
    session,  \* what the session was told and built
    tree,     \* the agent's workspace
    answer    \* the result of the session's last call

vars == <<session, tree, answer>>

NoSession == [at |-> "none", shown |-> <<>>, bound |-> {}, built |-> <<>>,
              registered |-> FALSE, confirmed |-> FALSE]
NoAnswer == [to |-> <<NoServer, "none">>, by |-> "none", ok |-> FALSE, recorded |-> {}]

Init ==
    /\ session = NoSession
    /\ tree \in {[p \in Path |-> IF p = Root THEN kind ELSE "absent"] :
                    kind \in {"absent", "directory"}}
    /\ answer = NoAnswer

\* runtime_descriptors: a registry, the servers the agent is bound to, whether
\* its workspace is registered and enabled, and whether an active skill asks for
\* confirmation.
Describes == \E reg \in Registered, bound \in SUBSET Server, ws, confirmed \in BOOLEAN :
    /\ session.at = "none"
    /\ session' = [at |-> "described", shown |-> reg, bound |-> bound, built |-> <<>>,
                   registered |-> ws, confirmed |-> confirmed]
    /\ UNCHANGED <<tree, answer>>

\* _build_runtime_services reads the registry once more.
Builds == \E reg \in Registered :
    /\ session.at = "described" /\ Buildable(reg)
    /\ session' = [session EXCEPT !.at = "ready", !.built = reg]
    /\ UNCHANGED <<tree, answer>>

\* build raises: there is no session, of whatever agent.
CannotBuild == \E reg \in Registered :
    /\ session.at = "described" /\ ~Buildable(reg)
    /\ session' = NoSession
    /\ UNCHANGED <<tree, answer>>

\* build_mcp_server_catalog: what the agent is told it may call.
Offered == UNION {{s} \X ToolsOf(session.shown, s) : s \in session.bound \cap Enabled(session.shown)}

-----------------------------------------------------------------------------
(* ObservedToolInvoker around PolicyAwareToolInvoker around                 *)
(* RoutingToolInvoker around MCPToolAdapter.invoke.                         *)

Calling == session.at = "ready"

\* A result: who answered for which tool, and the effects it records; the first
\* is the observer's own, of the kind the descriptor says.
Result(to, by, ok, effects) ==
    [to |-> to, by |-> by, ok |-> ok,
     recorded |-> effects \cup (IF to[1] = NoServer THEN {"read_only"} ELSE {SideEffectKind(to[2])})]

\* TOOL_NOT_FOUND
Unknown(ref) ==
    /\ Calling /\ Routed(session.built, ref)[1] = NoServer
    /\ answer' = Result(Routed(session.built, ref), "none", FALSE, {})
    /\ UNCHANGED <<session, tree>>

NeedsApproval(to) == session.confirmed /\ SideEffectKind(to[2]) # "read_only"

\* POLICY_APPROVAL_REQUIRED
Refused(to) ==
    /\ NeedsApproval(to)
    /\ answer' = Result(to, "policy", FALSE, {})
    /\ UNCHANGED <<session, tree>>

\* MCP_TOOL_HANDLER_NOT_FOUND
Unhandled(to) ==
    /\ ~NeedsApproval(to) /\ Handler(session.built, to[1], to[2]) = "none"
    /\ answer' = Result(to, "none", FALSE, {})
    /\ UNCHANGED <<session, tree>>

\* An external server answers, also that the tool failed: that is a success with
\* is_error in its output; or the call raises.
CallsServer(to) == \E ok \in BOOLEAN :
    /\ ~NeedsApproval(to) /\ Handler(session.built, to[1], to[2]) = "external"
    /\ answer' = Result(to, "external", ok, {})
    /\ UNCHANGED <<session, tree>>

CallsFile(to) == \E p \in Path \cup {Outside}, text \in Text :
    LET tool == to[2]
        ok == Resolves(session.registered, tree, p) /\ Succeeds(tool, tree, p)
    IN  /\ ~NeedsApproval(to) /\ Handler(session.built, to[1], tool) = "workspace"
        /\ tree' = IF ok THEN After(tool, tree, p, text) ELSE tree
        /\ answer' = Result(to, "workspace", ok,
                            IF ok /\ tool \in Recording THEN {"local_write"} ELSE {})
        /\ UNCHANGED session

Calls(ref) ==
    LET to == Routed(session.built, ref)
    IN  Calling /\ to[1] # NoServer
        /\ (Refused(to) \/ Unhandled(to) \/ CallsServer(to) \/ CallsFile(to))

Asked == {RefOf[o] : o \in Offered}

Ends ==
    /\ session.at = "ready"
    /\ session' = NoSession /\ answer' = NoAnswer
    /\ UNCHANGED tree

\* Somebody makes or removes the directory of the workspace, with what is in it.
DirectoryChanges ==
    /\ tree' = [p \in Path |-> IF p = Root /\ tree[Root] = "absent" THEN "directory" ELSE "absent"]
    /\ UNCHANGED <<session, answer>>

Next ==
    \/ Describes \/ Builds \/ CannotBuild \/ Ends \/ DirectoryChanges
    \/ Calling /\ \E ref \in Asked : Unknown(ref) \/ Calls(ref)

Spec == Init /\ [][Next]_vars
=============================================================================
