---------------------------- MODULE ResourceManager ----------------------------
(***************************************************************************)
(* The resource manager: requests of the pages, each served in a thread of *)
(* its own, that read the registry or a capability, change what they read  *)
(* and write it back.  Between two steps of one request any step of        *)
(* another may come; a request may die at every step, and the server may   *)
(* be restarted.                                                           *)
(*                                                                         *)
(* A document is read and written as a whole (the SQLite store); nothing   *)
(* compares versions.  call[c].reg and call[c].cap are what request c has  *)
(* read.  MaxRequests is a bound of the model.                             *)
(***************************************************************************)
EXTENDS SkillRuntime

CONSTANTS
    Caller, SkillForm, ServerForm, BindingForm, ServerBindingForm,
    ToolsAt,     \* the tools the server at an endpoint lists
    Imported,    \* the servers of the import file
    Stored,      \* what the store may hold when the first process starts
    NoOffer, MaxRequests

ASSUME RequestAssumption ==
    /\ SkillForm \subseteq SkillEntry
    /\ ServerForm \subseteq ServerEntry
    /\ BindingForm \subseteq SkillBinding
    /\ ServerBindingForm \subseteq ServerBinding
    /\ ToolsAt \in [Endpoint -> SUBSET Tool]
    /\ Imported \in [Server -> ServerEntry \cup {Absent}]
    /\ MaxRequests \in Nat

(* What the pages send: a form is saved under its name, or that name is     *)
(* deleted (entry Absent, state "absent").  The last set is not filled in   *)
(* by a user.                                                               *)

SkillRequest == [op : {"skill"}, skill : Skill, entry : SkillForm \cup {Absent}]
SourceRequest == [op : {"source"}, source : Source, state : {"enabled", "disabled", "absent"}]
ServerRequest == [op : {"server"}, server : Server, entry : ServerForm]
RootRequest == [op : {"root"}, path : Root \cup {NoPath}]
PlaceRequest == [op : {"workspace"}, agent : Agent, path : OwnPath]
AccessRequest == [op : {"access"}, agent : Agent, page : {"skills", "servers"}]

Request ==
    SkillRequest \cup SourceRequest \cup ServerRequest \cup RootRequest \cup PlaceRequest
    \cup AccessRequest \cup [op : {"sync", "provision"}]
    \cup [op : {"discover"}, server : Server] \cup [op : {"capability", "describe"}, agent : Agent]

VARIABLES
    registry,    \* the registry document
    capability,  \* the capability document of each agent
    disk,        \* the directories that have been made
    call,        \* what each caller's request has read, and where it is
    offer,       \* what the last session of each agent was given
    issued,
    alone,       \* history: no two requests overlapped, none was cut short
    trusted      \* history: the skills of agents that a form let act unasked

vars == <<registry, capability, disk, call, offer, issued, alone, trusted>>

\* Nothing the request has not read yet is looked at.
NoCall == [at |-> "idle", req |-> [op |-> "none"], reg |-> Absent, cap |-> Absent,
           entry |-> Absent, tools |-> {}, todo |-> {}, given |-> NoOffer]

Idle(c) == call[c].at = "idle"
AllIdle == \A c \in Caller : Idle(c)

\* Of what is stored, no agent has a workspace yet.
ASSUME StoredAssumption ==
    \A kept \in Stored :
        /\ kept.registry \in Registry /\ kept.capability \in [Agent -> Capability]
        /\ ~kept.registry.provisioned
        /\ \A a \in Agent : kept.registry.workspaces[a] = NoPath

\* _sync_mcp_import_config
WithImported(reg) ==
    [reg EXCEPT !.servers =
        [s \in Server |-> IF Imported[s] = Absent THEN reg.servers[s] ELSE Imported[s]]]

\* The skills that do not wait for a confirmation.
Trusts(cap) ==
    {k \in Skill : cap.skills[k] # Absent /\ cap.skills[k].mode # "human_confirmed"}

Init ==
    /\ \E kept \in Stored :
           /\ registry = WithImported(kept.registry)
           /\ capability = kept.capability
    /\ disk = {}
    /\ call = [c \in Caller |-> NoCall]
    /\ offer = [a \in Agent |-> NoOffer]
    /\ issued = 0 /\ alone = TRUE
    /\ trusted = {t \in Agent \X Skill : t[2] \in Trusts(capability[t[1]])}

Goes(c, at) == call' = [call EXCEPT ![c].at = at]
Ends(c) == call' = [call EXCEPT ![c] = NoCall]

-----------------------------------------------------------------------------
(* A request arrives and makes its first read.                              *)

FirstStep(op) ==
    CASE op \in {"root", "skill", "source", "server"} -> "change"
      [] op \in {"workspace", "provision"} -> "directories"
      [] op = "sync" -> "scan"
      [] op = "discover" -> "listing"
      [] op \in {"access", "describe"} -> "snapshot"
      [] op = "capability" -> "editing"

Begin(c) == \E req \in Request :
    /\ Idle(c) /\ issued < MaxRequests
    /\ req.op = "discover" => registry.servers[req.server] # Absent
    /\ call' = [call EXCEPT ![c] =
           [NoCall EXCEPT !.at = FirstStep(req.op), !.req = req,
               !.reg = IF req.op \in {"capability", "discover"} THEN Absent ELSE registry,
               !.cap = IF req.op = "capability" THEN capability[req.agent] ELSE Absent,
               !.entry = IF req.op = "discover" THEN registry.servers[req.server] ELSE Absent]]
    /\ issued' = issued + 1
    /\ alone' = (alone /\ AllIdle)
    /\ UNCHANGED <<registry, capability, disk, offer, trusted>>

-----------------------------------------------------------------------------
(* save_workspace_root, save_skill, delete_skill, save_skill_source,        *)
(* delete_skill_source, save_mcp_server: what is not there cannot be        *)
(* deleted.                                                                 *)

MayChange(req, reg) ==
    /\ req.op = "skill" => (req.entry = Absent => reg.skills[req.skill] # Absent)
    /\ req.op = "source" => (req.state = "absent" => reg.sources[req.source] # "absent")

Changed(req, reg) ==
    CASE req.op = "root" -> WithRoot(reg, req.path)
      [] req.op = "skill" -> WithSkill(reg, req.skill, req.entry)
      [] req.op = "source" -> WithSource(reg, req.source, req.state)
      [] req.op = "server" -> WithServer(reg, req.server, req.entry)

Change(c) ==
    /\ call[c].at = "change"
    /\ registry' = IF MayChange(call[c].req, call[c].reg)
                   THEN Changed(call[c].req, call[c].reg) ELSE registry
    /\ Ends(c)
    /\ UNCHANGED <<capability, disk, offer, issued, alone, trusted>>

\* sync_skills_from_sources reads the registry once more for its sources.
Scan(c) ==
    /\ call[c].at = "scan"
    /\ call' = [call EXCEPT ![c].at = "scanned", ![c].reg = Synced(call[c].reg, registry)]
    /\ UNCHANGED <<registry, capability, disk, offer, issued, alone, trusted>>

SaveScanned(c) ==
    /\ call[c].at = "scanned"
    /\ registry' = call[c].reg
    /\ Ends(c)
    /\ UNCHANGED <<capability, disk, offer, issued, alone, trusted>>

-----------------------------------------------------------------------------
(* save_workspace and provision_workspace_root: directories, registry, then *)
(* the capabilities of the agents, one after the other.                     *)

MayPlace(req, reg) == req.op = "provision" => reg.root # NoPath

Placed(req, reg) ==
    IF req.op = "provision" THEN Provisioned(reg)
    ELSE WithWorkspace(reg, req.agent, req.path)

\* Mistaken variant: agents that had a workspace are skipped.
ToTellNew(req, reg) == {a \in Agent : reg.workspaces[a] = NoPath}

\* The agents whose capability is told of its workspace.
ToTell(req, reg) == IF req.op = "provision" THEN Agent ELSE {req.agent}

Place(c) ==
    LET req == call[c].req
        reg == call[c].reg
    IN  /\ call[c].at = "directories" /\ MayPlace(req, reg)
        /\ disk' = disk \cup {Placed(req, reg).workspaces[a] : a \in ToTell(req, reg)}
        /\ registry' = Placed(req, reg)
        /\ call' = [call EXCEPT ![c].at = "telling", ![c].reg = Placed(req, reg),
                                ![c].todo = ToTell(req, reg)]
        /\ UNCHANGED <<capability, offer, issued, alone, trusted>>

\* No root is selected, or a directory cannot be made after some were.
CannotPlace(c) ==
    /\ call[c].at = "directories"
    /\ \E made \in SUBSET Path :
           /\ made # {} => MayPlace(call[c].req, call[c].reg)
           /\ \A p \in made : \E a \in ToTell(call[c].req, call[c].reg) :
                  p = Placed(call[c].req, call[c].reg).workspaces[a]
           /\ disk' = disk \cup made
    /\ Ends(c)
    /\ UNCHANGED <<registry, capability, offer, issued, alone, trusted>>

\* Mistaken variant: what was read of the first agent is written to all.
ReadToTellOnce(c) == \E a \in call[c].todo :
    /\ call[c].at = "telling"
    /\ call' = [call EXCEPT ![c].at = "told",
                            ![c].cap = IF @ = Absent THEN capability[a] ELSE @,
                            ![c].req = [op |-> "tell", agent |-> a]]
    /\ UNCHANGED <<registry, capability, disk, offer, issued, alone, trusted>>

ReadToTell(c) == \E a \in call[c].todo :
    /\ call[c].at = "telling"
    /\ call' = [call EXCEPT ![c].at = "told", ![c].cap = capability[a],
                            ![c].req = [op |-> "tell", agent |-> a]]
    /\ UNCHANGED <<registry, capability, disk, offer, issued, alone, trusted>>

Tell(c) ==
    LET a == call[c].req.agent
        rest == call[c].todo \ {a}
    IN  /\ call[c].at = "told"
        /\ capability' = [capability EXCEPT ![a] =
               WithMetadata(call[c].cap, call[c].reg.workspaces[a])]
        /\ call' = IF rest = {} THEN [call EXCEPT ![c] = NoCall]
                   ELSE [call EXCEPT ![c].at = "telling", ![c].todo = rest]
        /\ UNCHANGED <<registry, disk, offer, issued, alone, trusted>>

-----------------------------------------------------------------------------
(* discover_mcp_server_tools: the entry, the server's answer, the entry     *)
(* again, the registry, and the write.                                      *)

Listed(c) ==
    /\ call[c].at = "listing" /\ call[c].entry.external
    /\ call' = [call EXCEPT ![c].at = "listed", ![c].tools = ToolsAt[call[c].entry.endpoint],
                            ![c].entry = Absent]
    /\ UNCHANGED <<registry, capability, disk, offer, issued, alone, trusted>>

ReadEntry(c) ==
    LET now == registry.servers[call[c].req.server]
    IN  /\ call[c].at = "listed" /\ now # Absent
        /\ call' = [call EXCEPT ![c].at = "entry",
               ![c].entry = [now EXCEPT !.tools = IF now.external THEN call[c].tools ELSE @]]
        /\ UNCHANGED <<registry, capability, disk, offer, issued, alone, trusted>>

ReadForTools(c) ==
    /\ call[c].at = "entry"
    /\ call' = [call EXCEPT ![c].at = "change", ![c].reg = registry,
           ![c].req = [op |-> "server", server |-> call[c].req.server, entry |-> call[c].entry]]
    /\ UNCHANGED <<registry, capability, disk, offer, issued, alone, trusted>>

-----------------------------------------------------------------------------
(* get_snapshot reads the capabilities after the registry.  A page that     *)
(* saves what an agent may use shows a snapshot, and sends one of its two   *)
(* lists as the user left it and the other as in the snapshot.              *)

ReadSnapshot(c) ==
    /\ call[c].at = "snapshot"
    /\ call' = [call EXCEPT ![c].at = IF call[c].req.op = "access" THEN "shown" ELSE "described",
                            ![c].cap = capability[call[c].req.agent]]
    /\ UNCHANGED <<registry, capability, disk, offer, issued, alone, trusted>>

\* Each registered server has a button; a skill's button is disabled with it,
\* and what is not registered has none.
ToggledServers(reg, cap) ==
    {s \in SUBSET Server :
        \A x \in Server : reg.servers[x] = Absent => (x \in s <=> x \in AssignedServers(cap))}

ToggledSkills(reg, cap) ==
    {k \in SUBSET Skill :
        \A x \in Skill \ EnabledSkills(reg) : x \in k <=> x \in AssignedSkills(cap)}

ServersPage(reg, cap) ==
    [servers : ToggledServers(reg, cap), skills : {AssignedSkills(cap)}]

SkillsPage(reg, cap) ==
    [servers : {AssignedServers(cap)}, skills : ToggledSkills(reg, cap)]

Chosen(page, reg, cap) == IF page = "servers" THEN ServersPage(reg, cap) ELSE SkillsPage(reg, cap)

\* The request arrives and reads the registry.
Submit(c) ==
    /\ call[c].at = "shown"
    /\ \E chosen \in Chosen(call[c].req.page, call[c].reg, call[c].cap) :
           call' = [call EXCEPT ![c].at = "submitted", ![c].reg = registry, ![c].cap = Absent,
               ![c].req = [op |-> "distribute", agent |-> call[c].req.agent,
                           servers |-> chosen.servers, skills |-> chosen.skills]]
    /\ UNCHANGED <<registry, capability, disk, offer, issued, alone, trusted>>

ReadToDistribute(c) ==
    LET req == call[c].req
    IN  /\ call[c].at = "submitted"
        /\ call' = IF MayDistribute(call[c].reg, req.servers, req.skills)
                   THEN [call EXCEPT ![c].at = "checked", ![c].cap = capability[req.agent]]
                   ELSE [call EXCEPT ![c] = NoCall]
        /\ UNCHANGED <<registry, capability, disk, offer, issued, alone, trusted>>

Distribute(c) ==
    LET req == call[c].req
    IN  /\ call[c].at = "checked"
        /\ capability' = [capability EXCEPT ![req.agent] =
               Distributed(call[c].reg, call[c].cap, req.servers, req.skills)]
        /\ Ends(c)
        /\ UNCHANGED <<registry, disk, offer, issued, alone, trusted>>

\* save_capability stores the form as it comes; the form was filled from a
\* capability and one binding of it was changed.
Edited(cap) ==
    {[cap EXCEPT !.skills = [@ EXCEPT ![k] = b]] :
        k \in Skill, b \in BindingForm \cup {Absent}}
    \cup {[cap EXCEPT !.servers = [@ EXCEPT ![s] = b]] :
             s \in Server, b \in ServerBindingForm \cup {Absent}}

SaveForm(c) ==
    /\ call[c].at = "editing"
    /\ \E form \in Edited(call[c].cap) :
           /\ capability' = [capability EXCEPT ![call[c].req.agent] = form]
           /\ trusted' = trusted \cup {<<call[c].req.agent, k>> : k \in Trusts(form)}
    /\ Ends(c)
    /\ UNCHANGED <<registry, disk, offer, issued, alone>>

\* runtime_descriptors: the capability is read once more, and the other
\* agents' after it.
ReadBindings(c) ==
    LET a == call[c].req.agent
    IN  /\ call[c].at = "described"
        /\ call' = [call EXCEPT ![c].at = "offering", ![c].reg = Absent, ![c].cap = Absent,
               ![c].given = Offered(call[c].reg, call[c].cap, capability[a], a)]
        /\ UNCHANGED <<registry, capability, disk, offer, issued, alone, trusted>>

\* Services and session are made, with what was read by then.
Describe(c) ==
    /\ call[c].at = "offering"
    /\ offer' = [offer EXCEPT ![call[c].req.agent] = call[c].given]
    /\ Ends(c)
    /\ UNCHANGED <<registry, capability, disk, issued, alone, trusted>>

-----------------------------------------------------------------------------
(* A request dies: the client leaves, a server does not answer, an error.   *)

Dies(c) ==
    /\ ~Idle(c)
    /\ Ends(c)
    /\ alone' = FALSE
    /\ UNCHANGED <<registry, capability, disk, offer, issued, trusted>>

\* A new process imports the servers of the file and knows no session.
Restart ==
    /\ registry' = WithImported(registry)
    /\ call' = [c \in Caller |-> NoCall]
    /\ offer' = [a \in Agent |-> NoOffer]
    /\ alone' = (alone /\ AllIdle)
    /\ UNCHANGED <<capability, disk, issued, trusted>>

ChangesRegistry(c) == Change(c) \/ Scan(c) \/ SaveScanned(c)
Places(c) == Place(c) \/ CannotPlace(c) \/ ReadToTell(c) \/ Tell(c)
Discovers(c) == Listed(c) \/ ReadEntry(c) \/ ReadForTools(c)
Serves(c) == \/ ReadSnapshot(c) \/ Submit(c) \/ ReadToDistribute(c) \/ Distribute(c)
             \/ SaveForm(c) \/ ReadBindings(c) \/ Describe(c)

Next ==
    \/ \E c \in Caller :
           Begin(c) \/ ChangesRegistry(c) \/ Places(c) \/ Discovers(c) \/ Serves(c) \/ Dies(c)
    \/ Restart

Spec == Init /\ [][Next]_vars
=============================================================================
