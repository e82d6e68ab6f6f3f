--------------------------- MODULE ResourceRegistry ---------------------------
(***************************************************************************)
(* The registry of resources, one document, and the capability of an       *)
(* agent, one document per agent: what each operation makes of the         *)
(* document it has read.  Who reads and writes when is ResourceManager's.  *)
(*                                                                         *)
(* A list sorted by name is a function from names; Absent stands for a     *)
(* name that is not in the list.  Descriptions, notes and commands are     *)
(* left out, and so is discovered_tool_refs, which is only shown.          *)
(***************************************************************************)
EXTENDS Naturals, FiniteSets

CONSTANTS
    Agent, Skill, Server, Tool, Endpoint,
    Root,       \* roots one may select for the workspaces; a workspace below
                \* root r is named r
    OwnPath,    \* other directories one may give an agent
    Source,     \* skill sources one may register
    Project,    \* the source that is always scanned, first
    Holds,      \* the skills whose SKILL.md each source holds
    NoPath, Absent

Path == Root \cup OwnPath
AnySource == Source \cup {Project}
Mode == {"advisory", "human_confirmed", "auto"}

ASSUME ResourceAssumption ==
    /\ NoPath \notin Path
    /\ Project \notin Source
    /\ Holds \in [AnySource -> SUBSET Skill]

SkillEntry == [enabled : BOOLEAN, triggers : BOOLEAN, from : AnySource \cup {"manual"}]
ServerEntry == [enabled : BOOLEAN, external : BOOLEAN, endpoint : Endpoint, tools : SUBSET Tool]

ASSUME AbsentAssumption == Absent \notin SkillEntry \cup ServerEntry

Registry ==
    [root : Path \cup {NoPath}, provisioned : BOOLEAN,
     workspaces : [Agent -> Path \cup {NoPath}],
     servers : [Server -> ServerEntry \cup {Absent}],
     skills : [Skill -> SkillEntry \cup {Absent}],
     sources : [Source -> {"enabled", "disabled", "absent"}]]

-----------------------------------------------------------------------------
(* The registry after an operation that read reg.                           *)

\* Mistaken variant: an empty path leaves the flag.
WithRootOnly(reg, r) ==
    [reg EXCEPT !.root = r,
                !.workspaces = IF r = NoPath THEN [a \in Agent |-> NoPath] ELSE @]

WithRoot(reg, r) ==
    [root |-> r,
     provisioned |-> IF r = NoPath THEN FALSE ELSE reg.provisioned,
     workspaces |-> IF r = NoPath THEN [a \in Agent |-> NoPath] ELSE reg.workspaces,
     servers |-> reg.servers, skills |-> reg.skills, sources |-> reg.sources]

WithWorkspace(reg, a, p) == [reg EXCEPT !.workspaces = [@ EXCEPT ![a] = p]]

Provisioned(reg) ==
    [root |-> reg.root, provisioned |-> TRUE,
     workspaces |-> [a \in Agent |-> reg.root],
     servers |-> reg.servers, skills |-> reg.skills, sources |-> reg.sources]

WithServer(reg, s, entry) == [reg EXCEPT !.servers = [@ EXCEPT ![s] = entry]]
WithSkill(reg, k, entry) == [reg EXCEPT !.skills = [@ EXCEPT ![k] = entry]]
WithSource(reg, s, state) == [reg EXCEPT !.sources = [@ EXCEPT ![s] = state]]

\* The sources that are scanned; _discovery_sources skips the disabled ones.
Scanned(reg) == {Project} \cup {s \in Source : reg.sources[s] = "enabled"}

\* A skill found in several sources comes from the last one; no two registered
\* sources hold the same skill, so the last one is never the project's.
FoundIn(reg, k) ==
    LET holding == {s \in Scanned(reg) : k \in Holds[s]}
    IN  IF holding \ {Project} # {} THEN holding \ {Project} ELSE holding

\* Mistaken variant: what is only in the registry is forgotten, and a setting
\* made there is not kept.
SyncedAnew(reg, scan) ==
    [reg EXCEPT !.skills = [k \in Skill |->
        IF FoundIn(scan, k) = {} THEN Absent
        ELSE [enabled |-> TRUE, triggers |-> FALSE, from |-> CHOOSE s \in FoundIn(scan, k) : TRUE]]]

\* sync_skills_from_sources: registry reg, sources as registered in scan.
Synced(reg, scan) ==
    [reg EXCEPT !.skills = [k \in Skill |->
        IF FoundIn(scan, k) = {} THEN reg.skills[k]
        ELSE [enabled  |-> (reg.skills[k] # Absent => reg.skills[k].enabled),
              triggers |-> (reg.skills[k] # Absent /\ reg.skills[k].triggers),
              from     |-> CHOOSE s \in FoundIn(scan, k) : TRUE]]]

-----------------------------------------------------------------------------
(* Capabilities.                                                            *)

ServerBinding == [enabled : BOOLEAN, tools : SUBSET Tool]
SkillBinding == [enabled : BOOLEAN, triggers : BOOLEAN, mode : Mode]

Capability ==
    [servers : [Server -> ServerBinding \cup {Absent}],
     skills : [Skill -> SkillBinding \cup {Absent}],
     workspace : Path \cup {NoPath}]

NewCapability ==
    [servers |-> [s \in Server |-> Absent], skills |-> [k \in Skill |-> Absent],
     workspace |-> NoPath]

AssignedServers(cap) == {s \in Server : cap.servers[s] # Absent /\ cap.servers[s].enabled}
AssignedSkills(cap) == {k \in Skill : cap.skills[k] # Absent /\ cap.skills[k].enabled}

EnabledServers(reg) == {s \in Server : reg.servers[s] # Absent /\ reg.servers[s].enabled}
EnabledSkills(reg) == {k \in Skill : reg.skills[k] # Absent /\ reg.skills[k].enabled}

\* Mistaken variant: every binding is made anew.
DistributedAnew(reg, cap, servers, skills) ==
    [servers |-> [s \in Server |->
        IF s \notin servers THEN Absent
        ELSE [enabled |-> TRUE, tools |-> reg.servers[s].tools]],
     skills |-> [k \in Skill |->
        IF k \notin skills THEN Absent
        ELSE [enabled |-> TRUE, triggers |-> reg.skills[k].triggers, mode |-> "human_confirmed"]],
     workspace |-> cap.workspace]

\* save_agent_distribution: a binding that exists keeps what it says.
Distributed(reg, cap, servers, skills) ==
    [servers |-> [s \in Server |->
        IF s \notin servers THEN Absent
        ELSE [enabled |-> TRUE,
              tools |-> IF cap.servers[s] # Absent /\ cap.servers[s].tools # {}
                        THEN cap.servers[s].tools ELSE reg.servers[s].tools]],
     skills |-> [k \in Skill |->
        IF k \notin skills THEN Absent
        ELSE [enabled |-> TRUE,
              triggers |-> \/ cap.skills[k] # Absent /\ cap.skills[k].triggers
                           \/ reg.skills[k].triggers,
              mode |-> IF cap.skills[k] # Absent THEN cap.skills[k].mode
                       ELSE "human_confirmed"]],
     workspace |-> cap.workspace]

MayDistribute(reg, servers, skills) ==
    servers \subseteq EnabledServers(reg) /\ skills \subseteq EnabledSkills(reg)

\* _sync_workspace_metadata
WithMetadata(cap, p) == [cap EXCEPT !.workspace = p]
=============================================================================
