---------------------------- MODULE ResourceSafety ----------------------------
(***************************************************************************)
(* What the resource manager promises.                                     *)
(***************************************************************************)
EXTENDS ResourceManager

(***************************************************************************)
(* A root is called provisioned only while every agent has a workspace,    *)
(* and every registered workspace is a directory, however requests         *)
(* overlap or die: ensure_workspace_directory and the mkdir of             *)
(* provision_agent_workspaces come before the registry is written, and an  *)
(* empty root takes flag and workspaces away together.                     *)
(***************************************************************************)
Sound(reg) ==
    /\ reg.provisioned =>
          reg.root # NoPath /\ \A a \in Agent : reg.workspaces[a] # NoPath
    /\ \A a \in Agent : reg.workspaces[a] # NoPath => reg.workspaces[a] \in disk

WorkspacesAreReady == Sound(registry)

(***************************************************************************)
(* While requests come one at a time and none is cut short, the workspace  *)
(* an agent's capability shows is the one the registry has for it          *)
(* (_sync_workspace_metadata, provision_workspace_root), whatever forms    *)
(* and lists of the same capability are saved in between.  Emptying the    *)
(* root leaves the capabilities as they are.                               *)
(***************************************************************************)
WorkspacesReachAgents ==
    alone /\ AllIdle =>
        \A a \in Agent : registry.workspaces[a] # NoPath =>
            capability[a].workspace = registry.workspaces[a]

(***************************************************************************)
(* A request whose reading of the registry nobody has outdated changes     *)
(* only its own part: a root leaves servers and skills, a synchronization  *)
(* forgets no skill and keeps what was set for it, a discovery changes     *)
(* nothing but the tools of its server.                                    *)
(***************************************************************************)
SameServers == registry'.servers = registry.servers
SameSkills == registry'.skills = registry.skills /\ registry'.sources = registry.sources
SamePlaces == /\ registry'.root = registry.root /\ registry'.workspaces = registry.workspaces
              /\ registry'.provisioned = registry.provisioned

KeepsSkills == \A k \in Skill : registry.skills[k] # Absent =>
    /\ registry'.skills[k] # Absent
    /\ registry'.skills[k].enabled = registry.skills[k].enabled
    /\ registry'.skills[k].triggers = registry.skills[k].triggers

OwnPart(c) ==
    LET req == call[c].req
    IN  CASE req.op = "root" -> SameServers /\ SameSkills
          [] req.op \in {"workspace", "provision"} ->
                 SameServers /\ SameSkills /\ registry'.root = registry.root
          [] req.op = "sync" ->
                 SameServers /\ SamePlaces /\ KeepsSkills /\ registry'.sources = registry.sources
          [] req.op = "skill" ->
                 /\ SameServers /\ SamePlaces /\ registry'.sources = registry.sources
                 /\ \A k \in Skill \ {req.skill} : registry'.skills[k] = registry.skills[k]
          [] req.op = "source" ->
                 SameServers /\ SamePlaces /\ registry'.skills = registry.skills
          [] req.op = "server" ->
                 /\ SameSkills /\ SamePlaces
                 /\ \A s \in Server \ {req.server} : registry'.servers[s] = registry.servers[s]

\* What c has read is what the registry still holds.
ReadIsCurrent(c) ==
    call[c].reg = IF call[c].at = "scanned" THEN Synced(registry, registry) ELSE registry

OnlyItsOwnPart ==
    [][\A c \in Caller :
           /\ call[c].at \in {"change", "scanned", "directories"}
           /\ call'[c].at \in {"idle", "telling"}
           /\ ReadIsCurrent(c) /\ ~Restart
           => OwnPart(c)]_vars

(***************************************************************************)
(* A session has a skill that acts without asking only if a capability     *)
(* form once said so of this agent and skill: a skill the access pages add *)
(* or add again waits for confirmation (save_agent_distribution), and no   *)
(* reading made for one agent is written to another.  A mode that was      *)
(* taken back may return with a form or a list that was read before.       *)
(***************************************************************************)
UntrustedSkillsAsk ==
    \A a \in Agent : offer[a] # NoOffer =>
        \A p \in offer[a].packages :
            p.mode # "human_confirmed" => <<a, p.skill>> \in trusted

(***************************************************************************)
(* Saving one of the two lists of what an agent may use, with nothing      *)
(* changed since the page was shown, leaves the other as it was: the tools *)
(* chosen for an enabled server, the mode of an enabled skill, and the     *)
(* workspace.                                                              *)
(***************************************************************************)
AccessSaveKeepsRest ==
    [][\A c \in Caller :
        LET req == call[c].req
            before == capability[req.agent]
            after == capability'[req.agent]
        IN  /\ call[c].at = "checked" /\ call'[c].at = "idle" /\ capability' # capability
            /\ call[c].cap = before
            => /\ after.workspace = before.workspace
               /\ \A s \in req.servers \cap AssignedServers(before) :
                      before.servers[s].tools # {} => after.servers[s] = before.servers[s]
               /\ \A k \in req.skills \cap AssignedSkills(before) :
                      after.skills[k].mode = before.skills[k].mode]_vars

=============================================================================
