----------------------------- MODULE SkillRuntime -----------------------------
(***************************************************************************)
(* What a session of an agent is given of its resources, out of one        *)
(* reading of the registry and two of the agent's capability.  Which of    *)
(* its skills a request then activates is left out: the prompt and the     *)
(* approval gate ask the same function (resolve_active_skill_packages).    *)
(***************************************************************************)
EXTENDS ResourceRegistry

\* build_mcp_server_catalog: every tool of the servers that are enabled.
Catalog(reg, servers) ==
    {o \in Server \X Tool :
        o[1] \in servers \cap EnabledServers(reg) /\ o[2] \in reg.servers[o[1]].tools}

\* build_runtime_skill_packages
Package(reg, cap, k) ==
    [skill |-> k, mode |-> cap.skills[k].mode,
     triggers |-> reg.skills[k].triggers \/ cap.skills[k].triggers]

Packages(reg, cap, skills) == {Package(reg, cap, k) : k \in skills}

(***************************************************************************)
(* runtime_descriptors: registry and capability as in the snapshot, then   *)
(* the capability once more for the bindings of the skills.                *)
(***************************************************************************)
Offered(reg, first, second, a) ==
    [packages |-> Packages(reg, second,
                     {k \in AssignedSkills(first) \cap AssignedSkills(second) :
                          reg.skills[k] # Absent}),
     tools |-> Catalog(reg, AssignedServers(first)),
     workspace |-> reg.workspaces[a]]
=============================================================================
