------------------------------ MODULE MCResources ------------------------------
(* A small instance of the resource manager for TLC. *)
EXTENDS ResourceSafety, TLC

CONSTANTS k1, k2, t1, e1, src

MCHolds == [s \in AnySource |-> IF s = src THEN {k1} ELSE {k2}]
MCSkillForm == {[enabled |-> FALSE, triggers |-> TRUE, from |-> "manual"]}
MCServerForm == {[enabled |-> FALSE, external |-> TRUE, endpoint |-> e1, tools |-> {t1}]}
MCBindingForm == {[enabled |-> TRUE, triggers |-> FALSE, mode |-> "auto"]}
MCServerBindingForm == {[enabled |-> TRUE, tools |-> {t1}]}
MCToolsAt == [e \in Endpoint |-> Tool]
MCImported == [s \in Server |-> [enabled |-> TRUE, external |-> TRUE, endpoint |-> e1, tools |-> {}]]

NewRegistry ==
    [root |-> CHOOSE r \in Root : TRUE, provisioned |-> FALSE,
     workspaces |-> [a \in Agent |-> NoPath], servers |-> [s \in Server |-> Absent],
     skills |-> [k \in Skill |-> Absent], sources |-> [s \in Source |-> "absent"]]

UsedRegistry ==
    [NewRegistry EXCEPT
        !.servers = [s \in Server |-> [enabled |-> TRUE, external |-> TRUE,
                                       endpoint |-> e1, tools |-> {t1}]],
        !.skills = [k \in Skill |-> [enabled |-> TRUE, triggers |-> FALSE, from |-> "manual"]]]

UsedCapability ==
    [servers |-> [s \in Server |-> [enabled |-> TRUE, tools |-> {t1}]],
     skills |-> [k \in Skill |-> IF k = k1 THEN [enabled |-> TRUE, triggers |-> FALSE,
                                                mode |-> "human_confirmed"] ELSE Absent],
     workspace |-> NoPath]

MCStored ==
    {[registry |-> NewRegistry, capability |-> [a \in Agent |-> NewCapability]],
     [registry |-> UsedRegistry, capability |-> [a \in Agent |-> UsedCapability]]}

Symmetry == Permutations(Caller)
=============================================================================
