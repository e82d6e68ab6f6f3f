SPECIFICATION Spec
CONSTANTS
    k1 = k1  k2 = k2  t1 = t1  e1 = e1  src = src
    Agent = {a1, a2}  Skill = {k1, k2}  Server = {s1}  Tool = {t1}  Endpoint = {e1}
    Root = {r1}  OwnPath = {p1}  Source = {src}  Project = project
    NoPath = NoPath  Absent = Absent  NoOffer = NoOffer
    Holds <- MCHolds
    Caller = {c1, c2}
    SkillForm <- MCSkillForm
    ServerForm <- MCServerForm
    BindingForm <- MCBindingForm
    ServerBindingForm <- MCServerBindingForm
    ToolsAt <- MCToolsAt
    Imported <- MCImported
    Stored <- MCStored
    MaxRequests = 3
INVARIANTS
    WorkspacesAreReady
    WorkspacesReachAgents
    UntrustedSkillsAsk
PROPERTIES
    OnlyItsOwnPart
    AccessSaveKeepsRest
SYMMETRY Symmetry
CHECK_DEADLOCK FALSE
