---------------------------- MODULE ResourceProofs ----------------------------
(***************************************************************************)
(* Why a registered workspace exists, whatever requests overlap or die: a  *)
(* request that writes the registry writes one that was sound when it was  *)
(* read, directories are made before they are registered, and no directory *)
(* is taken away.                                                          *)
(* Then what holds of capabilities and sessions: what a request knows of a *)
(* capability, and of the agents it has not told yet; and which modes of a *)
(* skill a capability or a session, however old, can have.                 *)
(***************************************************************************)
EXTENDS ResourceSafety, TLAPS

\* Sound, of a registry and the directories there are.
SoundOn(reg, made) ==
    /\ reg.provisioned =>
          reg.root # NoPath /\ \A a \in Agent : reg.workspaces[a] # NoPath
    /\ \A a \in Agent : reg.workspaces[a] # NoPath => reg.workspaces[a] \in made

\* The requests at each step, after a discovery has become a change of its server.
ChangeRequest ==
    RootRequest \cup SkillRequest \cup SourceRequest
    \cup [op : {"server"}, server : Server, entry : ServerEntry]
PlacingRequest == PlaceRequest \cup [op : {"provision"}]
DiscoverRequest == [op : {"discover"}, server : Server]

\* The steps at which a request holds a registry it may write.
Writing == {"change", "directories", "scan", "scanned"}
Discovering == {"listing", "listed", "entry"}
Free == {"idle", "telling", "told", "snapshot", "shown", "described", "offering",
         "submitted", "checked", "editing"}

IsCall(x) ==
    x = [at |-> x.at, req |-> x.req, reg |-> x.reg, cap |-> x.cap, entry |-> x.entry,
         tools |-> x.tools, todo |-> x.todo, given |-> x.given]

\* What a request may hold.
Held(x, made) ==
    /\ x.at \in Writing => x.reg \in Registry /\ SoundOn(x.reg, made)
    /\ x.at = "change" => x.req \in ChangeRequest
    /\ x.at = "directories" => x.req \in PlacingRequest
    /\ x.at \in Discovering => x.req \in DiscoverRequest
    /\ x.at \in {"listing", "entry"} => x.entry \in ServerEntry
    /\ x.at = "listed" => x.tools \subseteq Tool

CallsHeld ==
    /\ call = [c \in Caller |-> call[c]]
    /\ \A c \in Caller : IsCall(call[c]) /\ Held(call[c], disk)

RegistryInv == registry \in Registry /\ WorkspacesAreReady /\ CallsHeld
-----------------------------------------------------------------------------
(***************************************************************************)
(* What each operation makes of a sound registry is sound.                 *)
(***************************************************************************)
LEMMA RootKeepsSound ==
    ASSUME NEW reg \in Registry, NEW made, SoundOn(reg, made), NEW r \in Root \cup {NoPath}
    PROVE  WithRoot(reg, r) \in Registry /\ SoundOn(WithRoot(reg, r), made)
<1>0. ASSUME r # NoPath
      PROVE  WithRoot(reg, r) =
                 [root |-> r, provisioned |-> reg.provisioned, workspaces |-> reg.workspaces,
                  servers |-> reg.servers, skills |-> reg.skills, sources |-> reg.sources]
  BY <1>0 DEF WithRoot, Registry
<1>1. WithRoot(reg, r) \in Registry
  <2>1. r \in Path \cup {NoPath}
    BY DEF Path
  <2>2. CASE r = NoPath
    <3>1. [a \in Agent |-> NoPath] \in [Agent -> Path \cup {NoPath}]
      OBVIOUS
    <3>2. WithRoot(reg, r) =
              [root |-> r, provisioned |-> FALSE, workspaces |-> [a \in Agent |-> NoPath],
               servers |-> reg.servers, skills |-> reg.skills, sources |-> reg.sources]
      BY <2>2 DEF WithRoot
    <3> QED
      BY <2>1, <3>1, <3>2 DEF Registry
  <2>3. CASE r # NoPath
    BY <1>0, <2>1, <2>3 DEF Registry
  <2> QED
    BY <2>2, <2>3
<1>2. CASE r = NoPath
  BY <1>2 DEF WithRoot, Registry, SoundOn
<1>3. CASE r # NoPath
  <2>1. WithRoot(reg, r).root = r /\ WithRoot(reg, r).workspaces = reg.workspaces
    BY <1>0, <1>3
  <2>2. WithRoot(reg, r).provisioned <=> reg.provisioned
    BY <1>0, <1>3
  <2> QED
    BY <1>1, <1>3, <2>1, <2>2 DEF SoundOn
<1> QED
  BY <1>1, <1>2, <1>3

LEMMA ServerKeepsSound ==
    ASSUME NEW reg \in Registry, NEW made, SoundOn(reg, made),
           NEW s \in Server, NEW entry \in ServerEntry
    PROVE  WithServer(reg, s, entry) \in Registry /\ SoundOn(WithServer(reg, s, entry), made)
<1>1. [reg.servers EXCEPT ![s] = entry] \in [Server -> ServerEntry \cup {Absent}]
  BY DEF Registry
<1>2. WithServer(reg, s, entry) \in Registry
  BY <1>1 DEF WithServer, Registry
<1> QED
  BY <1>2 DEF WithServer, Registry, SoundOn

LEMMA SkillKeepsSound ==
    ASSUME NEW reg \in Registry, NEW made, SoundOn(reg, made),
           NEW k \in Skill, NEW entry \in SkillEntry \cup {Absent}
    PROVE  WithSkill(reg, k, entry) \in Registry /\ SoundOn(WithSkill(reg, k, entry), made)
<1>1. [reg.skills EXCEPT ![k] = entry] \in [Skill -> SkillEntry \cup {Absent}]
  BY DEF Registry
<1>2. WithSkill(reg, k, entry) \in Registry
  BY <1>1 DEF WithSkill, Registry
<1> QED
  BY <1>2 DEF WithSkill, Registry, SoundOn

LEMMA SourceKeepsSound ==
    ASSUME NEW reg \in Registry, NEW made, SoundOn(reg, made),
           NEW s \in Source, NEW state \in {"enabled", "disabled", "absent"}
    PROVE  WithSource(reg, s, state) \in Registry /\ SoundOn(WithSource(reg, s, state), made)
<1>1. [reg.sources EXCEPT ![s] = state] \in [Source -> {"enabled", "disabled", "absent"}]
  BY DEF Registry
<1>2. WithSource(reg, s, state) \in Registry
  BY <1>1 DEF WithSource, Registry
<1> QED
  BY <1>2 DEF WithSource, Registry, SoundOn

LEMMA SyncKeepsSound ==
    ASSUME NEW reg \in Registry, NEW made, SoundOn(reg, made), NEW scan \in Registry
    PROVE  Synced(reg, scan) \in Registry /\ SoundOn(Synced(reg, scan), made)
<1> DEFINE skills == [k \in Skill |->
        IF FoundIn(scan, k) = {} THEN reg.skills[k]
        ELSE [enabled  |-> (reg.skills[k] # Absent => reg.skills[k].enabled),
              triggers |-> (reg.skills[k] # Absent /\ reg.skills[k].triggers),
              from     |-> CHOOSE s \in FoundIn(scan, k) : TRUE]]
<1>1. ASSUME NEW k \in Skill PROVE skills[k] \in SkillEntry \cup {Absent}
  <2>1. CASE FoundIn(scan, k) = {}
    BY <2>1 DEF Registry
  <2>2. CASE FoundIn(scan, k) # {}
    <3> DEFINE from == CHOOSE s \in FoundIn(scan, k) : TRUE
               enabled == (reg.skills[k] # Absent => reg.skills[k].enabled)
               triggers == (reg.skills[k] # Absent /\ reg.skills[k].triggers)
    <3>1. FoundIn(scan, k) \subseteq AnySource
      BY DEF FoundIn, Scanned, AnySource
    <3>2. from \in FoundIn(scan, k)
      BY <2>2
    <3>3. from \in AnySource
      BY <3>1, <3>2
    <3>4. enabled \in BOOLEAN /\ triggers \in BOOLEAN
      OBVIOUS
    <3>5. skills[k] = [enabled |-> enabled, triggers |-> triggers, from |-> from]
      BY <2>2
    <3> HIDE DEF from, enabled, triggers, skills
    <3> QED
      BY <3>3, <3>4, <3>5 DEF SkillEntry
  <2> QED
    BY <2>1, <2>2
<1>2. skills \in [Skill -> SkillEntry \cup {Absent}]
  BY <1>1
<1>3. Synced(reg, scan) = [reg EXCEPT !.skills = skills]
  BY DEF Synced
<1> HIDE DEF skills
<1>4. Synced(reg, scan) \in Registry
  BY <1>2, <1>3 DEF Registry
<1> QED
  BY <1>3, <1>4 DEF Registry, SoundOn

LEMMA ImportKeepsSound ==
    ASSUME NEW reg \in Registry, NEW made, SoundOn(reg, made)
    PROVE  WithImported(reg) \in Registry /\ SoundOn(WithImported(reg), made)
<1> DEFINE servers ==
        [s \in Server |-> IF Imported[s] = Absent THEN reg.servers[s] ELSE Imported[s]]
<1>1. servers \in [Server -> ServerEntry \cup {Absent}]
  BY RequestAssumption DEF Registry
<1>2. WithImported(reg) = [reg EXCEPT !.servers = servers]
  BY DEF WithImported
<1> HIDE DEF servers
<1>3. WithImported(reg) \in Registry
  BY <1>1, <1>2 DEF Registry
<1> QED
  BY <1>2, <1>3 DEF Registry, SoundOn

\* A workspace is registered after its directory was made.
LEMMA PlaceKeepsSound ==
    ASSUME NEW reg \in Registry, NEW made, SoundOn(reg, made), NEW req \in PlacingRequest,
           MayPlace(req, reg)
    PROVE  /\ Placed(req, reg) \in Registry
           /\ SoundOn(Placed(req, reg),
                      made \cup {Placed(req, reg).workspaces[a] : a \in ToTell(req, reg)})
<1>1. CASE req \in PlaceRequest
  <2>1. req.op = "workspace" /\ req.agent \in Agent /\ req.path \in OwnPath
    BY <1>1 DEF PlaceRequest
  <2>2. req.path \in Path
    BY <2>1 DEF Path
  <2> DEFINE workspaces == [reg.workspaces EXCEPT ![req.agent] = req.path]
  <2>3. Placed(req, reg) = [reg EXCEPT !.workspaces = workspaces]
    BY <2>1 DEF Placed, WithWorkspace
  <2>4. workspaces \in [Agent -> Path \cup {NoPath}]
    BY <2>1, <2>2 DEF Registry
  <2>5. workspaces[req.agent] = req.path
    BY <2>1 DEF Registry
  <2>6. \A a \in Agent : a # req.agent => workspaces[a] = reg.workspaces[a]
    BY <2>1 DEF Registry
  <2>7. req.path # NoPath
    BY <2>2, ResourceAssumption
  <2> HIDE DEF workspaces
  <2>8. Placed(req, reg) \in Registry /\ Placed(req, reg).workspaces = workspaces
    BY <2>3, <2>4 DEF Registry
  <2>9. /\ Placed(req, reg).provisioned = reg.provisioned
        /\ Placed(req, reg).root = reg.root
    BY <2>3 DEF Registry
  <2>10. req.agent \in ToTell(req, reg)
    BY <2>1 DEF ToTell
  <2>11. req.path \in {Placed(req, reg).workspaces[a] : a \in ToTell(req, reg)}
    BY <2>5, <2>8, <2>10
  <2> QED
    BY <2>5, <2>6, <2>7, <2>8, <2>9, <2>11 DEF SoundOn
<1>2. CASE req \in [op : {"provision"}]
  <2>1. req.op = "provision" /\ reg.root # NoPath
    BY <1>2 DEF MayPlace
  <2>2. Placed(req, reg) = Provisioned(reg)
    BY <2>1 DEF Placed
  <2>3. /\ Placed(req, reg) \in Registry
        /\ Placed(req, reg).root = reg.root
        /\ \A a \in Agent : Placed(req, reg).workspaces[a] = reg.root
    BY <2>2 DEF Provisioned, Registry
  <2>4. ToTell(req, reg) = Agent
    BY <2>1 DEF ToTell
  <2>5. \A a \in Agent : Placed(req, reg).workspaces[a] \in
                             {Placed(req, reg).workspaces[b] : b \in ToTell(req, reg)}
    BY <2>4
  <2> QED
    BY <2>1, <2>3, <2>5 DEF SoundOn
<1> QED
  BY <1>1, <1>2 DEF PlacingRequest

LEMMA ChangeKeepsSound ==
    ASSUME NEW reg \in Registry, NEW made, SoundOn(reg, made), NEW req \in ChangeRequest
    PROVE  Changed(req, reg) \in Registry /\ SoundOn(Changed(req, reg), made)
<1>1. CASE req \in RootRequest
  <2>1. req.op = "root" /\ req.path \in Root \cup {NoPath}
    BY <1>1 DEF RootRequest
  <2> QED
    BY <2>1, RootKeepsSound DEF Changed
<1>2. CASE req \in SkillRequest
  <2>1. req.op = "skill" /\ req.skill \in Skill /\ req.entry \in SkillEntry \cup {Absent}
    BY <1>2, RequestAssumption DEF SkillRequest
  <2> QED
    BY <2>1, SkillKeepsSound DEF Changed
<1>3. CASE req \in SourceRequest
  <2>1. /\ req.op = "source" /\ req.source \in Source
        /\ req.state \in {"enabled", "disabled", "absent"}
    BY <1>3 DEF SourceRequest
  <2> QED
    BY <2>1, SourceKeepsSound DEF Changed
<1>4. CASE req \in [op : {"server"}, server : Server, entry : ServerEntry]
  <2>1. req.op = "server" /\ req.server \in Server /\ req.entry \in ServerEntry
    BY <1>4
  <2> QED
    BY <2>1, ServerKeepsSound DEF Changed
<1> QED
  BY <1>1, <1>2, <1>3, <1>4 DEF ChangeRequest
-----------------------------------------------------------------------------
(***************************************************************************)
(* A step of one request leaves what the others hold as good as it was:    *)
(* directories only come.                                                  *)
(***************************************************************************)
LEMMA OthersStayHeld ==
    ASSUME CallsHeld, NEW c \in Caller, disk \subseteq disk',
           call' = [d \in Caller |-> call'[d]],
           \A d \in Caller \ {c} : call'[d] = call[d],
           IsCall(call'[c]), Held(call'[c], disk')
    PROVE  CallsHeld'
<1>1. ASSUME NEW d \in Caller \ {c} PROVE Held(call[d], disk')
  <2>1. Held(call[d], disk)
    BY DEF CallsHeld
  <2>2. SoundOn(call[d].reg, disk) => SoundOn(call[d].reg, disk')
    BY DEF SoundOn
  <2> QED
    BY <2>1, <2>2 DEF Held
<1>2. \A d \in Caller : IsCall(call'[d]) /\ Held(call'[d], disk')
  BY <1>1 DEF CallsHeld
<1> QED
  BY <1>2 DEF CallsHeld

\* A request goes on to a step at which nothing is held that may be written.
LEMMA FreeIsHeld ==
    ASSUME NEW x, NEW made, x.at \in Free
    PROVE  Held(x, made)
  BY DEF Held, Free, Writing, Discovering

LEMMA NoCallIsFree == IsCall(NoCall) /\ NoCall.at \in Free
  BY DEF NoCall, IsCall, Free

\* ... and leaves the registry alone.
LEMMA FreeStepKeepsInv ==
    ASSUME RegistryInv, NEW c \in Caller, disk \subseteq disk', UNCHANGED registry,
           call' = [d \in Caller |-> call'[d]],
           \A d \in Caller \ {c} : call'[d] = call[d],
           IsCall(call'[c]), call'[c].at \in Free
    PROVE  RegistryInv'
<1>1. CallsHeld'
  BY FreeIsHeld, OthersStayHeld DEF RegistryInv
<1>2. WorkspacesAreReady'
  BY DEF RegistryInv, WorkspacesAreReady, Sound
<1> QED
  BY <1>1, <1>2 DEF RegistryInv
-----------------------------------------------------------------------------
(***************************************************************************)
(* A request begins with what it reads.                                    *)
(***************************************************************************)
LEMMA BeginKeepsInv ==
    ASSUME RegistryInv, NEW c \in Caller, Begin(c)
    PROVE  RegistryInv'
<1>1. PICK req \in Request :
          /\ req.op = "discover" => registry.servers[req.server] # Absent
          /\ call' = [call EXCEPT ![c] =
                 [NoCall EXCEPT !.at = FirstStep(req.op), !.req = req,
                     !.reg = IF req.op \in {"capability", "discover"} THEN Absent ELSE registry,
                     !.cap = IF req.op = "capability" THEN capability[req.agent] ELSE Absent,
                     !.entry = IF req.op = "discover" THEN registry.servers[req.server]
                               ELSE Absent]]
  BY DEF Begin
<1>2. UNCHANGED <<registry, disk>>
  BY DEF Begin
<1>3. /\ call' = [d \in Caller |-> call'[d]]
      /\ \A d \in Caller \ {c} : call'[d] = call[d]
  BY <1>1 DEF RegistryInv, CallsHeld
<1>4. /\ IsCall(call'[c])
      /\ call'[c].at = FirstStep(req.op)
      /\ call'[c].req = req
      /\ req.op \notin {"capability", "discover"} => call'[c].reg = registry
      /\ req.op = "discover" => call'[c].entry = registry.servers[req.server]
  BY <1>1 DEF RegistryInv, CallsHeld, NoCall, IsCall
<1>5. SoundOn(registry, disk') /\ registry \in Registry
  BY <1>2 DEF RegistryInv, WorkspacesAreReady, Sound, SoundOn
<1>6. Held(call'[c], disk')
  <2>1. CASE req.op \in {"root", "skill", "source", "server"}
    <3>1. call'[c].at = "change" /\ call'[c].reg = registry
      BY <1>4, <2>1 DEF FirstStep
    <3>2. req \in RootRequest \cup SkillRequest \cup SourceRequest \cup ServerRequest
      BY <2>1 DEF Request, PlaceRequest, AccessRequest
    <3>3. req \in ChangeRequest
      BY <3>2, RequestAssumption DEF ChangeRequest, ServerRequest
    <3> QED
      BY <1>4, <1>5, <3>1, <3>3 DEF Held, Discovering
  <2>2. CASE req.op \in {"workspace", "provision"}
    <3>1. call'[c].at = "directories" /\ call'[c].reg = registry
      BY <1>4, <2>2 DEF FirstStep
    <3>2. req \in PlacingRequest
      BY <2>2 DEF Request, PlacingRequest, RootRequest, SkillRequest, SourceRequest,
                  ServerRequest, AccessRequest
    <3> QED
      BY <1>4, <1>5, <3>1, <3>2 DEF Held, Discovering
  <2>3. CASE req.op = "sync"
    <3>1. call'[c].at = "scan" /\ call'[c].reg = registry
      BY <1>4, <2>3 DEF FirstStep
    <3> QED
      BY <1>5, <3>1 DEF Held, Discovering
  <2>4. CASE req.op = "discover"
    <3>1. call'[c].at = "listing" /\ call'[c].entry = registry.servers[req.server]
      BY <1>4, <2>4 DEF FirstStep
    <3>2. req \in DiscoverRequest
      BY <2>4 DEF Request, DiscoverRequest, RootRequest, SkillRequest, SourceRequest,
                  ServerRequest, PlaceRequest, AccessRequest
    <3>3. registry.servers[req.server] \in ServerEntry
      BY <1>1, <1>5, <2>4, <3>2 DEF DiscoverRequest, Registry
    <3> QED
      BY <1>4, <3>1, <3>2, <3>3 DEF Held, Discovering, Writing
  <2>5. CASE req.op \in {"access", "describe", "capability"}
    <3>1. call'[c].at \in Free
      BY <1>4, <2>5 DEF FirstStep, Free
    <3> QED
      BY <3>1, FreeIsHeld
  <2>6. req.op \in {"root", "skill", "source", "server", "workspace", "provision", "sync",
                    "discover", "access", "describe", "capability"}
    BY DEF Request, RootRequest, SkillRequest, SourceRequest, ServerRequest, PlaceRequest,
           AccessRequest
  <2> QED
    BY <2>1, <2>2, <2>3, <2>4, <2>5, <2>6
<1>7. CallsHeld'
  BY <1>2, <1>3, <1>4, <1>6, OthersStayHeld DEF RegistryInv
<1>8. WorkspacesAreReady'
  BY <1>2 DEF RegistryInv, WorkspacesAreReady, Sound
<1> QED
  BY <1>2, <1>7, <1>8 DEF RegistryInv

(***************************************************************************)
(* What is written was sound when it was read, and still is.               *)
(***************************************************************************)
LEMMA ChangesKeepInv ==
    ASSUME RegistryInv, NEW c \in Caller, ChangesRegistry(c)
    PROVE  RegistryInv'
<1> DEFINE x == call[c]
<1>1. Held(x, disk) /\ IsCall(x) /\ call = [d \in Caller |-> call[d]]
  BY DEF RegistryInv, CallsHeld
<1>2. registry \in Registry /\ SoundOn(registry, disk)
  BY DEF RegistryInv, WorkspacesAreReady, Sound, SoundOn
<1>3. disk' = disk
  BY DEF ChangesRegistry, Change, Scan, SaveScanned
<1>4. ASSUME Ends(c) PROVE CallsHeld'
  <2>1. /\ call' = [d \in Caller |-> call'[d]]
        /\ \A d \in Caller \ {c} : call'[d] = call[d]
        /\ call'[c] = NoCall
    BY <1>1, <1>4 DEF Ends
  <2>2. IsCall(call'[c]) /\ Held(call'[c], disk')
    BY <2>1, NoCallIsFree, FreeIsHeld
  <2> QED
    BY <1>3, <2>1, <2>2, OthersStayHeld DEF RegistryInv
<1>5. ASSUME registry' \in Registry, SoundOn(registry', disk)
      PROVE  registry' \in Registry /\ WorkspacesAreReady'
  BY <1>3, <1>5 DEF WorkspacesAreReady, Sound, SoundOn
<1>6. CASE Change(c)
  <2>1. x.at = "change" /\ Ends(c)
    BY <1>6 DEF Change
  <2>2. x.reg \in Registry /\ SoundOn(x.reg, disk) /\ x.req \in ChangeRequest
    BY <1>1, <2>1 DEF Held, Writing
  <2>3. Changed(x.req, x.reg) \in Registry /\ SoundOn(Changed(x.req, x.reg), disk)
    BY <2>2, ChangeKeepsSound
  <2>4. registry' = registry \/ registry' = Changed(x.req, x.reg)
    BY <1>6 DEF Change
  <2>5. registry' \in Registry /\ SoundOn(registry', disk)
    BY <1>2, <2>3, <2>4
  <2> QED
    BY <1>4, <1>5, <2>1, <2>5 DEF RegistryInv
<1>7. CASE Scan(c)
  <2>1. /\ x.at = "scan" /\ UNCHANGED registry
        /\ call' = [call EXCEPT ![c].at = "scanned", ![c].reg = Synced(x.reg, registry)]
    BY <1>7 DEF Scan
  <2>2. x.reg \in Registry /\ SoundOn(x.reg, disk)
    BY <1>1, <2>1 DEF Held, Writing
  <2>3. Synced(x.reg, registry) \in Registry /\ SoundOn(Synced(x.reg, registry), disk)
    BY <1>2, <2>2, SyncKeepsSound
  <2>4. /\ call' = [d \in Caller |-> call'[d]]
        /\ \A d \in Caller \ {c} : call'[d] = call[d]
        /\ IsCall(call'[c])
        /\ call'[c].at = "scanned" /\ call'[c].reg = Synced(x.reg, registry)
    BY <1>1, <2>1 DEF IsCall
  <2>5. Held(call'[c], disk')
    BY <1>3, <2>3, <2>4 DEF Held, Discovering
  <2>6. CallsHeld'
    BY <1>3, <2>4, <2>5, OthersStayHeld DEF RegistryInv
  <2> QED
    BY <1>2, <1>5, <2>1, <2>6 DEF RegistryInv
<1>8. CASE SaveScanned(c)
  <2>1. x.at = "scanned" /\ Ends(c) /\ registry' = x.reg
    BY <1>8 DEF SaveScanned
  <2>2. registry' \in Registry /\ SoundOn(registry', disk)
    BY <1>1, <2>1 DEF Held, Writing
  <2> QED
    BY <1>4, <1>5, <2>1, <2>2 DEF RegistryInv
<1> QED
  BY <1>6, <1>7, <1>8 DEF ChangesRegistry

(***************************************************************************)
(* Directories are made, then registered; then capabilities are told.      *)
(***************************************************************************)
LEMMA PlacesKeepInv ==
    ASSUME RegistryInv, NEW c \in Caller, Places(c)
    PROVE  RegistryInv'
<1> DEFINE x == call[c]
<1>1. Held(x, disk) /\ IsCall(x) /\ call = [d \in Caller |-> call[d]]
  BY DEF RegistryInv, CallsHeld
<1>2. CASE Place(c)
  <2> DEFINE made == {Placed(x.req, x.reg).workspaces[a] : a \in ToTell(x.req, x.reg)}
             placed == Placed(x.req, x.reg)
  <2>1. /\ x.at = "directories" /\ MayPlace(x.req, x.reg)
        /\ disk' = disk \cup made
        /\ registry' = placed
        /\ call' = [call EXCEPT ![c].at = "telling", ![c].reg = placed,
                                ![c].todo = ToTell(x.req, x.reg)]
    BY <1>2 DEF Place
  <2>2. x.reg \in Registry /\ SoundOn(x.reg, disk) /\ x.req \in PlacingRequest
    BY <1>1, <2>1 DEF Held, Writing
  <2>3. placed \in Registry /\ SoundOn(placed, disk \cup made)
    BY <2>1, <2>2, PlaceKeepsSound
  <2> HIDE DEF made, placed
  <2>4. registry' \in Registry /\ WorkspacesAreReady'
    BY <2>1, <2>3 DEF WorkspacesAreReady, Sound, SoundOn
  <2>5. /\ call' = [d \in Caller |-> call'[d]]
        /\ \A d \in Caller \ {c} : call'[d] = call[d]
        /\ IsCall(call'[c]) /\ call'[c].at \in Free
    BY <1>1, <2>1 DEF IsCall, Free
  <2>6. CallsHeld'
    BY <2>1, <2>5, FreeIsHeld, OthersStayHeld DEF RegistryInv
  <2> QED
    BY <2>4, <2>6 DEF RegistryInv
<1>3. CASE CannotPlace(c)
  <2>1. UNCHANGED registry /\ disk \subseteq disk' /\ call' = [call EXCEPT ![c] = NoCall]
    BY <1>3 DEF CannotPlace, Ends
  <2> QED
    BY <1>1, <2>1, NoCallIsFree, FreeStepKeepsInv
<1>4. CASE ReadToTell(c)
  <2>1. PICK a \in x.todo :
            call' = [call EXCEPT ![c].at = "told", ![c].cap = capability[a],
                                 ![c].req = [op |-> "tell", agent |-> a]]
    BY <1>4 DEF ReadToTell
  <2>2. UNCHANGED registry /\ disk \subseteq disk'
    BY <1>4 DEF ReadToTell
  <2>3. /\ call' = [d \in Caller |-> call'[d]]
        /\ \A d \in Caller \ {c} : call'[d] = call[d]
        /\ IsCall(call'[c]) /\ call'[c].at \in Free
    BY <1>1, <2>1 DEF IsCall, Free
  <2> QED
    BY <2>2, <2>3, FreeStepKeepsInv
<1>5. CASE Tell(c)
  <2> DEFINE rest == x.todo \ {x.req.agent}
  <2>1. UNCHANGED registry /\ disk \subseteq disk'
    BY <1>5 DEF Tell
  <2>2. \/ call' = [call EXCEPT ![c] = NoCall]
        \/ call' = [call EXCEPT ![c].at = "telling", ![c].todo = rest]
    BY <1>5 DEF Tell
  <2> HIDE DEF rest
  <2>3. /\ call' = [d \in Caller |-> call'[d]]
        /\ \A d \in Caller \ {c} : call'[d] = call[d]
        /\ IsCall(call'[c]) /\ call'[c].at \in Free
    <3>1. CASE call' = [call EXCEPT ![c] = NoCall]
      BY <1>1, <3>1, NoCallIsFree
    <3>2. CASE call' = [call EXCEPT ![c].at = "telling", ![c].todo = rest]
      BY <1>1, <3>2 DEF IsCall, Free
    <3> QED
      BY <2>2, <3>1, <3>2
  <2> QED
    BY <2>1, <2>3, FreeStepKeepsInv
<1> QED
  BY <1>2, <1>3, <1>4, <1>5 DEF Places

(***************************************************************************)
(* A discovery ends as a change of the server it is about.                 *)
(***************************************************************************)
LEMMA DiscoversKeepInv ==
    ASSUME RegistryInv, NEW c \in Caller, Discovers(c)
    PROVE  RegistryInv'
<1> DEFINE x == call[c]
<1>1. Held(x, disk) /\ IsCall(x) /\ call = [d \in Caller |-> call[d]]
  BY DEF RegistryInv, CallsHeld
<1>2. UNCHANGED <<registry, disk>>
  BY DEF Discovers, Listed, ReadEntry, ReadForTools
<1>3. registry \in Registry /\ SoundOn(registry, disk) /\ WorkspacesAreReady'
  BY <1>2 DEF RegistryInv, WorkspacesAreReady, Sound, SoundOn
<1>4. SUFFICES /\ call' = [d \in Caller |-> call'[d]]
               /\ \A d \in Caller \ {c} : call'[d] = call[d]
               /\ IsCall(call'[c]) /\ Held(call'[c], disk)
  <2>1. CallsHeld'
    BY <1>2, <1>4, OthersStayHeld DEF RegistryInv
  <2> QED
    BY <1>2, <1>3, <2>1 DEF RegistryInv
<1>5. CASE Listed(c)
  <2>1. /\ x.at = "listing"
        /\ call' = [call EXCEPT ![c].at = "listed", ![c].tools = ToolsAt[x.entry.endpoint],
                                ![c].entry = Absent]
    BY <1>5 DEF Listed
  <2>2. x.entry \in ServerEntry /\ x.req \in DiscoverRequest
    BY <1>1, <2>1 DEF Held, Discovering
  <2>3. ToolsAt[x.entry.endpoint] \subseteq Tool
    BY <2>2, RequestAssumption DEF ServerEntry
  <2>4. /\ call' = [d \in Caller |-> call'[d]]
        /\ \A d \in Caller \ {c} : call'[d] = call[d]
        /\ IsCall(call'[c])
    BY <1>1, <2>1 DEF IsCall
  <2>5. /\ call'[c].at = "listed" /\ call'[c].req = x.req
        /\ call'[c].tools = ToolsAt[x.entry.endpoint]
    BY <1>1, <2>1 DEF IsCall
  <2> QED
    BY <2>2, <2>3, <2>4, <2>5 DEF Held, Writing
<1>6. CASE ReadEntry(c)
  <2> DEFINE now == registry.servers[x.req.server]
             entry == [now EXCEPT !.tools = IF now.external THEN x.tools ELSE @]
  <2>1. /\ x.at = "listed" /\ now # Absent
        /\ call' = [call EXCEPT ![c].at = "entry", ![c].entry = entry]
    BY <1>6 DEF ReadEntry
  <2>2. x.tools \subseteq Tool /\ x.req \in DiscoverRequest
    BY <1>1, <2>1 DEF Held, Discovering
  <2>3. now \in ServerEntry
    BY <1>3, <2>1, <2>2 DEF DiscoverRequest, Registry
  <2>4. (IF now.external THEN x.tools ELSE now.tools) \in SUBSET Tool
    BY <2>2, <2>3 DEF ServerEntry
  <2>5. entry \in ServerEntry
    BY <2>3, <2>4 DEF ServerEntry
  <2> HIDE DEF now, entry
  <2>6. /\ call' = [d \in Caller |-> call'[d]]
        /\ \A d \in Caller \ {c} : call'[d] = call[d]
        /\ IsCall(call'[c])
    BY <1>1, <2>1 DEF IsCall
  <2>7. call'[c].at = "entry" /\ call'[c].req = x.req /\ call'[c].entry = entry
    BY <1>1, <2>1 DEF IsCall
  <2> QED
    BY <2>2, <2>5, <2>6, <2>7 DEF Held, Writing
<1>7. CASE ReadForTools(c)
  <2> DEFINE req == [op |-> "server", server |-> x.req.server, entry |-> x.entry]
  <2>1. /\ x.at = "entry"
        /\ call' = [call EXCEPT ![c].at = "change", ![c].reg = registry, ![c].req = req]
    BY <1>7 DEF ReadForTools
  <2>2. x.entry \in ServerEntry /\ x.req \in DiscoverRequest
    BY <1>1, <2>1 DEF Held, Discovering
  <2>3. req \in ChangeRequest
    BY <2>2 DEF ChangeRequest, DiscoverRequest
  <2> HIDE DEF req
  <2>4. /\ call' = [d \in Caller |-> call'[d]]
        /\ \A d \in Caller \ {c} : call'[d] = call[d]
        /\ IsCall(call'[c])
    BY <1>1, <2>1 DEF IsCall
  <2>5. call'[c].at = "change" /\ call'[c].reg = registry /\ call'[c].req = req
    BY <1>1, <2>1 DEF IsCall
  <2> QED
    BY <1>3, <2>3, <2>4, <2>5 DEF Held, Discovering
<1> QED
  BY <1>5, <1>6, <1>7 DEF Discovers

(***************************************************************************)
(* The requests about capabilities and sessions, and a request that dies,  *)
(* write no registry.                                                      *)
(***************************************************************************)
LEMMA ServesKeepInv ==
    ASSUME RegistryInv, NEW c \in Caller, Serves(c) \/ Dies(c)
    PROVE  RegistryInv'
<1> DEFINE x == call[c]
<1>1. IsCall(x) /\ call = [d \in Caller |-> call[d]]
  BY DEF RegistryInv, CallsHeld
<1>2. UNCHANGED <<registry, disk>>
  BY DEF Serves, ReadSnapshot, Submit, ReadToDistribute, Distribute, SaveForm, ReadBindings,
         Describe, Dies
<1>3. SUFFICES /\ call' = [d \in Caller |-> call'[d]]
               /\ \A d \in Caller \ {c} : call'[d] = call[d]
               /\ IsCall(call'[c]) /\ call'[c].at \in Free
  BY <1>2, <1>3, FreeStepKeepsInv
<1>4. ASSUME call' = [call EXCEPT ![c] = NoCall]
      PROVE  /\ call' = [d \in Caller |-> call'[d]]
             /\ \A d \in Caller \ {c} : call'[d] = call[d]
             /\ IsCall(call'[c]) /\ call'[c].at \in Free
  BY <1>1, <1>4, NoCallIsFree
<1>5. CASE Distribute(c) \/ SaveForm(c) \/ Describe(c) \/ Dies(c)
  BY <1>4, <1>5 DEF Distribute, SaveForm, ReadBindings, Describe, Dies, Ends
<1>6. CASE ReadSnapshot(c)
  <2> DEFINE at == IF x.req.op = "access" THEN "shown" ELSE "described"
             cap == capability[x.req.agent]
  <2>1. call' = [call EXCEPT ![c].at = at, ![c].cap = cap] /\ at \in Free
    BY <1>6 DEF ReadSnapshot, Free
  <2> HIDE DEF at, cap
  <2> QED
    BY <1>1, <2>1 DEF IsCall
<1>7. CASE Submit(c)
  <2>1. PICK chosen \in Chosen(x.req.page, x.reg, x.cap) :
            call' = [call EXCEPT ![c].at = "submitted", ![c].reg = registry, ![c].cap = Absent,
               ![c].req = [op |-> "distribute", agent |-> x.req.agent,
                           servers |-> chosen.servers, skills |-> chosen.skills]]
    BY <1>7 DEF Submit
  <2> QED
    BY <1>1, <2>1 DEF IsCall, Free
<1>8. CASE ReadToDistribute(c)
  <2> DEFINE cap == capability[x.req.agent]
  <2>1. \/ call' = [call EXCEPT ![c] = NoCall]
        \/ call' = [call EXCEPT ![c].at = "checked", ![c].cap = cap]
    BY <1>8 DEF ReadToDistribute
  <2> HIDE DEF cap
  <2>2. CASE call' = [call EXCEPT ![c].at = "checked", ![c].cap = cap]
    BY <1>1, <2>2 DEF IsCall, Free
  <2> QED
    BY <1>4, <2>1, <2>2
<1>9. CASE ReadBindings(c)
  <2> DEFINE given == Offered(x.reg, x.cap, capability[x.req.agent], x.req.agent)
  <2>1. call' = [call EXCEPT ![c].at = "offering", ![c].reg = Absent, ![c].cap = Absent,
                             ![c].given = given]
    BY <1>9 DEF ReadBindings
  <2> HIDE DEF given
  <2> QED
    BY <1>1, <2>1 DEF IsCall, Free
<1> QED
  BY <1>5, <1>6, <1>7, <1>8, <1>9 DEF Serves
-----------------------------------------------------------------------------
(***************************************************************************)
(* The first process imports the servers of the file, as every later one   *)
(* does; nothing stored is a workspace.                                    *)
(***************************************************************************)
LEMMA InitIsSound == Init => RegistryInv
<1> SUFFICES ASSUME Init PROVE RegistryInv
  OBVIOUS
<1>1. PICK kept \in Stored : registry = WithImported(kept.registry)
  BY DEF Init
<1>2. kept.registry \in Registry /\ SoundOn(kept.registry, disk)
  BY StoredAssumption DEF SoundOn
<1>3. registry \in Registry /\ SoundOn(registry, disk)
  BY <1>1, <1>2, ImportKeepsSound
<1>4. call = [c \in Caller |-> NoCall]
  BY DEF Init
<1>5. call = [c \in Caller |-> call[c]] /\ \A c \in Caller : call[c] = NoCall
  BY <1>4
<1>6. CallsHeld
  BY <1>5, NoCallIsFree, FreeIsHeld DEF CallsHeld
<1> QED
  BY <1>3, <1>6 DEF RegistryInv, WorkspacesAreReady, Sound, SoundOn

LEMMA RestartKeepsInv ==
    ASSUME RegistryInv, Restart
    PROVE  RegistryInv'
<1>1. registry \in Registry /\ SoundOn(registry, disk) /\ disk' = disk
  BY DEF RegistryInv, WorkspacesAreReady, Sound, SoundOn, Restart
<1>2. registry' \in Registry /\ SoundOn(registry', disk)
  BY <1>1, ImportKeepsSound DEF Restart
<1>3. call' = [c \in Caller |-> call'[c]] /\ \A c \in Caller : call'[c] = NoCall
  BY DEF Restart
<1>4. CallsHeld'
  BY <1>3, NoCallIsFree, FreeIsHeld DEF CallsHeld
<1> QED
  BY <1>1, <1>2, <1>4 DEF RegistryInv, WorkspacesAreReady, Sound, SoundOn

(***************************************************************************)
(* Every step keeps it.                                                    *)
(***************************************************************************)
LEMMA StepKeepsInv == RegistryInv /\ [Next]_vars => RegistryInv'
<1> SUFFICES ASSUME RegistryInv, [Next]_vars PROVE RegistryInv'
  OBVIOUS
<1>1. CASE UNCHANGED vars
  BY <1>1 DEF vars, RegistryInv, WorkspacesAreReady, Sound, CallsHeld
<1>2. ASSUME NEW c \in Caller,
             \/ Begin(c) \/ ChangesRegistry(c) \/ Places(c) \/ Discovers(c)
             \/ Serves(c) \/ Dies(c)
      PROVE  RegistryInv'
  BY <1>2, BeginKeepsInv, ChangesKeepInv, PlacesKeepInv, DiscoversKeepInv, ServesKeepInv
<1>3. CASE Restart
  BY <1>3, RestartKeepsInv
<1> QED
  BY <1>1, <1>2, <1>3 DEF Next

(***************************************************************************)
(* A provisioned registry has a workspace for every agent, and a           *)
(* registered workspace exists, whatever number of requests overlap, die   *)
(* or are cut short by a restart.                                          *)
(***************************************************************************)
THEOREM WorkspacesExist == Spec => []WorkspacesAreReady
<1>1. RegistryInv => WorkspacesAreReady
  BY DEF RegistryInv
<1> QED
  BY <1>1, InitIsSound, StepKeepsInv, PTL DEF Spec
-----------------------------------------------------------------------------
(***************************************************************************)
(* The capabilities, and what a request knows of one.                      *)
(***************************************************************************)
WithAgent ==
    {"told", "snapshot", "shown", "described", "offering", "submitted", "checked", "editing"}
WithRegistry == {"telling", "told", "snapshot", "shown", "described", "submitted", "checked"}
WithCapability == {"told", "shown", "described", "checked", "editing"}

DocumentsHeld(x) ==
    /\ x.at \in WithAgent => x.req.agent \in Agent
    /\ x.at \in WithRegistry => x.reg \in Registry
    /\ x.at \in WithCapability => x.cap \in Capability
    /\ x.at \in {"telling", "told"} => x.todo \subseteq Agent
    /\ x.at \in {"scan", "scanned"} => x.req.op = "sync"
    /\ x.at = "checked" => MayDistribute(x.reg, x.req.servers, x.req.skills)

DocumentsInv ==
    /\ capability \in [Agent -> Capability]
    /\ offer = [a \in Agent |-> offer[a]]
    /\ \A c \in Caller : DocumentsHeld(call[c])

LEMMA NoCallHoldsNothing == DocumentsHeld(NoCall)
  BY DEF NoCall, DocumentsHeld, WithAgent, WithRegistry, WithCapability

\* What each way to write a capability makes of one.
LEMMA MetadataIsCapability ==
    ASSUME NEW cap \in Capability, NEW p \in Path \cup {NoPath}
    PROVE  WithMetadata(cap, p) \in Capability /\ WithMetadata(cap, p).workspace = p
  BY DEF WithMetadata, Capability

LEMMA FormIsCapability ==
    ASSUME NEW cap \in Capability, NEW form \in Edited(cap)
    PROVE  form \in Capability /\ form.workspace = cap.workspace
<1>1. CASE form \in {[cap EXCEPT !.skills = [@ EXCEPT ![k] = b]] :
                        k \in Skill, b \in BindingForm \cup {Absent}}
  <2>1. PICK k \in Skill, b \in BindingForm \cup {Absent} :
            form = [cap EXCEPT !.skills = [@ EXCEPT ![k] = b]]
    BY <1>1
  <2>2. b \in SkillBinding \cup {Absent}
    BY RequestAssumption
  <2>3. [cap.skills EXCEPT ![k] = b] \in [Skill -> SkillBinding \cup {Absent}]
    BY <2>2 DEF Capability
  <2> QED
    BY <2>1, <2>3 DEF Capability
<1>2. CASE form \in {[cap EXCEPT !.servers = [@ EXCEPT ![s] = b]] :
                        s \in Server, b \in ServerBindingForm \cup {Absent}}
  <2>1. PICK s \in Server, b \in ServerBindingForm \cup {Absent} :
            form = [cap EXCEPT !.servers = [@ EXCEPT ![s] = b]]
    BY <1>2
  <2>2. b \in ServerBinding \cup {Absent}
    BY RequestAssumption
  <2>3. [cap.servers EXCEPT ![s] = b] \in [Server -> ServerBinding \cup {Absent}]
    BY <2>2 DEF Capability
  <2> QED
    BY <2>1, <2>3 DEF Capability
<1> QED
  BY <1>1, <1>2 DEF Edited

\* What is distributed is registered: MayDistribute came before.
LEMMA DistributedIsCapability ==
    ASSUME NEW reg \in Registry, NEW cap \in Capability, NEW servers, NEW skills,
           MayDistribute(reg, servers, skills)
    PROVE  /\ Distributed(reg, cap, servers, skills) \in Capability
           /\ Distributed(reg, cap, servers, skills).workspace = cap.workspace
<1> DEFINE
      bound == [s \in Server |->
        IF s \notin servers THEN Absent
        ELSE [enabled |-> TRUE,
              tools |-> IF cap.servers[s] # Absent /\ cap.servers[s].tools # {}
                        THEN cap.servers[s].tools ELSE reg.servers[s].tools]]
      learned == [k \in Skill |->
        IF k \notin skills THEN Absent
        ELSE [enabled |-> TRUE,
              triggers |-> \/ cap.skills[k] # Absent /\ cap.skills[k].triggers
                           \/ reg.skills[k].triggers,
              mode |-> IF cap.skills[k] # Absent THEN cap.skills[k].mode
                       ELSE "human_confirmed"]]
<1>1. ASSUME NEW s \in Server PROVE bound[s] \in ServerBinding \cup {Absent}
  <2>1. CASE s \notin servers
    BY <2>1
  <2>2. CASE s \in servers
    <3> DEFINE tools == IF cap.servers[s] # Absent /\ cap.servers[s].tools # {}
                        THEN cap.servers[s].tools ELSE reg.servers[s].tools
    <3>1. reg.servers[s] \in ServerEntry
      BY <2>2 DEF MayDistribute, EnabledServers, Registry
    <3>2. cap.servers[s] \in ServerBinding \cup {Absent}
      BY DEF Capability
    <3>3. tools \in SUBSET Tool
      BY <3>1, <3>2 DEF ServerEntry, ServerBinding
    <3>4. bound[s] = [enabled |-> TRUE, tools |-> tools]
      BY <2>2
    <3> HIDE DEF tools, bound
    <3> QED
      BY <3>3, <3>4 DEF ServerBinding
  <2> QED
    BY <2>1, <2>2
<1>2. ASSUME NEW k \in Skill PROVE learned[k] \in SkillBinding \cup {Absent}
  <2>1. CASE k \notin skills
    BY <2>1
  <2>2. CASE k \in skills
    <3> DEFINE triggers == \/ cap.skills[k] # Absent /\ cap.skills[k].triggers
                           \/ reg.skills[k].triggers
               mode == IF cap.skills[k] # Absent THEN cap.skills[k].mode
                       ELSE "human_confirmed"
    <3>1. cap.skills[k] \in SkillBinding \cup {Absent}
      BY DEF Capability
    <3>2. triggers \in BOOLEAN
      OBVIOUS
    <3>3. mode \in Mode
      BY <3>1 DEF SkillBinding, Mode
    <3>4. learned[k] = [enabled |-> TRUE, triggers |-> triggers, mode |-> mode]
      BY <2>2
    <3> HIDE DEF triggers, mode, learned
    <3> QED
      BY <3>2, <3>3, <3>4 DEF SkillBinding
  <2> QED
    BY <2>1, <2>2
<1>3. /\ bound \in [Server -> ServerBinding \cup {Absent}]
      /\ learned \in [Skill -> SkillBinding \cup {Absent}]
  BY <1>1, <1>2
<1>4. Distributed(reg, cap, servers, skills) =
          [servers |-> bound, skills |-> learned, workspace |-> cap.workspace]
  BY DEF Distributed
<1>5. cap.workspace \in Path \cup {NoPath}
  BY DEF Capability
<1> HIDE DEF bound, learned
<1> QED
  BY <1>3, <1>4, <1>5 DEF Capability

\* A step of one request leaves what the others hold as good as it was.
LEMMA OthersKeepDocuments ==
    ASSUME DocumentsInv, NEW c \in Caller,
           \A d \in Caller \ {c} : call'[d] = call[d],
           DocumentsHeld(call'[c]),
           capability' \in [Agent -> Capability], offer' = [a \in Agent |-> offer'[a]]
    PROVE  DocumentsInv'
<1>1. \A d \in Caller : DocumentsHeld(call'[d])
  BY DEF DocumentsInv
<1> QED
  BY <1>1 DEF DocumentsInv

LEMMA EndKeepsDocuments ==
    ASSUME RegistryInv, DocumentsInv, NEW c \in Caller, Ends(c),
           capability' \in [Agent -> Capability], offer' = [a \in Agent |-> offer'[a]]
    PROVE  DocumentsInv'
<1>1. call'[c] = NoCall /\ \A d \in Caller \ {c} : call'[d] = call[d]
  BY DEF Ends, RegistryInv, CallsHeld
<1> QED
  BY <1>1, NoCallHoldsNothing, OthersKeepDocuments

LEMMA BeginKeepsDocuments ==
    ASSUME RegistryInv, DocumentsInv, NEW c \in Caller, Begin(c)
    PROVE  DocumentsInv'
<1>1. PICK req \in Request :
          call' = [call EXCEPT ![c] =
                 [NoCall EXCEPT !.at = FirstStep(req.op), !.req = req,
                     !.reg = IF req.op \in {"capability", "discover"} THEN Absent ELSE registry,
                     !.cap = IF req.op = "capability" THEN capability[req.agent] ELSE Absent,
                     !.entry = IF req.op = "discover" THEN registry.servers[req.server]
                               ELSE Absent]]
  BY DEF Begin
<1>2. UNCHANGED <<capability, offer>>
  BY DEF Begin
<1>3. /\ \A d \in Caller \ {c} : call'[d] = call[d]
      /\ call'[c].at = FirstStep(req.op)
      /\ call'[c].req = req
      /\ req.op \notin {"capability", "discover"} => call'[c].reg = registry
      /\ req.op = "capability" => call'[c].cap = capability[req.agent]
  BY <1>1 DEF RegistryInv, CallsHeld, NoCall
<1>4. DocumentsHeld(call'[c])
  <2>1. CASE req.op \in {"root", "skill", "source", "server", "workspace", "provision",
                         "discover"}
    <3>1. call'[c].at \in {"change", "directories", "listing"}
      BY <1>3, <2>1 DEF FirstStep
    <3> QED
      BY <3>1 DEF DocumentsHeld, WithAgent, WithRegistry, WithCapability
  <2>2. CASE req.op = "sync"
    <3>1. call'[c].at = "scan"
      BY <1>3, <2>2 DEF FirstStep
    <3> QED
      BY <1>3, <2>2, <3>1 DEF DocumentsHeld, WithAgent, WithRegistry, WithCapability
  <2>3. CASE req.op \in {"access", "describe"}
    <3>1. call'[c].at = "snapshot" /\ call'[c].reg = registry
      BY <1>3, <2>3 DEF FirstStep
    <3>2. req.agent \in Agent
      BY <2>3 DEF Request, RootRequest, SkillRequest, SourceRequest, ServerRequest,
                  PlaceRequest, AccessRequest
    <3>3. registry \in Registry
      BY DEF RegistryInv
    <3> QED
      BY <1>3, <3>1, <3>2, <3>3 DEF DocumentsHeld, WithAgent, WithRegistry, WithCapability
  <2>4. CASE req.op = "capability"
    <3>1. call'[c].at = "editing" /\ call'[c].cap = capability[req.agent]
      BY <1>3, <2>4 DEF FirstStep
    <3>2. req.agent \in Agent
      BY <2>4 DEF Request, RootRequest, SkillRequest, SourceRequest, ServerRequest,
                  PlaceRequest, AccessRequest
    <3>3. capability[req.agent] \in Capability
      BY <3>2 DEF DocumentsInv
    <3> QED
      BY <1>3, <3>1, <3>2, <3>3 DEF DocumentsHeld, WithAgent, WithRegistry, WithCapability
  <2>5. req.op \in {"root", "skill", "source", "server", "workspace", "provision", "sync",
                    "discover", "access", "describe", "capability"}
    BY DEF Request, RootRequest, SkillRequest, SourceRequest, ServerRequest, PlaceRequest,
           AccessRequest
  <2> QED
    BY <2>1, <2>2, <2>3, <2>4, <2>5
<1> QED
  BY <1>2, <1>3, <1>4, OthersKeepDocuments DEF DocumentsInv

\* The steps that write neither a capability nor an offer.
LEMMA ChangesKeepDocuments ==
    ASSUME RegistryInv, DocumentsInv, NEW c \in Caller,
           ChangesRegistry(c) \/ Discovers(c)
    PROVE  DocumentsInv'
<1> DEFINE x == call[c]
<1>1. DocumentsHeld(x) /\ IsCall(x) /\ call = [d \in Caller |-> call[d]]
  BY DEF RegistryInv, CallsHeld, DocumentsInv
<1>2. capability' \in [Agent -> Capability] /\ offer' = [a \in Agent |-> offer'[a]]
  BY DEF DocumentsInv, ChangesRegistry, Change, Scan, SaveScanned,
         Discovers, Listed, ReadEntry, ReadForTools
<1>3. CASE Change(c) \/ SaveScanned(c)
  BY <1>2, <1>3, EndKeepsDocuments DEF Change, SaveScanned
<1>4. CASE Scan(c)
  <2>1. /\ x.at = "scan"
        /\ call' = [call EXCEPT ![c].at = "scanned", ![c].reg = Synced(x.reg, registry)]
    BY <1>4 DEF Scan
  <2>2. /\ \A d \in Caller \ {c} : call'[d] = call[d]
        /\ call'[c].at = "scanned" /\ call'[c].req = x.req
    BY <1>1, <2>1 DEF IsCall
  <2>3. DocumentsHeld(call'[c])
    BY <1>1, <2>1, <2>2 DEF DocumentsHeld, WithAgent, WithRegistry, WithCapability
  <2> QED
    BY <1>2, <2>2, <2>3, OthersKeepDocuments
<1>5. CASE Discovers(c)
  <2>1. /\ \A d \in Caller \ {c} : call'[d] = call[d]
        /\ call'[c].at \in {"listed", "entry", "change"}
    <3>1. CASE Listed(c)
      BY <1>1, <3>1 DEF Listed, IsCall
    <3>2. CASE ReadEntry(c)
      <4> DEFINE entry == [registry.servers[x.req.server] EXCEPT
                              !.tools = IF registry.servers[x.req.server].external
                                        THEN x.tools ELSE @]
      <4>1. call' = [call EXCEPT ![c].at = "entry", ![c].entry = entry]
        BY <3>2 DEF ReadEntry
      <4> HIDE DEF entry
      <4> QED
        BY <1>1, <4>1 DEF IsCall
    <3>3. CASE ReadForTools(c)
      BY <1>1, <3>3 DEF ReadForTools, IsCall
    <3> QED
      BY <1>5, <3>1, <3>2, <3>3 DEF Discovers
  <2>2. DocumentsHeld(call'[c])
    BY <2>1 DEF DocumentsHeld, WithAgent, WithRegistry, WithCapability
  <2> QED
    BY <1>2, <2>1, <2>2, OthersKeepDocuments
<1> QED
  BY <1>3, <1>4, <1>5 DEF ChangesRegistry

(***************************************************************************)
(* An agent is told of the workspace that was just registered for it.      *)
(***************************************************************************)
LEMMA PlacesKeepDocuments ==
    ASSUME RegistryInv, DocumentsInv, NEW c \in Caller, Places(c)
    PROVE  DocumentsInv'
<1> DEFINE x == call[c]
<1>1. /\ DocumentsHeld(x) /\ IsCall(x) /\ call = [d \in Caller |-> call[d]]
      /\ Held(x, disk)
  BY DEF RegistryInv, CallsHeld, DocumentsInv
<1>2. offer' = [a \in Agent |-> offer'[a]]
  BY DEF DocumentsInv, Places, Place, CannotPlace, ReadToTell, Tell
<1>3. CASE Place(c)
  <2> DEFINE placed == Placed(x.req, x.reg)
  <2>1. /\ x.at = "directories" /\ MayPlace(x.req, x.reg) /\ UNCHANGED capability
        /\ call' = [call EXCEPT ![c].at = "telling", ![c].reg = placed,
                                ![c].todo = ToTell(x.req, x.reg)]
    BY <1>3 DEF Place
  <2>2. x.reg \in Registry /\ SoundOn(x.reg, disk) /\ x.req \in PlacingRequest
    BY <1>1, <2>1 DEF Held, Writing
  <2>3. placed \in Registry
    BY <2>1, <2>2, PlaceKeepsSound
  <2>4. ToTell(x.req, x.reg) \subseteq Agent
    BY <2>2 DEF ToTell, PlacingRequest, PlaceRequest
  <2> HIDE DEF placed
  <2>5. /\ \A d \in Caller \ {c} : call'[d] = call[d]
        /\ call'[c].at = "telling" /\ call'[c].reg = placed
        /\ call'[c].todo = ToTell(x.req, x.reg)
    BY <1>1, <2>1 DEF IsCall
  <2>6. DocumentsHeld(call'[c])
    BY <2>3, <2>4, <2>5 DEF DocumentsHeld, WithAgent, WithRegistry, WithCapability
  <2> QED
    BY <1>2, <2>1, <2>5, <2>6, OthersKeepDocuments DEF DocumentsInv
<1>4. CASE CannotPlace(c)
  BY <1>2, <1>4, EndKeepsDocuments DEF CannotPlace, DocumentsInv
<1>5. CASE ReadToTell(c)
  <2>1. PICK a \in x.todo :
            /\ x.at = "telling" /\ UNCHANGED capability
            /\ call' = [call EXCEPT ![c].at = "told", ![c].cap = capability[a],
                                    ![c].req = [op |-> "tell", agent |-> a]]
    BY <1>5 DEF ReadToTell
  <2>2. x.todo \subseteq Agent /\ x.reg \in Registry
    BY <1>1, <2>1 DEF DocumentsHeld, WithRegistry
  <2>3. capability[a] \in Capability
    BY <2>1, <2>2 DEF DocumentsInv
  <2>4. /\ \A d \in Caller \ {c} : call'[d] = call[d]
        /\ call'[c].at = "told" /\ call'[c].reg = x.reg /\ call'[c].todo = x.todo
        /\ call'[c].cap = capability[a] /\ call'[c].req.agent = a
    BY <1>1, <2>1 DEF IsCall
  <2>5. DocumentsHeld(call'[c])
    BY <2>1, <2>2, <2>3, <2>4 DEF DocumentsHeld, WithAgent, WithRegistry, WithCapability
  <2> QED
    BY <1>2, <2>1, <2>4, <2>5, OthersKeepDocuments DEF DocumentsInv
<1>6. CASE Tell(c)
  <2> DEFINE a == x.req.agent
             rest == x.todo \ {a}
             cap == WithMetadata(x.cap, x.reg.workspaces[a])
  <2>1. x.at = "told" /\ capability' = [capability EXCEPT ![a] = cap]
    BY <1>6 DEF Tell
  <2>2. \/ call' = [call EXCEPT ![c] = NoCall]
        \/ call' = [call EXCEPT ![c].at = "telling", ![c].todo = rest]
    BY <1>6 DEF Tell
  <2>3. a \in Agent /\ x.reg \in Registry /\ x.cap \in Capability /\ x.todo \subseteq Agent
    BY <1>1, <2>1 DEF DocumentsHeld, WithAgent, WithRegistry, WithCapability
  <2>4. cap \in Capability
    BY <2>3, MetadataIsCapability DEF Registry
  <2>5. rest \subseteq Agent
    BY <2>3
  <2> HIDE DEF cap, rest
  <2>6. capability' \in [Agent -> Capability]
    BY <2>1, <2>4 DEF DocumentsInv
  <2>7. CASE call' = [call EXCEPT ![c] = NoCall]
    BY <1>2, <2>6, <2>7, EndKeepsDocuments DEF Ends
  <2>8. CASE call' = [call EXCEPT ![c].at = "telling", ![c].todo = rest]
    <3>1. /\ \A d \in Caller \ {c} : call'[d] = call[d]
          /\ call'[c].at = "telling" /\ call'[c].reg = x.reg /\ call'[c].todo = rest
      BY <1>1, <2>8 DEF IsCall
    <3>2. DocumentsHeld(call'[c])
      BY <2>3, <2>5, <3>1 DEF DocumentsHeld, WithAgent, WithRegistry, WithCapability
    <3> QED
      BY <1>2, <2>6, <3>1, <3>2, OthersKeepDocuments
  <2> QED
    BY <2>2, <2>7, <2>8
<1> QED
  BY <1>3, <1>4, <1>5, <1>6 DEF Places

(***************************************************************************)
(* A capability is saved as it was read, but for what the page changed.    *)
(***************************************************************************)
LEMMA ServesKeepDocuments ==
    ASSUME RegistryInv, DocumentsInv, NEW c \in Caller, Serves(c)
    PROVE  DocumentsInv'
<1> DEFINE x == call[c]
<1>1. DocumentsHeld(x) /\ IsCall(x) /\ call = [d \in Caller |-> call[d]]
  BY DEF RegistryInv, CallsHeld, DocumentsInv
<1>2. registry \in Registry /\ capability \in [Agent -> Capability]
  BY DEF RegistryInv, DocumentsInv
<1>3. CASE ReadSnapshot(c)
  <2> DEFINE at == IF x.req.op = "access" THEN "shown" ELSE "described"
             cap == capability[x.req.agent]
  <2>1. /\ x.at = "snapshot" /\ UNCHANGED <<capability, offer>>
        /\ call' = [call EXCEPT ![c].at = at, ![c].cap = cap]
    BY <1>3 DEF ReadSnapshot
  <2>2. x.req.agent \in Agent /\ x.reg \in Registry
    BY <1>1, <2>1 DEF DocumentsHeld, WithAgent, WithRegistry
  <2>3. cap \in Capability /\ at \in {"shown", "described"}
    BY <1>2, <2>2
  <2> HIDE DEF at, cap
  <2>4. /\ \A d \in Caller \ {c} : call'[d] = call[d]
        /\ call'[c].at = at /\ call'[c].cap = cap
        /\ call'[c].req = x.req /\ call'[c].reg = x.reg
    BY <1>1, <2>1 DEF IsCall
  <2>5. DocumentsHeld(call'[c])
    BY <2>2, <2>3, <2>4 DEF DocumentsHeld, WithAgent, WithRegistry, WithCapability
  <2> QED
    BY <2>1, <2>4, <2>5, OthersKeepDocuments DEF DocumentsInv
<1>4. CASE Submit(c)
  <2>1. PICK chosen \in Chosen(x.req.page, x.reg, x.cap) :
            call' = [call EXCEPT ![c].at = "submitted", ![c].reg = registry, ![c].cap = Absent,
               ![c].req = [op |-> "distribute", agent |-> x.req.agent,
                           servers |-> chosen.servers, skills |-> chosen.skills]]
    BY <1>4 DEF Submit
  <2>2. x.at = "shown" /\ UNCHANGED <<capability, offer>>
    BY <1>4 DEF Submit
  <2>3. x.req.agent \in Agent
    BY <1>1, <2>2 DEF DocumentsHeld, WithAgent
  <2>4. /\ \A d \in Caller \ {c} : call'[d] = call[d]
        /\ call'[c].at = "submitted" /\ call'[c].req.agent = x.req.agent
        /\ call'[c].reg = registry
    BY <1>1, <2>1 DEF IsCall
  <2>5. DocumentsHeld(call'[c])
    BY <1>2, <2>3, <2>4 DEF DocumentsHeld, WithAgent, WithRegistry, WithCapability
  <2> QED
    BY <2>2, <2>4, <2>5, OthersKeepDocuments DEF DocumentsInv
<1>5. CASE ReadToDistribute(c)
  <2> DEFINE cap == capability[x.req.agent]
  <2>1. x.at = "submitted" /\ UNCHANGED <<capability, offer>>
    BY <1>5 DEF ReadToDistribute
  <2>2. x.req.agent \in Agent /\ x.reg \in Registry
    BY <1>1, <2>1 DEF DocumentsHeld, WithAgent, WithRegistry
  <2>3. cap \in Capability
    BY <1>2, <2>2
  <2>4. CASE MayDistribute(x.reg, x.req.servers, x.req.skills)
    <3>1. call' = [call EXCEPT ![c].at = "checked", ![c].cap = cap]
      BY <1>5, <2>4 DEF ReadToDistribute
    <3> HIDE DEF cap
    <3>2. /\ \A d \in Caller \ {c} : call'[d] = call[d]
          /\ call'[c].at = "checked" /\ call'[c].cap = cap
          /\ call'[c].req = x.req /\ call'[c].reg = x.reg
      BY <1>1, <3>1 DEF IsCall
    <3>3. DocumentsHeld(call'[c])
      BY <2>2, <2>3, <2>4, <3>2 DEF DocumentsHeld, WithAgent, WithRegistry, WithCapability
    <3> QED
      BY <2>1, <3>2, <3>3, OthersKeepDocuments DEF DocumentsInv
  <2>5. CASE ~MayDistribute(x.reg, x.req.servers, x.req.skills)
    <3>1. Ends(c)
      BY <1>5, <2>5 DEF ReadToDistribute, Ends
    <3> QED
      BY <2>1, <3>1, EndKeepsDocuments DEF DocumentsInv
  <2> QED
    BY <2>4, <2>5
<1>6. CASE Distribute(c)
  <2> DEFINE cap == Distributed(x.reg, x.cap, x.req.servers, x.req.skills)
  <2>1. /\ x.at = "checked" /\ Ends(c) /\ UNCHANGED offer
        /\ capability' = [capability EXCEPT ![x.req.agent] = cap]
    BY <1>6 DEF Distribute
  <2>2. /\ x.reg \in Registry /\ x.cap \in Capability
        /\ MayDistribute(x.reg, x.req.servers, x.req.skills)
    BY <1>1, <2>1 DEF DocumentsHeld, WithRegistry, WithCapability
  <2>3. cap \in Capability
    BY <2>2, DistributedIsCapability
  <2> HIDE DEF cap
  <2>4. capability' \in [Agent -> Capability]
    BY <1>2, <2>1, <2>3
  <2> QED
    BY <2>1, <2>4, EndKeepsDocuments DEF DocumentsInv
<1>7. CASE SaveForm(c)
  <2>1. PICK form \in Edited(x.cap) :
            capability' = [capability EXCEPT ![x.req.agent] = form]
    BY <1>7 DEF SaveForm
  <2>2. x.at = "editing" /\ Ends(c) /\ UNCHANGED offer
    BY <1>7 DEF SaveForm
  <2>3. x.cap \in Capability
    BY <1>1, <2>2 DEF DocumentsHeld, WithCapability
  <2>4. form \in Capability
    BY <2>3, FormIsCapability
  <2>5. capability' \in [Agent -> Capability]
    BY <1>2, <2>1, <2>4
  <2> QED
    BY <2>2, <2>5, EndKeepsDocuments DEF DocumentsInv
<1>8. CASE ReadBindings(c)
  <2> DEFINE given == Offered(x.reg, x.cap, capability[x.req.agent], x.req.agent)
  <2>1. /\ x.at = "described" /\ UNCHANGED <<capability, offer>>
        /\ call' = [call EXCEPT ![c].at = "offering", ![c].reg = Absent, ![c].cap = Absent,
                                ![c].given = given]
    BY <1>8 DEF ReadBindings
  <2>2. x.req.agent \in Agent
    BY <1>1, <2>1 DEF DocumentsHeld, WithAgent
  <2> HIDE DEF given
  <2>3. /\ \A d \in Caller \ {c} : call'[d] = call[d]
        /\ call'[c].at = "offering" /\ call'[c].req = x.req
    BY <1>1, <2>1 DEF IsCall
  <2>4. DocumentsHeld(call'[c])
    BY <2>2, <2>3 DEF DocumentsHeld, WithAgent, WithRegistry, WithCapability
  <2> QED
    BY <2>1, <2>3, <2>4, OthersKeepDocuments DEF DocumentsInv
<1>9. CASE Describe(c)
  <2>1. /\ Ends(c) /\ UNCHANGED capability
        /\ offer' = [offer EXCEPT ![x.req.agent] = x.given]
    BY <1>9 DEF Describe
  <2>2. offer = [a \in Agent |-> offer[a]]
    BY DEF DocumentsInv
  <2>3. offer' = [a \in Agent |-> offer'[a]]
    BY <2>1, <2>2
  <2> QED
    BY <1>2, <2>1, <2>3, EndKeepsDocuments
<1> QED
  BY <1>3, <1>4, <1>5, <1>6, <1>7, <1>8, <1>9 DEF Serves

LEMMA InitHasDocuments == Init => DocumentsInv
<1> SUFFICES ASSUME Init PROVE DocumentsInv
  OBVIOUS
<1>1. capability \in [Agent -> Capability]
  BY StoredAssumption DEF Init
<1>2. offer = [a \in Agent |-> offer[a]] /\ \A c \in Caller : call[c] = NoCall
  BY DEF Init
<1> QED
  BY <1>1, <1>2, NoCallHoldsNothing DEF DocumentsInv

LEMMA StepKeepsDocuments == RegistryInv /\ DocumentsInv /\ [Next]_vars => DocumentsInv'
<1> SUFFICES ASSUME RegistryInv, DocumentsInv, [Next]_vars PROVE DocumentsInv'
  OBVIOUS
<1>1. CASE UNCHANGED vars
  BY <1>1 DEF vars, DocumentsInv
<1>2. ASSUME NEW c \in Caller, Dies(c) PROVE DocumentsInv'
  BY <1>2, EndKeepsDocuments DEF Dies, DocumentsInv
<1>3. ASSUME NEW c \in Caller,
             Begin(c) \/ ChangesRegistry(c) \/ Places(c) \/ Discovers(c) \/ Serves(c)
      PROVE  DocumentsInv'
  BY <1>3, BeginKeepsDocuments, ChangesKeepDocuments, PlacesKeepDocuments, ServesKeepDocuments
<1>4. CASE Restart
  <2>1. /\ capability' \in [Agent -> Capability] /\ offer' = [a \in Agent |-> offer'[a]]
        /\ \A c \in Caller : call'[c] = NoCall
    BY <1>4 DEF Restart, DocumentsInv
  <2> QED
    BY <2>1, NoCallHoldsNothing DEF DocumentsInv
<1> QED
  BY <1>1, <1>2, <1>3, <1>4 DEF Next
-----------------------------------------------------------------------------
(***************************************************************************)
(* While requests come one at a time, what the one request holds is what   *)
(* is stored, and an agent it has still to tell is the only one whose      *)
(* capability may lag behind.                                              *)
(***************************************************************************)
Reached(a) ==
    registry.workspaces[a] # NoPath => capability[a].workspace = registry.workspaces[a]

Untold(x) == IF x.at \in {"telling", "told"} THEN x.todo ELSE {}

UpToDate(x) ==
    /\ x.at \in {"change", "directories", "scan", "scanned", "telling", "told"} =>
          x.reg.workspaces = registry.workspaces
    /\ x.at \in {"told", "checked", "editing"} =>
          x.cap.workspace = capability[x.req.agent].workspace
    /\ \A a \in Agent \ Untold(x) : Reached(a)

AllReached == \A a \in Agent : Reached(a)

AloneInv == alone =>
    /\ AllIdle => AllReached
    /\ \A c \in Caller : ~Idle(c) =>
          UpToDate(call[c]) /\ \A d \in Caller \ {c} : Idle(d)

DocumentsKept == RegistryInv /\ DocumentsInv

\* A step of the one request there is.
LEMMA StepOfTheOnlyRequest ==
    ASSUME NEW c \in Caller, alone', alone' => alone,
           \A d \in Caller \ {c} : Idle(d),
           \A d \in Caller \ {c} : call'[d] = call[d],
           call'[c].at # "idle" => UpToDate(call[c])',
           call'[c].at = "idle" => AllReached'
    PROVE  AloneInv'
<1>1. \A d \in Caller \ {c} : call'[d].at = "idle"
  BY DEF Idle
<1>2. AllIdle' => AllReached'
  BY DEF AllIdle, Idle
<1>3. ASSUME NEW d \in Caller, ~Idle(d)'
      PROVE  UpToDate(call[d])' /\ \A e \in Caller \ {d} : Idle(e)'
  <2>1. d = c
    BY <1>1, <1>3 DEF Idle
  <2> QED
    BY <1>1, <1>3, <2>1 DEF Idle
<1> QED
  BY <1>2, <1>3 DEF AloneInv

\* A request that is at work while alone knows what is stored.
LEMMA AtWorkAlone ==
    ASSUME AloneInv, alone, NEW c \in Caller, ~Idle(c)
    PROVE  UpToDate(call[c]) /\ \A d \in Caller \ {c} : Idle(d)
  BY DEF AloneInv

LEMMA BeginKeepsAlone ==
    ASSUME DocumentsKept, AloneInv, NEW c \in Caller, Begin(c)
    PROVE  AloneInv'
<1> SUFFICES ASSUME alone' PROVE AloneInv'
  BY DEF AloneInv
<1>1. PICK req \in Request :
          /\ alone' = (alone /\ AllIdle) /\ UNCHANGED <<registry, capability>>
          /\ call' = [call EXCEPT ![c] =
                 [NoCall EXCEPT !.at = FirstStep(req.op), !.req = req,
                     !.reg = IF req.op \in {"capability", "discover"} THEN Absent ELSE registry,
                     !.cap = IF req.op = "capability" THEN capability[req.agent] ELSE Absent,
                     !.entry = IF req.op = "discover" THEN registry.servers[req.server]
                               ELSE Absent]]
  BY DEF Begin
<1>2. /\ \A d \in Caller \ {c} : call'[d] = call[d]
      /\ call'[c].at = FirstStep(req.op)
      /\ call'[c].req = req
      /\ req.op \notin {"capability", "discover"} => call'[c].reg = registry
      /\ req.op = "capability" => call'[c].cap = capability[req.agent]
  BY <1>1 DEF DocumentsKept, RegistryInv, CallsHeld, NoCall
<1>3. alone /\ AllIdle /\ AllReached
  BY <1>1 DEF AloneInv
<1>4. AllReached'
  BY <1>1, <1>3 DEF AllReached, Reached
<1>5. req.op \in {"root", "skill", "source", "server", "workspace", "provision", "sync",
                  "discover", "access", "describe", "capability"}
  BY DEF Request, RootRequest, SkillRequest, SourceRequest, ServerRequest, PlaceRequest,
         AccessRequest
<1>6. UpToDate(call[c])'
  <2>1. call'[c].at \in {"change", "directories", "scan", "scanned", "telling", "told"} =>
            call'[c].reg = registry
    BY <1>2, <1>5 DEF FirstStep
  <2>2. call'[c].at \in {"told", "checked", "editing"} => req.op = "capability"
    BY <1>2, <1>5 DEF FirstStep
  <2> QED
    BY <1>1, <1>2, <1>4, <2>1, <2>2 DEF UpToDate, AllReached
<1> QED
  BY <1>2, <1>3, <1>4, <1>6, StepOfTheOnlyRequest DEF AllIdle

\* Changes of the registry but for Place: no workspace is given.
LEMMA ChangedWorkspaces ==
    ASSUME NEW reg \in Registry, NEW req \in ChangeRequest
    PROVE  \/ Changed(req, reg).workspaces = reg.workspaces
           \/ \A a \in Agent : Changed(req, reg).workspaces[a] = NoPath
<1>1. CASE req \in RootRequest
  <2>1. req.op = "root"
    BY <1>1 DEF RootRequest
  <2> QED
    BY <2>1 DEF Changed, WithRoot
<1>2. CASE req \in SkillRequest
  <2>1. req.op = "skill"
    BY <1>2 DEF SkillRequest
  <2> QED
    BY <2>1 DEF Changed, WithSkill, Registry
<1>3. CASE req \in SourceRequest
  <2>1. req.op = "source"
    BY <1>3 DEF SourceRequest
  <2> QED
    BY <2>1 DEF Changed, WithSource, Registry
<1>4. CASE req \in [op : {"server"}, server : Server, entry : ServerEntry]
  <2>1. req.op = "server"
    BY <1>4
  <2> QED
    BY <2>1 DEF Changed, WithServer, Registry
<1> QED
  BY <1>1, <1>2, <1>3, <1>4 DEF ChangeRequest

LEMMA ChangesKeepAlone ==
    ASSUME DocumentsKept, AloneInv, NEW c \in Caller, ChangesRegistry(c)
    PROVE  AloneInv'
<1> SUFFICES ASSUME alone' PROVE AloneInv'
  BY DEF AloneInv
<1> DEFINE x == call[c]
<1>1. Held(x, disk) /\ IsCall(x) /\ call = [d \in Caller |-> call[d]]
  BY DEF DocumentsKept, RegistryInv, CallsHeld
<1>2. alone /\ ~Idle(c) /\ UNCHANGED <<capability, alone>>
      /\ x.at \in {"change", "scan", "scanned"}
  BY DEF ChangesRegistry, Change, Scan, SaveScanned, Idle
<1>3. UpToDate(x) /\ \A d \in Caller \ {c} : Idle(d)
  BY <1>2, AtWorkAlone
<1>4. x.reg.workspaces = registry.workspaces /\ AllReached
  BY <1>2, <1>3 DEF UpToDate, Untold, AllReached
<1>5. ASSUME \/ registry'.workspaces = registry.workspaces
             \/ \A a \in Agent : registry'.workspaces[a] = NoPath
      PROVE  AllReached'
  BY <1>2, <1>4, <1>5 DEF AllReached, Reached
<1>6. CASE Change(c) \/ SaveScanned(c)
  <2>0. Ends(c)
    BY <1>6 DEF Change, SaveScanned
  <2>1. call'[c].at = "idle" /\ \A d \in Caller \ {c} : call'[d] = call[d]
    BY <1>1, <2>0 DEF Ends, NoCall
  <2>2. CASE Change(c)
    <3>1. x.at = "change"
      BY <2>2 DEF Change
    <3>2. x.reg \in Registry /\ x.req \in ChangeRequest
      BY <1>1, <3>1 DEF Held, Writing
    <3>3. registry' = registry \/ registry' = Changed(x.req, x.reg)
      BY <2>2 DEF Change
    <3>4. AllReached'
      BY <1>4, <1>5, <3>2, <3>3, ChangedWorkspaces
    <3> QED
      BY <1>2, <1>3, <2>1, <3>4, StepOfTheOnlyRequest
  <2>3. CASE SaveScanned(c)
    <3>1. registry' = x.reg
      BY <2>3 DEF SaveScanned
    <3>2. AllReached'
      BY <1>4, <1>5, <3>1
    <3> QED
      BY <1>2, <1>3, <2>1, <3>2, StepOfTheOnlyRequest
  <2> QED
    BY <1>6, <2>2, <2>3
<1>7. CASE Scan(c)
  <2>1. /\ x.at = "scan" /\ UNCHANGED registry
        /\ call' = [call EXCEPT ![c].at = "scanned", ![c].reg = Synced(x.reg, registry)]
    BY <1>7 DEF Scan
  <2>2. x.reg \in Registry
    BY <1>1, <2>1 DEF Held, Writing
  <2>3. Synced(x.reg, registry).workspaces = x.reg.workspaces
    BY <2>2 DEF Synced, Registry
  <2>4. /\ \A d \in Caller \ {c} : call'[d] = call[d]
        /\ call'[c].at = "scanned" /\ call'[c].reg = Synced(x.reg, registry)
    BY <1>1, <2>1 DEF IsCall
  <2>5. AllReached'
    BY <1>5, <2>1
  <2>6. UpToDate(call[c])'
    BY <1>4, <2>1, <2>3, <2>4, <2>5 DEF UpToDate, AllReached
  <2> QED
    BY <1>2, <1>3, <2>4, <2>6, StepOfTheOnlyRequest
<1> QED
  BY <1>6, <1>7 DEF ChangesRegistry

LEMMA DiscoversKeepAlone ==
    ASSUME DocumentsKept, AloneInv, NEW c \in Caller, Discovers(c)
    PROVE  AloneInv'
<1> SUFFICES ASSUME alone' PROVE AloneInv'
  BY DEF AloneInv
<1> DEFINE x == call[c]
<1>1. IsCall(x) /\ call = [d \in Caller |-> call[d]]
  BY DEF DocumentsKept, RegistryInv, CallsHeld
<1>2. /\ alone /\ ~Idle(c) /\ UNCHANGED <<registry, capability, alone>>
      /\ x.at \in {"listing", "listed", "entry"}
  BY DEF Discovers, Listed, ReadEntry, ReadForTools, Idle
<1>3. UpToDate(x) /\ \A d \in Caller \ {c} : Idle(d)
  BY <1>2, AtWorkAlone
<1>4. AllReached'
  BY <1>2, <1>3 DEF UpToDate, Untold, AllReached, Reached
<1>5. /\ \A d \in Caller \ {c} : call'[d] = call[d]
      /\ call'[c].at \in {"listed", "entry", "change"}
      /\ call'[c].at = "change" => call'[c].reg = registry
  <2>1. CASE Listed(c)
    BY <1>1, <2>1 DEF Listed, IsCall
  <2>2. CASE ReadEntry(c)
    <3> DEFINE entry == [registry.servers[x.req.server] EXCEPT
                            !.tools = IF registry.servers[x.req.server].external
                                      THEN x.tools ELSE @]
    <3>1. call' = [call EXCEPT ![c].at = "entry", ![c].entry = entry]
      BY <2>2 DEF ReadEntry
    <3> HIDE DEF entry
    <3> QED
      BY <1>1, <3>1 DEF IsCall
  <2>3. CASE ReadForTools(c)
    BY <1>1, <2>3 DEF ReadForTools, IsCall
  <2> QED
    BY <2>1, <2>2, <2>3 DEF Discovers
<1>6. UpToDate(call[c])'
  BY <1>2, <1>4, <1>5 DEF UpToDate, AllReached
<1> QED
  BY <1>2, <1>3, <1>5, <1>6, StepOfTheOnlyRequest

(***************************************************************************)
(* From the writing of the registry on, an agent lags behind until it is   *)
(* told, and all are told before the request ends.                         *)
(***************************************************************************)
LEMMA PlacedWorkspaces ==
    ASSUME NEW reg \in Registry, NEW req \in PlacingRequest
    PROVE  \A a \in Agent \ ToTell(req, reg) : Placed(req, reg).workspaces[a] = reg.workspaces[a]
<1>1. CASE req \in PlaceRequest
  <2>1. req.op = "workspace" /\ req.agent \in Agent
    BY <1>1 DEF PlaceRequest
  <2> QED
    BY <2>1 DEF Placed, WithWorkspace, ToTell, Registry
<1>2. CASE req \in [op : {"provision"}]
  BY <1>2 DEF ToTell
<1> QED
  BY <1>1, <1>2 DEF PlacingRequest

LEMMA PlacesKeepAlone ==
    ASSUME DocumentsKept, AloneInv, NEW c \in Caller, Places(c)
    PROVE  AloneInv'
<1> SUFFICES ASSUME alone' PROVE AloneInv'
  BY DEF AloneInv
<1> DEFINE x == call[c]
<1>1. /\ Held(x, disk) /\ DocumentsHeld(x) /\ IsCall(x) /\ call = [d \in Caller |-> call[d]]
      /\ capability \in [Agent -> Capability]
  BY DEF DocumentsKept, RegistryInv, CallsHeld, DocumentsInv
<1>2. alone /\ ~Idle(c) /\ UNCHANGED alone
  BY DEF Places, Place, CannotPlace, ReadToTell, Tell, Idle
<1>3. UpToDate(x) /\ \A d \in Caller \ {c} : Idle(d)
  BY <1>2, AtWorkAlone
<1>4. CASE Place(c)
  <2> DEFINE placed == Placed(x.req, x.reg)
  <2>1. /\ x.at = "directories" /\ UNCHANGED capability /\ registry' = placed
        /\ call' = [call EXCEPT ![c].at = "telling", ![c].reg = placed,
                                ![c].todo = ToTell(x.req, x.reg)]
    BY <1>4 DEF Place
  <2>2. x.reg \in Registry /\ x.req \in PlacingRequest
    BY <1>1, <2>1 DEF Held, Writing
  <2>3. \A a \in Agent \ ToTell(x.req, x.reg) : placed.workspaces[a] = x.reg.workspaces[a]
    BY <2>2, PlacedWorkspaces
  <2>4. x.reg.workspaces = registry.workspaces /\ \A a \in Agent : Reached(a)
    BY <1>3, <2>1 DEF UpToDate, Untold
  <2> HIDE DEF placed
  <2>5. /\ \A d \in Caller \ {c} : call'[d] = call[d]
        /\ call'[c].at = "telling" /\ call'[c].reg = placed
        /\ call'[c].todo = ToTell(x.req, x.reg)
    BY <1>1, <2>1 DEF IsCall
  <2>6. \A a \in Agent \ ToTell(x.req, x.reg) : Reached(a)'
    BY <2>1, <2>3, <2>4 DEF Reached
  <2>7. UpToDate(call[c])'
    BY <2>1, <2>5, <2>6 DEF UpToDate, Untold
  <2> QED
    BY <1>2, <1>3, <2>5, <2>7, StepOfTheOnlyRequest
<1>5. CASE CannotPlace(c)
  <2>1. /\ x.at = "directories" /\ UNCHANGED <<registry, capability>>
        /\ call' = [call EXCEPT ![c] = NoCall]
    BY <1>5 DEF CannotPlace, Ends
  <2>2. call'[c].at = "idle" /\ \A d \in Caller \ {c} : call'[d] = call[d]
    BY <1>1, <2>1 DEF NoCall
  <2>3. AllReached'
    BY <1>3, <2>1 DEF UpToDate, Untold, AllReached, Reached
  <2> QED
    BY <1>2, <1>3, <2>2, <2>3, StepOfTheOnlyRequest
<1>6. CASE ReadToTell(c)
  <2>1. PICK a \in x.todo :
            /\ x.at = "telling" /\ UNCHANGED <<registry, capability>>
            /\ call' = [call EXCEPT ![c].at = "told", ![c].cap = capability[a],
                                    ![c].req = [op |-> "tell", agent |-> a]]
    BY <1>6 DEF ReadToTell
  <2>2. /\ \A d \in Caller \ {c} : call'[d] = call[d]
        /\ call'[c].at = "told" /\ call'[c].reg = x.reg /\ call'[c].todo = x.todo
        /\ call'[c].cap = capability[a] /\ call'[c].req.agent = a
    BY <1>1, <2>1 DEF IsCall
  <2>3. x.reg.workspaces = registry.workspaces /\ \A b \in Agent \ x.todo : Reached(b)
    BY <1>3, <2>1 DEF UpToDate, Untold
  <2>4. UpToDate(call[c])'
    BY <2>1, <2>2, <2>3 DEF UpToDate, Untold, Reached
  <2> QED
    BY <1>2, <1>3, <2>2, <2>4, StepOfTheOnlyRequest
<1>7. CASE Tell(c)
  <2> DEFINE a == x.req.agent
             rest == x.todo \ {a}
             cap == WithMetadata(x.cap, x.reg.workspaces[a])
  <2>1. /\ x.at = "told" /\ UNCHANGED registry
        /\ capability' = [capability EXCEPT ![a] = cap]
        /\ call' = IF rest = {} THEN [call EXCEPT ![c] = NoCall]
                   ELSE [call EXCEPT ![c].at = "telling", ![c].todo = rest]
    BY <1>7 DEF Tell
  <2>2. a \in Agent /\ x.reg \in Registry /\ x.cap \in Capability
    BY <1>1, <2>1 DEF DocumentsHeld, WithAgent, WithRegistry, WithCapability
  <2>3. cap.workspace = x.reg.workspaces[a]
    BY <2>2, MetadataIsCapability DEF Registry
  <2>4. x.reg.workspaces = registry.workspaces /\ \A b \in Agent \ x.todo : Reached(b)
    BY <1>3, <2>1 DEF UpToDate, Untold
  <2> HIDE DEF cap
  <2>5. capability'[a] = cap /\ \A b \in Agent \ {a} : capability'[b] = capability[b]
    BY <1>1, <2>1, <2>2
  <2>6. ASSUME NEW b \in Agent \ rest PROVE Reached(b)'
    <3>1. CASE b = a
      BY <2>1, <2>3, <2>4, <2>5, <3>1 DEF Reached
    <3>2. CASE b # a
      BY <2>1, <2>4, <2>5, <3>2 DEF Reached
    <3> QED
      BY <3>1, <3>2
  <2>7. CASE rest = {}
    <3>1. call'[c].at = "idle" /\ \A d \in Caller \ {c} : call'[d] = call[d]
      BY <1>1, <2>1, <2>7 DEF NoCall
    <3>2. AllReached'
      BY <2>6, <2>7 DEF AllReached
    <3> QED
      BY <1>2, <1>3, <3>1, <3>2, StepOfTheOnlyRequest
  <2>8. CASE rest # {}
    <3> HIDE DEF rest
    <3>1. /\ \A d \in Caller \ {c} : call'[d] = call[d]
          /\ call'[c].at = "telling" /\ call'[c].reg = x.reg /\ call'[c].todo = rest
      BY <1>1, <2>1, <2>8 DEF IsCall
    <3>2. UpToDate(call[c])'
      BY <2>1, <2>4, <2>6, <3>1 DEF UpToDate, Untold
    <3> QED
      BY <1>2, <1>3, <3>1, <3>2, StepOfTheOnlyRequest
  <2> QED
    BY <2>7, <2>8
<1> QED
  BY <1>4, <1>5, <1>6, <1>7 DEF Places

(***************************************************************************)
(* A form and a distribution write back the workspace they have read.      *)
(***************************************************************************)
LEMMA ServesKeepAlone ==
    ASSUME DocumentsKept, AloneInv, NEW c \in Caller, Serves(c)
    PROVE  AloneInv'
<1> SUFFICES ASSUME alone' PROVE AloneInv'
  BY DEF AloneInv
<1> DEFINE x == call[c]
<1>1. /\ DocumentsHeld(x) /\ IsCall(x) /\ call = [d \in Caller |-> call[d]]
      /\ capability \in [Agent -> Capability]
  BY DEF DocumentsKept, RegistryInv, CallsHeld, DocumentsInv
<1>2. /\ alone /\ ~Idle(c) /\ UNCHANGED <<registry, alone>>
      /\ x.at \notin {"telling", "told"}
  BY DEF Serves, ReadSnapshot, Submit, ReadToDistribute, Distribute, SaveForm, ReadBindings,
      Describe, Idle
<1>3. UpToDate(x) /\ \A d \in Caller \ {c} : Idle(d)
  BY <1>2, AtWorkAlone
<1>4. AllReached
  BY <1>2, <1>3 DEF UpToDate, Untold, AllReached
<1>5. ASSUME UNCHANGED capability PROVE AllReached'
  BY <1>2, <1>4, <1>5 DEF AllReached, Reached
<1>6. ASSUME NEW cap, capability' = [capability EXCEPT ![x.req.agent] = cap],
             cap.workspace = capability[x.req.agent].workspace, x.req.agent \in Agent
      PROVE  AllReached'
  <2>1. \A a \in Agent : capability'[a].workspace = capability[a].workspace
    BY <1>1, <1>6
  <2> QED
    BY <1>2, <1>4, <2>1 DEF AllReached, Reached
<1>7. ASSUME Ends(c), AllReached' PROVE AloneInv'
  <2>1. call'[c].at = "idle" /\ \A d \in Caller \ {c} : call'[d] = call[d]
    BY <1>1, <1>7 DEF Ends, NoCall
  <2> QED
    BY <1>2, <1>3, <1>7, <2>1, StepOfTheOnlyRequest
<1>8. ASSUME \A d \in Caller \ {c} : call'[d] = call[d], UNCHANGED capability,
             call'[c].at \in {"shown", "described", "submitted", "checked"},
             call'[c].at = "checked" =>
                 call'[c].cap.workspace = capability[call'[c].req.agent].workspace
      PROVE  AloneInv'
  <2>1. UpToDate(call[c])'
    BY <1>5, <1>8 DEF UpToDate, AllReached
  <2> QED
    BY <1>2, <1>3, <1>8, <2>1, StepOfTheOnlyRequest
<1>9. CASE ReadSnapshot(c)
  <2> DEFINE at == IF x.req.op = "access" THEN "shown" ELSE "described"
             cap == capability[x.req.agent]
  <2>1. /\ UNCHANGED capability /\ at \in {"shown", "described"}
        /\ call' = [call EXCEPT ![c].at = at, ![c].cap = cap]
    BY <1>9 DEF ReadSnapshot
  <2> HIDE DEF at, cap
  <2>2. (\A d \in Caller \ {c} : call'[d] = call[d]) /\ call'[c].at = at
    BY <1>1, <2>1 DEF IsCall
  <2> QED
    BY <1>8, <2>1, <2>2
<1>10. CASE Submit(c)
  <2>1. PICK chosen \in Chosen(x.req.page, x.reg, x.cap) :
            call' = [call EXCEPT ![c].at = "submitted", ![c].reg = registry, ![c].cap = Absent,
               ![c].req = [op |-> "distribute", agent |-> x.req.agent,
                           servers |-> chosen.servers, skills |-> chosen.skills]]
    BY <1>10 DEF Submit
  <2>2. (\A d \in Caller \ {c} : call'[d] = call[d]) /\ call'[c].at = "submitted"
    BY <1>1, <2>1 DEF IsCall
  <2>3. UNCHANGED capability
    BY <1>10 DEF Submit
  <2> QED
    BY <1>8, <2>2, <2>3
<1>11. CASE ReadToDistribute(c)
  <2> DEFINE cap == capability[x.req.agent]
  <2>1. UNCHANGED capability
    BY <1>11 DEF ReadToDistribute
  <2>2. CASE MayDistribute(x.reg, x.req.servers, x.req.skills)
    <3>1. call' = [call EXCEPT ![c].at = "checked", ![c].cap = cap]
      BY <1>11, <2>2 DEF ReadToDistribute
    <3> HIDE DEF cap
    <3>2. /\ \A d \in Caller \ {c} : call'[d] = call[d]
          /\ call'[c].at = "checked" /\ call'[c].cap = cap /\ call'[c].req = x.req
      BY <1>1, <3>1 DEF IsCall
    <3> QED
      BY <1>8, <2>1, <3>2 DEF cap
  <2>3. CASE ~MayDistribute(x.reg, x.req.servers, x.req.skills)
    <3>1. Ends(c)
      BY <1>11, <2>3 DEF ReadToDistribute, Ends
    <3> QED
      BY <1>5, <1>7, <2>1, <3>1
  <2> QED
    BY <2>2, <2>3
<1>12. CASE Distribute(c)
  <2> DEFINE cap == Distributed(x.reg, x.cap, x.req.servers, x.req.skills)
  <2>1. /\ x.at = "checked" /\ Ends(c)
        /\ capability' = [capability EXCEPT ![x.req.agent] = cap]
    BY <1>12 DEF Distribute
  <2>2. /\ x.req.agent \in Agent /\ x.reg \in Registry /\ x.cap \in Capability
        /\ MayDistribute(x.reg, x.req.servers, x.req.skills)
    BY <1>1, <2>1 DEF DocumentsHeld, WithAgent, WithRegistry, WithCapability
  <2>3. cap.workspace = x.cap.workspace
    BY <2>2, DistributedIsCapability
  <2>4. x.cap.workspace = capability[x.req.agent].workspace
    BY <1>3, <2>1 DEF UpToDate
  <2> HIDE DEF cap
  <2> QED
    BY <1>6, <1>7, <2>1, <2>2, <2>3, <2>4
<1>13. CASE SaveForm(c)
  <2>1. PICK form \in Edited(x.cap) :
            capability' = [capability EXCEPT ![x.req.agent] = form]
    BY <1>13 DEF SaveForm
  <2>2. x.at = "editing" /\ Ends(c)
    BY <1>13 DEF SaveForm
  <2>3. x.req.agent \in Agent /\ x.cap \in Capability
    BY <1>1, <2>2 DEF DocumentsHeld, WithAgent, WithCapability
  <2>4. form.workspace = x.cap.workspace
    BY <2>3, FormIsCapability
  <2>5. x.cap.workspace = capability[x.req.agent].workspace
    BY <1>3, <2>2 DEF UpToDate
  <2> QED
    BY <1>6, <1>7, <2>1, <2>2, <2>3, <2>4, <2>5
<1>14. CASE Describe(c)
  BY <1>5, <1>7, <1>14 DEF Describe
<1>15. CASE ReadBindings(c)
  <2> DEFINE given == Offered(x.reg, x.cap, capability[x.req.agent], x.req.agent)
  <2>1. /\ UNCHANGED capability
        /\ call' = [call EXCEPT ![c].at = "offering", ![c].reg = Absent, ![c].cap = Absent,
                                ![c].given = given]
    BY <1>15 DEF ReadBindings
  <2> HIDE DEF given
  <2>2. /\ \A d \in Caller \ {c} : call'[d] = call[d]
        /\ call'[c].at = "offering"
    BY <1>1, <2>1 DEF IsCall
  <2>3. UpToDate(call[c])'
    BY <1>5, <2>1, <2>2 DEF UpToDate, Untold, AllReached
  <2> QED
    BY <1>2, <1>3, <2>2, <2>3, StepOfTheOnlyRequest
<1> QED
  BY <1>9, <1>10, <1>11, <1>12, <1>13, <1>14, <1>15 DEF Serves

LEMMA InitIsReached == Init => AloneInv
<1> SUFFICES ASSUME Init PROVE AloneInv
  OBVIOUS
<1>1. PICK kept \in Stored : registry = WithImported(kept.registry)
  BY DEF Init
<1>2. registry.workspaces = kept.registry.workspaces
  BY <1>1, StoredAssumption DEF WithImported, Registry
<1>3. AllReached
  BY <1>1, <1>2, StoredAssumption DEF AllReached, Reached
<1>4. \A c \in Caller : Idle(c)
  BY DEF Init, Idle, NoCall
<1> QED
  BY <1>3, <1>4 DEF AloneInv

LEMMA StepKeepsAlone == DocumentsKept /\ AloneInv /\ [Next]_vars => AloneInv'
<1> SUFFICES ASSUME DocumentsKept, AloneInv, [Next]_vars PROVE AloneInv'
  OBVIOUS
<1>1. CASE UNCHANGED vars
  BY <1>1 DEF vars, AloneInv, AllIdle, AllReached, Idle, UpToDate, Reached
<1>2. ASSUME NEW c \in Caller, Dies(c) PROVE AloneInv'
  BY <1>2 DEF Dies, AloneInv
<1>3. ASSUME NEW c \in Caller,
             Begin(c) \/ ChangesRegistry(c) \/ Places(c) \/ Discovers(c) \/ Serves(c)
      PROVE  AloneInv'
  BY <1>3, BeginKeepsAlone, ChangesKeepAlone, PlacesKeepAlone, DiscoversKeepAlone,
     ServesKeepAlone
<1>4. CASE Restart
  <2> SUFFICES ASSUME alone' PROVE AloneInv'
    BY DEF AloneInv
  <2>1. /\ alone /\ AllIdle /\ UNCHANGED capability /\ registry' = WithImported(registry)
        /\ \A c \in Caller : call'[c] = NoCall
    BY <1>4 DEF Restart
  <2>2. registry'.workspaces = registry.workspaces
    BY <2>1 DEF WithImported, Registry, DocumentsKept, RegistryInv
  <2>3. AllReached'
    BY <2>1, <2>2 DEF AloneInv, AllReached, Reached
  <2>4. \A c \in Caller : Idle(c)'
    BY <2>1 DEF Idle, NoCall
  <2> QED
    BY <2>3, <2>4 DEF AloneInv
<1> QED
  BY <1>1, <1>2, <1>3, <1>4 DEF Next

(***************************************************************************)
(* While requests come one at a time and none is cut short, the capability *)
(* of an agent shows the workspace that is registered for it.              *)
(***************************************************************************)
THEOREM WorkspacesAreTold == Spec => []WorkspacesReachAgents
<1>1. Init => DocumentsKept /\ AloneInv
  BY InitIsSound, InitHasDocuments, InitIsReached DEF DocumentsKept
<1>2. (DocumentsKept /\ AloneInv) /\ [Next]_vars => (DocumentsKept /\ AloneInv)'
  BY StepKeepsInv, StepKeepsDocuments, StepKeepsAlone DEF DocumentsKept
<1>3. DocumentsKept /\ AloneInv => WorkspacesReachAgents
  BY DEF AloneInv, AllReached, Reached, WorkspacesReachAgents
<1> QED
  BY <1>1, <1>2, <1>3, PTL DEF Spec
-----------------------------------------------------------------------------
(***************************************************************************)
(* What a step may not do, from what a request is known to hold.           *)
(***************************************************************************)
LEMMA DocumentsAlwaysKept == Spec => []DocumentsKept
<1>1. Init => DocumentsKept
  BY InitIsSound, InitHasDocuments DEF DocumentsKept
<1>2. DocumentsKept /\ [Next]_vars => DocumentsKept'
  BY StepKeepsInv, StepKeepsDocuments DEF DocumentsKept
<1> QED
  BY <1>1, <1>2, PTL DEF Spec

\* A step moves one request and leaves the others where they are.
LEMMA OneRequestMoves ==
    ASSUME RegistryInv, NEW d \in Caller, NEW c \in Caller \ {d},
           \/ Begin(d) \/ ChangesRegistry(d) \/ Places(d) \/ Discovers(d)
           \/ Serves(d) \/ Dies(d)
    PROVE  call'[c] = call[c]
<1>1. call = [e \in Caller |-> call[e]]
  BY DEF RegistryInv, CallsHeld
<1>2. CASE Begin(d)
  BY <1>1, <1>2 DEF Begin
<1>3. CASE ChangesRegistry(d)
  BY <1>1, <1>3 DEF ChangesRegistry, Change, Scan, SaveScanned, Ends
<1>4. CASE Places(d)
  BY <1>1, <1>4 DEF Places, Place, CannotPlace, ReadToTell, Tell, Ends
<1>5. CASE Discovers(d)
  BY <1>1, <1>5 DEF Discovers, Listed, ReadEntry, ReadForTools
<1>6. CASE Serves(d)
  BY <1>1, <1>6 DEF Serves, ReadSnapshot, Submit, ReadToDistribute, Distribute, SaveForm,
                    ReadBindings, Describe, Ends
<1>7. CASE Dies(d)
  BY <1>1, <1>7 DEF Dies, Ends
<1> QED
  BY <1>2, <1>3, <1>4, <1>5, <1>6, <1>7

(***************************************************************************)
(* A request whose reading is current changes only its own part.           *)
(***************************************************************************)
UnchangedParts(reg, new, req) ==
    CASE req.op = "root" ->
             /\ new.servers = reg.servers /\ new.skills = reg.skills
             /\ new.sources = reg.sources
      [] req.op \in {"workspace", "provision"} ->
             /\ new.servers = reg.servers /\ new.skills = reg.skills
             /\ new.sources = reg.sources /\ new.root = reg.root
      [] req.op = "skill" ->
             /\ new.servers = reg.servers /\ new.root = reg.root
             /\ new.workspaces = reg.workspaces /\ new.provisioned = reg.provisioned
             /\ new.sources = reg.sources
             /\ \A k \in Skill \ {req.skill} : new.skills[k] = reg.skills[k]
      [] req.op = "source" ->
             /\ new.servers = reg.servers /\ new.root = reg.root
             /\ new.workspaces = reg.workspaces /\ new.provisioned = reg.provisioned
             /\ new.skills = reg.skills
      [] req.op = "server" ->
             /\ new.skills = reg.skills /\ new.sources = reg.sources /\ new.root = reg.root
             /\ new.workspaces = reg.workspaces /\ new.provisioned = reg.provisioned
             /\ \A s \in Server \ {req.server} : new.servers[s] = reg.servers[s]

LEMMA ChangeIsOwnPart ==
    ASSUME NEW reg \in Registry, NEW req \in ChangeRequest
    PROVE  UnchangedParts(reg, Changed(req, reg), req) /\ UnchangedParts(reg, reg, req)
<1>1. CASE req \in RootRequest
  <2>1. req.op = "root"
    BY <1>1 DEF RootRequest
  <2> QED
    BY <2>1 DEF Changed, WithRoot, UnchangedParts
<1>2. CASE req \in SkillRequest
  <2>1. req.op = "skill"
    BY <1>2 DEF SkillRequest
  <2> QED
    BY <2>1 DEF Changed, WithSkill, UnchangedParts, Registry
<1>3. CASE req \in SourceRequest
  <2>1. req.op = "source"
    BY <1>3 DEF SourceRequest
  <2> QED
    BY <2>1 DEF Changed, WithSource, UnchangedParts, Registry
<1>4. CASE req \in [op : {"server"}, server : Server, entry : ServerEntry]
  <2>1. req.op = "server"
    BY <1>4
  <2> QED
    BY <2>1 DEF Changed, WithServer, UnchangedParts, Registry
<1> QED
  BY <1>1, <1>2, <1>3, <1>4 DEF ChangeRequest

LEMMA PlaceIsOwnPart ==
    ASSUME NEW reg \in Registry, NEW req \in PlacingRequest
    PROVE  UnchangedParts(reg, Placed(req, reg), req) /\ UnchangedParts(reg, reg, req)
<1>1. CASE req \in PlaceRequest
  <2>1. req.op = "workspace"
    BY <1>1 DEF PlaceRequest
  <2> QED
    BY <2>1 DEF Placed, WithWorkspace, UnchangedParts, Registry
<1>2. CASE req \in [op : {"provision"}]
  <2>1. req.op = "provision"
    BY <1>2
  <2> QED
    BY <2>1 DEF Placed, Provisioned, UnchangedParts
<1> QED
  BY <1>1, <1>2 DEF PlacingRequest

\* A synchronization forgets no skill and keeps what was set for it.
SkillsKept(reg, new) == \A k \in Skill : reg.skills[k] # Absent =>
    /\ new.skills[k] # Absent
    /\ new.skills[k].enabled = reg.skills[k].enabled
    /\ new.skills[k].triggers = reg.skills[k].triggers

LEMMA SyncKeepsSkills ==
    ASSUME NEW reg \in Registry, NEW scan \in Registry
    PROVE  SkillsKept(reg, Synced(reg, scan))
<1> SUFFICES ASSUME NEW k \in Skill, reg.skills[k] # Absent
             PROVE  /\ Synced(reg, scan).skills[k] # Absent
                    /\ Synced(reg, scan).skills[k].enabled = reg.skills[k].enabled
                    /\ Synced(reg, scan).skills[k].triggers = reg.skills[k].triggers
  BY DEF SkillsKept
<1> DEFINE
      synced == [j \in Skill |->
        IF FoundIn(scan, j) = {} THEN reg.skills[j]
        ELSE [enabled  |-> (reg.skills[j] # Absent => reg.skills[j].enabled),
              triggers |-> (reg.skills[j] # Absent /\ reg.skills[j].triggers),
              from     |-> CHOOSE s \in FoundIn(scan, j) : TRUE]]
<1>1. Synced(reg, scan).skills = synced
  <2>1. Synced(reg, scan) = [reg EXCEPT !.skills = synced]
    BY DEF Synced
  <2> HIDE DEF synced
  <2> QED
    BY <2>1 DEF Registry
<1>2. reg.skills[k] \in SkillEntry
  BY DEF Registry
<1>3. CASE FoundIn(scan, k) = {}
  <2>1. synced[k] = reg.skills[k]
    BY <1>3
  <2> HIDE DEF synced
  <2> QED
    BY <1>1, <2>1
<1>4. CASE FoundIn(scan, k) # {}
  <2> DEFINE from == CHOOSE s \in FoundIn(scan, k) : TRUE
             enabled == (reg.skills[k] # Absent => reg.skills[k].enabled)
             triggers == (reg.skills[k] # Absent /\ reg.skills[k].triggers)
  <2>1. synced[k] = [enabled |-> enabled, triggers |-> triggers, from |-> from]
    BY <1>4
  <2>2. from \in AnySource
    <3>1. FoundIn(scan, k) \subseteq AnySource
      BY DEF FoundIn, Scanned, AnySource
    <3>2. from \in FoundIn(scan, k)
      BY <1>4
    <3> QED
      BY <3>1, <3>2
  <2>3. enabled = reg.skills[k].enabled /\ triggers = reg.skills[k].triggers
    <3>1. reg.skills[k].enabled \in BOOLEAN /\ reg.skills[k].triggers \in BOOLEAN
      BY <1>2 DEF SkillEntry
    <3> QED
      BY <3>1
  <2>4. reg.skills[k].enabled \in BOOLEAN /\ reg.skills[k].triggers \in BOOLEAN
    BY <1>2 DEF SkillEntry
  <2> HIDE DEF from, enabled, triggers, synced
  <2>5. synced[k] \in SkillEntry
    BY <2>1, <2>2, <2>3, <2>4 DEF SkillEntry
  <2>6. synced[k] # Absent
    BY <2>5, AbsentAssumption
  <2>7. synced[k].enabled = enabled /\ synced[k].triggers = triggers
    BY <2>1
  <2> QED
    BY <1>1, <2>3, <2>6, <2>7
<1> QED
  BY <1>3, <1>4

LEMMA StepTouchesOwnPart ==
    ASSUME DocumentsKept, Next, NEW c \in Caller,
           call[c].at \in {"change", "scanned", "directories"},
           call'[c].at \in {"idle", "telling"},
           ReadIsCurrent(c), ~Restart
    PROVE  OwnPart(c)
<1> DEFINE x == call[c]
<1>1. /\ Held(x, disk) /\ DocumentsHeld(x) /\ IsCall(x) /\ call = [d \in Caller |-> call[d]]
      /\ registry \in Registry
  BY DEF DocumentsKept, RegistryInv, CallsHeld, DocumentsInv
<1>2. PICK d \in Caller :
          \/ Begin(d) \/ ChangesRegistry(d) \/ Places(d) \/ Discovers(d) \/ Serves(d) \/ Dies(d)
  BY DEF Next
<1>3. d = c
  <2>1. call'[c] # call[c]
    OBVIOUS
  <2> QED
    BY <1>2, <2>1, OneRequestMoves DEF DocumentsKept
<1>4. \/ Change(c) \/ SaveScanned(c) \/ Place(c) \/ UNCHANGED registry
  <2>1. ~Scan(c)
    BY DEF Scan
  <2> QED
    BY <1>2, <1>3, <2>1 DEF Begin, ChangesRegistry, Places, CannotPlace, ReadToTell, Tell,
       Discovers, Listed, ReadEntry, ReadForTools, Serves, ReadSnapshot, Submit,
       ReadToDistribute, Distribute, SaveForm, ReadBindings, Describe, Dies
<1>5. ASSUME UnchangedParts(registry, registry', x.req),
             x.req.op \in {"root", "workspace", "provision", "skill", "source", "server"}
      PROVE  OwnPart(c)
  BY <1>5 DEF UnchangedParts, OwnPart, SameServers, SameSkills, SamePlaces
<1>6. CASE x.at = "change"
  <2>1. x.req \in ChangeRequest /\ x.reg = registry
    BY <1>1, <1>6 DEF Held, ReadIsCurrent
  <2>2. x.req.op \in {"root", "skill", "source", "server"}
    BY <2>1 DEF ChangeRequest, RootRequest, SkillRequest, SourceRequest
  <2>3. registry' = registry \/ registry' = Changed(x.req, registry)
    BY <1>4, <1>6, <2>1 DEF Change, SaveScanned, Place
  <2>4. UnchangedParts(registry, registry', x.req)
    BY <1>1, <2>1, <2>3, ChangeIsOwnPart
  <2> QED
    BY <1>5, <2>2, <2>4
<1>7. CASE x.at = "directories"
  <2>1. x.req \in PlacingRequest /\ x.reg = registry
    BY <1>1, <1>7 DEF Held, ReadIsCurrent
  <2>2. x.req.op \in {"workspace", "provision"}
    BY <2>1 DEF PlacingRequest, PlaceRequest
  <2>3. registry' = registry \/ registry' = Placed(x.req, registry)
    BY <1>4, <1>7, <2>1 DEF Change, SaveScanned, Place
  <2>4. UnchangedParts(registry, registry', x.req)
    BY <1>1, <2>1, <2>3, PlaceIsOwnPart
  <2> QED
    BY <1>5, <2>2, <2>4
<1>8. CASE x.at = "scanned"
  <2>1. x.req.op = "sync"
    BY <1>1, <1>8 DEF DocumentsHeld
  <2>2. x.reg = Synced(registry, registry)
    BY <1>8 DEF ReadIsCurrent
  <2>3. registry' = registry \/ registry' = Synced(registry, registry)
    BY <1>4, <1>8, <2>2 DEF Change, SaveScanned, Place
  <2>4. SkillsKept(registry, registry')
    BY <1>1, <2>3, SyncKeepsSkills DEF SkillsKept
  <2>5. /\ registry'.servers = registry.servers /\ registry'.sources = registry.sources
        /\ registry'.root = registry.root /\ registry'.workspaces = registry.workspaces
        /\ registry'.provisioned = registry.provisioned
    BY <1>1, <2>3 DEF Synced, Registry
  <2>6. KeepsSkills
    BY <2>4 DEF KeepsSkills, SkillsKept
  <2> QED
    BY <2>1, <2>5, <2>6 DEF OwnPart, SameServers, SamePlaces
<1> QED
  BY <1>6, <1>7, <1>8

(***************************************************************************)
(* A request that writes back a registry nobody has changed since it read  *)
(* it changes nothing but what it was asked to change.                     *)
(***************************************************************************)
THEOREM RequestsKeepTheRest == Spec => OnlyItsOwnPart
<1>1. DocumentsKept /\ [Next]_vars =>
          [\A c \in Caller :
               /\ call[c].at \in {"change", "scanned", "directories"}
               /\ call'[c].at \in {"idle", "telling"}
               /\ ReadIsCurrent(c) /\ ~Restart
               => OwnPart(c)]_vars
  BY StepTouchesOwnPart
<1> QED
  BY <1>1, DocumentsAlwaysKept, PTL DEF Spec, OnlyItsOwnPart

LEMMA StepSavesAccess ==
    ASSUME DocumentsKept, Next, NEW c \in Caller,
           call[c].at = "checked", call'[c].at = "idle", capability' # capability,
           call[c].cap = capability[call[c].req.agent]
    PROVE  LET req == call[c].req
               before == capability[req.agent]
               after == capability'[req.agent]
           IN  /\ after.workspace = before.workspace
               /\ \A s \in req.servers \cap AssignedServers(before) :
                      before.servers[s].tools # {} => after.servers[s] = before.servers[s]
               /\ \A k \in req.skills \cap AssignedSkills(before) :
                      after.skills[k].mode = before.skills[k].mode
<1> DEFINE x == call[c]
           req == call[c].req
           before == capability[req.agent]
           after == Distributed(x.reg, before, req.servers, req.skills)
<1>1. /\ DocumentsHeld(x) /\ call = [d \in Caller |-> call[d]]
      /\ capability \in [Agent -> Capability]
  BY DEF DocumentsKept, RegistryInv, CallsHeld, DocumentsInv
<1>2. ~Restart
  BY DEF Restart
<1>3. PICK d \in Caller :
          \/ Begin(d) \/ ChangesRegistry(d) \/ Places(d) \/ Discovers(d) \/ Serves(d) \/ Dies(d)
  BY <1>2 DEF Next
<1>4. d = c
  <2>1. call'[c] # call[c]
    OBVIOUS
  <2> QED
    BY <1>3, <2>1, OneRequestMoves DEF DocumentsKept
<1>5. Distribute(c)
  BY <1>3, <1>4 DEF Begin, Idle, ChangesRegistry, Change, Scan, SaveScanned, Places, Place,
     CannotPlace, ReadToTell, Tell, Discovers, Listed, ReadEntry, ReadForTools, Serves,
     ReadSnapshot, Submit, ReadToDistribute, SaveForm, ReadBindings, Describe, Dies
<1>6. req.agent \in Agent
  BY <1>1 DEF DocumentsHeld, WithAgent
<1>7. before \in Capability
  BY <1>1, <1>6
<1>8. capability' = [capability EXCEPT ![req.agent] = after]
  BY <1>5 DEF Distribute
<1>9. capability'[req.agent] = after
  <2> HIDE DEF after
  <2> QED
    BY <1>1, <1>6, <1>8
<1>10. after.workspace = before.workspace
  BY DEF Distributed
<1>11. ASSUME NEW s \in req.servers \cap AssignedServers(before), before.servers[s].tools # {}
       PROVE  after.servers[s] = before.servers[s]
  <2>1. s \in Server /\ s \in req.servers /\ before.servers[s] # Absent
        /\ before.servers[s].enabled
    BY <1>11 DEF AssignedServers
  <2>2. before.servers[s] \in ServerBinding
    BY <1>7, <2>1 DEF Capability
  <2>3. after.servers[s] = [enabled |-> TRUE, tools |-> before.servers[s].tools]
    BY <1>11, <2>1 DEF Distributed
  <2> HIDE DEF after, before
  <2> QED
    BY <2>1, <2>2, <2>3 DEF ServerBinding
<1>12. ASSUME NEW k \in req.skills \cap AssignedSkills(before)
       PROVE  after.skills[k].mode = before.skills[k].mode
  <2>1. k \in Skill /\ k \in req.skills /\ before.skills[k] # Absent
    BY DEF AssignedSkills
  <2> QED
    BY <2>1 DEF Distributed
<1> HIDE DEF after
<1> QED
  BY <1>9, <1>10, <1>11, <1>12

(***************************************************************************)
(* Saving the servers or the skills of an agent, with nothing changed in   *)
(* between, leaves the other list and the workspace as they were.          *)
(***************************************************************************)
THEOREM AccessIsSavedAlone == Spec => AccessSaveKeepsRest
<1>1. DocumentsKept /\ [Next]_vars =>
          [\A c \in Caller :
            LET req == call[c].req
                before == capability[req.agent]
                after == capability'[req.agent]
            IN  /\ call[c].at = "checked" /\ call'[c].at = "idle" /\ capability' # capability
                /\ call[c].cap = before
                => /\ after.workspace = before.workspace
                   /\ \A s \in req.servers \cap AssignedServers(before) :
                          before.servers[s].tools # {} => after.servers[s] = before.servers[s]
                   /\ \A k \in req.skills \cap AssignedSkills(before) :
                          after.skills[k].mode = before.skills[k].mode]_vars
  BY StepSavesAccess
<1> QED
  BY <1>1, DocumentsAlwaysKept, PTL DEF Spec, AccessSaveKeepsRest
-----------------------------------------------------------------------------
(***************************************************************************)
(* A mode other than human_confirmed stays with the agent and the skill a  *)
(* form chose it for: in the capability, in what a request has read of it  *)
(* and in what it is about to give a session.                              *)
(***************************************************************************)
ModesFrom(a, cap, modes) == \A k \in Trusts(cap) : <<a, k>> \in modes

GivenFrom(a, given, modes) ==
    \A p \in given.packages : p.mode # "human_confirmed" => <<a, p.skill>> \in modes

ModesHeld(x, modes) ==
    /\ x.at \in WithCapability => ModesFrom(x.req.agent, x.cap, modes)
    /\ x.at = "offering" => GivenFrom(x.req.agent, x.given, modes)

ModesInv ==
    /\ \A a \in Agent : ModesFrom(a, capability[a], trusted)
    /\ \A a \in Agent : offer[a] # NoOffer => GivenFrom(a, offer[a], trusted)
    /\ \A c \in Caller : ModesHeld(call[c], trusted)

LEMMA NoCallHasNoModes ==
    ASSUME NEW modes PROVE ModesHeld(NoCall, modes)
  BY DEF NoCall, ModesHeld, WithCapability

\* What a form adds is trusted from then on; nothing is taken back.
LEMMA MoreModes ==
    ASSUME NEW x, NEW few, NEW many, few \subseteq many, ModesHeld(x, few)
    PROVE  ModesHeld(x, many)
  BY DEF ModesHeld, ModesFrom, GivenFrom

\* A workspace and a list leave the modes as they are or ask.
LEMMA MetadataKeepsModes ==
    ASSUME NEW cap \in Capability, NEW p, NEW a, NEW modes, ModesFrom(a, cap, modes)
    PROVE  ModesFrom(a, WithMetadata(cap, p), modes)
<1>1. WithMetadata(cap, p).skills = cap.skills
  BY DEF WithMetadata, Capability
<1> QED
  BY <1>1 DEF ModesFrom, Trusts

LEMMA DistributedKeepsModes ==
    ASSUME NEW reg, NEW cap, NEW servers, NEW skills, NEW a, NEW modes,
           ModesFrom(a, cap, modes)
    PROVE  ModesFrom(a, Distributed(reg, cap, servers, skills), modes)
<1> DEFINE learned == Distributed(reg, cap, servers, skills).skills
<1> SUFFICES ASSUME NEW k \in Skill, learned[k] # Absent,
                    learned[k].mode # "human_confirmed"
             PROVE  k \in Trusts(cap)
  BY DEF ModesFrom, Trusts
<1>1. k \in skills
  BY DEF Distributed
<1>2. learned[k].mode = IF cap.skills[k] # Absent THEN cap.skills[k].mode
                        ELSE "human_confirmed"
  BY <1>1 DEF Distributed
<1> HIDE DEF learned
<1> QED
  BY <1>2 DEF Trusts

\* What is given has the modes of the second reading.
LEMMA OfferedKeepsModes ==
    ASSUME NEW reg, NEW first, NEW second, NEW a, NEW modes, ModesFrom(a, second, modes)
    PROVE  GivenFrom(a, Offered(reg, first, second, a), modes)
<1> SUFFICES ASSUME NEW p \in Offered(reg, first, second, a).packages,
                    p.mode # "human_confirmed"
             PROVE  <<a, p.skill>> \in modes
  BY DEF GivenFrom
<1>1. PICK k \in AssignedSkills(second) : p = Package(reg, second, k)
  BY DEF Offered, Packages
<1>2. p.skill = k /\ p.mode = second.skills[k].mode
  BY <1>1 DEF Package
<1> QED
  BY <1>2 DEF AssignedSkills, Trusts, ModesFrom

\* A step of one request leaves what the others hold as good as it was.
LEMMA OthersKeepModes ==
    ASSUME ModesInv, NEW c \in Caller, trusted \subseteq trusted',
           \A d \in Caller \ {c} : call'[d] = call[d],
           ModesHeld(call'[c], trusted'),
           \A a \in Agent : ModesFrom(a, capability'[a], trusted'),
           \A a \in Agent : offer'[a] # NoOffer => GivenFrom(a, offer'[a], trusted')
    PROVE  ModesInv'
<1>1. \A d \in Caller : ModesHeld(call'[d], trusted')
  BY MoreModes DEF ModesInv
<1> QED
  BY <1>1 DEF ModesInv

\* ... and a step that writes neither a capability nor an offer does so with them.
LEMMA ReadingKeepsModes ==
    ASSUME ModesInv, NEW c \in Caller, UNCHANGED <<capability, offer, trusted>>,
           \A d \in Caller \ {c} : call'[d] = call[d],
           ModesHeld(call'[c], trusted)
    PROVE  ModesInv'
  BY OthersKeepModes DEF ModesInv

LEMMA BeginKeepsModes ==
    ASSUME DocumentsKept, ModesInv, NEW c \in Caller, Begin(c)
    PROVE  ModesInv'
<1>1. PICK req \in Request :
          call' = [call EXCEPT ![c] =
                 [NoCall EXCEPT !.at = FirstStep(req.op), !.req = req,
                     !.reg = IF req.op \in {"capability", "discover"} THEN Absent ELSE registry,
                     !.cap = IF req.op = "capability" THEN capability[req.agent] ELSE Absent,
                     !.entry = IF req.op = "discover" THEN registry.servers[req.server]
                               ELSE Absent]]
  BY DEF Begin
<1>2. UNCHANGED <<capability, offer, trusted>>
  BY DEF Begin
<1>3. /\ \A d \in Caller \ {c} : call'[d] = call[d]
      /\ call'[c].at = FirstStep(req.op) /\ call'[c].req = req
      /\ req.op = "capability" => call'[c].cap = capability[req.agent]
  BY <1>1 DEF DocumentsKept, RegistryInv, CallsHeld, NoCall
<1>4. req.op \in {"root", "skill", "source", "server", "workspace", "provision", "sync",
                  "discover", "access", "describe", "capability"}
  BY DEF Request, RootRequest, SkillRequest, SourceRequest, ServerRequest, PlaceRequest,
         AccessRequest
<1>5. CASE req.op = "capability"
  <2>1. req.agent \in Agent
    BY <1>5 DEF Request, RootRequest, SkillRequest, SourceRequest, ServerRequest,
                PlaceRequest, AccessRequest
  <2>2. call'[c].at = "editing"
    BY <1>3, <1>5 DEF FirstStep
  <2>3. ModesHeld(call'[c], trusted)
    BY <1>3, <1>5, <2>1, <2>2 DEF ModesInv, ModesHeld
  <2> QED
    BY <1>2, <1>3, <2>3, ReadingKeepsModes
<1>6. CASE req.op # "capability"
  <2>1. call'[c].at \notin WithCapability \cup {"offering"}
    BY <1>3, <1>4, <1>6 DEF FirstStep, WithCapability
  <2>2. ModesHeld(call'[c], trusted)
    BY <2>1 DEF ModesHeld
  <2> QED
    BY <1>2, <1>3, <2>2, ReadingKeepsModes
<1> QED
  BY <1>5, <1>6

LEMMA ChangesKeepModes ==
    ASSUME DocumentsKept, ModesInv, NEW c \in Caller, ChangesRegistry(c) \/ Discovers(c)
    PROVE  ModesInv'
<1> DEFINE x == call[c]
<1>1. /\ IsCall(x) /\ call = [d \in Caller |-> call[d]]
      /\ \A d \in Caller \ {c} : call'[d] = call[d]
  BY OneRequestMoves DEF DocumentsKept, RegistryInv, CallsHeld
<1>2. UNCHANGED <<capability, offer, trusted>>
  BY DEF ChangesRegistry, Change, Scan, SaveScanned, Discovers, Listed, ReadEntry,
         ReadForTools
<1>3. call'[c] = NoCall \/ call'[c].at \in {"scanned", "listed", "entry", "change"}
  <2>1. CASE Change(c) \/ SaveScanned(c)
    BY <1>1, <2>1 DEF Change, SaveScanned, Ends
  <2>2. CASE Scan(c)
    BY <1>1, <2>2 DEF Scan, IsCall
  <2>3. CASE Listed(c)
    BY <1>1, <2>3 DEF Listed, IsCall
  <2>4. CASE ReadEntry(c)
    <3> DEFINE entry == [registry.servers[x.req.server] EXCEPT
                            !.tools = IF registry.servers[x.req.server].external
                                      THEN x.tools ELSE @]
    <3>1. call' = [call EXCEPT ![c].at = "entry", ![c].entry = entry]
      BY <2>4 DEF ReadEntry
    <3> HIDE DEF entry
    <3> QED
      BY <1>1, <3>1 DEF IsCall
  <2>5. CASE ReadForTools(c)
    BY <1>1, <2>5 DEF ReadForTools, IsCall
  <2> QED
    BY <2>1, <2>2, <2>3, <2>4, <2>5 DEF ChangesRegistry, Discovers
<1>4. ModesHeld(call'[c], trusted)
  BY <1>3, NoCallHasNoModes DEF ModesHeld, WithCapability
<1> QED
  BY <1>1, <1>2, <1>4, ReadingKeepsModes

(***************************************************************************)
(* Each agent is told in its own capability: it is read anew for each.     *)
(***************************************************************************)
LEMMA PlacesKeepModes ==
    ASSUME DocumentsKept, ModesInv, NEW c \in Caller, Places(c)
    PROVE  ModesInv'
<1> DEFINE x == call[c]
<1>1. /\ DocumentsHeld(x) /\ IsCall(x) /\ call = [d \in Caller |-> call[d]]
      /\ capability \in [Agent -> Capability]
  BY DEF DocumentsKept, RegistryInv, CallsHeld, DocumentsInv
<1>2. UNCHANGED <<offer, trusted>> /\ \A d \in Caller \ {c} : call'[d] = call[d]
  BY OneRequestMoves DEF DocumentsKept, Places, Place, CannotPlace, ReadToTell, Tell
<1>3. CASE Place(c)
  <2> DEFINE placed == Placed(x.req, x.reg)
             told == ToTell(x.req, x.reg)
  <2>1. /\ UNCHANGED capability
        /\ call' = [call EXCEPT ![c].at = "telling", ![c].reg = placed, ![c].todo = told]
    BY <1>3 DEF Place
  <2> HIDE DEF placed, told
  <2>2. call'[c].at = "telling"
    BY <1>1, <2>1 DEF IsCall
  <2>3. ModesHeld(call'[c], trusted)
    BY <2>2 DEF ModesHeld, WithCapability
  <2> QED
    BY <1>2, <2>1, <2>3, ReadingKeepsModes
<1>4. CASE CannotPlace(c)
  <2>1. UNCHANGED capability /\ call'[c] = NoCall
    BY <1>1, <1>4 DEF CannotPlace, Ends
  <2> QED
    BY <1>2, <2>1, NoCallHasNoModes, ReadingKeepsModes
<1>5. CASE ReadToTell(c)
  <2>1. PICK a \in x.todo :
            /\ x.at = "telling" /\ UNCHANGED capability
            /\ call' = [call EXCEPT ![c].at = "told", ![c].cap = capability[a],
                                    ![c].req = [op |-> "tell", agent |-> a]]
    BY <1>5 DEF ReadToTell
  <2>2. a \in Agent
    BY <1>1, <2>1 DEF DocumentsHeld
  <2>3. call'[c].at = "told" /\ call'[c].cap = capability[a] /\ call'[c].req.agent = a
    BY <1>1, <2>1 DEF IsCall
  <2>4. ModesHeld(call'[c], trusted)
    BY <2>2, <2>3 DEF ModesHeld, ModesInv
  <2> QED
    BY <1>2, <2>1, <2>4, ReadingKeepsModes
<1>6. CASE Tell(c)
  <2> DEFINE a == x.req.agent
             rest == x.todo \ {a}
             cap == WithMetadata(x.cap, x.reg.workspaces[a])
  <2>1. /\ x.at = "told" /\ capability' = [capability EXCEPT ![a] = cap]
        /\ \/ call' = [call EXCEPT ![c] = NoCall]
           \/ call' = [call EXCEPT ![c].at = "telling", ![c].todo = rest]
    BY <1>6 DEF Tell
  <2>2. a \in Agent /\ x.cap \in Capability
    BY <1>1, <2>1 DEF DocumentsHeld, WithAgent, WithCapability
  <2>3. ModesFrom(a, x.cap, trusted)
    BY <2>1 DEF ModesInv, ModesHeld, WithCapability
  <2>4. ModesFrom(a, cap, trusted)
    BY <2>2, <2>3, MetadataKeepsModes
  <2> HIDE DEF cap, rest
  <2>5. \A b \in Agent : ModesFrom(b, capability'[b], trusted)
    BY <1>1, <2>1, <2>4 DEF ModesInv
  <2>6. call'[c] = NoCall \/ call'[c].at = "telling"
    BY <1>1, <2>1 DEF IsCall
  <2>7. ModesHeld(call'[c], trusted)
    BY <2>6, NoCallHasNoModes DEF ModesHeld, WithCapability
  <2> QED
    BY <1>2, <2>5, <2>7, OthersKeepModes DEF ModesInv
<1> QED
  BY <1>3, <1>4, <1>5, <1>6 DEF Places

(***************************************************************************)
(* Only the form brings a new mode, and it is trusted from then on.        *)
(***************************************************************************)
LEMMA ServesKeepModes ==
    ASSUME DocumentsKept, ModesInv, NEW c \in Caller, Serves(c)
    PROVE  ModesInv'
<1> DEFINE x == call[c]
           a == x.req.agent
<1>1. /\ DocumentsHeld(x) /\ IsCall(x) /\ call = [d \in Caller |-> call[d]]
      /\ capability \in [Agent -> Capability] /\ offer = [b \in Agent |-> offer[b]]
  BY DEF DocumentsKept, RegistryInv, CallsHeld, DocumentsInv
<1>2. \A d \in Caller \ {c} : call'[d] = call[d]
  BY OneRequestMoves DEF DocumentsKept
<1>3. x.at \in WithAgent => a \in Agent /\ ModesFrom(a, capability[a], trusted)
  BY <1>1 DEF DocumentsHeld, ModesInv
<1>4. CASE ReadSnapshot(c)
  <2> DEFINE at == IF x.req.op = "access" THEN "shown" ELSE "described"
             cap == capability[a]
  <2>1. /\ x.at = "snapshot" /\ UNCHANGED <<capability, offer, trusted>>
        /\ call' = [call EXCEPT ![c].at = at, ![c].cap = cap]
    BY <1>4 DEF ReadSnapshot
  <2>2. at \in {"shown", "described"} /\ ModesFrom(a, cap, trusted)
    BY <1>3, <2>1 DEF WithAgent
  <2> HIDE DEF at, cap
  <2>3. call'[c].at = at /\ call'[c].cap = cap /\ call'[c].req = x.req
    BY <1>1, <2>1 DEF IsCall
  <2>4. ModesHeld(call'[c], trusted)
    BY <2>2, <2>3 DEF ModesHeld
  <2> QED
    BY <1>2, <2>1, <2>4, ReadingKeepsModes
<1>5. CASE Submit(c)
  <2>1. PICK chosen \in Chosen(x.req.page, x.reg, x.cap) :
            call' = [call EXCEPT ![c].at = "submitted", ![c].reg = registry, ![c].cap = Absent,
               ![c].req = [op |-> "distribute", agent |-> x.req.agent,
                           servers |-> chosen.servers, skills |-> chosen.skills]]
    BY <1>5 DEF Submit
  <2>2. call'[c].at = "submitted" /\ UNCHANGED <<capability, offer, trusted>>
    BY <1>1, <1>5, <2>1 DEF IsCall, Submit
  <2>3. ModesHeld(call'[c], trusted)
    BY <2>2 DEF ModesHeld, WithCapability
  <2> QED
    BY <1>2, <2>2, <2>3, ReadingKeepsModes
<1>6. CASE ReadToDistribute(c)
  <2> DEFINE cap == capability[a]
  <2>1. /\ x.at = "submitted" /\ UNCHANGED <<capability, offer, trusted>>
        /\ \/ call' = [call EXCEPT ![c] = NoCall]
           \/ call' = [call EXCEPT ![c].at = "checked", ![c].cap = cap]
    BY <1>6 DEF ReadToDistribute
  <2>2. ModesFrom(a, cap, trusted)
    BY <1>3, <2>1 DEF WithAgent
  <2> HIDE DEF cap
  <2>3. \/ call'[c] = NoCall
        \/ call'[c].at = "checked" /\ call'[c].cap = cap /\ call'[c].req = x.req
    BY <1>1, <2>1 DEF IsCall
  <2>4. ModesHeld(call'[c], trusted)
    BY <2>2, <2>3, NoCallHasNoModes DEF ModesHeld
  <2> QED
    BY <1>2, <2>1, <2>4, ReadingKeepsModes
<1>7. CASE Distribute(c)
  <2> DEFINE cap == Distributed(x.reg, x.cap, x.req.servers, x.req.skills)
  <2>1. /\ x.at = "checked" /\ Ends(c) /\ UNCHANGED <<offer, trusted>>
        /\ capability' = [capability EXCEPT ![a] = cap]
    BY <1>7 DEF Distribute
  <2>2. a \in Agent /\ ModesFrom(a, x.cap, trusted)
    BY <1>3, <2>1 DEF WithAgent, ModesInv, ModesHeld, WithCapability
  <2>3. ModesFrom(a, cap, trusted)
    BY <2>2, DistributedKeepsModes
  <2> HIDE DEF cap
  <2>4. \A b \in Agent : ModesFrom(b, capability'[b], trusted)
    BY <1>1, <2>1, <2>3 DEF ModesInv
  <2>5. call'[c] = NoCall
    BY <1>1, <2>1 DEF Ends
  <2> QED
    BY <1>2, <2>1, <2>4, <2>5, NoCallHasNoModes, OthersKeepModes DEF ModesInv
<1>8. CASE SaveForm(c)
  <2>1. PICK form \in Edited(x.cap) :
            /\ capability' = [capability EXCEPT ![a] = form]
            /\ trusted' = trusted \cup {<<a, k>> : k \in Trusts(form)}
    BY <1>8 DEF SaveForm
  <2>2. x.at = "editing" /\ Ends(c) /\ UNCHANGED offer
    BY <1>8 DEF SaveForm
  <2>3. ModesFrom(a, form, trusted')
    BY <2>1 DEF ModesFrom
  <2>4. \A b \in Agent : ModesFrom(b, capability'[b], trusted')
    BY <1>1, <2>1, <2>3 DEF ModesInv, ModesFrom
  <2>5. \A b \in Agent : offer'[b] # NoOffer => GivenFrom(b, offer'[b], trusted')
    BY <2>1, <2>2 DEF ModesInv, GivenFrom
  <2>6. call'[c] = NoCall /\ trusted \subseteq trusted'
    BY <1>1, <2>1, <2>2 DEF Ends
  <2> QED
    BY <1>2, <2>4, <2>5, <2>6, NoCallHasNoModes, OthersKeepModes
<1>9. CASE ReadBindings(c)
  <2> DEFINE given == Offered(x.reg, x.cap, capability[a], a)
  <2>1. /\ x.at = "described" /\ UNCHANGED <<capability, offer, trusted>>
        /\ call' = [call EXCEPT ![c].at = "offering", ![c].reg = Absent, ![c].cap = Absent,
                                ![c].given = given]
    BY <1>9 DEF ReadBindings
  <2>2. ModesFrom(a, capability[a], trusted)
    BY <1>3, <2>1 DEF WithAgent
  <2>3. GivenFrom(a, given, trusted)
    BY <2>2, OfferedKeepsModes
  <2> HIDE DEF given
  <2>4. call'[c].at = "offering" /\ call'[c].given = given /\ call'[c].req = x.req
    BY <1>1, <2>1 DEF IsCall
  <2>5. ModesHeld(call'[c], trusted)
    BY <2>3, <2>4 DEF ModesHeld, WithCapability
  <2> QED
    BY <1>2, <2>1, <2>5, ReadingKeepsModes
<1>10. CASE Describe(c)
  <2>1. /\ x.at = "offering" /\ Ends(c) /\ UNCHANGED <<capability, trusted>>
        /\ offer' = [offer EXCEPT ![a] = x.given]
    BY <1>10 DEF Describe
  <2>2. GivenFrom(a, x.given, trusted)
    BY <2>1 DEF ModesInv, ModesHeld
  <2>3. \A b \in Agent : offer'[b] # NoOffer => GivenFrom(b, offer'[b], trusted)
    BY <1>1, <2>1, <2>2 DEF ModesInv
  <2>4. call'[c] = NoCall
    BY <1>1, <2>1 DEF Ends
  <2> QED
    BY <1>2, <2>1, <2>3, <2>4, NoCallHasNoModes, OthersKeepModes DEF ModesInv
<1> QED
  BY <1>4, <1>5, <1>6, <1>7, <1>8, <1>9, <1>10 DEF Serves

LEMMA InitHasModes == Init => ModesInv
<1> SUFFICES ASSUME Init PROVE ModesInv
  OBVIOUS
<1>1. \A a \in Agent : \A k \in Trusts(capability[a]) : <<a, k>> \in trusted
  BY DEF Init, Trusts
<1>2. /\ \A a \in Agent : offer[a] = NoOffer
      /\ \A c \in Caller : call[c] = NoCall
  BY DEF Init
<1> QED
  BY <1>1, <1>2, NoCallHasNoModes DEF ModesInv, ModesFrom

LEMMA StepKeepsModes == DocumentsKept /\ ModesInv /\ [Next]_vars => ModesInv'
<1> SUFFICES ASSUME DocumentsKept, ModesInv, [Next]_vars PROVE ModesInv'
  OBVIOUS
<1>1. CASE UNCHANGED vars
  BY <1>1 DEF vars, ModesInv
<1>2. ASSUME NEW c \in Caller, Dies(c) PROVE ModesInv'
  <2>1. /\ UNCHANGED <<capability, offer, trusted>> /\ call'[c] = NoCall
        /\ \A d \in Caller \ {c} : call'[d] = call[d]
    BY <1>2 DEF Dies, Ends, DocumentsKept, RegistryInv, CallsHeld
  <2> QED
    BY <2>1, NoCallHasNoModes, ReadingKeepsModes
<1>3. ASSUME NEW c \in Caller,
             Begin(c) \/ ChangesRegistry(c) \/ Places(c) \/ Discovers(c) \/ Serves(c)
      PROVE  ModesInv'
  BY <1>3, BeginKeepsModes, ChangesKeepModes, PlacesKeepModes, ServesKeepModes
<1>4. CASE Restart
  <2>1. /\ UNCHANGED <<capability, trusted>> /\ \A a \in Agent : offer'[a] = NoOffer
        /\ \A c \in Caller : call'[c] = NoCall
    BY <1>4 DEF Restart
  <2> QED
    BY <2>1, NoCallHasNoModes DEF ModesInv
<1> QED
  BY <1>1, <1>2, <1>3, <1>4 DEF Next

(***************************************************************************)
(* A session has a skill that acts without asking only if a capability     *)
(* form once said so of that agent and skill, whatever number of requests  *)
(* overlap, die or are cut short by a restart.                             *)
(***************************************************************************)
THEOREM UntrustedSkillsWait == Spec => []UntrustedSkillsAsk
<1>1. Init => DocumentsKept /\ ModesInv
  BY InitIsSound, InitHasDocuments, InitHasModes DEF DocumentsKept
<1>2. (DocumentsKept /\ ModesInv) /\ [Next]_vars => (DocumentsKept /\ ModesInv)'
  BY StepKeepsInv, StepKeepsDocuments, StepKeepsModes DEF DocumentsKept
<1>3. ModesInv => UntrustedSkillsAsk
  BY DEF ModesInv, GivenFrom, UntrustedSkillsAsk
<1> QED
  BY <1>1, <1>2, <1>3, PTL DEF Spec
=============================================================================
