-------------------------- MODULE SessionToolsProofs --------------------------
(***************************************************************************)
(* Why no call changes a workspace unannounced: the descriptor of a tool   *)
(* and its handler are written apart, and agree on what writes.  And why a *)
(* call reaches the tool it names: the registry of references and the      *)
(* handlers of the gateway are built apart, from one reading.              *)
(***************************************************************************)
EXTENDS SessionToolsSafety, FiniteSetTheorems, TLAPS

\* What ChangesAreDeclared says of one step.
Declared ==
    tree' # tree /\ tree'[Root] = tree[Root] =>
        Calling /\ ~session.confirmed /\ answer'.ok /\ answer'.recorded = {"local_write"}

(***************************************************************************)
(* The handlers that leave another tree are those whose descriptor says    *)
(* that they write, and they record it.                                    *)
(***************************************************************************)
LEMMA WritersAreKnown ==
    ASSUME NEW tool, NEW p, NEW text, After(tool, tree, p, text) # tree
    PROVE  tool \in Recording /\ SideEffectKind(tool) = "local_write"
<1>1. tool \in {"fs.write_file", "fs.make_dir", "fs.delete_file"}
  BY DEF After
<1> QED
  BY <1>1 DEF Recording, SideEffectKind

(***************************************************************************)
(* A call of a file tool is declared: the policy held back a tool that     *)
(* writes when a skill asks for confirmation.                              *)
(***************************************************************************)
LEMMA FileCallsAreDeclared ==
    ASSUME Calling, NEW to, to[1] # NoServer, CallsFile(to)
    PROVE  Declared
<1> SUFFICES ASSUME tree' # tree
             PROVE  ~session.confirmed /\ answer'.ok /\ answer'.recorded = {"local_write"}
  BY DEF Declared
<1> DEFINE tool == to[2]
           ok(p) == Resolves(session.registered, tree, p) /\ Succeeds(tool, tree, p)
<1>1. PICK p, text :
          /\ ~NeedsApproval(to)
          /\ tree' = IF ok(p) THEN After(tool, tree, p, text) ELSE tree
          /\ answer' = Result(to, "workspace", ok(p),
                              IF ok(p) /\ tool \in Recording THEN {"local_write"} ELSE {})
  BY DEF CallsFile
<1> HIDE DEF ok
<1>2. ok(p) /\ After(tool, tree, p, text) # tree
  BY <1>1
<1>3. tool \in Recording /\ SideEffectKind(tool) = "local_write"
  BY <1>2, WritersAreKnown
<1>4. answer' = Result(to, "workspace", ok(p), {"local_write"})
  BY <1>1, <1>2, <1>3
<1>5. answer'.ok = ok(p) /\ answer'.recorded = {"local_write"}
  BY <1>3, <1>4 DEF Result
<1>6. ~session.confirmed
  BY <1>1, <1>3 DEF NeedsApproval
<1> QED
  BY <1>2, <1>5, <1>6

(***************************************************************************)
(* Every other step leaves the files alone, or makes or removes the        *)
(* directory itself.                                                       *)
(***************************************************************************)
LEMMA StepIsDeclared == ASSUME [Next]_vars PROVE Declared
<1>1. CASE UNCHANGED vars
  BY <1>1 DEF vars, Declared
<1>2. CASE Describes \/ Builds \/ CannotBuild \/ Ends
  BY <1>2 DEF Describes, Builds, CannotBuild, Ends, Declared
<1>3. CASE DirectoryChanges
  <2>1. tree'[Root] = IF tree[Root] = "absent" THEN "directory" ELSE "absent"
    BY <1>3, FilesAssumption DEF DirectoryChanges
  <2> QED
    BY <2>1 DEF Declared
<1>4. ASSUME Calling, NEW ref \in Asked, Unknown(ref) \/ Calls(ref)
      PROVE  Declared
  <2> DEFINE to == Routed(session.built, ref)
  <2>1. CASE Unknown(ref)
    BY <2>1 DEF Unknown, Declared
  <2>2. CASE Calls(ref)
    <3>1. to[1] # NoServer /\ (Refused(to) \/ Unhandled(to) \/ CallsServer(to) \/ CallsFile(to))
      BY <2>2 DEF Calls
    <3> HIDE DEF to
    <3>2. CASE Refused(to) \/ Unhandled(to) \/ CallsServer(to)
      BY <3>2 DEF Refused, Unhandled, CallsServer, Declared
    <3>3. CASE CallsFile(to)
      BY <1>4, <3>1, <3>3, FileCallsAreDeclared
    <3> QED
      BY <3>1, <3>2, <3>3
  <2> QED
    BY <1>4, <2>1, <2>2
<1> QED
  BY <1>1, <1>2, <1>3, <1>4 DEF Next

(***************************************************************************)
(* A call changes the workspace only when no active skill asks for         *)
(* confirmation, and its result records a local write, for every registry, *)
(* reference and tree (_tool_descriptor, the handlers, and the policy      *)
(* between them).                                                          *)
(***************************************************************************)
THEOREM WritesAreDeclared == Spec => ChangesAreDeclared
<1>1. [Next]_vars => [Declared]_vars
  BY StepIsDeclared
<1>2. [Declared]_vars =>
         [tree' # tree /\ tree'[Root] = tree[Root] =>
              /\ Calling /\ ~session.confirmed
              /\ answer'.ok /\ answer'.recorded = {"local_write"}]_vars
  BY DEF Declared
<1> QED
  BY <1>1, <1>2, PTL DEF Spec, ChangesAreDeclared

-----------------------------------------------------------------------------
(* Where a call goes                                                        *)

SessionType ==
    [at : {"none", "described", "ready"}, shown : Registered \cup {<<>>},
     bound : SUBSET Server, built : Registered \cup {<<>>},
     registered : BOOLEAN, confirmed : BOOLEAN]

\* Whoever answered is whom the gateway had for the tool.
AnsweredBy(reg, confirmed, to, by) ==
    \/ by = "policy" /\ confirmed
    \/ by \in {"external", "workspace", "none"} /\ Handler(reg, to[1], to[2]) = by

\* A session that answers was built from a registry in which no server has a
\* tool twice, and has been answered by its own handlers only.
RoutingInv ==
    /\ session \in SessionType
    /\ session.at = "ready" => session.built \in Registered /\ Buildable(session.built)
    /\ answer.to[1] # NoServer =>
          /\ session.at = "ready"
          /\ AnsweredBy(session.built, session.confirmed, answer.to, answer.by)

LEMMA RoutingInit == Init => RoutingInv
BY DEF Init, RoutingInv, NoSession, NoAnswer, SessionType

LEMMA RoutingNext == RoutingInv /\ [Next]_vars => RoutingInv'
<1> SUFFICES ASSUME RoutingInv, [Next]_vars PROVE RoutingInv'
  OBVIOUS
<1> USE DEF RoutingInv
<1>1. CASE UNCHANGED vars
  BY <1>1 DEF vars
<1>2. CASE Describes
  BY <1>2 DEF Describes, SessionType
<1>3. CASE Builds
  <2>1. PICK reg \in Registered :
           /\ session.at = "described" /\ Buildable(reg)
           /\ session' = [session EXCEPT !.at = "ready", !.built = reg] /\ answer' = answer
    BY <1>3 DEF Builds
  <2>2. /\ [session EXCEPT !.at = "ready", !.built = reg] \in SessionType
        /\ [session EXCEPT !.at = "ready", !.built = reg].built = reg
    BY DEF SessionType
  <2> QED
    BY <2>1, <2>2
<1>4. CASE CannotBuild \/ Ends
  <2>1. NoSession \in SessionType /\ NoSession.at = "none" /\ NoAnswer.to[1] = NoServer
    BY DEF NoSession, NoAnswer, SessionType
  <2>2. CASE CannotBuild
    BY <2>1, <2>2 DEF CannotBuild
  <2>3. CASE Ends
    BY <2>1, <2>3 DEF Ends
  <2> QED
    BY <1>4, <2>2, <2>3
<1>5. CASE DirectoryChanges
  BY <1>5 DEF DirectoryChanges
<1>6. ASSUME Calling, NEW ref \in Asked, Unknown(ref) \/ Calls(ref)
      PROVE  RoutingInv'
  <2> DEFINE to == Routed(session.built, ref)
  <2>1. session' = session /\ session.at = "ready"
    BY <1>6 DEF Calling, Unknown, Calls, Refused, Unhandled, CallsServer, CallsFile
  <2>2. ASSUME NEW by, NEW ok, NEW effects, answer' = Result(to, by, ok, effects),
               to[1] # NoServer => AnsweredBy(session.built, session.confirmed, to, by)
        PROVE  RoutingInv'
    <3> HIDE DEF to
    <3>1. answer'.to = to /\ answer'.by = by
      BY <2>2 DEF Result
    <3> QED
      BY <2>1, <2>2, <3>1
  <2>3. CASE Unknown(ref)
    BY <2>2, <2>3 DEF Unknown
  <2>4. CASE Calls(ref)
    <3>1. Refused(to) \/ Unhandled(to) \/ CallsServer(to) \/ CallsFile(to)
      BY <2>4 DEF Calls
    <3> HIDE DEF to
    <3>2. CASE Refused(to)
      BY <2>2, <3>2 DEF Refused, NeedsApproval, AnsweredBy
    <3>3. CASE Unhandled(to)
      BY <2>2, <3>3 DEF Unhandled, AnsweredBy
    <3>4. CASE CallsServer(to)
      BY <2>2, <3>4 DEF CallsServer, AnsweredBy
    <3>5. CASE CallsFile(to)
      <4>1. /\ Handler(session.built, to[1], to[2]) = "workspace"
            /\ \E ok, effects : answer' = Result(to, "workspace", ok, effects)
        BY <3>5 DEF CallsFile
      <4> QED
        BY <2>2, <4>1 DEF AnsweredBy
    <3> QED
      BY <3>1, <3>2, <3>3, <3>4, <3>5
  <2> QED
    BY <1>6, <2>3, <2>4
<1> QED
  BY <1>1, <1>2, <1>3, <1>4, <1>5, <1>6 DEF Next

(***************************************************************************)
(* In a registry that could be built a tool that alone has its reference   *)
(* is the only descriptor with it, so it is the one the reference names.   *)
(***************************************************************************)
LEMMA OneDescriptor ==
    ASSUME NEW reg \in Registered, Buildable(reg), NEW s \in Enabled(reg),
           NEW t \in ToolsOf(reg, s), Distinct(reg, <<s, t>>)
    PROVE  Routed(reg, RefOf[<<s, t>>]) = <<s, t>>
<1> DEFINE tools == reg[s].tools
           ref   == RefOf[<<s, t>>]
           named == {d \in Descriptors(reg) : RefAt(reg, d) = ref}
<1>1. \A u \in Enabled(reg) : u \in Server /\ reg[u].tools \in Seq(Tool)
  BY ToolsAssumption DEF Enabled, Entry
<1>2. /\ Len(tools) \in Nat /\ DOMAIN tools = 1 .. Len(tools)
      /\ ToolsOf(reg, s) = {tools[i] : i \in 1 .. Len(tools)}
      /\ Cardinality(ToolsOf(reg, s)) = Len(tools)
  BY <1>1 DEF ToolsOf, Buildable
<1>3. tools \in Surjection(1 .. Len(tools), ToolsOf(reg, s))
  BY <1>1, <1>2 DEF Surjection
<1>4. IsFiniteSet(1 .. Len(tools)) /\ Cardinality(1 .. Len(tools)) = Len(tools)
  BY <1>2, FS_Interval
<1>5. tools \in Injection(1 .. Len(tools), ToolsOf(reg, s))
  BY <1>2, <1>3, <1>4, FS_SurjSameCardinalityImpliesInj
<1>6. PICK i \in 1 .. Len(tools) : tools[i] = t
  BY <1>2
<1>7. <<s, i>> \in named
  BY <1>2, <1>6 DEF Descriptors, RefAt
<1>8. \A d \in named : d = <<s, i>>
  <2> SUFFICES ASSUME NEW d \in named PROVE d = <<s, i>>
    OBVIOUS
  <2>1. PICK u \in Enabled(reg) : d \in {u} \X DOMAIN reg[u].tools
    BY DEF Descriptors
  <2>2. PICK j \in DOMAIN reg[u].tools : d = <<u, j>>
    BY <2>1
  <2>3. reg[u].tools[j] \in ToolsOf(reg, u) /\ RefOf[<<u, reg[u].tools[j]>>] = ref
    BY <2>2 DEF ToolsOf, RefAt
  <2>4. <<u, reg[u].tools[j]>> = <<s, t>>
    BY <2>3 DEF Distinct
  <2>5. u = s /\ j \in 1 .. Len(tools) /\ tools[j] = tools[i]
    BY <1>2, <1>6, <2>2, <2>4
  <2>6. j = i
    BY <1>5, <2>5 DEF Injection, IsInjective
  <2> QED
    BY <2>2, <2>5, <2>6
<1>9. Comes(<<s, i>>, <<s, i>>)
  BY <1>2, <1>1 DEF Comes
<1> HIDE DEF named
<1>10. named # {} /\ (CHOOSE d \in named : \A e \in named : Comes(d, e)) = <<s, i>>
  BY <1>7, <1>8, <1>9
<1>11. Routed(reg, ref) = <<s, tools[i]>>
  <2> DEFINE first == CHOOSE d \in named : \A e \in named : Comes(d, e)
  <2>1. Routed(reg, ref) = IF named = {} THEN <<NoServer, "none">>
                           ELSE <<first[1], reg[first[1]].tools[first[2]]>>
    BY DEF Routed, named
  <2>2. first = <<s, i>> /\ named # {}
    BY <1>10
  <2> HIDE DEF first, named
  <2>3. first[1] = s /\ first[2] = i
    BY <2>2
  <2> QED
    BY <2>1, <2>2, <2>3
<1> QED
  BY <1>6, <1>11

(***************************************************************************)
(* A tool the agent was told of is answered by the server it was told of   *)
(* and by that server's kind of handler, for every registry, table of      *)
(* references, binding and workspace: the registry of the session and the  *)
(* handlers of its gateway agree.                                          *)
(***************************************************************************)
THEOREM OfferedToolsAnswer == Spec => []CallsGoWhereOffered
<1>1. RoutingInv => CallsGoWhereOffered
  <2> SUFFICES ASSUME RoutingInv, session.at = "ready", session.shown = session.built,
                      NEW o \in Offered, Distinct(session.built, o)
               PROVE  /\ Routed(session.built, RefOf[o]) = o
                      /\ answer.to = o =>
                            CASE answer.by = "external" -> session.shown[o[1]].external
                              [] answer.by = "workspace" ->
                                    ~session.shown[o[1]].external /\ o[2] \in FileTool
                              [] answer.by = "none" ->
                                    ~session.shown[o[1]].external /\ o[2] \notin FileTool
                              [] answer.by = "policy" -> session.confirmed
    BY DEF CallsGoWhereOffered
  <2>0. PICK s \in session.bound \cap Enabled(session.built) :
           o \in {s} \X ToolsOf(session.built, s)
    BY DEF Offered
  <2>1. PICK t \in ToolsOf(session.built, s) : o = <<s, t>>
    BY <2>0
  <2>2. session.built \in Registered /\ Buildable(session.built)
    BY DEF RoutingInv
  <2>3. Routed(session.built, RefOf[o]) = o
    BY <2>0, <2>1, <2>2, OneDescriptor
  <2>4. s # NoServer /\ o[1] = s /\ o[2] = t
    BY <2>0, <2>1, ToolsAssumption DEF Enabled
  <2>5. ASSUME answer.to = o
        PROVE  CASE answer.by = "external" -> session.shown[o[1]].external
                 [] answer.by = "workspace" ->
                       ~session.shown[o[1]].external /\ o[2] \in FileTool
                 [] answer.by = "none" ->
                       ~session.shown[o[1]].external /\ o[2] \notin FileTool
                 [] answer.by = "policy" -> session.confirmed
    <3>1. AnsweredBy(session.built, session.confirmed, o, answer.by)
      BY <2>4, <2>5 DEF RoutingInv
    <3>2. CASE answer.by = "policy"
      BY <3>1, <3>2 DEF AnsweredBy
    <3>3. CASE answer.by = "external"
      BY <3>1, <3>3 DEF AnsweredBy, Handler
    <3>4. CASE answer.by = "workspace"
      BY <3>1, <3>4 DEF AnsweredBy, Handler
    <3>5. CASE answer.by = "none"
      BY <3>1, <3>5 DEF AnsweredBy, Handler
    <3> QED
      BY <3>1, <3>2, <3>3, <3>4, <3>5 DEF AnsweredBy
  <2> QED
    BY <2>3, <2>5
<1> QED
  BY <1>1, RoutingInit, RoutingNext, PTL DEF Spec
=============================================================================
