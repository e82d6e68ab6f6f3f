------------------------------ MODULE AuthProofs ------------------------------
(***************************************************************************)
(* Why the token file keeps every token while flows come one at a time:    *)
(* what a flow holds is what the file said, changed only for its own       *)
(* server.                                                                 *)
(***************************************************************************)
EXTENDS AuthSafety, TLAPS

\* A flow that has not begun is at no server yet.
AnyServer == Server \cup {NewFlow.server}

FlowStep == {"new", "find", "bind", "tokens", "client", "ask", "set_client", "redirect",
             "wait", "exchange", "set_tokens", "again", "closing", "done", "open", "write"}

FlowState ==
    [at : FlowStep, server : AnyServer, port : Port \cup {NoPort},
     client : Port \cup {NoPort}, tokens : Flow \cup {NoFlow}, held : Payload,
     then : FlowStep \cup {""}, ok : BOOLEAN]

Holding == {"open", "write"}
Then == {"tokens", "client", "set_client", "set_tokens", "redirect", "again"}

AuthTypeOK ==
    /\ file \in File /\ (file.state = "missing" => file.items = NoPayload)
    /\ flow \in [Flow -> FlowState] /\ \A f \in Flow : Busy(f) => flow[f].server \in Server
    /\ \A f \in Flow : flow[f].at \in Holding => flow[f].then \in Then
    /\ got \in [Server -> Flow \cup {NoFlow}]

\* The step a flow is at, or will be at when it has written what it holds.
Doing(x) == IF x.at \in Holding THEN x.then ELSE x.at
Items(x) == IF x.at \in Holding THEN x.held ELSE file.items

Kept(items, s) ==
    /\ items[s].tokens = got[s]
    /\ got[s] # NoFlow => items[s].client # NoPort

\* What the one flow that is at work knows.
FlowSound(f, x) ==
    /\ x.server \in Server
    /\ x.at # "find" => x.port \in Port
    /\ x.at = "write" <=> file.state = "torn"
    /\ \A s \in Server : (s = x.server /\ Doing(x) = "set_tokens") \/ Kept(Items(x), s)
    /\ Doing(x) = "set_tokens" => x.tokens = f /\ got[x.server] = f
    /\ Doing(x) \in {"redirect", "wait", "exchange", "set_tokens"} =>
          Items(x)[x.server].client # NoPort
    /\ Doing(x) = "ask" => x.client = Items(x)[x.server].client
    /\ Doing(x) = "set_client" => x.client = x.port

AllKept == file.state # "torn" /\ \A s \in Server : Kept(file.items, s)

AuthInv == alone =>
    /\ Quiet => AllKept
    /\ \A f \in Flow : Busy(f) => FlowSound(f, flow[f]) /\ \A g \in Flow \ {f} : ~Busy(g)
-----------------------------------------------------------------------------
(***************************************************************************)
(* A read makes a missing file, and fails on a torn one.                   *)
(***************************************************************************)
LEMMA GetTokensReads ==
    ASSUME NEW f \in Flow, GetTokens(f), file \in File
    PROVE  /\ At(f, "tokens") /\ UNCHANGED <<file, got, alone>>
           /\ \/ file.state = "missing" /\ Writes(f, NoPayload, "tokens")
              \/ file.state = "torn" /\ Closes(f, FALSE)
              \/ /\ file.state = "whole"
                 /\ flow' = [flow EXCEPT ![f].at = "client",
                                         ![f].tokens = file.items[flow[f].server].tokens]
  BY DEF GetTokens, Reads, File

LEMMA GetClientReads ==
    ASSUME NEW f \in Flow, GetClient(f), file \in File
    PROVE  /\ At(f, "client") /\ UNCHANGED <<file, got, alone>>
           /\ \/ file.state = "missing" /\ Writes(f, NoPayload, "client")
              \/ file.state = "torn" /\ Closes(f, FALSE)
              \/ /\ file.state = "whole"
                 /\ flow' = [flow EXCEPT ![f].at = "ask",
                                         ![f].client = file.items[flow[f].server].client]
  BY DEF GetClient, Reads, File

LEMMA SetClientReads ==
    ASSUME NEW f \in Flow, SetClient(f), file \in File
    PROVE  /\ At(f, "set_client") /\ UNCHANGED <<file, got, alone>>
           /\ \/ file.state = "missing" /\ Writes(f, NoPayload, "set_client")
              \/ file.state = "torn" /\ Closes(f, FALSE)
              \/ /\ file.state = "whole"
                 /\ Writes(f, WithClient(file.items, flow[f].server, flow[f].client), "redirect")
  BY DEF SetClient, Reads, File

LEMMA SetTokensReads ==
    ASSUME NEW f \in Flow, SetTokens(f), file \in File
    PROVE  /\ At(f, "set_tokens") /\ UNCHANGED <<file, got, alone>>
           /\ \/ file.state = "missing" /\ Writes(f, NoPayload, "set_tokens")
              \/ file.state = "torn" /\ Closes(f, FALSE)
              \/ /\ file.state = "whole"
                 /\ Writes(f, WithTokens(file.items, flow[f].server, flow[f].tokens), "again")
  BY DEF SetTokens, Reads, File

(***************************************************************************)
(* What each operation makes of the items: the others stay as they are.    *)
(***************************************************************************)
LEMMA WithClientItems ==
    ASSUME NEW items \in Payload, NEW s, NEW p \in Port \cup {NoPort}
    PROVE  /\ WithClient(items, s, p) \in Payload
           /\ \A t \in Server : t # s => WithClient(items, s, p)[t] = items[t]
           /\ s \in Server => /\ WithClient(items, s, p)[s].client = p
                              /\ WithClient(items, s, p)[s].tokens = items[s].tokens
<1> DEFINE item == [client |-> p, tokens |-> items[s].tokens]
<1>1. WithClient(items, s, p) = [items EXCEPT ![s] = item]
  BY DEF WithClient
<1>2. s \in Server => item \in Item
  BY DEF Payload, Item
<1>3. item.client = p /\ item.tokens = items[s].tokens
  OBVIOUS
<1> HIDE DEF item
<1> QED
  BY <1>1, <1>2, <1>3 DEF Payload

LEMMA WithTokensItems ==
    ASSUME NEW items \in Payload, NEW s, NEW f \in Flow \cup {NoFlow}
    PROVE  /\ WithTokens(items, s, f) \in Payload
           /\ \A t \in Server : t # s => WithTokens(items, s, f)[t] = items[t]
           /\ s \in Server => /\ WithTokens(items, s, f)[s].tokens = f
                              /\ WithTokens(items, s, f)[s].client = items[s].client
<1> DEFINE item == [client |-> items[s].client, tokens |-> f]
<1>1. WithTokens(items, s, f) = [items EXCEPT ![s] = item]
  BY DEF WithTokens
<1>2. s \in Server => item \in Item
  BY DEF Payload, Item
<1>3. item.client = items[s].client /\ item.tokens = f
  OBVIOUS
<1> HIDE DEF item
<1> QED
  BY <1>1, <1>2, <1>3 DEF Payload

LEMMA EmptyPayload == NoPayload \in Payload /\ NewFlow \in FlowState
<1>1. NoPayload \in Payload
  BY DEF NoPayload, NoItem, Payload, Item
<1> DEFINE s == NewFlow.server
<1>2. NewFlow = [at |-> "new", server |-> s, port |-> NoPort, client |-> NoPort,
                 tokens |-> NoFlow, held |-> NoPayload, then |-> "", ok |-> FALSE]
  BY DEF NewFlow
<1>3. s \in AnyServer
  BY DEF AnyServer
<1> HIDE DEF s
<1> QED
  BY <1>1, <1>2, <1>3 DEF FlowState, FlowStep

LEMMA OverIsState ==
    ASSUME AuthTypeOK, NEW f \in Flow, NEW ok \in BOOLEAN
    PROVE  Over(f, ok) \in FlowState /\ Over(f, ok).at = "done"
<1> DEFINE port == IF f \in redirected THEN flow[f].port ELSE NoPort
<1>1. port \in Port \cup {NoPort}
  BY DEF AuthTypeOK, FlowState
<1>2. Over(f, ok) = [NewFlow EXCEPT !.at = "done", !.ok = ok, !.port = port]
  BY DEF Over
<1>3. NewFlow \in FlowState
  BY EmptyPayload
<1> HIDE DEF port
<1> QED
  BY <1>1, <1>2, <1>3 DEF FlowState, FlowStep

\* A flow that holds what it is going to write.
LEMMA WritesHold ==
    ASSUME AuthTypeOK, NEW f \in Flow, NEW items \in Payload, NEW then \in FlowStep,
           Writes(f, items, then)
    PROVE  /\ flow' \in [Flow -> FlowState]
           /\ \A g \in Flow \ {f} : flow'[g] = flow[g]
           /\ flow'[f].at = "open" /\ flow'[f].held = items /\ flow'[f].then = then
           /\ flow'[f].server = flow[f].server /\ flow'[f].port = flow[f].port
           /\ flow'[f].client = flow[f].client /\ flow'[f].tokens = flow[f].tokens
<1> DEFINE y == [flow[f] EXCEPT !.at = "open", !.held = items, !.then = then]
<1>1. flow[f] \in FlowState /\ flow \in [Flow -> FlowState]
  BY DEF AuthTypeOK
<1>2. /\ y \in FlowState
      /\ y.at = "open" /\ y.held = items /\ y.then = then
      /\ y.server = flow[f].server /\ y.port = flow[f].port
      /\ y.client = flow[f].client /\ y.tokens = flow[f].tokens
  BY <1>1 DEF FlowState, FlowStep
<1>3. flow' = [flow EXCEPT ![f] = y]
  BY <1>1 DEF Writes
<1> HIDE DEF y
<1> QED
  BY <1>1, <1>2, <1>3

LEMMA GoesOn ==
    ASSUME AuthTypeOK, NEW f \in Flow, NEW at \in FlowStep, Goes(f, at)
    PROVE  /\ flow' \in [Flow -> FlowState]
           /\ \A g \in Flow \ {f} : flow'[g] = flow[g]
           /\ flow'[f].at = at /\ flow'[f].held = flow[f].held /\ flow'[f].then = flow[f].then
           /\ flow'[f].server = flow[f].server /\ flow'[f].port = flow[f].port
           /\ flow'[f].client = flow[f].client /\ flow'[f].tokens = flow[f].tokens
  BY DEF AuthTypeOK, Goes, FlowState

LEMMA ClosesOn ==
    ASSUME AuthTypeOK, NEW f \in Flow, NEW ok \in BOOLEAN, Closes(f, ok)
    PROVE  /\ flow' \in [Flow -> FlowState]
           /\ \A g \in Flow \ {f} : flow'[g] = flow[g]
           /\ flow'[f].at = "closing"
           /\ flow'[f].server = flow[f].server /\ flow'[f].port = flow[f].port
<1> DEFINE y == [flow[f] EXCEPT !.at = "closing", !.ok = ok]
<1>1. flow[f] \in FlowState /\ flow \in [Flow -> FlowState]
  BY DEF AuthTypeOK
<1>2. /\ y \in FlowState /\ y.at = "closing"
      /\ y.server = flow[f].server /\ y.port = flow[f].port
  BY <1>1 DEF FlowState, FlowStep
<1>3. flow' = [flow EXCEPT ![f] = y]
  BY <1>1 DEF Closes
<1> HIDE DEF y
<1> QED
  BY <1>1, <1>2, <1>3
-----------------------------------------------------------------------------
(***************************************************************************)
(* A step of the only flow there is.                                       *)
(***************************************************************************)
LEMMA StepOfTheOnlyFlow ==
    ASSUME NEW f \in Flow, alone' => alone,
           \A g \in Flow \ {f} : ~Busy(g),
           \A g \in Flow \ {f} : flow'[g] = flow[g],
           flow'[f].at \in {"new", "done"} => AllKept',
           flow'[f].at \notin {"new", "done"} => FlowSound(f, flow[f])'
    PROVE  AuthInv'
<1>1. \A g \in Flow \ {f} : ~Busy(g)'
  BY DEF Busy, At
<1>2. Busy(f)' <=> flow'[f].at \notin {"new", "done"}
  BY DEF Busy, At
<1>3. Quiet' => AllKept'
  BY <1>2 DEF Quiet
<1>4. ASSUME NEW g \in Flow, Busy(g)'
      PROVE  FlowSound(g, flow[g])' /\ \A h \in Flow \ {g} : ~Busy(h)'
  <2>1. g = f
    BY <1>1, <1>4
  <2> QED
    BY <1>1, <1>2, <1>4, <2>1
<1> QED
  BY <1>3, <1>4 DEF AuthInv

\* A step that changes neither the file nor what was got.
LEMMA KnowsAsMuch ==
    ASSUME NEW f \in Flow, UNCHANGED <<file, got>>,
           flow[f].at \notin Holding \cup {"set_tokens"}, FlowSound(f, flow[f]),
           flow'[f].at \notin Holding \cup {"set_tokens", "new", "done"},
           flow'[f].server = flow[f].server,
           flow'[f].at # "find" => flow'[f].port \in Port,
           flow'[f].at \in {"redirect", "wait", "exchange"} =>
               file.items[flow[f].server].client # NoPort,
           flow'[f].at = "ask" => flow'[f].client = file.items[flow[f].server].client,
           flow'[f].at = "set_client" => flow'[f].client = flow'[f].port
    PROVE  FlowSound(f, flow[f])'
  BY DEF FlowSound, Doing, Items, Holding, Kept

AuthKept == AuthTypeOK /\ AuthInv

LEMMA AtWorkAlone ==
    ASSUME AuthInv, alone, NEW f \in Flow, Busy(f)
    PROVE  FlowSound(f, flow[f]) /\ \A g \in Flow \ {f} : ~Busy(g)
  BY DEF AuthInv

\* While the only flow neither writes nor has a token to save, all is kept.
LEMMA KeptAtWork ==
    ASSUME NEW f \in Flow, FlowSound(f, flow[f]), flow[f].at \notin Holding \cup {"set_tokens"}
    PROVE  AllKept
  BY DEF FlowSound, AllKept, Doing, Items, Holding

LEMMA BeginKeepsAuth ==
    ASSUME AuthKept, NEW f \in Flow, Begin(f)
    PROVE  AuthKept'
<1>1. PICK s \in Server :
          /\ At(f, "new")
          /\ flow' = [flow EXCEPT ![f] = IF s \in Supported
                                          THEN [@ EXCEPT !.server = s, !.at = "find"]
                                          ELSE Over(f, FALSE)]
          /\ alone' = (alone /\ \A g \in Flow : ~Busy(g))
          /\ UNCHANGED <<file, listener, queue, redirected, got>>
  BY DEF Begin
<1>2. flow[f] \in FlowState /\ flow \in [Flow -> FlowState] /\ AuthTypeOK
  BY DEF AuthKept, AuthTypeOK
<1>3. ASSUME alone' PROVE alone /\ AllKept /\ \A g \in Flow \ {f} : ~Busy(g)
  BY <1>1, <1>3 DEF AuthKept, AuthInv, Quiet
<1>4. CASE s \in Supported
  <2> DEFINE y == [flow[f] EXCEPT !.server = s, !.at = "find"]
  <2>1. s \in AnyServer
    BY DEF AnyServer
  <2>2. y \in FlowState /\ y.at = "find" /\ y.server = s
    BY <1>2, <2>1 DEF FlowState, FlowStep
  <2>3. flow' = [flow EXCEPT ![f] = y]
    BY <1>1, <1>2, <1>4
  <2> HIDE DEF y
  <2>4. /\ flow' \in [Flow -> FlowState] /\ flow'[f] = y
        /\ \A g \in Flow \ {f} : flow'[g] = flow[g]
    BY <1>2, <2>2, <2>3
  <2>5. AuthTypeOK'
    BY <1>1, <1>2, <2>2, <2>4 DEF AuthTypeOK, Busy, At, Holding
  <2>6. ASSUME AllKept PROVE FlowSound(f, flow[f])'
    <3>1. file' = file /\ got' = got
      BY <1>1
    <3> QED
      BY <2>2, <2>4, <2>6, <3>1 DEF FlowSound, Doing, Items, Holding, AllKept, Kept
  <2>7. CASE alone'
    <3>1. alone /\ AllKept /\ \A g \in Flow \ {f} : ~Busy(g)
      BY <1>3, <2>7
    <3>2. FlowSound(f, flow[f])' /\ flow'[f].at \notin {"new", "done"}
      BY <2>2, <2>4, <2>6, <3>1
    <3> QED
      BY <2>4, <2>5, <3>1, <3>2, StepOfTheOnlyFlow DEF AuthKept
  <2>8. CASE ~alone'
    BY <2>5, <2>8 DEF AuthInv, AuthKept
  <2> QED
    BY <2>7, <2>8
<1>5. CASE s \notin Supported
  <2> DEFINE y == Over(f, FALSE)
  <2>1. y \in FlowState /\ y.at = "done"
    BY <1>2, OverIsState
  <2>2. flow' = [flow EXCEPT ![f] = y]
    BY <1>1, <1>5
  <2> HIDE DEF y
  <2>3. /\ flow' \in [Flow -> FlowState] /\ flow'[f] = y
        /\ \A g \in Flow \ {f} : flow'[g] = flow[g]
    BY <1>2, <2>1, <2>2
  <2>4. AuthTypeOK'
    BY <1>1, <1>2, <2>1, <2>3 DEF AuthTypeOK, Busy, At, Holding
  <2>5. ASSUME AllKept PROVE AllKept'
    <3>1. file' = file /\ got' = got
      BY <1>1
    <3> QED
      BY <2>5, <3>1 DEF AllKept, Kept
  <2>6. CASE alone'
    <3>1. alone /\ AllKept /\ \A g \in Flow \ {f} : ~Busy(g)
      BY <1>3, <2>6
    <3>2. AllKept' /\ flow'[f].at = "done"
      BY <2>1, <2>3, <2>5, <3>1
    <3> QED
      BY <2>3, <2>4, <3>1, <3>2, StepOfTheOnlyFlow DEF AuthKept
  <2>7. CASE ~alone'
    BY <2>4, <2>7 DEF AuthInv, AuthKept
  <2> QED
    BY <2>6, <2>7
<1> QED
  BY <1>4, <1>5

\* A step of one flow: what it knows while alone is what has to be shown.
LEMMA StepKeepsAuth ==
    ASSUME AuthKept, NEW f \in Flow, Busy(f), UNCHANGED alone,
           file' \in File, file'.state = "missing" => file'.items = NoPayload,
           got' \in [Server -> Flow \cup {NoFlow}],
           flow' \in [Flow -> FlowState],
           \A g \in Flow \ {f} : flow'[g] = flow[g],
           flow'[f].at \notin {"new", "done"} => flow'[f].server = flow[f].server,
           flow'[f].at \in Holding => flow'[f].then \in Then,
           FlowSound(f, flow[f]) =>
               IF flow'[f].at \in {"new", "done"} THEN AllKept' ELSE FlowSound(f, flow[f])'
    PROVE  AuthKept'
<1>1. AuthTypeOK'
  BY DEF AuthKept, AuthTypeOK, Busy, At
<1>2. CASE alone
  <2>1. FlowSound(f, flow[f]) /\ \A g \in Flow \ {f} : ~Busy(g)
    BY <1>2, AtWorkAlone DEF AuthKept
  <2>2. AuthInv'
    BY <2>1, StepOfTheOnlyFlow
  <2> QED
    BY <1>1, <2>2 DEF AuthKept
<1>3. CASE ~alone
  BY <1>1, <1>3 DEF AuthKept, AuthInv
<1> QED
  BY <1>2, <1>3

\* ... that leaves the file and what was got alone and goes on.
LEMMA StepKnowsAsMuch ==
    ASSUME AuthKept, NEW f \in Flow, UNCHANGED <<alone, file, got>>,
           flow[f].at \notin Holding \cup {"set_tokens", "new", "done"},
           flow' \in [Flow -> FlowState],
           \A g \in Flow \ {f} : flow'[g] = flow[g],
           flow'[f].at \notin Holding \cup {"set_tokens", "new"},
           flow'[f].server = flow[f].server \/ flow'[f].at = "done",
           FlowSound(f, flow[f]) =>
               /\ flow'[f].at \notin {"find", "done"} => flow'[f].port \in Port
               /\ flow'[f].at \in {"redirect", "wait", "exchange"} =>
                      file.items[flow[f].server].client # NoPort
               /\ flow'[f].at = "ask" => flow'[f].client = file.items[flow[f].server].client
               /\ flow'[f].at = "set_client" => flow'[f].client = flow'[f].port
    PROVE  AuthKept'
<1>1. /\ file' \in File /\ (file'.state = "missing" => file'.items = NoPayload)
      /\ got' \in [Server -> Flow \cup {NoFlow}] /\ Busy(f)
  BY DEF AuthKept, AuthTypeOK, Busy, At
<1>2. ASSUME FlowSound(f, flow[f]), flow'[f].at \in {"new", "done"} PROVE AllKept'
  <2>1. AllKept
    BY <1>2, KeptAtWork
  <2> QED
    BY <2>1 DEF AllKept, Kept
<1>3. ASSUME FlowSound(f, flow[f]), flow'[f].at \notin {"new", "done"}
      PROVE  FlowSound(f, flow[f])'
  BY <1>3, KnowsAsMuch
<1> QED
  BY <1>1, <1>2, <1>3, StepKeepsAuth DEF Holding, Then

(***************************************************************************)
(* The steps at the callback port.                                         *)
(***************************************************************************)
LEMMA PortsKeepAuth ==
    ASSUME AuthKept, NEW f \in Flow, FindFreePort(f) \/ Listen(f) \/ Stops(f)
    PROVE  AuthKept'
<1> DEFINE x == flow[f]
<1>1. x \in FlowState /\ flow \in [Flow -> FlowState] /\ AuthTypeOK
  BY DEF AuthKept, AuthTypeOK
<1>2. UNCHANGED <<file, got, alone>> /\ x.at \in {"find", "bind", "closing"}
  BY DEF FindFreePort, Listen, Stops, At
<1>3. ASSUME NEW y \in FlowState, flow' = [flow EXCEPT ![f] = y],
             \/ y.at \in {"bind", "tokens"} /\ y.server = x.server
                /\ (FlowSound(f, x) => y.port \in Port)
             \/ y.at = "done"
      PROVE  AuthKept'
  <2>1. /\ flow' \in [Flow -> FlowState] /\ flow'[f] = y
        /\ \A g \in Flow \ {f} : flow'[g] = flow[g]
    BY <1>1, <1>3
  <2> QED
    BY <1>2, <1>3, <2>1, StepKnowsAsMuch DEF Holding
<1>4. CASE FindFreePort(f)
  <2>1. PICK p \in Port : flow' = [flow EXCEPT ![f].port = p, ![f].at = "bind"]
    BY <1>4 DEF FindFreePort
  <2> DEFINE y == [x EXCEPT !.port = p, !.at = "bind"]
  <2>2. y \in FlowState /\ y.at = "bind" /\ y.server = x.server /\ y.port = p
    BY <1>1 DEF FlowState, FlowStep
  <2>3. flow' = [flow EXCEPT ![f] = y]
    BY <1>1, <2>1
  <2> HIDE DEF y
  <2> QED
    BY <1>3, <2>2, <2>3
<1>5. CASE Listen(f) /\ listener[x.port] = NoFlow
  <2> DEFINE y == [x EXCEPT !.at = "tokens"]
  <2>1. y \in FlowState /\ y.at = "tokens" /\ y.server = x.server /\ y.port = x.port
    BY <1>1 DEF FlowState, FlowStep
  <2>2. flow' = [flow EXCEPT ![f] = y]
    BY <1>1, <1>5 DEF Listen
  <2>3. FlowSound(f, x) => y.port \in Port
    BY <1>5, <2>1 DEF FlowSound, Listen, At
  <2> HIDE DEF y
  <2> QED
    BY <1>3, <2>1, <2>2, <2>3
<1>6. CASE Listen(f) /\ listener[x.port] # NoFlow
  <2>1. flow' = [flow EXCEPT ![f] = Over(f, FALSE)]
    BY <1>6 DEF Listen
  <2> QED
    BY <1>1, <1>3, <2>1, OverIsState
<1>7. CASE Stops(f)
  <2>1. flow' = [flow EXCEPT ![f] = Over(f, x.ok)]
    BY <1>1, <1>7 DEF Stops
  <2>2. x.ok \in BOOLEAN
    BY <1>1 DEF FlowState
  <2> QED
    BY <1>1, <1>3, <2>1, <2>2, OverIsState
<1> QED
  BY <1>4, <1>5, <1>6, <1>7

(***************************************************************************)
(* The OAuth client registers what it is asked for and saves what it got.  *)
(***************************************************************************)
LEMMA SigningInKeepsAuth ==
    ASSUME AuthKept, NEW f \in Flow, SignsIn(f)
    PROVE  AuthKept'
<1> DEFINE x == flow[f]
<1>1. x \in FlowState /\ flow \in [Flow -> FlowState] /\ AuthTypeOK
  BY DEF AuthKept, AuthTypeOK
<1>2. ASSUME UNCHANGED <<file, got, alone>>, NEW ok \in BOOLEAN, Closes(f, ok),
             x.at \in {"ask", "wait", "exchange", "again"}
      PROVE  AuthKept'
  <2>1. /\ flow' \in [Flow -> FlowState]
        /\ \A g \in Flow \ {f} : flow'[g] = flow[g]
        /\ flow'[f].at = "closing" /\ flow'[f].server = x.server /\ flow'[f].port = x.port
    BY <1>1, <1>2, ClosesOn
  <2>2. FlowSound(f, x) => flow'[f].port \in Port
    BY <1>2, <2>1 DEF FlowSound
  <2> QED
    BY <1>2, <2>1, <2>2, StepKnowsAsMuch DEF Holding
<1>3. CASE Asks(f)
  <2>1. UNCHANGED <<file, got, alone>> /\ x.at = "ask"
    BY <1>3 DEF Asks, At
  <2>2. CASE \E ok \in BOOLEAN : Closes(f, ok)
    BY <1>2, <2>1, <2>2
  <2>3. CASE x.client = NoPort /\ flow' = [flow EXCEPT ![f].at = "set_client", ![f].client = x.port]
    <3> DEFINE y == [x EXCEPT !.at = "set_client", !.client = x.port]
    <3>1. y \in FlowState /\ y.at = "set_client" /\ y.server = x.server
          /\ y.port = x.port /\ y.client = x.port
      BY <1>1 DEF FlowState, FlowStep
    <3>2. flow' = [flow EXCEPT ![f] = y]
      BY <1>1, <2>3
    <3> HIDE DEF y
    <3>3. /\ flow' \in [Flow -> FlowState] /\ flow'[f] = y
          /\ \A g \in Flow \ {f} : flow'[g] = flow[g]
      BY <1>1, <3>1, <3>2
    <3>4. FlowSound(f, x) => y.port \in Port
      BY <2>1, <3>1 DEF FlowSound
    <3> QED
      BY <2>1, <3>1, <3>3, <3>4, StepKnowsAsMuch DEF Holding
  <2>4. CASE x.client # NoPort /\ Goes(f, "redirect")
    <3>1. /\ flow' \in [Flow -> FlowState]
          /\ \A g \in Flow \ {f} : flow'[g] = flow[g]
          /\ flow'[f].at = "redirect" /\ flow'[f].server = x.server /\ flow'[f].port = x.port
      BY <1>1, <2>4, GoesOn DEF FlowStep
    <3>2. FlowSound(f, x) => x.port \in Port /\ file.items[x.server].client # NoPort
      BY <2>1, <2>4 DEF FlowSound, Doing, Items, Holding
    <3> QED
      BY <2>1, <3>1, <3>2, StepKnowsAsMuch DEF Holding
  <2> QED
    BY <1>3, <2>2, <2>3, <2>4 DEF Asks, Goes
<1>4. CASE Redirects(f)
  <2>1. UNCHANGED <<file, got, alone>> /\ x.at = "redirect" /\ Goes(f, "wait")
    BY <1>4 DEF Redirects, At
  <2>2. /\ flow' \in [Flow -> FlowState]
        /\ \A g \in Flow \ {f} : flow'[g] = flow[g]
        /\ flow'[f].at = "wait" /\ flow'[f].server = x.server /\ flow'[f].port = x.port
    BY <1>1, <2>1, GoesOn DEF FlowStep
  <2>3. FlowSound(f, x) => x.port \in Port /\ file.items[x.server].client # NoPort
    BY <2>1 DEF FlowSound, Doing, Items, Holding
  <2> QED
    BY <2>1, <2>2, <2>3, StepKnowsAsMuch DEF Holding
<1>5. CASE TakesAnswer(f) \/ TimesOut(f)
  <2>1. UNCHANGED <<file, got, alone>> /\ x.at = "wait"
    BY <1>5 DEF TakesAnswer, TimesOut, At
  <2>2. Closes(f, FALSE) \/ Goes(f, "exchange")
    BY <1>5 DEF TakesAnswer, TimesOut
  <2>3. CASE Goes(f, "exchange")
    <3>1. /\ flow' \in [Flow -> FlowState]
          /\ \A g \in Flow \ {f} : flow'[g] = flow[g]
          /\ flow'[f].at = "exchange" /\ flow'[f].server = x.server /\ flow'[f].port = x.port
      BY <1>1, <2>3, GoesOn DEF FlowStep
    <3>2. FlowSound(f, x) => x.port \in Port /\ file.items[x.server].client # NoPort
      BY <2>1 DEF FlowSound, Doing, Items, Holding
    <3> QED
      BY <2>1, <3>1, <3>2, StepKnowsAsMuch DEF Holding
  <2> QED
    BY <1>2, <2>1, <2>2, <2>3
<1>6. CASE Exchanges(f)
  <2>1. UNCHANGED <<file, alone>> /\ x.at = "exchange"
    BY <1>6 DEF Exchanges, At
  <2>2. CASE Closes(f, FALSE) /\ UNCHANGED got
    BY <1>2, <2>1, <2>2
  <2>3. CASE /\ flow' = [flow EXCEPT ![f].at = "set_tokens", ![f].tokens = f]
             /\ got' = [got EXCEPT ![x.server] = f]
    <3> DEFINE y == [x EXCEPT !.at = "set_tokens", !.tokens = f]
    <3>1. y \in FlowState /\ y.at = "set_tokens" /\ y.server = x.server
          /\ y.port = x.port /\ y.tokens = f
      BY <1>1 DEF FlowState, FlowStep
    <3>2. flow' = [flow EXCEPT ![f] = y]
      BY <1>1, <2>3
    <3> HIDE DEF y
    <3>3. /\ flow' \in [Flow -> FlowState] /\ flow'[f] = y
          /\ \A g \in Flow \ {f} : flow'[g] = flow[g]
      BY <1>1, <3>1, <3>2
    <3>4. /\ file' \in File /\ (file'.state = "missing" => file'.items = NoPayload)
          /\ got' \in [Server -> Flow \cup {NoFlow}]
      BY <1>1, <2>1, <2>3 DEF AuthTypeOK
    <3>5. ASSUME FlowSound(f, x) PROVE FlowSound(f, flow[f])'
      <4>1. /\ x.server \in Server /\ x.port \in Port /\ file.state # "torn"
            /\ \A s \in Server : Kept(file.items, s)
            /\ file.items[x.server].client # NoPort
        BY <2>1, <3>5 DEF FlowSound, Doing, Items, Holding
      <4>2. got'[x.server] = f /\ \A s \in Server \ {x.server} : got'[s] = got[s]
        BY <1>1, <2>3, <4>1 DEF AuthTypeOK
      <4>3. \A s \in Server \ {x.server} : Kept(file.items, s)'
        BY <2>1, <4>1, <4>2 DEF Kept
      <4> QED
        BY <2>1, <3>1, <3>3, <4>1, <4>2, <4>3 DEF FlowSound, Doing, Items, Holding
    <3>6. Busy(f)
      BY <2>1 DEF Busy, At
    <3> QED
      BY <2>1, <3>1, <3>3, <3>4, <3>5, <3>6, StepKeepsAuth DEF Holding, Then
  <2> QED
    BY <1>6, <2>2, <2>3 DEF Exchanges
<1>7. CASE AsksAgain(f)
  BY <1>2, <1>7 DEF AsksAgain, At
<1> QED
  BY <1>3, <1>4, <1>5, <1>6, <1>7 DEF SignsIn

(***************************************************************************)
(* The steps at the token file: what is read is what the file says, and    *)
(* what is written is that, but for the one item.                          *)
(***************************************************************************)
\* Of a file that is missing, what is written is what it says.
LEMMA MakesMissing ==
    ASSUME AuthKept, NEW f \in Flow, UNCHANGED <<file, got, alone>>,
           flow[f].at \in {"tokens", "client", "set_client", "set_tokens"},
           file.state = "missing", Writes(f, NoPayload, flow[f].at)
    PROVE  AuthKept'
<1> DEFINE x == flow[f]
<1>1. /\ flow' \in [Flow -> FlowState]
      /\ \A g \in Flow \ {f} : flow'[g] = flow[g]
      /\ flow'[f].at = "open" /\ flow'[f].held = NoPayload /\ flow'[f].then = x.at
      /\ flow'[f].server = x.server /\ flow'[f].port = x.port
      /\ flow'[f].client = x.client /\ flow'[f].tokens = x.tokens
  <2>1. x.at \in FlowStep
    BY DEF FlowStep
  <2> QED
    BY <2>1, EmptyPayload, WritesHold DEF AuthKept
<1>2. file.items = NoPayload
  BY DEF AuthKept, AuthTypeOK
<1>3. ASSUME FlowSound(f, x) PROVE FlowSound(f, flow[f])'
  <2>1. /\ x.server \in Server /\ x.port \in Port
        /\ \A s \in Server : (s = x.server /\ x.at = "set_tokens") \/ Kept(NoPayload, s)
        /\ x.at = "set_tokens" => /\ x.tokens = f /\ got[x.server] = f
                                  /\ NoPayload[x.server].client # NoPort
        /\ x.at = "set_client" => x.client = x.port
    BY <1>2, <1>3 DEF FlowSound, Doing, Items, Holding
  <2> QED
    BY <1>1, <2>1 DEF FlowSound, Doing, Items, Holding, Kept
<1>4. /\ file' \in File /\ (file'.state = "missing" => file'.items = NoPayload)
      /\ got' \in [Server -> Flow \cup {NoFlow}] /\ Busy(f)
  BY DEF AuthKept, AuthTypeOK, Busy, At
<1> QED
  BY <1>1, <1>3, <1>4, StepKeepsAuth DEF Holding, Then

\* A torn file ends the flow; while alone none is found.
LEMMA CannotRead ==
    ASSUME AuthKept, NEW f \in Flow, UNCHANGED <<file, got, alone>>,
           flow[f].at \in {"tokens", "client", "set_client", "set_tokens"},
           file.state = "torn", Closes(f, FALSE)
    PROVE  AuthKept'
<1>1. /\ flow' \in [Flow -> FlowState]
      /\ \A g \in Flow \ {f} : flow'[g] = flow[g]
      /\ flow'[f].at = "closing" /\ flow'[f].server = flow[f].server
  BY ClosesOn DEF AuthKept
<1>2. ~FlowSound(f, flow[f])
  BY DEF FlowSound
<1>3. /\ file' \in File /\ (file'.state = "missing" => file'.items = NoPayload)
      /\ got' \in [Server -> Flow \cup {NoFlow}] /\ Busy(f)
  BY DEF AuthKept, AuthTypeOK, Busy, At
<1> QED
  BY <1>1, <1>2, <1>3, StepKeepsAuth DEF Holding, Then

LEMMA ReadingKeepsAuth ==
    ASSUME AuthKept, NEW f \in Flow, GetTokens(f) \/ GetClient(f)
    PROVE  AuthKept'
<1> DEFINE x == flow[f]
<1>1. /\ x \in FlowState /\ flow \in [Flow -> FlowState]
      /\ file \in File /\ file.items \in Payload
  BY DEF AuthKept, AuthTypeOK, File
<1>2. ASSUME NEW y \in FlowState, flow' = [flow EXCEPT ![f] = y],
             UNCHANGED <<file, got, alone>>, x.at \in {"tokens", "client"},
             y.server = x.server, y.port = x.port,
             \/ y.at = "client"
             \/ y.at = "ask" /\ y.client = file.items[x.server].client
      PROVE  AuthKept'
  <2>1. /\ flow' \in [Flow -> FlowState] /\ flow'[f] = y
        /\ \A g \in Flow \ {f} : flow'[g] = flow[g]
    BY <1>1, <1>2
  <2>2. FlowSound(f, x) => x.port \in Port
    BY <1>2 DEF FlowSound
  <2> QED
    BY <1>2, <2>1, <2>2, StepKnowsAsMuch DEF Holding
<1>3. CASE GetTokens(f)
  <2>1. /\ x.at = "tokens" /\ UNCHANGED <<file, got, alone>>
        /\ \/ file.state = "missing" /\ Writes(f, NoPayload, "tokens")
           \/ file.state = "torn" /\ Closes(f, FALSE)
           \/ /\ file.state = "whole"
              /\ flow' = [flow EXCEPT ![f].at = "client", ![f].tokens = file.items[x.server].tokens]
    BY <1>1, <1>3, GetTokensReads DEF At
  <2>2. CASE file.state = "whole"
    <3> DEFINE tokens == file.items[x.server].tokens
               y == [x EXCEPT !.at = "client", !.tokens = tokens]
    <3>1. tokens \in Flow \cup {NoFlow}
      <4>1. x.server \in Server
        BY <2>1 DEF AuthKept, AuthTypeOK, Busy, At
      <4> QED
        BY <1>1, <4>1 DEF Payload, Item
    <3> HIDE DEF tokens
    <3>2. y \in FlowState /\ y.at = "client" /\ y.server = x.server /\ y.port = x.port
      BY <1>1, <3>1 DEF FlowState, FlowStep
    <3>3. flow' = [flow EXCEPT ![f] = y]
      BY <1>1, <2>1, <2>2 DEF tokens
    <3> HIDE DEF y
    <3> QED
      BY <1>2, <2>1, <3>2, <3>3
  <2> QED
    BY <2>1, <2>2, MakesMissing, CannotRead
<1>4. CASE GetClient(f)
  <2>1. /\ x.at = "client" /\ UNCHANGED <<file, got, alone>>
        /\ \/ file.state = "missing" /\ Writes(f, NoPayload, "client")
           \/ file.state = "torn" /\ Closes(f, FALSE)
           \/ /\ file.state = "whole"
              /\ flow' = [flow EXCEPT ![f].at = "ask", ![f].client = file.items[x.server].client]
    BY <1>1, <1>4, GetClientReads DEF At
  <2>2. CASE file.state = "whole"
    <3> DEFINE client == file.items[x.server].client
               y == [x EXCEPT !.at = "ask", !.client = client]
    <3>1. client \in Port \cup {NoPort}
      <4>1. x.server \in Server
        BY <2>1 DEF AuthKept, AuthTypeOK, Busy, At
      <4> QED
        BY <1>1, <4>1 DEF Payload, Item
    <3> HIDE DEF client
    <3>2. /\ y \in FlowState /\ y.at = "ask" /\ y.server = x.server /\ y.port = x.port
          /\ y.client = client
      BY <1>1, <3>1 DEF FlowState, FlowStep
    <3>3. flow' = [flow EXCEPT ![f] = y]
      BY <1>1, <2>1, <2>2 DEF client
    <3> HIDE DEF y
    <3> QED
      BY <1>2, <2>1, <3>2, <3>3 DEF client
  <2> QED
    BY <2>1, <2>2, MakesMissing, CannotRead
<1> QED
  BY <1>3, <1>4

\* The client a flow registers is the port it listens at; the token it saves is its own.
LEMMA SavingKeepsAuth ==
    ASSUME AuthKept, NEW f \in Flow, SetClient(f) \/ SetTokens(f)
    PROVE  AuthKept'
<1> DEFINE x == flow[f]
<1>1. /\ x \in FlowState /\ flow \in [Flow -> FlowState]
      /\ file \in File /\ file.items \in Payload
  BY DEF AuthKept, AuthTypeOK, File
<1>2. x.client \in Port \cup {NoPort} /\ x.tokens \in Flow \cup {NoFlow}
  BY <1>1 DEF FlowState
<1>3. CASE SetClient(f)
  <2> DEFINE items == WithClient(file.items, x.server, x.client)
  <2>1. /\ x.at = "set_client" /\ UNCHANGED <<file, got, alone>>
        /\ \/ file.state = "missing" /\ Writes(f, NoPayload, "set_client")
           \/ file.state = "torn" /\ Closes(f, FALSE)
           \/ file.state = "whole" /\ Writes(f, items, "redirect")
    BY <1>1, <1>3, SetClientReads DEF At
  <2>2. CASE file.state = "whole" /\ Writes(f, items, "redirect")
    <3>1. /\ items \in Payload
          /\ \A t \in Server : t # x.server => items[t] = file.items[t]
          /\ x.server \in Server => /\ items[x.server].client = x.client
                                    /\ items[x.server].tokens = file.items[x.server].tokens
      BY <1>1, <1>2, WithClientItems
    <3> HIDE DEF items
    <3>2. /\ flow' \in [Flow -> FlowState]
          /\ \A g \in Flow \ {f} : flow'[g] = flow[g]
          /\ flow'[f].at = "open" /\ flow'[f].held = items /\ flow'[f].then = "redirect"
          /\ flow'[f].server = x.server /\ flow'[f].port = x.port
      BY <2>2, <3>1, WritesHold DEF AuthKept, FlowStep
    <3>3. ASSUME FlowSound(f, x) PROVE FlowSound(f, flow[f])'
      <4>1. /\ x.server \in Server /\ x.port \in Port /\ x.client = x.port
            /\ \A s \in Server : Kept(file.items, s)
        BY <2>1, <3>3 DEF FlowSound, Doing, Items, Holding
      <4>2. \A s \in Server : Kept(items, s)
        BY <3>1, <4>1, AuthAssumption DEF Kept
      <4>3. items[x.server].client # NoPort
        BY <3>1, <4>1, AuthAssumption
      <4> QED
        BY <2>1, <2>2, <3>2, <4>1, <4>2, <4>3 DEF FlowSound, Doing, Items, Holding, Kept
    <3>4. /\ file' \in File /\ (file'.state = "missing" => file'.items = NoPayload)
          /\ got' \in [Server -> Flow \cup {NoFlow}] /\ Busy(f)
      BY <2>1 DEF AuthKept, AuthTypeOK, Busy, At
    <3> QED
      BY <2>1, <3>2, <3>3, <3>4, StepKeepsAuth DEF Holding, Then
  <2> QED
    BY <2>1, <2>2, MakesMissing, CannotRead
<1>4. CASE SetTokens(f)
  <2> DEFINE items == WithTokens(file.items, x.server, x.tokens)
  <2>1. /\ x.at = "set_tokens" /\ UNCHANGED <<file, got, alone>>
        /\ \/ file.state = "missing" /\ Writes(f, NoPayload, "set_tokens")
           \/ file.state = "torn" /\ Closes(f, FALSE)
           \/ file.state = "whole" /\ Writes(f, items, "again")
    BY <1>1, <1>4, SetTokensReads DEF At
  <2>2. CASE file.state = "whole" /\ Writes(f, items, "again")
    <3>1. /\ items \in Payload
          /\ \A t \in Server : t # x.server => items[t] = file.items[t]
          /\ x.server \in Server => /\ items[x.server].tokens = x.tokens
                                    /\ items[x.server].client = file.items[x.server].client
      BY <1>1, <1>2, WithTokensItems
    <3> HIDE DEF items
    <3>2. /\ flow' \in [Flow -> FlowState]
          /\ \A g \in Flow \ {f} : flow'[g] = flow[g]
          /\ flow'[f].at = "open" /\ flow'[f].held = items /\ flow'[f].then = "again"
          /\ flow'[f].server = x.server /\ flow'[f].port = x.port
      BY <2>2, <3>1, WritesHold DEF AuthKept, FlowStep
    <3>3. ASSUME FlowSound(f, x) PROVE FlowSound(f, flow[f])'
      <4>1. /\ x.server \in Server /\ x.port \in Port
            /\ \A s \in Server \ {x.server} : Kept(file.items, s)
            /\ x.tokens = f /\ got[x.server] = f /\ file.items[x.server].client # NoPort
        BY <2>1, <3>3 DEF FlowSound, Doing, Items, Holding
      <4>2. \A s \in Server : Kept(items, s)
        BY <3>1, <4>1 DEF Kept
      <4> QED
        BY <2>1, <2>2, <3>2, <4>1, <4>2 DEF FlowSound, Doing, Items, Holding, Kept
    <3>4. /\ file' \in File /\ (file'.state = "missing" => file'.items = NoPayload)
          /\ got' \in [Server -> Flow \cup {NoFlow}] /\ Busy(f)
      BY <2>1 DEF AuthKept, AuthTypeOK, Busy, At
    <3> QED
      BY <2>1, <3>2, <3>3, <3>4, StepKeepsAuth DEF Holding, Then
  <2> QED
    BY <2>1, <2>2, MakesMissing, CannotRead
<1> QED
  BY <1>3, <1>4

\* Opened, the file is torn; written, it says what the flow held.
LEMMA WritingKeepsAuth ==
    ASSUME AuthKept, NEW f \in Flow, Open(f) \/ Write(f)
    PROVE  AuthKept'
<1> DEFINE x == flow[f]
<1>1. /\ x \in FlowState /\ flow \in [Flow -> FlowState] /\ AuthTypeOK
      /\ file \in File /\ got \in [Server -> Flow \cup {NoFlow}]
  BY DEF AuthKept, AuthTypeOK
<1>2. CASE Open(f)
  <2>1. /\ x.at = "open" /\ Goes(f, "write") /\ UNCHANGED <<got, alone>>
        /\ file' = [file EXCEPT !.state = "torn"]
    BY <1>2 DEF Open, At
  <2>2. file' \in File /\ file'.state = "torn"
    BY <1>1, <2>1 DEF File
  <2>3. /\ flow' \in [Flow -> FlowState]
        /\ \A g \in Flow \ {f} : flow'[g] = flow[g]
        /\ flow'[f].at = "write" /\ flow'[f].held = x.held /\ flow'[f].then = x.then
        /\ flow'[f].server = x.server /\ flow'[f].port = x.port
        /\ flow'[f].client = x.client /\ flow'[f].tokens = x.tokens
    BY <1>1, <2>1, GoesOn DEF FlowStep
  <2>4. FlowSound(f, x) => FlowSound(f, flow[f])'
    BY <2>1, <2>2, <2>3 DEF FlowSound, Doing, Items, Holding, Kept
  <2>5. Busy(f) /\ got' \in [Server -> Flow \cup {NoFlow}] /\ x.then \in Then
    BY <1>1, <2>1 DEF AuthTypeOK, Busy, At, Holding
  <2> QED
    BY <2>1, <2>2, <2>3, <2>4, <2>5, StepKeepsAuth DEF Holding, Then
<1>3. CASE Write(f)
  <2> DEFINE y == [x EXCEPT !.at = x.then, !.held = NoPayload, !.then = ""]
  <2>1. PICK state \in {"whole"} \cup IF file.state = "whole" THEN {"torn"} ELSE {} :
            file' = [state |-> state, items |-> x.held]
    BY <1>3 DEF Write
  <2>2. /\ x.at = "write" /\ UNCHANGED <<got, alone>>
        /\ flow' = [flow EXCEPT ![f].at = x.then, ![f].held = NoPayload, ![f].then = ""]
    BY <1>3 DEF Write, At
  <2>3. x.held \in Payload
    BY <1>1 DEF FlowState
  <2>4. file' \in File /\ file'.state # "missing" /\ file'.items = x.held
    BY <2>1, <2>3 DEF File
  <2>5. x.then \in Then
    BY <1>1, <2>2 DEF AuthTypeOK, Holding
  <2>6. y \in FlowState /\ y.at = x.then /\ y.server = x.server /\ y.port = x.port
        /\ y.client = x.client /\ y.tokens = x.tokens
    BY <1>1, <2>5, EmptyPayload DEF FlowState, FlowStep, Then
  <2>7. flow' = [flow EXCEPT ![f] = y]
    BY <1>1, <2>2
  <2> HIDE DEF y
  <2>8. /\ flow' \in [Flow -> FlowState] /\ flow'[f] = y
        /\ \A g \in Flow \ {f} : flow'[g] = flow[g]
    BY <1>1, <2>6, <2>7
  <2>9. ASSUME FlowSound(f, x) PROVE FlowSound(f, flow[f])'
    <3>1. file'.state = "whole"
      BY <2>1, <2>2, <2>9 DEF FlowSound
    <3> QED
      BY <2>2, <2>4, <2>5, <2>6, <2>8, <2>9, <3>1
         DEF FlowSound, Doing, Items, Holding, Kept, Then
  <2>10. Busy(f) /\ got' \in [Server -> Flow \cup {NoFlow}]
    BY <1>1, <2>2 DEF Busy, At
  <2> QED
    BY <2>2, <2>4, <2>5, <2>6, <2>8, <2>9, <2>10, StepKeepsAuth DEF Holding, Then
<1> QED
  BY <1>2, <1>3
-----------------------------------------------------------------------------
LEMMA InitIsAuth == Init => AuthKept
<1> SUFFICES ASSUME Init PROVE AuthKept
  OBVIOUS
<1>1. /\ file = [state |-> "missing", items |-> NoPayload] /\ got = [s \in Server |-> NoFlow]
      /\ flow = [f \in Flow |-> NewFlow]
  BY DEF Init
<1>2. NoPayload \in Payload /\ NewFlow \in FlowState /\ NewFlow.at = "new"
  BY EmptyPayload DEF NewFlow
<1>3. AuthTypeOK
  BY <1>1, <1>2 DEF AuthTypeOK, File, Busy, At, Holding
<1>4. \A f \in Flow : ~Busy(f)
  BY <1>1, <1>2 DEF Busy, At
<1>5. AllKept
  BY <1>1 DEF AllKept, Kept, NoPayload, NoItem
<1> QED
  BY <1>3, <1>4, <1>5 DEF AuthKept, AuthInv

LEMMA DeathKeepsAuth ==
    ASSUME AuthKept, Dies
    PROVE  AuthKept'
<1>1. /\ flow' = [f \in Flow |-> IF Busy(f) THEN Over(f, FALSE) ELSE flow[f]]
      /\ alone' = (alone /\ \A f \in Flow : ~Busy(f))
      /\ UNCHANGED <<file, got>>
  BY DEF Dies
<1>2. AuthTypeOK
  BY DEF AuthKept
<1>3. \A f \in Flow : Over(f, FALSE) \in FlowState /\ Over(f, FALSE).at = "done"
  BY <1>2, OverIsState
<1>4. \A f \in Flow : flow'[f] \in FlowState /\ flow'[f].at \in {"new", "done"}
  BY <1>1, <1>2, <1>3 DEF AuthTypeOK, Busy, At
<1>5. flow' \in [Flow -> FlowState]
  BY <1>1, <1>4
<1>6. \A f \in Flow : ~Busy(f)'
  BY <1>4 DEF Busy, At
<1>7. AuthTypeOK'
  BY <1>1, <1>2, <1>4, <1>5, <1>6 DEF AuthTypeOK, Holding
<1>8. ASSUME alone' PROVE AllKept'
  <2>1. AllKept
    BY <1>1, <1>8 DEF AuthKept, AuthInv, Quiet
  <2>2. file' = file /\ got' = got
    BY <1>1
  <2> QED
    BY <2>1, <2>2 DEF AllKept, Kept
<1> QED
  BY <1>6, <1>7, <1>8 DEF AuthKept, AuthInv

\* An answer at a callback port changes nothing a flow knows.
LEMMA AnswersKeepAuth ==
    ASSUME AuthKept, UNCHANGED <<file, flow, got, alone>>
    PROVE  AuthKept'
  BY DEF AuthKept, AuthTypeOK, AuthInv, Quiet, Busy, At, AllKept, FlowSound, Doing, Items, Kept

LEMMA EveryStepKeepsAuth == AuthKept /\ [Next]_vars => AuthKept'
<1> SUFFICES ASSUME AuthKept, [Next]_vars PROVE AuthKept'
  OBVIOUS
<1>1. CASE UNCHANGED vars
  BY <1>1, AnswersKeepAuth DEF vars
<1>2. ASSUME NEW f \in Flow, Begin(f) \/ Serves(f) PROVE AuthKept'
  BY <1>2, BeginKeepsAuth, PortsKeepAuth, SigningInKeepsAuth, ReadingKeepsAuth,
     SavingKeepsAuth, WritingKeepsAuth DEF Serves, Stores
<1>3. ASSUME NEW f \in Flow, BrowserAnswers(f) PROVE AuthKept'
  BY <1>3, AnswersKeepAuth DEF BrowserAnswers, Hears
<1>4. ASSUME NEW p \in Port, Stranger(p) PROVE AuthKept'
  BY <1>4, AnswersKeepAuth DEF Stranger, Hears
<1>5. CASE Dies
  BY <1>5, DeathKeepsAuth
<1> QED
  BY <1>1, <1>2, <1>3, <1>4, <1>5 DEF Next

(***************************************************************************)
(* While flows come one at a time and no process dies, every token a flow  *)
(* got is in the file with the client that got it, whatever the servers,   *)
(* the browsers and strangers at the ports do.                             *)
(***************************************************************************)
THEOREM TokensStay == Spec => []TokensAreKept
<1>1. AuthKept => TokensAreKept
  BY DEF AuthKept, AuthInv, AllKept, Kept, TokensAreKept
<1> QED
  BY <1>1, InitIsAuth, EveryStepKeepsAuth, PTL DEF Spec
=============================================================================
