------------------------------ MODULE ServerAuth ------------------------------
(***************************************************************************)
(* Authentication at external servers: a request opens a callback port,    *)
(* lets the OAuth client sign in through the user's browser, and the       *)
(* client keeps what it learns in the token file.  Requests run in threads *)
(* of their own.                                                           *)
(*                                                                         *)
(* A flow is one request to authenticate.  The steps between the storage,  *)
(* the callback and the server are the OAuth client's: a library, modelled *)
(* from how it calls back into this code.  The token file names a token by *)
(* the flow that got it and a registered client by the port of its         *)
(* redirect address.                                                       *)
(***************************************************************************)
EXTENDS Naturals, FiniteSets

CONSTANTS
    Flow, NoFlow, NoAnswer,
    Server,
    Supported,   \* external servers with an address; others cannot sign in
    Guarded,     \* servers that answer only with a token
    FixedPort,   \* servers that redirect only to the address a client registered
    Port, NoPort

ASSUME AuthAssumption ==
    /\ NoFlow \notin Flow /\ NoPort \notin Port
    /\ Supported \subseteq Server /\ Guarded \subseteq Server /\ FixedPort \subseteq Server

VARIABLES
    file,       \* the token file
    flow,       \* what each request knows, and where it is
    listener,   \* the flow whose callback server has each port
    queue,      \* the one answer each callback server may hold
    redirected, \* flows whose sign-in page redirects the browser back
    got,        \* history: the flow that last got a token of each server
    alone       \* history: no two flows overlapped, no process died

vars == <<file, flow, listener, queue, redirected, got, alone>>

NoItem == [client |-> NoPort, tokens |-> NoFlow]
Item == [client : Port \cup {NoPort}, tokens : Flow \cup {NoFlow}]
Payload == [Server -> Item]
NoPayload == [s \in Server |-> NoItem]

\* The file's state between opening it for writing and having written is "torn".
File == [state : {"missing", "torn", "whole"}, items : Payload]

\* What a browser may bring: a code for the flow that sent it away, or nothing
\* (NoFlow: a refusal, or a request that is no answer at all).
Answer == Flow \cup {NoFlow}

NewFlow == [at |-> "new", server |-> CHOOSE s \in Server : TRUE, port |-> NoPort,
            client |-> NoPort, tokens |-> NoFlow, held |-> NoPayload, then |-> "",
            ok |-> FALSE]

Init ==
    /\ file = [state |-> "missing", items |-> NoPayload]
    /\ flow = [f \in Flow |-> NewFlow]
    /\ listener = [p \in Port |-> NoFlow]
    /\ queue = [p \in Port |-> NoAnswer]
    /\ redirected = {}
    /\ got = [s \in Server |-> NoFlow]
    /\ alone = TRUE

At(f, at) == flow[f].at = at
Goes(f, at) == flow' = [flow EXCEPT ![f].at = at]
Closes(f, ok) == flow' = [flow EXCEPT ![f].at = "closing", ![f].ok = ok]
Busy(f) == ~At(f, "new") /\ ~At(f, "done")

\* Of a flow that is over there remains the port its browser may still come back to.
Over(f, ok) ==
    [NewFlow EXCEPT !.at = "done", !.ok = ok,
                    !.port = IF f \in redirected THEN flow[f].port ELSE NoPort]

-----------------------------------------------------------------------------
(* authenticate, MCPAuthService.build_auth and OAuthCallbackWaiter.start:   *)
(* a free port is looked for, let go, and bound anew.                       *)

Begin(f) == \E s \in Server :
    /\ At(f, "new")
    /\ flow' = [flow EXCEPT ![f] = IF s \in Supported
                                    THEN [@ EXCEPT !.server = s, !.at = "find"]
                                    ELSE Over(f, FALSE)]
    /\ alone' = (alone /\ \A g \in Flow : ~Busy(g))
    /\ UNCHANGED <<file, listener, queue, redirected, got>>

FindFreePort(f) == \E p \in Port :
    /\ At(f, "find") /\ listener[p] = NoFlow
    /\ flow' = [flow EXCEPT ![f].port = p, ![f].at = "bind"]
    /\ UNCHANGED <<file, listener, queue, redirected, got, alone>>

Listen(f) ==
    LET p == flow[f].port
        free == listener[p] = NoFlow
    IN  /\ At(f, "bind")
        /\ flow' = [flow EXCEPT ![f] = IF free THEN [@ EXCEPT !.at = "tokens"] ELSE Over(f, FALSE)]
        /\ listener' = IF free THEN [listener EXCEPT ![p] = f] ELSE listener
        /\ queue' = IF free THEN [queue EXCEPT ![p] = NoAnswer] ELSE queue
        /\ UNCHANGED <<file, redirected, got, alone>>

-----------------------------------------------------------------------------
(* FileMCPTokenStorage: every operation reads the whole file, making it     *)
(* first if it is missing; a torn file cannot be parsed, and the error ends *)
(* the flow.  A write opens the file, which empties it, and then writes.    *)

\* Mistaken variant: the server's item is made anew.
WithTokensOnly(items, s, f) == [items EXCEPT ![s] = [client |-> NoPort, tokens |-> f]]

WithClient(items, s, p) == [items EXCEPT ![s] = [client |-> p, tokens |-> @.tokens]]
WithTokens(items, s, f) == [items EXCEPT ![s] = [client |-> @.client, tokens |-> f]]

\* Flow f holds the payload it is going to write, and goes on with then.
Writes(f, items, then) ==
    flow' = [flow EXCEPT ![f].at = "open", ![f].held = items, ![f].then = then]

\* A read at step at: knows says what f makes of the items it finds.
Reads(f, at, knows(_)) ==
    /\ At(f, at)
    /\ CASE file.state = "missing" -> Writes(f, NoPayload, at)
         [] file.state = "torn" -> Closes(f, FALSE)
         [] file.state = "whole" -> knows(file.items)
    /\ UNCHANGED <<file, listener, queue, redirected, got, alone>>

GetTokens(f) ==
    LET knows(items) == flow' = [flow EXCEPT ![f].at = "client",
                                             ![f].tokens = items[flow[f].server].tokens]
    IN  Reads(f, "tokens", knows)

GetClient(f) ==
    LET knows(items) == flow' = [flow EXCEPT ![f].at = "ask",
                                             ![f].client = items[flow[f].server].client]
    IN  Reads(f, "client", knows)

SetClient(f) ==
    LET knows(items) == Writes(f, WithClient(items, flow[f].server, flow[f].client), "redirect")
    IN  Reads(f, "set_client", knows)

SetTokens(f) ==
    LET knows(items) == Writes(f, WithTokens(items, flow[f].server, flow[f].tokens), "again")
    IN  Reads(f, "set_tokens", knows)

Open(f) ==
    /\ At(f, "open")
    /\ file' = [file EXCEPT !.state = "torn"]
    /\ Goes(f, "write")
    /\ UNCHANGED <<listener, queue, redirected, got, alone>>

\* Another flow may have written since: the longer of two texts shows below the other.
Write(f) ==
    /\ At(f, "write")
    /\ \E state \in {"whole"} \cup IF file.state = "whole" THEN {"torn"} ELSE {} :
           file' = [state |-> state, items |-> flow[f].held]
    /\ flow' = [flow EXCEPT ![f].at = flow[f].then, ![f].held = NoPayload, ![f].then = ""]
    /\ UNCHANGED <<listener, queue, redirected, got, alone>>

-----------------------------------------------------------------------------
(* The OAuth client: ask the server with the token it has, if any; register *)
(* if there is no client yet; send the browser to sign in.                  *)

Asks(f) ==
    /\ At(f, "ask")
    /\ \/ /\ flow[f].server \in Guarded
          /\ flow' = IF flow[f].client = NoPort
                     THEN [flow EXCEPT ![f].at = "set_client", ![f].client = flow[f].port]
                     ELSE [flow EXCEPT ![f].at = "redirect"]
       \/ /\ flow[f].server \in Guarded => flow[f].tokens # NoFlow
          /\ Closes(f, TRUE)
       \/ Closes(f, FALSE)
    /\ UNCHANGED <<file, listener, queue, redirected, got, alone>>

Redirects(f) ==
    /\ At(f, "redirect")
    /\ redirected' =
           IF flow[f].server \in FixedPort /\ flow[f].client # flow[f].port
           THEN redirected ELSE redirected \cup {f}
    /\ Goes(f, "wait")
    /\ UNCHANGED <<file, listener, queue, got, alone>>

\* do_GET: the first answer stays, whatever it says; every browser is told
\* that authentication is completed.
Hears(p, answer) ==
    /\ listener[p] # NoFlow
    /\ queue' = IF queue[p] = NoAnswer THEN [queue EXCEPT ![p] = answer] ELSE queue
    /\ UNCHANGED <<file, flow, listener, redirected, got, alone>>

\* The sign-in page sends the browser back with a code, once or again, also when
\* the flow is over and its port is somebody else's; or anything comes to the port.
BrowserAnswers(f) == f \in redirected /\ Hears(flow[f].port, f)
Stranger(p) == Hears(p, NoFlow)

\* wait_for_callback; the client takes no answer to another redirect.
TakesAnswer(f) ==
    LET p == flow[f].port
        answer == queue[p]
    IN  /\ At(f, "wait") /\ answer # NoAnswer
        /\ queue' = [queue EXCEPT ![p] = NoAnswer]
        /\ IF answer = f THEN Goes(f, "exchange") ELSE Closes(f, FALSE)
        /\ UNCHANGED <<file, listener, redirected, got, alone>>

\* Mistaken variant: the wait has no end of its own.
WaitsOn(f) == FALSE /\ UNCHANGED vars

TimesOut(f) ==
    /\ At(f, "wait") /\ queue[flow[f].port] = NoAnswer
    /\ Closes(f, FALSE)
    /\ UNCHANGED <<file, listener, queue, redirected, got, alone>>

Exchanges(f) ==
    /\ At(f, "exchange")
    /\ \/ /\ flow' = [flow EXCEPT ![f].at = "set_tokens", ![f].tokens = f]
          /\ got' = [got EXCEPT ![flow[f].server] = f]
       \/ Closes(f, FALSE) /\ UNCHANGED got
    /\ UNCHANGED <<file, listener, queue, redirected, alone>>

AsksAgain(f) == \E ok \in BOOLEAN :
    /\ At(f, "again")
    /\ Closes(f, ok)
    /\ UNCHANGED <<file, listener, queue, redirected, got, alone>>

\* The finally clause: waiter.stop().
Stops(f) ==
    /\ At(f, "closing")
    /\ listener' = [listener EXCEPT ![flow[f].port] = NoFlow]
    /\ queue' = [queue EXCEPT ![flow[f].port] = NoAnswer]
    /\ flow' = [flow EXCEPT ![f] = Over(f, @.ok)]
    /\ UNCHANGED <<file, redirected, got, alone>>

\* The process ends: what was open is closed, and the file stays as it is.
Dies ==
    /\ flow' = [f \in Flow |-> IF Busy(f) THEN Over(f, FALSE) ELSE flow[f]]
    /\ listener' = [p \in Port |-> NoFlow]
    /\ queue' = [p \in Port |-> NoAnswer]
    /\ alone' = (alone /\ \A f \in Flow : ~Busy(f))
    /\ UNCHANGED <<file, redirected, got>>

Stores(f) == GetTokens(f) \/ GetClient(f) \/ SetClient(f) \/ SetTokens(f) \/ Open(f) \/ Write(f)
SignsIn(f) == \/ Asks(f) \/ Redirects(f) \/ TakesAnswer(f) \/ TimesOut(f)
              \/ Exchanges(f) \/ AsksAgain(f)
Serves(f) == FindFreePort(f) \/ Listen(f) \/ Stores(f) \/ SignsIn(f) \/ Stops(f)

Next ==
    \/ \E f \in Flow : Begin(f) \/ Serves(f) \/ BrowserAnswers(f)
    \/ \E p \in Port : Stranger(p)
    \/ Dies

Spec == Init /\ [][Next]_vars
FairSpec == Spec /\ \A f \in Flow : WF_vars(Serves(f))
=============================================================================
