------------------------------ MODULE AuthSafety ------------------------------
(***************************************************************************)
(* What authentication at external servers promises.                       *)
(***************************************************************************)
EXTENDS ServerAuth

Quiet == \A f \in Flow : ~Busy(f)

(***************************************************************************)
(* While flows come one at a time and no process dies, the token file      *)
(* holds, of every server, the last token a flow got there, and the client *)
(* that got it: set_client_info, set_tokens and the making of a missing    *)
(* file keep what else is in the file, whatever the server, the user and   *)
(* strangers at the callback port do in between.                           *)
(***************************************************************************)
TokensAreKept ==
    alone /\ Quiet =>
        /\ file.state # "torn"
        /\ \A s \in Server :
               /\ file.items[s].tokens = got[s]
               /\ got[s] # NoFlow => file.items[s].client # NoPort

\* A request to authenticate ends, whatever the browser does: a wait for the
\* callback has its own end (wait_for_callback, timeout 300 seconds).
FlowEnds == \A f \in Flow : Busy(f) ~> At(f, "done")
=============================================================================
