------------------------------ MODULE MCServers ------------------------------
(* A small instance of the authentication of servers for TLC. *)
EXTENDS AuthSafety
=============================================================================
