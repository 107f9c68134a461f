----------------------------- MODULE MCListener -----------------------------
(* Listener with two addresses, two conversations and room for one session   *)
(* in the accept queue.                                                      *)
EXTENDS Listener
=============================================================================
