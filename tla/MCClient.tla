------------------------------ MODULE MCClient ------------------------------
(* Client with two reconnections, two retries and two calls of Stop.         *)
EXTENDS Client
=============================================================================
