------------------------------- MODULE MCKcp -------------------------------
(* Kcp with one direction in use: a writes to b, across the wrap of the      *)
(* sequence numbers.  The two runs differ in the flow control they look at   *)
(* and in what the network does.                                             *)
EXTENDS Kcp
=============================================================================
