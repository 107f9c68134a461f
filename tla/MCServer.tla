------------------------------ MODULE MCServer ------------------------------
(* Server with one connection more than the limit allows, plus one: a queue  *)
(* behind a full server, for each of the three kinds.                        *)
EXTENDS Server

AllKinds == {"tcp", "kcp", "ws"}
=============================================================================
