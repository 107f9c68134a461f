----------------------------- MODULE MCRegistry -----------------------------
(* Discovery over Registry: two processes with the same server, which may be *)
(* started in turn or at once.                                               *)
EXTENDS Discovery

AllKinds == {"redis", "zookeeper"}
=============================================================================
