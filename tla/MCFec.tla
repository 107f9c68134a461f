------------------------------- MODULE MCFec -------------------------------
(* Fec with three data shards and one parity shard and a decoder that begins  *)
(* alike or, as one that a listener makes, with one and one, when the encoder *)
(* is within a batch, of the first numbers or of the last before they wrap.   *)
EXTENDS Fec

MCShapes == {<<3, 1>>, <<1, 1>>}
=============================================================================
