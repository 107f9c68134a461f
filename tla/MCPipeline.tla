----------------------------- MODULE MCPipeline -----------------------------
(* Two racing Stops, a registered call and one without a handler, and a      *)
(* goCh of capacity 1, the default (DefaultGoLen).                           *)
EXTENDS Pipeline
=============================================================================
