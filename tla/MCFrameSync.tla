---------------------------- MODULE MCFrameSync ----------------------------
(* FrameSync with two runs, four ticks, and commands that are early, in time *)
(* and too old.                                                              *)
EXTENDS FrameSync
=============================================================================
