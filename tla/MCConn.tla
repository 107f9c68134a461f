------------------------------- MODULE MCConn -------------------------------
(* Conn with three goroutines (the owner and two other senders, so that two  *)
(* can pass the unlocked checks together) and both variants of Close.        *)
EXTENDS Conn

\* The tcp and kcp copies are the same text from Close to the writer; one stands
\* for both.
TheKinds == {"tcp", "ws"}
=============================================================================
