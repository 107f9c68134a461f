---------------------------- MODULE MCUdpSession ----------------------------
(* UdpSession with the one reader a Conn has and two writers.  The two sides *)
(* share nothing but the session's end and its clock, so that a behaviour is *)
(* one of either side: Reads without a Write, or Writes without a Read, in   *)
(* which also the windows change.                                            *)
EXTENDS UdpSession

VARIABLE side

MCInit == CallInit /\ side \in {"reads", "writes"}

MCNext ==
    /\ CallNext
    /\ side = "reads" => UNCHANGED <<wpc, sndWnd, rmtWnd>>
    /\ side = "writes" => UNCHANGED <<rpc, ready>>
    /\ UNCHANGED side

MCSpec == MCInit /\ [][MCNext]_<<callVars, side>> /\ Fairness
=============================================================================
