--------------------------------- MODULE Kcp ---------------------------------
(***************************************************************************)
(* network/kcp/kcp.go: the two ends of a kcp connection and the datagram   *)
(* network between them, which loses, duplicates and reorders.             *)
(*                                                                         *)
(* An end is a record of the fields of KCP.  Its handlers run under the    *)
(* session's mutex (udp.go), so each is one action: Write (WriteBuffers),  *)
(* Read, Input (a datagram arrives) and Update (the timer's flush).        *)
(*                                                                         *)
(* A message is its number in the order of writing and fills one segment:  *)
(* the session cuts what it is given into pieces of at most Mss bytes, so  *)
(* Frg is 0.  Clocks are left out: which timers have run out when a flush  *)
(* looks at them, and which segments are younger than an ack, is open.     *)
(* Datagrams arrive as they were sent, so the length, conv and cmd errors  *)
(* of Input do not occur.                                                  *)
(***************************************************************************)
EXTENDS Integers, SequencesExt

CONSTANTS Ends,         \* the two ends
          Writers,      \* those whose application writes
          MaxMsgs,      \* bound: messages an application writes
          Batch,        \* bound: pieces one Write is cut into
          SndWnd, RcvWnd,
          Fastresend, Nocwnd, AckNoDelay,  \* SetNoDelay, SetACKNoDelay
          Mtu,          \* segments that fit a datagram
          SNMod,        \* 2^32: sequence numbers and counters wrap
          FirstSN,      \* the next sequence number of both ends at the start
          MaxNet,       \* bound: datagrams on their way to an end
          MaxAcks,      \* bound: pending acks of an end that takes a datagram
          Duplicates    \* the network may deliver a datagram again

ASSUME KcpAssumption ==
    /\ \E a, b \in Ends : a # b /\ Ends = {a, b}
    /\ Writers \subseteq Ends
    /\ {SndWnd, RcvWnd, Batch, Mtu, SNMod} \subseteq Nat \ {0}
    /\ {MaxMsgs, FirstSN, MaxNet, MaxAcks} \subseteq Nat
    /\ Fastresend \in Int
    /\ {Nocwnd, AckNoDelay, Duplicates} \subseteq BOOLEAN
    /\ FirstSN < SNMod
    /\ 2 * (MaxMsgs + SndWnd + RcvWnd) < SNMod  \* no number is used twice

VARIABLES kcp,   \* the ends
          net,   \* the datagrams on their way to each end
          sent,  \* number of messages each application has written
          got    \* the messages each application has read

vars == <<kcp, net, sent, got>>

Peer(e) == CHOOSE p \in Ends : p # e

NoMsg == 0

-----------------------------------------------------------------------------
\* uint32 arithmetic; _itimediff is the signed distance.
U32(n) == n % SNMod

Diff(later, earlier) ==
    LET d == U32(later - earlier)
    IN  IF 2 * d < SNMod THEN d ELSE d - SNMod

\* The constant IKcpThreshMin, which is also the first Ssthresh.
ThreshMin == 2

\* A connection's first state, but for FirstSN: in the code it is 0, and an end
\* that has sent and received that many segments is in this state again.
NewKCP ==
    [SndUna |-> FirstSN, SndNxt |-> FirstSN, RcvNxt |-> FirstSN,
     RmtWnd |-> RcvWnd, Cwnd |-> 0, Ssthresh |-> ThreshMin,
     Probe |-> FALSE,       \* IKcpAskTell; IKcpAskSend never outlives a flush
     ProbeWait |-> FALSE,   \* the probe timer is armed
     SndQueue |-> <<>>, SndBuf |-> <<>>, RcvQueue |-> <<>>, RcvBuf |-> <<>>,
     Acklist |-> <<>>]

\* How many elements from the front of s satisfy P, up to the first that does not.
Leading(s, P(_)) ==
    Max({n \in 0 .. Len(s) : \A i \in 1 .. n : P(i)})

\* The numbers of S in ascending order.
Ascending(S) ==
    [j \in 1 .. Cardinality(S) |-> CHOOSE x \in S : Cardinality({y \in S : y <= x}) = j]

DropFront(s, n) == SubSeq(s, n + 1, Len(s))

WaitSnd(k) == Len(k.SndBuf) + Len(k.SndQueue)

WndUnused(k) == IF Len(k.RcvQueue) < RcvWnd THEN RcvWnd - Len(k.RcvQueue) ELSE 0

\* The sequence numbers in flight, not acknowledged.
Unacked(k) == {s.SN : s \in {x \in ToSet(k.SndBuf) : ~x.Acked}}

\* PeekSize: the first segment of RcvQueue is a whole message.
PeekSize(k) == Len(k.RcvQueue) > 0

\* Send: a piece of at most Mss bytes becomes one segment, however short.
Send(k, pieces) == [k EXCEPT !.SndQueue = @ \o pieces]

-----------------------------------------------------------------------------
\* Broken form of MoveReady: a gap in the sequence numbers does not stop it.
MoveReadyGaps(k) ==
    LET n == Leading(k.RcvBuf, LAMBDA i : Len(k.RcvQueue) + i - 1 < RcvWnd)
    IN  [k EXCEPT !.RcvNxt = U32(@ + n),
                  !.RcvQueue = @ \o [i \in 1 .. n |-> k.RcvBuf[i].data],
                  !.RcvBuf = DropFront(@, n)]

\* Segments move from RcvBuf to RcvQueue while they are next in order and the
\* queue has room.
MoveReady(k) ==
    LET n == Leading(k.RcvBuf, LAMBDA i :
                        /\ k.RcvBuf[i].SN = U32(k.RcvNxt + i - 1)
                        /\ Len(k.RcvQueue) + i - 1 < RcvWnd)
    IN  [k EXCEPT !.RcvNxt = U32(@ + n),
                  !.RcvQueue = @ \o [i \in 1 .. n |-> k.RcvBuf[i].data],
                  !.RcvBuf = DropFront(@, n)]

\* Broken form of Recv: segments that have waited for room stay where they are.
RecvNoMove(k) ==
    LET r == [k EXCEPT !.RcvQueue = Tail(@)]
    IN  [r EXCEPT !.Probe = @ \/ Len(k.RcvQueue) >= RcvWnd]

\* Recv: the first message leaves, segments move up, and an end whose window was
\* closed will tell its peer if it has opened.
Recv(k) ==
    LET r == MoveReady([k EXCEPT !.RcvQueue = Tail(@)])
    IN  [r EXCEPT !.Probe = @ \/ (Len(k.RcvQueue) >= RcvWnd
                                     /\ Len(r.RcvQueue) < RcvWnd)]

-----------------------------------------------------------------------------
Shrink(k) ==
    [k EXCEPT !.SndUna = IF k.SndBuf # <<>> THEN k.SndBuf[1].SN ELSE k.SndNxt]

\* Broken form of ParseUna: una itself is taken for received.
ParseUnaIncluded(k, una) ==
    LET n == Leading(k.SndBuf, LAMBDA i : Diff(una, k.SndBuf[i].SN) >= 0)
    IN  [k EXCEPT !.SndBuf = DropFront(@, n)]

ParseUna(k, una) ==
    LET n == Leading(k.SndBuf, LAMBDA i : Diff(una, k.SndBuf[i].SN) > 0)
    IN  [k EXCEPT !.SndBuf = DropFront(@, n)]

\* An ack for a segment that is in flight, or has been.
InFlight(k, sn) == Diff(sn, k.SndUna) >= 0 /\ Diff(sn, k.SndNxt) < 0

ParseAck(k, sn) ==
    IF ~InFlight(k, sn) THEN k
    ELSE [k EXCEPT !.SndBuf =
             [i \in DOMAIN k.SndBuf |->
                 [k.SndBuf[i] EXCEPT !.Acked = @ \/ k.SndBuf[i].SN = sn]]]

\* The number of later acks a segment has seen, as far as a flush looks at it.
FastCap == IF Fastresend <= 0 THEN 1 ELSE Fastresend

\* Segments before sn count the ack, except those (young) that were sent again
\* after the segment it answers.
ParseFastack(k, sn, young) ==
    IF ~InFlight(k, sn) THEN k
    ELSE [k EXCEPT !.SndBuf =
             [i \in DOMAIN k.SndBuf |->
                 LET s == k.SndBuf[i]
                 IN  IF Diff(sn, s.SN) > 0 /\ s.SN \notin young
                     THEN [s EXCEPT !.Fastack = Min({@ + 1, FastCap})]
                     ELSE s]]

\* A segment in the window goes to its place in RcvBuf unless it is there.
ParseData(k, sn, data) ==
    LET n == Cardinality({i \in DOMAIN k.RcvBuf : Diff(sn, k.RcvBuf[i].SN) > 0})
    IN  MoveReady(
            IF \E i \in DOMAIN k.RcvBuf : k.RcvBuf[i].SN = sn THEN k
            ELSE [k EXCEPT !.RcvBuf = InsertAt(@, n + 1, [SN |-> sn, data |-> data])])

\* A segment beyond the window is ignored, an old one only acknowledged again.
Push(k, s) ==
    LET a == [k EXCEPT !.Acklist = Append(@, s.sn)]
    IN  CASE Diff(s.sn, U32(k.RcvNxt + RcvWnd)) >= 0 -> k
          [] Diff(s.sn, k.RcvNxt) < 0 -> a
          [] OTHER -> ParseData(a, s.sn, s.data)

\* One round of Input's loop; slides is windowSlides, which each round overwrites.
Segment(r, s, young) ==
    LET u == ParseUna([r.k EXCEPT !.RmtWnd = s.wnd], s.una)
        k == Shrink(u)
    IN  [slides |-> Len(u.SndBuf) < Len(r.k.SndBuf),
         k |-> CASE s.cmd = "ack"  -> ParseFastack(ParseAck(k, s.sn), s.sn, young)
                 [] s.cmd = "push" -> Push(k, s)
                 [] s.cmd = "wask" -> [k EXCEPT !.Probe = TRUE]
                 [] s.cmd = "wins" -> k]

\* Input's loop over the segments of a datagram.
Loop(k, d, young) ==
    LET round[i \in 0 .. Len(d)] ==
            IF i = 0 THEN [slides |-> FALSE, k |-> k]
            ELSE Segment(round[i - 1], d[i], young)
    IN  round[Len(d)]

\* The congestion window after the loop, when SndUna has moved from una: it
\* grows by one below Ssthresh; above it the byte count Incr, left out here,
\* makes it grow by up to two.  It never exceeds the peer's window.
Grown(k, una) ==
    IF Nocwnd \/ Diff(k.SndUna, una) <= 0 THEN {k}
    ELSE LET grow == IF k.Cwnd < k.Ssthresh THEN {1} ELSE 0 .. 2
         IN  {[k EXCEPT !.Cwnd = Min({@ + g, k.RmtWnd})] : g \in grow}

-----------------------------------------------------------------------------
Header(k, cmd, sn, data) ==
    [cmd |-> cmd, sn |-> sn, una |-> k.RcvNxt, wnd |-> WndUnused(k), data |-> data]

\* The pending acks; una speaks for those before RcvNxt, but the last one is
\* always sent.
Acks(k) ==
    LET n == Len(k.Acklist)
        told == Ascending({i \in 1 .. n : i = n \/ Diff(k.Acklist[i], k.RcvNxt) >= 0})
    IN  [j \in DOMAIN told |-> Header(k, "ack", k.Acklist[told[j]], NoMsg)]

AckFlush(k) == [k |-> [k EXCEPT !.Acklist = <<>>], out |-> Acks(k)]

\* Fastresend <= 0 means never, written as the largest number.
Resent == IF Fastresend <= 0 THEN SNMod - 1 ELSE Fastresend

\* Broken form of Window: the peer's window is not looked at.
WindowLocal(k) ==
    Min({SndWnd} \cup (IF Nocwnd THEN {} ELSE {k.Cwnd}))

Window(k) ==
    Min({SndWnd, k.RmtWnd} \cup (IF Nocwnd THEN {} ELSE {k.Cwnd}))

\* Segments from SndQueue that the window lets into SndBuf.
Admitted(k) ==
    Leading(k.SndQueue, LAMBDA i :
        Diff(U32(k.SndNxt + i - 1), U32(k.SndUna + Window(k))) < 0)

Admit(k) ==
    LET n == Admitted(k)
    IN  [k EXCEPT !.SndBuf = @ \o [i \in 1 .. n |->
                                    [SN |-> U32(k.SndNxt + i - 1),
                                     data |-> k.SndQueue[i],
                                     Fastack |-> 0, Acked |-> FALSE]],
                  !.SndQueue = DropFront(@, n),
                  !.SndNxt = U32(@ + n)]

\* Broken form of SegsInFlight: segments acknowledged out of order do not count.
SegsNotAcked(k) == Cardinality(Unacked(k))

SegsInFlight(k) == U32(k.SndNxt - k.SndUna)

\* The congestion window after a flush: 1 after a timeout, and after a fast or
\* early retransmission half of what is in flight plus Resent.  (The lower bound
\* on Ssthresh is applied before Ssthresh is assigned: it has no effect.)
Congestion(k, wnd, lost, change) ==
    LET thresh == SegsInFlight(k) \div 2
        cwnd == CASE change -> U32(thresh + Resent)
                  [] ~change /\ lost -> 1
                  [] OTHER -> k.Cwnd
    IN  IF Nocwnd THEN k
        ELSE [k EXCEPT !.Ssthresh = IF change THEN thresh
                                    ELSE IF lost THEN wnd \div 2 ELSE @,
                       !.Cwnd = Max({1, cwnd})]

\* Broken form of Asks: no window probe is ever sent.
AsksNever(k, probe) == FALSE

\* A probe of the peer's window goes out if that is closed, an earlier flush has
\* armed the timer for it and the timer has run out.
Asks(k, probe) == k.RmtWnd = 0 /\ k.ProbeWait /\ probe

\* flush(false): pending acks, a probe of the peer's window, the answer to one,
\* then new segments as the window allows and, of the others, those overtaken by
\* acks and those whose timer has run out (due).
Flush(k, due, probe) ==
    LET k1 == [AckFlush(k).k EXCEPT !.ProbeWait = (k.RmtWnd = 0), !.Probe = FALSE]
        k2 == Admit(k1)
        old == Len(k1.SndBuf)
        Fast(s) == s.Fastack >= Resent \/ (s.Fastack > 0 /\ Admitted(k1) = 0)
        Goes(i) == LET s == k2.SndBuf[i]
                   IN  ~s.Acked /\ (i > old \/ Fast(s) \/ s.SN \in due)
        Fasts == {i \in 1 .. old : Goes(i) /\ Fast(k2.SndBuf[i])}
        Losts == {i \in 1 .. old : Goes(i)} \ Fasts
        k3 == [k2 EXCEPT !.SndBuf = [i \in DOMAIN @ |->
                  IF Goes(i) THEN [k2.SndBuf[i] EXCEPT !.Fastack = 0]
                             ELSE k2.SndBuf[i]]]
        index == Ascending({i \in DOMAIN k3.SndBuf : Goes(i)})
    IN  [k |-> Congestion(k3, Window(k1), Losts # {}, Fasts # {}),
         out |-> Acks(k)
            \o (IF Asks(k, probe) THEN <<Header(k, "wask", 0, NoMsg)>> ELSE <<>>)
            \o (IF k.Probe THEN <<Header(k, "wins", 0, NoMsg)>> ELSE <<>>)
            \o [j \in DOMAIN index |->
                   Header(k, "push", k3.SndBuf[index[j]].SN, k3.SndBuf[index[j]].data)]]

-----------------------------------------------------------------------------
\* makeSpace: a datagram is handed to the socket when the next segment does not
\* fit.
Datagrams(out) ==
    {SubSeq(out, n * Mtu + 1, Min({(n + 1) * Mtu, Len(out)})) :
        n \in {m \in 0 .. Len(out) : m * Mtu < Len(out)}}

\* e sends out: the network takes some of the datagrams and loses the others.
Emit(e, r, arrived, kept) ==
    /\ kept \subseteq Datagrams(r.out)
    /\ LET to == net[Peer(e)] \cup kept
       IN  /\ Cardinality(to) <= MaxNet
           /\ net' = [net EXCEPT ![e] = arrived, ![Peer(e)] = to]
    /\ kcp' = [kcp EXCEPT ![e] = r.k]

\* flush(false) of end e in state k, with whatever timers have run out.
FlushNow(e, k, arrived) ==
    \E due \in SUBSET Unacked(k), probe \in BOOLEAN :
        LET r == Flush(k, due, probe)
        IN  \E kept \in SUBSET Datagrams(r.out) : Emit(e, r, arrived, kept)

Init ==
    /\ kcp = [e \in Ends |-> NewKCP]
    /\ net = [e \in Ends |-> {}]
    /\ sent = [e \in Ends |-> 0]
    /\ got = [e \in Ends |-> <<>>]

\* WriteBuffers: when fewer segments wait than both windows allow, the pieces
\* are queued, all of them, and flushed.
Write(e, n) ==
    /\ e \in Writers
    /\ sent[e] + n <= MaxMsgs
    /\ WaitSnd(kcp[e]) < Min({SndWnd, kcp[e].RmtWnd})
    /\ sent' = [sent EXCEPT ![e] = @ + n]
    /\ FlushNow(e, Send(kcp[e], [i \in 1 .. n |-> sent[e] + i]), net[e])
    /\ UNCHANGED got

\* Read: the application takes the first message there is.
Read(e) ==
    /\ PeekSize(kcp[e])
    /\ got' = [got EXCEPT ![e] = Append(@, Head(kcp[e].RcvQueue))]
    /\ kcp' = [kcp EXCEPT ![e] = Recv(@)]
    /\ UNCHANGED <<net, sent>>

\* The timed flush.
Update(e) ==
    /\ FlushNow(e, kcp[e], net[e])
    /\ UNCHANGED <<sent, got>>

\* Input: a datagram arrives; its segments are handled in turn, the congestion
\* window follows, and the end flushes everything if the last segment moved the
\* send window, or its acks if it is to answer without delay.  (A datagram with
\* acks in it starts with one.)
Input(e, d, again) ==
    /\ d \in net[e]
    /\ again => Duplicates
    /\ Len(kcp[e].Acklist) < MaxAcks
    /\ \E young \in (IF d[1].cmd = "ack" THEN SUBSET Unacked(kcp[e]) ELSE {{}}) :
          LET arrived == IF again THEN net[e] ELSE net[e] \ {d}
              r == Loop(kcp[e], d, young)
          IN  \E k \in Grown(r.k, kcp[e].SndUna) :
                 IF r.slides
                 THEN FlushNow(e, k, arrived)
                 ELSE LET f == IF AckNoDelay THEN AckFlush(k)
                               ELSE [k |-> k, out |-> <<>>]
                      IN  \E kept \in SUBSET Datagrams(f.out) :
                             Emit(e, f, arrived, kept)
    /\ UNCHANGED <<sent, got>>

Next ==
    \E e \in Ends :
        \/ \E n \in 1 .. Batch : Write(e, n)
        \/ Read(e)
        \/ Update(e)
        \/ \E d \in net[e], again \in BOOLEAN : Input(e, d, again)

Spec == Init /\ [][Next]_vars

-----------------------------------------------------------------------------
\* The network has room for what e sends.
Room(e) == Cardinality(net[Peer(e)]) < MaxNet

\* Message m of e is sent by every flush whose timers have run out.  (An end has
\* Cwnd 0 until its first flush.)
MayPush(e, m) ==
    LET k == [kcp[e] EXCEPT !.Cwnd = Max({@, 1})]
    IN  \/ \E s \in ToSet(k.SndBuf) : s.data = m /\ ~s.Acked
        \/ Admitted(k) > 0 /\ Head(k.SndQueue) = m

\* The network takes a datagram from e with such a segment.
Takes(e, cmds, data) ==
    \E d \in net'[Peer(e)] \ net[Peer(e)] :
        \E i \in DOMAIN d : d[i].cmd \in cmds /\ d[i].data = data

\* A datagram to e arrives.
Arrives(e) == net[e] \ net'[e] # {}

Reads(e) == got'[e] # got[e]

\* The application reads and what is in the network arrives; a segment that is
\* sent again and again is not lost every time, be it a message, a probe or an
\* ack or answer to a probe.  Timed flushes never end (udp.go's update schedules
\* the next), so that the probe timer is armed, and every timer runs out.
Fairness ==
    \A e \in Writers :
        LET p == Peer(e)
        IN  /\ <>[](kcp[p].RcvQueue # <<>>) => []<><<Reads(p)>>_vars
            /\ <>[](net[p] # {} /\ Len(kcp[p].Acklist) < MaxAcks)
                  => []<><<Arrives(p)>>_vars
            /\ <>[](net[e] # {}) => []<><<Arrives(e)>>_vars
            /\ []<>(Room(p) /\ (kcp[p].Acklist # <<>> \/ kcp[p].Probe))
                  => []<><<Takes(p, {"ack", "wins"}, NoMsg)>>_vars
            /\ []<>(kcp[e].ProbeWait <=> kcp[e].RmtWnd = 0)
            /\ []<>(Room(e) /\ Asks(kcp[e], TRUE))
                  => []<><<Takes(e, {"wask"}, NoMsg)>>_vars
            /\ \A m \in 1 .. MaxMsgs :
                  []<>(Room(e) /\ MayPush(e, m))
                     => []<><<Takes(e, {"push"}, m)>>_vars

FairSpec == Spec /\ Fairness

-----------------------------------------------------------------------------
SeqNos == 0 .. SNMod - 1

Message == 1 .. MaxMsgs

SegmentType ==
    [cmd : {"ack", "push", "wask", "wins"}, sn : SeqNos, una : SeqNos,
     wnd : 0 .. RcvWnd, data : Message \cup {NoMsg}]

TypeOK ==
    /\ \A e \in Ends :
          LET k == kcp[e]
          IN  /\ {k.SndUna, k.SndNxt, k.RcvNxt, k.Cwnd, k.Ssthresh} \subseteq SeqNos
              /\ k.RmtWnd \in 0 .. RcvWnd
              /\ {k.Probe, k.ProbeWait} \subseteq BOOLEAN
              /\ k.SndQueue \in Seq(Message)
              /\ k.SndBuf \in Seq([SN : SeqNos, data : Message,
                                   Fastack : 0 .. FastCap, Acked : BOOLEAN])
              /\ k.RcvQueue \in Seq(Message) /\ Len(k.RcvQueue) <= RcvWnd
              /\ k.RcvBuf \in Seq([SN : SeqNos, data : Message])
              /\ k.Acklist \in Seq(SeqNos)
              /\ \A d \in net[e] : d \in Seq(SegmentType) /\ Len(d) \in 1 .. Mtu
    /\ sent \in [Ends -> Message \cup {0}]
    /\ got \in [Ends -> Seq(Message)]

\* Each direction is the stream KcpStream describes: whatever the network loses,
\* repeats or delays, the peer reads what was written, in order and once.
Stream == INSTANCE KcpStream
            WITH Streams <- Writers,
                 sent <- [e \in Writers |-> sent[e]],
                 got <- [e \in Writers |-> got[Peer(e)]]

StreamSpec == Stream!Spec

\* What an end no longer means to send again, because una has passed it or an
\* ack has named it, has been received, whichever ack or una came first and
\* however old it was.
AckedIsReceived ==
    \A e \in Writers :
        LET k == kcp[e]
            p == kcp[Peer(e)]
            waiting == ToSet(k.SndQueue)
                          \cup {s.data : s \in {x \in ToSet(k.SndBuf) : ~x.Acked}}
        IN  1 .. sent[e] \subseteq
                waiting \cup ToSet(got[Peer(e)]) \cup ToSet(p.RcvQueue)
                        \cup {s.data : s \in ToSet(p.RcvBuf)}

\* An end never sends a segment its peer has no window for and would ignore,
\* although the window it knows may be older than the una it knows.
WindowRespected ==
    \A e \in Ends : Diff(kcp[e].SndNxt, kcp[Peer(e)].RcvNxt) <= RcvWnd

\* A segment that is next in order stays in RcvBuf only while RcvQueue is full:
\* nobody else would move it, and nobody sends it again once it is acknowledged.
NextInOrderMoves ==
    \A e \in Ends :
        LET k == kcp[e]
        IN  k.RcvBuf # <<>> /\ k.RcvBuf[1].SN = k.RcvNxt => Len(k.RcvQueue) = RcvWnd

\* The sum that gives Cwnd after a fast or early retransmission does not wrap to
\* a huge window: with Fastresend off it adds 2^32 - 1, which is a decrement
\* only because two segments at least are in flight then.
CwndBounded ==
    \A e \in Ends :
        kcp[e].Cwnd <= Max({RcvWnd, SndWnd \div 2 + Fastresend})

\* Every message written is read in the end, also when the reader lets its window
\* close and the segment that announces the new window is lost.
Delivered ==
    \A e \in Writers, m \in 1 .. MaxMsgs :
        sent[e] >= m ~> Len(got[Peer(e)]) >= m
=============================================================================
