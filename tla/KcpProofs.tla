----------------------------- MODULE KcpProofs -----------------------------
(***************************************************************************)
(* What Kcp.tla promises for all windows, sizes of messages and datagrams, *)
(* and whatever the network does: nothing that an end no longer means to   *)
(* send is missing at its peer, no segment is sent for which there is no   *)
(* window, a segment that is next in order does not stay behind, and each  *)
(* direction is the stream of KcpStream.tla.                               *)
(*                                                                         *)
(* IInv numbers everything by message: the sequence numbers of an end's    *)
(* queues, of its peer's and of what is in the network follow from how many*)
(* messages were written, queued and read.  It is stated for each direction*)
(* and holds there whatever the other direction does.                      *)
(***************************************************************************)
EXTENDS Kcp, SequenceTheorems, FiniteSetTheorems, WellFoundedInduction, TLAPS

\* The sequence number of message m + 1: numbers begin at FirstSN.
N(m) == U32(FirstSN + m)

\* The ends and datagrams there are.  No congestion window exceeds Bound.
Bound == Max({RcvWnd, SndWnd \div 2 + Fastresend})
Cwnds == {c \in SeqNos : c <= Bound}
SndSeg == [SN : SeqNos, data : Message, Fastack : 0 .. FastCap, Acked : BOOLEAN]
RcvSeg == [SN : SeqNos, data : Message]
End ==
    [SndUna : SeqNos, SndNxt : SeqNos, RcvNxt : SeqNos, RmtWnd : 0 .. RcvWnd,
     Cwnd : Cwnds, Ssthresh : SeqNos, Probe : BOOLEAN, ProbeWait : BOOLEAN,
     SndQueue : Seq(Message), SndBuf : Seq(SndSeg), RcvQueue : Seq(Message),
     RcvBuf : Seq(RcvSeg), Acklist : Seq(SeqNos)]
Datagram == {d \in Seq(SegmentType) : Len(d) \in 1 .. Mtu}

Shape ==
    /\ kcp \in [Ends -> End]
    /\ net \in [Ends -> SUBSET Datagram]
    /\ sent \in [Ends -> 0 .. MaxMsgs]
    /\ got \in [Ends -> Seq(Message)]

\* How far each direction is.  Of the messages e has written, the first Nxt(e) have
\* been sent, and the first Una(e) have left SndBuf; e has the first Rcv(e) of its
\* peer in order.
NxtOf(k, n) == n - Len(k.SndQueue)
UnaOf(k, n) == NxtOf(k, n) - Len(k.SndBuf)
RcvOf(k, g) == Len(g) + Len(k.RcvQueue)

\* What is in flight is within both windows, and the last of it has not been overtaken
\* by the ack of a later segment: there is none.
Flight(k) ==
    /\ Len(k.SndBuf) <= SndWnd /\ Len(k.SndBuf) <= RcvWnd
    /\ \A i \in 1 .. Len(k.SndBuf) : k.SndBuf[i].Fastack > 0 => i < Len(k.SndBuf)

\* The sender's queues, when it has written n messages.
Sender(k, n) ==
    /\ UnaOf(k, n) >= 0
    /\ Flight(k)
    /\ k.SndNxt = N(NxtOf(k, n))
    /\ k.SndUna = N(UnaOf(k, n))
    /\ \A i \in 1 .. Len(k.SndQueue) : k.SndQueue[i] = NxtOf(k, n) + i
    /\ \A i \in 1 .. Len(k.SndBuf) :
          /\ k.SndBuf[i].SN = N(UnaOf(k, n) + i - 1)
          /\ k.SndBuf[i].data = UnaOf(k, n) + i

\* A segment that is next in order waits only for room.
MovesUp(k) == k.RcvBuf # <<>> /\ k.RcvBuf[1].SN = k.RcvNxt => Len(k.RcvQueue) = RcvWnd

\* The receiver's queues, when its application has read g and the peer has sent the
\* first nxt messages.
Buffered(k, g, nxt) ==
    /\ RcvOf(k, g) <= nxt
    /\ k.RcvNxt = N(RcvOf(k, g))
    /\ Len(k.RcvQueue) <= RcvWnd
    /\ \A i \in 1 .. Len(k.RcvQueue) : k.RcvQueue[i] = Len(g) + i
    /\ \A i \in 1 .. Len(k.RcvBuf) :
          /\ k.RcvBuf[i].data \in RcvOf(k, g) + 1 .. nxt
          /\ k.RcvBuf[i].SN = N(k.RcvBuf[i].data - 1)
    /\ \A i, j \in 1 .. Len(k.RcvBuf) : k.RcvBuf[i].data = k.RcvBuf[j].data => i = j

Receiver(k, g, nxt) == Buffered(k, g, nxt) /\ MovesUp(k)

\* Message m has arrived.
Arrived(k, g, m) == m <= RcvOf(k, g) \/ \E i \in 1 .. Len(k.RcvBuf) : k.RcvBuf[i].data = m

\* A sequence number in an ack is that of a message that has arrived.
Known(k, g, nxt, sn) == \E m \in 1 .. nxt : sn = N(m - 1) /\ Arrived(k, g, m)

\* A segment on its way from a sender, a segment on its way from a receiver.
Pushed(s, nxt) == s.cmd = "push" => s.data \in 1 .. nxt /\ s.sn = N(s.data - 1)
Answer(s, k, g, nxt) ==
    /\ \E u \in 0 .. RcvOf(k, g) : s.una = N(u)
    /\ s.cmd = "ack" => Known(k, g, nxt, s.sn)

\* What the sender k knows of the receiver r.
Knows(k, n, r, g) ==
    /\ UnaOf(k, n) <= RcvOf(r, g)
    /\ NxtOf(k, n) <= RcvOf(r, g) + RcvWnd
    /\ \A i \in 1 .. Len(k.SndBuf) :
          k.SndBuf[i].Acked => Arrived(r, g, k.SndBuf[i].data)

\* The pending acks.
Acking(k, g, nxt) == \A i \in 1 .. Len(k.Acklist) : Known(k, g, nxt, k.Acklist[i])

\* The direction from e.
Direction(e) ==
    LET p == Peer(e)
        nxt == NxtOf(kcp[e], sent[e])
    IN  /\ Sender(kcp[e], sent[e])
        /\ Receiver(kcp[p], got[p], nxt)
        /\ Knows(kcp[e], sent[e], kcp[p], got[p])
        /\ Acking(kcp[p], got[p], nxt)
        /\ \A d \in net[p] : \A i \in 1 .. Len(d) : Pushed(d[i], nxt)
        /\ \A d \in net[e] : \A i \in 1 .. Len(d) : Answer(d[i], kcp[p], got[p], nxt)
        /\ \A i \in 1 .. Len(got[p]) : got[p][i] = i

IInv == Shape /\ \A e \in Ends : Direction(e)

-----------------------------------------------------------------------------
\* Induction: a set of naturals has a least element.
LEMMA NatMin ==
    ASSUME NEW T \in SUBSET Nat, T # {}
    PROVE  \E x \in T : \A y \in T : x <= y
<1>1. PICK x \in T : \A y \in T : <<y, x>> \notin OpToRel(<, Nat)
  BY NatLessThanWellFounded, WFMin
<1>2. \A y \in T : ~(y < x)
  BY <1>1 DEF OpToRel
<1> QED
  BY <1>2

\* A set of naturals with a bound has a greatest, which is what Max is.
LEMMA MaxOf ==
    ASSUME NEW m \in Nat, NEW S \in SUBSET (0 .. m), S # {}
    PROVE  Max(S) \in S /\ \A y \in S : y <= Max(S)
<1>1. {m - y : y \in S} \in SUBSET Nat /\ {m - y : y \in S} # {}
  <2>1. \A y \in S : m - y \in Nat
    OBVIOUS
  <2>2. \E y \in S : TRUE
    OBVIOUS
  <2> QED
    BY <2>1, <2>2
<1>2. PICK x \in {m - y : y \in S} : \A z \in {m - y : y \in S} : x <= z
  BY <1>1, NatMin
<1>3. PICK y \in S : x = m - y
  BY <1>2
<1>4. \A z \in S : y >= z
  <2> TAKE z \in S
  <2>1. x <= m - z
    BY <1>2
  <2> QED
    BY <1>3, <2>1
<1>5. Max(S) \in S /\ \A z \in S : Max(S) >= z
  BY <1>4 DEF Max
<1> QED
  BY <1>5

\* The modulus.
LEMMA Modulus == SNMod \in Nat \ {0}
  BY KcpAssumption

\* Division with remainder.
LEMMA Quotient ==
    ASSUME NEW x \in Int
    PROVE  x \div SNMod \in Int /\ x % SNMod \in 0 .. SNMod - 1 /\ x = (x \div SNMod) * SNMod + (x % SNMod)
<1>1. x = SNMod * (x \div SNMod) + (x % SNMod)
  BY Modulus, SMTT(30)
<1>2. x \div SNMod \in Int /\ x % SNMod \in 0 .. SNMod - 1
  BY Modulus
<1>3. \A q \in Int : q * SNMod = SNMod * q
  BY Modulus
<1> QED
  BY <1>1, <1>2, <1>3

\* The remainder is the only one.
LEMMA Remainder ==
    ASSUME NEW x \in Int, NEW q \in Int, NEW r \in 0 .. SNMod - 1, x = q * SNMod + r
    PROVE  x % SNMod = r
<1>1. PICK p \in Int, s \in 0 .. SNMod - 1 : x = p * SNMod + s /\ x % SNMod = s
  BY Quotient
<1>2. (p - q) * SNMod = p * SNMod - q * SNMod
  BY Modulus
<1>3. r - s = (p - q) * SNMod
  <2> DEFINE a == p * SNMod
             b == q * SNMod
             c == (p - q) * SNMod
  <2>1. a \in Int /\ b \in Int /\ c = a - b /\ x = a + s /\ x = b + r
    BY Modulus, <1>1, <1>2
  <2> HIDE DEF a, b, c
  <2>2. r - s = c
    BY Modulus, <2>1
  <2> QED
    BY <2>2 DEF c
<1>4. \A t \in Int : \A u, v \in 0 .. SNMod - 1 : u - v = t * SNMod => u = v
  BY Modulus
<1> QED
  BY <1>1, <1>3, <1>4

\* The remainder of a difference of remainders.
LEMMA WrapDifference ==
   ASSUME NEW x \in Int, NEW y \in Int
   PROVE ((x % SNMod) - (y % SNMod)) % SNMod = (x - y) % SNMod
<1>1. PICK p \in Int, r \in 0 .. SNMod - 1 : x = p * SNMod + r /\ x % SNMod = r
  BY Quotient
<1>2. PICK q \in Int, s \in 0 .. SNMod - 1 : y = q * SNMod + s /\ y % SNMod = s
  BY Quotient
<1>3. PICK t \in Int, u \in 0 .. SNMod - 1 : r - s = t * SNMod + u /\ (r - s) % SNMod = u
  <2>1. r - s \in Int
    BY Modulus
  <2> QED
    BY <2>1, Quotient
<1>4. x - y = (p - q + t) * SNMod + u
  <2>1. (p - q + t) * SNMod = p * SNMod - q * SNMod + t * SNMod
    BY Modulus
  <2> DEFINE a == p * SNMod
             b == q * SNMod
             c == t * SNMod
             d == (p - q + t) * SNMod
  <2>2. /\ a \in Int /\ b \in Int /\ c \in Int /\ d = a - b + c
        /\ x = a + r /\ y = b + s /\ r - s = c + u
    BY Modulus, <1>1, <1>2, <1>3, <2>1
  <2> HIDE DEF a, b, c, d
  <2>3. x - y = d + u
    BY Modulus, <2>2
  <2> QED
    BY <2>3 DEF d
<1>5. (x - y) % SNMod = u
  <2>1. x - y \in Int /\ p - q + t \in Int
    OBVIOUS
  <2> QED
    BY <1>4, <2>1, Remainder
<1> QED
  BY <1>1, <1>2, <1>3, <1>5

\* The remainder of a sum with a remainder.
LEMMA WrapSum ==
   ASSUME NEW x \in Int, NEW y \in Int
   PROVE U32(U32(x) + y) = U32(x + y)
<1>1. PICK p \in Int, r \in 0 .. SNMod - 1 : x = p * SNMod + r /\ x % SNMod = r
  BY Quotient
<1>2. PICK t \in Int, u \in 0 .. SNMod - 1 : r + y = t * SNMod + u /\ (r + y) % SNMod = u
  <2>1. r + y \in Int
    BY Modulus
  <2> QED
    BY <2>1, Quotient
<1>3. x + y = (p + t) * SNMod + u
  <2>1. (p + t) * SNMod = p * SNMod + t * SNMod
    BY Modulus
  <2> DEFINE a == p * SNMod
             c == t * SNMod
             d == (p + t) * SNMod
  <2>2. /\ a \in Int /\ c \in Int /\ d = a + c
        /\ x = a + r /\ r + y = c + u
    BY Modulus, <1>1, <1>2, <2>1
  <2> HIDE DEF a, c, d
  <2>3. x + y = d + u
    BY Modulus, <2>2
  <2> QED
    BY <2>3 DEF d
<1>4. (x + y) % SNMod = u
  <2>1. x + y \in Int /\ p + t \in Int
    OBVIOUS
  <2> QED
    BY <1>3, <2>1, Remainder
<1> QED
  BY <1>1, <1>2, <1>4 DEF U32

\* The signed distance of two numbers that are less than half the modulus apart.
LEMMA Distance ==
   ASSUME NEW x \in Int, NEW y \in Int, -SNMod < 2 * (x - y), 2 * (x - y) < SNMod
   PROVE Diff(U32(x), U32(y)) = x - y
<1>1. U32(U32(x) - U32(y)) = (x - y) % SNMod
  BY WrapDifference DEF U32
<1>2. CASE x - y >= 0
  <2>1. (x - y) % SNMod = x - y
    <3>1. x - y \in 0 .. SNMod - 1 /\ x - y \in Int /\ x - y = 0 * SNMod + (x - y)
      BY Modulus, <1>2
    <3> QED
      BY <3>1, Remainder
  <2> QED
    BY Modulus, <1>1, <2>1 DEF Diff
<1>3. CASE x - y < 0
  <2>1. (x - y) % SNMod = x - y + SNMod
    <3>1. x - y + SNMod \in 0 .. SNMod - 1 /\ x - y \in Int /\ x - y = (-1) * SNMod + (x - y + SNMod)
      BY Modulus, <1>3
    <3> QED
      BY <3>1, Remainder
  <2> QED
    BY Modulus, <1>1, <1>3, <2>1 DEF Diff
<1> QED
  BY <1>2, <1>3
\* The offsets that occur.
Offsets == 0 .. MaxMsgs + SndWnd + RcvWnd

\* The constants that are numbers.
LEMMA Constants ==
    /\ {SndWnd, RcvWnd, Batch, Mtu, SNMod} \subseteq Nat \ {0}
    /\ {MaxMsgs, FirstSN, MaxNet, MaxAcks} \subseteq Nat
    /\ Fastresend \in Int
    /\ FirstSN < SNMod
    /\ 2 * (MaxMsgs + SndWnd + RcvWnd) < SNMod
  BY KcpAssumption

\* The arithmetic of sequence numbers is that of their offsets.
LEMMA Numbers ==
    /\ \A a \in Nat : N(a) \in SeqNos
    /\ N(0) = FirstSN
    /\ \A a, c \in Int : U32(N(a) + c) = N(a + c)
    /\ \A a, b \in Offsets : Diff(N(a), N(b)) = a - b /\ (N(a) = N(b) => a = b)
<1>1. FirstSN \in Nat /\ FirstSN < SNMod /\ SNMod \in Nat \ {0}
  BY Constants
<1>2. \A a \in Nat : N(a) \in SeqNos
  <2> TAKE a \in Nat
  <2>1. FirstSN + a \in Int
    BY <1>1
  <2> QED
    BY <2>1, Quotient DEF N, U32, SeqNos
<1>3. N(0) = FirstSN
  <2>1. FirstSN + 0 \in Int /\ FirstSN \in 0 .. SNMod - 1 /\ FirstSN + 0 = 0 * SNMod + FirstSN
    BY <1>1
  <2> QED
    BY <2>1, Remainder DEF N, U32
<1>4. \A a, c \in Int : U32(N(a) + c) = N(a + c)
  <2> TAKE a, c \in Int
  <2>1. FirstSN + a \in Int /\ FirstSN + (a + c) = (FirstSN + a) + c
    BY <1>1
  <2>2. U32(U32(FirstSN + a) + c) = U32((FirstSN + a) + c)
    BY <2>1, WrapSum
  <2> QED
    BY <2>1, <2>2 DEF N
<1>5. ASSUME NEW a \in Offsets, NEW b \in Offsets PROVE Diff(N(a), N(b)) = a - b
  <2> DEFINE x == FirstSN + a
             y == FirstSN + b
  <2>1. /\ x \in Int /\ y \in Int /\ x - y = a - b
        /\ -SNMod < 2 * (x - y) /\ 2 * (x - y) < SNMod
    BY Constants DEF Offsets
  <2> HIDE DEF x, y
  <2>2. Diff(U32(x), U32(y)) = x - y
    BY <2>1, Distance
  <2> QED
    BY <2>1, <2>2 DEF N, x, y
<1>6. ASSUME NEW a \in Offsets, NEW b \in Offsets, N(a) = N(b) PROVE a = b
  <2>1. a - b = b - b
    BY <1>5, <1>6
  <2> QED
    BY <2>1, Constants DEF Offsets
<1> QED
  BY <1>2, <1>3, <1>4, <1>5, <1>6

-----------------------------------------------------------------------------
\* A sequence without its first elements.
LEMMA Dropped ==
    ASSUME NEW T, NEW s \in Seq(T), NEW n \in 0 .. Len(s)
    PROVE  /\ DropFront(s, n) \in Seq(T)
           /\ Len(DropFront(s, n)) = Len(s) - n
           /\ \A i \in 1 .. Len(s) - n : DropFront(s, n)[i] = s[n + i]
<1>1. Len(s) \in Nat
  BY LenProperties
<1>2. DropFront(s, n) = SubSeq(s, n + 1, Len(s))
  BY DEF DropFront
<1>3. \A i \in n + 1 .. Len(s) : s[i] \in T
  BY <1>1, ElementOfSeq
<1> QED
  BY <1>1, <1>2, <1>3, SubSeqProperties

\* A sequence with an element put in.
LEMMA Inserted ==
    ASSUME NEW T, NEW s \in Seq(T), NEW n \in 0 .. Len(s), NEW x \in T
    PROVE  /\ InsertAt(s, n + 1, x) \in Seq(T)
           /\ Len(InsertAt(s, n + 1, x)) = Len(s) + 1
           /\ \A i \in 1 .. Len(s) + 1 :
                 InsertAt(s, n + 1, x)[i] =
                    IF i <= n THEN s[i] ELSE IF i = n + 1 THEN x ELSE s[i - 1]
<1> DEFINE a == SubSeq(s, 1, n)
           b == SubSeq(s, n + 1, Len(s))
<1>1. Len(s) \in Nat /\ n \in Nat /\ \A i \in 1 .. Len(s) : s[i] \in T
  BY LenProperties, ElementOfSeq
<1>2. a \in Seq(T) /\ Len(a) = n /\ \A i \in 1 .. n : a[i] = s[i]
  BY <1>1, SubSeqProperties
<1>3. /\ b \in Seq(T) /\ Len(b) = Len(s) - n
      /\ \A i \in 1 .. Len(s) - n : b[i] = s[n + i]
  BY Dropped DEF DropFront
<1>4. InsertAt(s, n + 1, x) = (a \o <<x>>) \o b
  <2>1. (n + 1) - 1 = n
    BY <1>1
  <2> QED
    BY <2>1, Zenon DEF InsertAt
<1> HIDE DEF a, b
<1>5. /\ a \o <<x>> \in Seq(T) /\ Len(a \o <<x>>) = n + 1
      /\ \A i \in 1 .. n : (a \o <<x>>)[i] = s[i]
      /\ (a \o <<x>>)[n + 1] = x
  BY <1>1, <1>2
<1> DEFINE c == a \o <<x>>
<1>6. /\ c \in Seq(T) /\ Len(c) = n + 1
      /\ \A i \in 1 .. n : c[i] = s[i]
      /\ c[n + 1] = x
  BY <1>5
<1> HIDE DEF c
<1>7. /\ c \o b \in Seq(T) /\ Len(c \o b) = Len(s) + 1
      /\ \A i \in 1 .. n + 1 : (c \o b)[i] = c[i]
      /\ \A i \in n + 2 .. Len(s) + 1 : (c \o b)[i] = b[i - (n + 1)]
  BY <1>1, <1>3, <1>6
<1>8. ASSUME NEW i \in n + 2 .. Len(s) + 1 PROVE (c \o b)[i] = s[i - 1]
  <2>1. i - (n + 1) \in 1 .. Len(s) - n /\ n + (i - (n + 1)) = i - 1
    BY <1>1
  <2> QED
    BY <1>3, <1>7, <2>1
<1>9. /\ \A i \in 1 .. n : (c \o b)[i] = s[i]
      /\ (c \o b)[n + 1] = x
  BY <1>1, <1>6, <1>7
<1>10. ASSUME NEW i \in 1 .. Len(s) + 1
       PROVE  (c \o b)[i] = IF i <= n THEN s[i] ELSE IF i = n + 1 THEN x ELSE s[i - 1]
  <2>1. CASE i <= n
    <3>1. i \in 1 .. n
      BY <1>1, <2>1
    <3> QED
      BY <1>9, <2>1, <3>1
  <2>2. CASE i = n + 1
    <3>1. ~(i <= n)
      BY <1>1, <2>2
    <3> QED
      BY <1>9, <2>2, <3>1
  <2>3. CASE i > n + 1
    <3>1. ~(i <= n) /\ i # n + 1 /\ i \in n + 2 .. Len(s) + 1
      BY <1>1, <2>3
    <3> QED
      BY <1>8, <3>1
  <2>4. i <= n \/ i = n + 1 \/ i > n + 1
    BY <1>1
  <2> QED
    BY <2>1, <2>2, <2>3, <2>4
<1> DEFINE q == c \o b
<1>11. InsertAt(s, n + 1, x) = q
  BY <1>4 DEF c
<1>12. /\ q \in Seq(T) /\ Len(q) = Len(s) + 1
       /\ \A i \in 1 .. Len(s) + 1 : q[i] = IF i <= n THEN s[i] ELSE IF i = n + 1 THEN x ELSE s[i - 1]
  BY <1>7, <1>10
<1> HIDE DEF q
<1> QED
  BY <1>11, <1>12

\* Ascending lists elements of its set.
LEMMA Listed ==
    ASSUME NEW m \in Nat, NEW S \in SUBSET (0 .. m)
    PROVE  /\ Cardinality(S) \in Nat
           /\ DOMAIN Ascending(S) = 1 .. Cardinality(S)
           /\ \A j \in 1 .. Cardinality(S) : Ascending(S)[j] \in S
<1> DEFINE Below(T, x) == {y \in T : y <= x}
           Bad == {n \in Nat : \E T \in SUBSET (0 .. m) :
                      /\ Cardinality(T) = n
                      /\ \E j \in 1 .. n : \A x \in T : Cardinality(Below(T, x)) # j}
<1>1. \A T \in SUBSET (0 .. m) : IsFiniteSet(T) /\ Cardinality(T) \in Nat
  <2> TAKE T \in SUBSET (0 .. m)
  <2>1. IsFiniteSet(0 .. m)
    BY FS_Interval
  <2>2. IsFiniteSet(T)
    BY <2>1, FS_Subset
  <2> QED
    BY <2>2, FS_CardinalityType
<1>2. Bad = {}
  <2> SUFFICES ASSUME Bad # {} PROVE FALSE
    OBVIOUS
  <2>1. PICK n \in Bad : \A k \in Bad : n <= k
    BY NatMin
  <2>2. PICK T \in SUBSET (0 .. m), j \in 1 .. n :
           Cardinality(T) = n /\ \A x \in T : Cardinality(Below(T, x)) # j
    BY <2>1
  <2>3. n \in Nat /\ n > 0 /\ T # {}
    BY <2>1, <2>2, FS_EmptySet
  <2>4. Max(T) \in T /\ \A y \in T : y <= Max(T)
    BY <2>3, MaxOf
  <2> DEFINE R == T \ {Max(T)}
  <2>5. R \in SUBSET (0 .. m) /\ Cardinality(R) = n - 1
    BY <1>1, <2>2, <2>4, FS_RemoveElement
  <2>6. j # n
    <3>1. Below(T, Max(T)) = T
      BY <2>4
    <3> QED
      BY <2>2, <2>4, <3>1
  <2>7. n - 1 \notin Bad /\ n - 1 \in Nat /\ j \in 1 .. n - 1
    BY <2>1, <2>2, <2>3, <2>6
  <2>8. PICK x \in R : Cardinality(Below(R, x)) = j
    BY <2>5, <2>7
  <2>9. Below(T, x) = Below(R, x)
    <3>1. x \in T /\ x # Max(T) /\ x <= Max(T)
      BY <2>4, <2>8
    <3>2. x \in 0 .. m /\ Max(T) \in 0 .. m
      BY <2>4, <3>1
    <3>3. ~(Max(T) <= x)
      BY <3>1, <3>2
    <3> QED
      BY <3>3
  <2> QED
    BY <2>2, <2>8, <2>9
<1>3. ASSUME NEW j \in 1 .. Cardinality(S)
      PROVE  \E x \in S : Cardinality(Below(S, x)) = j
  <2> SUFFICES ASSUME \A x \in S : Cardinality(Below(S, x)) # j PROVE FALSE
    OBVIOUS
  <2>1. Cardinality(S) \in Bad
    BY <1>1
  <2> QED
    BY <1>2, <2>1
<1> HIDE DEF Bad
<1>4. \A j \in 1 .. Cardinality(S) :
         (CHOOSE x \in S : Cardinality({y \in S : y <= x}) = j) \in S
  BY <1>3
<1> QED
  BY <1>1, <1>4 DEF Ascending
-----------------------------------------------------------------------------
\* What an operation leaves alone.
SameSender(k, r) ==
    /\ r.SndUna = k.SndUna /\ r.SndNxt = k.SndNxt
    /\ r.SndQueue = k.SndQueue /\ r.SndBuf = k.SndBuf
SameReceiver(k, r) ==
    r.RcvNxt = k.RcvNxt /\ r.RcvQueue = k.RcvQueue /\ r.RcvBuf = k.RcvBuf

\* What has arrived at k, of which g is read, has at r, of which h is read.
Later(k, g, r, h) ==
    /\ RcvOf(k, g) <= RcvOf(r, h)
    /\ \A m \in Nat : Arrived(k, g, m) => Arrived(r, h, m)

\* The lengths of an end's queues, and its elements.
LEMMA Queues ==
    ASSUME NEW k \in End
    PROVE  /\ Len(k.SndQueue) \in Nat /\ Len(k.SndBuf) \in Nat
           /\ Len(k.RcvQueue) \in Nat /\ Len(k.RcvBuf) \in Nat
           /\ Len(k.Acklist) \in Nat
           /\ \A i \in 1 .. Len(k.SndQueue) : k.SndQueue[i] \in Message
           /\ \A i \in 1 .. Len(k.SndBuf) : k.SndBuf[i] \in SndSeg
           /\ \A i \in 1 .. Len(k.RcvQueue) : k.RcvQueue[i] \in Message
           /\ \A i \in 1 .. Len(k.RcvBuf) : k.RcvBuf[i] \in RcvSeg
           /\ \A i \in 1 .. Len(k.Acklist) : k.Acklist[i] \in SeqNos
<1>1. /\ k.SndQueue \in Seq(Message) /\ k.SndBuf \in Seq(SndSeg)
      /\ k.RcvQueue \in Seq(Message) /\ k.RcvBuf \in Seq(RcvSeg)
      /\ k.Acklist \in Seq(SeqNos)
  BY DEF End
<1> QED
  BY <1>1, LenProperties, ElementOfSeq

\* How many segments MoveReady moves: they are the next in order and there is room,
\* and for the one behind them one of these is false.
LEMMA ReadyCount ==
    ASSUME NEW k \in End
    PROVE  \E n \in 0 .. Len(k.RcvBuf) :
              /\ MoveReady(k) =
                    [k EXCEPT !.RcvNxt = U32(k.RcvNxt + n),
                              !.RcvQueue = k.RcvQueue \o [i \in 1 .. n |-> k.RcvBuf[i].data],
                              !.RcvBuf = DropFront(k.RcvBuf, n)]
              /\ \A i \in 1 .. n : /\ k.RcvBuf[i].SN = U32(k.RcvNxt + (i - 1))
                                   /\ Len(k.RcvQueue) + (i - 1) < RcvWnd
              /\ n < Len(k.RcvBuf) => \/ k.RcvBuf[n + 1].SN # U32(k.RcvNxt + n)
                                      \/ ~(Len(k.RcvQueue) + n < RcvWnd)
<1> DEFINE P(i) == /\ k.RcvBuf[i].SN = U32(k.RcvNxt + (i - 1))
                   /\ Len(k.RcvQueue) + (i - 1) < RcvWnd
           S == {n \in 0 .. Len(k.RcvBuf) : \A i \in 1 .. n : P(i)}
           n == Max(S)
<1>1. Len(k.RcvBuf) \in Nat /\ Len(k.RcvQueue) \in Nat
  BY Queues
<1>2. n \in S /\ \A m \in S : m <= n
  <2>1. 0 \in S
    BY <1>1
  <2> HIDE DEF P
  <2>2. S \in SUBSET (0 .. Len(k.RcvBuf)) /\ S # {}
    BY <2>1
  <2> QED
    BY <1>1, <2>2, MaxOf
<1>3. MoveReady(k) =
         [k EXCEPT !.RcvNxt = U32(k.RcvNxt + n),
                   !.RcvQueue = k.RcvQueue \o [i \in 1 .. n |-> k.RcvBuf[i].data],
                   !.RcvBuf = DropFront(k.RcvBuf, n)]
  BY DEF MoveReady, Leading
<1> HIDE DEF n
<1>4. n < Len(k.RcvBuf) => ~P(n + 1)
  <2> SUFFICES ASSUME n < Len(k.RcvBuf), P(n + 1) PROVE FALSE
    OBVIOUS
  <2>1. \A i \in 1 .. n + 1 : i = n + 1 \/ i \in 1 .. n
    BY <1>1, <1>2
  <2>2. n + 1 \in 0 .. Len(k.RcvBuf)
    BY <1>1, <1>2
  <2> HIDE DEF P
  <2>3. n + 1 \in S
    BY <1>2, <2>1, <2>2
  <2> QED
    BY <1>1, <1>2, <2>3
<1>5. (n + 1) - 1 = n
  BY <1>1, <1>2
<1> QED
  BY <1>2, <1>3, <1>4, <1>5

\* MoveReady keeps the receiver's queues in order and leaves nothing behind.
LEMMA Moved ==
    ASSUME NEW k \in End, NEW g \in Seq(Message), NEW nxt \in 0 .. MaxMsgs,
           Buffered(k, g, nxt)
    PROVE  /\ MoveReady(k) \in End
           /\ Receiver(MoveReady(k), g, nxt)
           /\ Later(k, g, MoveReady(k), g)
           /\ SameSender(k, MoveReady(k))
           /\ MoveReady(k).Acklist = k.Acklist
<1> DEFINE c == RcvOf(k, g)
           l == Len(k.RcvQueue)
           b == Len(k.RcvBuf)
<1>1. /\ l \in Nat /\ b \in Nat /\ Len(g) \in Nat /\ c = Len(g) + l /\ c \in Nat
      /\ \A i \in 1 .. b : k.RcvBuf[i] \in RcvSeg
      /\ \A i \in 1 .. l : k.RcvQueue[i] \in Message
      /\ nxt \in Nat /\ nxt <= MaxMsgs
  BY Queues, LenProperties, Constants DEF RcvOf
<1>2. /\ c <= nxt /\ k.RcvNxt = N(c) /\ l <= RcvWnd
      /\ \A i \in 1 .. l : k.RcvQueue[i] = Len(g) + i
      /\ \A i \in 1 .. b : /\ k.RcvBuf[i].data \in c + 1 .. nxt
                           /\ k.RcvBuf[i].SN = N(k.RcvBuf[i].data - 1)
      /\ \A i, j \in 1 .. b : k.RcvBuf[i].data = k.RcvBuf[j].data => i = j
  BY DEF Buffered
<1> HIDE DEF c, l, b
<1>3. PICK n \in 0 .. b :
         /\ MoveReady(k) =
               [k EXCEPT !.RcvNxt = U32(k.RcvNxt + n),
                         !.RcvQueue = k.RcvQueue \o [i \in 1 .. n |-> k.RcvBuf[i].data],
                         !.RcvBuf = DropFront(k.RcvBuf, n)]
         /\ \A i \in 1 .. n : /\ k.RcvBuf[i].SN = U32(k.RcvNxt + (i - 1))
                              /\ l + (i - 1) < RcvWnd
         /\ n < b => \/ k.RcvBuf[n + 1].SN # U32(k.RcvNxt + n)
                     \/ ~(l + n < RcvWnd)
  BY ReadyCount DEF l, b
<1>n. /\ n \in Nat /\ n <= b /\ l \in Nat /\ b \in Nat /\ Len(g) \in Nat /\ c = Len(g) + l
      /\ c \in Nat /\ nxt \in Nat /\ nxt <= MaxMsgs /\ MaxMsgs \in Nat /\ RcvWnd \in Nat
      /\ SndWnd \in Nat
  BY <1>1, Constants
<1>4. \A i \in 1 .. n : k.RcvBuf[i].data = c + i
  <2> TAKE i \in 1 .. n
  <2>1. i \in 1 .. b /\ i - 1 \in Int /\ l + (i - 1) < RcvWnd
    BY <1>1, <1>3
  <2>2. k.RcvBuf[i].SN = N(c + (i - 1))
    BY <1>1, <1>2, <1>3, <2>1, Numbers
  <2>3. k.RcvBuf[i].data \in c + 1 .. nxt /\ k.RcvBuf[i].SN = N(k.RcvBuf[i].data - 1)
    BY <1>2, <2>1
  <2>4. k.RcvBuf[i].data - 1 \in Offsets /\ c + (i - 1) \in Offsets
    <3>1. c <= nxt /\ i \in Nat /\ i >= 1
      BY <1>2
    <3> DEFINE x == k.RcvBuf[i].data
    <3>2. x \in c + 1 .. nxt
      BY <2>3
    <3> HIDE DEF x
    <3>3. x - 1 \in Offsets
      BY <1>n, <3>2 DEF Offsets
    <3>4. c + (i - 1) \in Offsets
      BY <1>n, <2>1, <3>1 DEF Offsets
    <3> QED
      BY <3>3, <3>4 DEF x
  <2>5. k.RcvBuf[i].data - 1 = c + (i - 1)
    <3> DEFINE x == k.RcvBuf[i].data - 1
               y == c + (i - 1)
    <3>1. x \in Offsets /\ y \in Offsets /\ N(x) = N(y)
      BY <2>2, <2>3, <2>4
    <3> HIDE DEF x, y
    <3>2. x = y
      BY <3>1, Numbers
    <3> QED
      BY <3>2 DEF x, y
  <2> QED
    BY <1>1, <1>n, <2>1, <2>3, <2>5
<1>5. c + n <= nxt /\ l + n <= RcvWnd
  <2>1. CASE n = 0
    BY <1>1, <1>2, <2>1
  <2>2. CASE n > 0
    <3>1. n \in 1 .. n /\ n \in 1 .. b
      BY <1>1, <2>2
    <3>2. k.RcvBuf[n].data = c + n /\ k.RcvBuf[n].data \in c + 1 .. nxt
      BY <1>2, <1>4, <3>1
    <3>3. l + (n - 1) < RcvWnd
      BY <1>3, <3>1
    <3> QED
      BY <1>1, <3>2, <3>3, Constants
  <2> QED
    BY <1>1, <2>1, <2>2
<1> DEFINE moved == [i \in 1 .. n |-> k.RcvBuf[i].data]
           queue == k.RcvQueue \o moved
           buf == DropFront(k.RcvBuf, n)
           r == MoveReady(k)
<1>6. /\ queue \in Seq(Message) /\ Len(queue) = l + n
      /\ \A i \in 1 .. l + n : queue[i] = Len(g) + i
  <2>1. k.RcvQueue \in Seq(Message)
    BY DEF End
  <2>2. moved \in Seq(Message) /\ Len(moved) = n /\ \A i \in 1 .. n : moved[i] = c + i
    <3>1. \A i \in 1 .. n : k.RcvBuf[i].data \in Message
      BY <1>1 DEF RcvSeg
    <3>2. n \in Nat
      BY <1>1
    <3> QED
      BY <1>4, <3>1, <3>2
  <2> HIDE DEF moved
  <2>3. /\ queue \in Seq(Message) /\ Len(queue) = l + n
        /\ \A i \in 1 .. l + n : queue[i] = IF i <= l THEN k.RcvQueue[i] ELSE moved[i - l]
    <3>1. Len(k.RcvQueue) = l
      BY DEF l
    <3> DEFINE s == k.RcvQueue
    <3>2. s \in Seq(Message) /\ moved \in Seq(Message) /\ Len(s) = l /\ Len(moved) = n
      BY <2>1, <2>2, <3>1
    <3> HIDE DEF s
    <3> SUFFICES /\ s \o moved \in Seq(Message) /\ Len(s \o moved) = l + n
                 /\ \A i \in 1 .. l + n : (s \o moved)[i] = IF i <= l THEN s[i] ELSE moved[i - l]
      BY DEF s
    <3> QED
      BY <1>n, <3>2, ConcatProperties
  <2> HIDE DEF queue
  <2>4. ASSUME NEW i \in 1 .. l + n PROVE queue[i] = Len(g) + i
    <3>1. CASE i <= l
      <4>1. i \in 1 .. l
        BY <1>n, <3>1
      <4> QED
        BY <1>2, <2>3, <3>1, <4>1
    <3>2. CASE i > l
      <4>1. i - l \in 1 .. n
        BY <1>1, <3>2
      <4> QED
        BY <1>1, <1>n, <2>2, <2>3, <3>2, <4>1
    <3> QED
      BY <1>n, <3>1, <3>2
  <2> QED
    BY <2>3, <2>4
<1>7. /\ buf \in Seq(RcvSeg) /\ Len(buf) = b - n
      /\ \A i \in 1 .. b - n : buf[i] = k.RcvBuf[n + i]
  BY <1>1, Dropped DEF b, End
<1>8. U32(k.RcvNxt + n) = N(c + n) /\ N(c + n) \in SeqNos
  <2>1. n \in Int /\ c \in Int /\ c + n \in Nat
    BY <1>n
  <2> QED
    BY <1>2, <2>1, Numbers
<1> HIDE DEF moved, queue, buf
<1>9. r = [k EXCEPT !.RcvNxt = N(c + n), !.RcvQueue = queue, !.RcvBuf = buf]
  BY <1>3, <1>8 DEF queue, moved, buf
<1> HIDE DEF r
<1>10. r \in End
  BY <1>6, <1>7, <1>8, <1>9 DEF End
<1>11. /\ r.RcvNxt = N(c + n) /\ r.RcvQueue = queue /\ r.RcvBuf = buf
       /\ SameSender(k, r) /\ r.Acklist = k.Acklist
  BY <1>9 DEF End, SameSender
<1>12. RcvOf(r, g) = c + n
  BY <1>1, <1>6, <1>11 DEF RcvOf
<1>13. ASSUME NEW i \in 1 .. b - n
       PROVE  buf[i].data \in c + n + 1 .. nxt /\ buf[i].SN = N(buf[i].data - 1)
  <2>1. n + i \in 1 .. b /\ buf[i] = k.RcvBuf[n + i]
    BY <1>1, <1>7
  <2>2. k.RcvBuf[n + i].data \in c + 1 .. nxt /\ k.RcvBuf[n + i].SN = N(k.RcvBuf[n + i].data - 1)
    BY <1>2, <2>1
  <2>3. ~(k.RcvBuf[n + i].data <= c + n)
    <3> SUFFICES ASSUME k.RcvBuf[n + i].data <= c + n PROVE FALSE
      OBVIOUS
    <3> DEFINE j == k.RcvBuf[n + i].data - c
    <3>1. j \in 1 .. n /\ j \in 1 .. b /\ c + j = k.RcvBuf[n + i].data
      BY <1>n, <2>2
    <3> HIDE DEF j
    <3>2. k.RcvBuf[j].data = k.RcvBuf[n + i].data
      BY <1>4, <3>1
    <3>3. j = n + i
      BY <1>2, <2>1, <3>1, <3>2
    <3> QED
      BY <3>1, <3>3
  <2> QED
    BY <1>1, <2>1, <2>2, <2>3
<1>14. ASSUME NEW i \in 1 .. b - n, NEW j \in 1 .. b - n, buf[i].data = buf[j].data
       PROVE  i = j
  <2>1. n + i \in 1 .. b /\ n + j \in 1 .. b /\ buf[i] = k.RcvBuf[n + i] /\ buf[j] = k.RcvBuf[n + j]
    BY <1>1, <1>7
  <2>2. n + i = n + j
    BY <1>2, <1>14, <2>1
  <2> QED
    BY <1>1, <1>n, <2>2
<1>15. Buffered(r, g, nxt)
  BY <1>5, <1>6, <1>7, <1>11, <1>12, <1>13, <1>14 DEF Buffered
<1>16. MovesUp(r)
  <2> SUFFICES ASSUME buf # <<>>, buf[1].SN = N(c + n) PROVE l + n = RcvWnd
    BY <1>6, <1>11 DEF MovesUp
  <2>1. b - n > 0 /\ buf[1] = k.RcvBuf[n + 1]
    <3>1. Len(buf) # 0
      BY <1>7, EmptySeq
    <3> QED
      BY <1>1, <1>7, <3>1
  <2>2. ~(l + n < RcvWnd)
    BY <1>1, <1>3, <1>8, <2>1
  <2> QED
    BY <1>n, <1>5, <2>2
<1>17. ASSUME NEW m \in Nat, Arrived(k, g, m) PROVE Arrived(r, g, m)
  <2>1. CASE m <= c
    BY <1>1, <1>12, <2>1 DEF Arrived
  <2>2. CASE \E i \in 1 .. b : k.RcvBuf[i].data = m
    <3>1. PICK i \in 1 .. b : k.RcvBuf[i].data = m
      BY <2>2
    <3>2. CASE i <= n
      BY <1>1, <1>4, <1>12, <3>1, <3>2 DEF Arrived
    <3>3. CASE i > n
      <4>1. i - n \in 1 .. b - n /\ buf[i - n] = k.RcvBuf[i]
        <5>1. i - n \in 1 .. b - n /\ n + (i - n) = i
          BY <1>1, <3>3
        <5> QED
          BY <1>7, <5>1
      <4> QED
        BY <1>7, <1>11, <3>1, <4>1 DEF Arrived
    <3> QED
      BY <1>1, <3>2, <3>3
  <2> QED
    BY <1>17, <2>1, <2>2 DEF Arrived, c, b
<1>18. Later(k, g, r, g)
  <2>1. RcvOf(k, g) <= RcvOf(r, g)
    BY <1>1, <1>12 DEF c
  <2> QED
    BY <1>17, <2>1 DEF Later
<1> QED
  BY <1>10, <1>11, <1>15, <1>16, <1>18 DEF Receiver, r

\* The sender's counts are offsets.
LEMMA Counts ==
    ASSUME NEW k \in End, NEW n \in 0 .. MaxMsgs, Sender(k, n)
    PROVE  /\ UnaOf(k, n) \in Nat /\ NxtOf(k, n) \in Nat /\ n \in Nat
           /\ Len(k.SndQueue) \in Nat /\ Len(k.SndBuf) \in Nat
           /\ NxtOf(k, n) = n - Len(k.SndQueue)
           /\ UnaOf(k, n) = NxtOf(k, n) - Len(k.SndBuf)
           /\ n <= MaxMsgs /\ MaxMsgs \in Nat /\ SndWnd \in Nat /\ RcvWnd \in Nat
<1>1. Len(k.SndQueue) \in Nat /\ Len(k.SndBuf) \in Nat
  BY Queues
<1>2. MaxMsgs \in Nat /\ SndWnd \in Nat /\ RcvWnd \in Nat
  BY Constants
<1>3. UnaOf(k, n) >= 0
  BY DEF Sender
<1>4. NxtOf(k, n) = n - Len(k.SndQueue) /\ UnaOf(k, n) = NxtOf(k, n) - Len(k.SndBuf)
  BY DEF UnaOf, NxtOf
<1>5. n \in Nat /\ n <= MaxMsgs
  BY <1>2
<1> DEFINE a == UnaOf(k, n)
           x == NxtOf(k, n)
           b == Len(k.SndBuf)
<1>6. a >= 0 /\ x = n - Len(k.SndQueue) /\ a = x - b /\ b \in Nat
  BY <1>1, <1>3, <1>4
<1> HIDE DEF a, x, b
<1>7. a \in Nat /\ x \in Nat
  BY <1>1, <1>5, <1>6
<1> QED
  BY <1>1, <1>2, <1>4, <1>5, <1>7 DEF a, x

\* Input takes a segment's window and una: what una passes leaves SndBuf.
LEMMA Passed ==
    ASSUME NEW k \in End, NEW n \in 0 .. MaxMsgs, Sender(k, n),
           NEW r, NEW h, Knows(k, n, r, h), RcvOf(r, h) \in Offsets,
           NEW w \in 0 .. RcvWnd, NEW u \in 0 .. RcvOf(r, h)
    PROVE  LET q == Shrink(ParseUna([k EXCEPT !.RmtWnd = w], N(u)))
           IN  /\ q \in End
               /\ Sender(q, n) /\ Knows(q, n, r, h) /\ NxtOf(q, n) = NxtOf(k, n)
               /\ SameReceiver(k, q) /\ q.Acklist = k.Acklist
<1> DEFINE b == Len(k.SndBuf)
           a == UnaOf(k, n)
           S == {m \in 0 .. b : \A i \in 1 .. m : Diff(N(u), k.SndBuf[i].SN) > 0}
           m == Max(S)
           buf == DropFront(k.SndBuf, m)
           v == [k EXCEPT !.RmtWnd = w, !.SndBuf = buf]
           q == Shrink(v)
<1>1. /\ a \in Nat /\ b \in Nat /\ a + b = NxtOf(k, n) /\ a + b <= n /\ n <= MaxMsgs
      /\ MaxMsgs \in Nat /\ SndWnd \in Nat /\ RcvWnd \in Nat
  <2>1. /\ a \in Nat /\ b \in Nat /\ a = NxtOf(k, n) - b /\ NxtOf(k, n) \in Nat
        /\ NxtOf(k, n) = n - Len(k.SndQueue) /\ Len(k.SndQueue) \in Nat
        /\ n \in Nat /\ n <= MaxMsgs
        /\ MaxMsgs \in Nat /\ SndWnd \in Nat /\ RcvWnd \in Nat
    BY Counts
  <2> HIDE DEF a, b
  <2> QED
    BY <2>1
<1>2. /\ k.SndNxt = N(a + b)
      /\ \A i \in 1 .. b : k.SndBuf[i].SN = N(a + i - 1) /\ k.SndBuf[i].data = a + i
  BY <1>1 DEF Sender
<1>3. RcvOf(r, h) \in Nat /\ u \in Nat /\ u <= RcvOf(r, h) /\ u \in Offsets /\ a <= RcvOf(r, h)
  BY <1>1 DEF Offsets, Knows
<1>4. ParseUna([k EXCEPT !.RmtWnd = w], N(u)) = v
  BY DEF ParseUna, Leading, End
<1>5. m \in S
  <2>1. 0 \in S
    BY <1>1
  <2>2. S \in SUBSET (0 .. b) /\ S # {}
    BY <2>1
  <2> QED
    BY <1>1, <2>2, MaxOf
<1> HIDE DEF m, a, b
<1>6. m \in Nat /\ m <= b /\ \A i \in 1 .. m : Diff(N(u), k.SndBuf[i].SN) > 0
  BY <1>1, <1>5
<1>7. a + m <= RcvOf(r, h)
  <2>1. CASE m = 0
    BY <1>1, <1>3, <2>1
  <2>2. CASE m > 0
    <3>1. m \in 1 .. m /\ m \in 1 .. b
      BY <1>1, <1>6, <2>2
    <3>2. Diff(N(u), N(a + m - 1)) > 0
      BY <1>2, <1>6, <3>1
    <3>3. a + m - 1 \in Offsets
      BY <1>1, <1>6, <2>2 DEF Offsets
    <3>4. u - (a + m - 1) > 0
      BY <1>3, <3>2, <3>3, Numbers
    <3> QED
      BY <1>1, <1>3, <1>6, <3>4
  <2> QED
    BY <1>6, <2>1, <2>2
<1>8. /\ buf \in Seq(SndSeg) /\ Len(buf) = b - m
      /\ \A i \in 1 .. b - m : buf[i] = k.SndBuf[m + i]
  <2>1. k.SndBuf \in Seq(SndSeg) /\ m \in 0 .. Len(k.SndBuf) /\ b = Len(k.SndBuf)
    BY <1>5 DEF b, End
  <2> QED
    BY <2>1, Dropped
<1> HIDE DEF buf
<1>9. ASSUME NEW i \in 1 .. b - m
      PROVE  buf[i].SN = N((a + m) + i - 1) /\ buf[i].data = (a + m) + i
  <2>1. m + i \in 1 .. b /\ a + (m + i) = (a + m) + i /\ a + (m + i) - 1 = (a + m) + i - 1
    BY <1>1, <1>6
  <2>2. buf[i].SN = N(a + (m + i) - 1) /\ buf[i].data = a + (m + i)
    BY <1>2, <1>8, <2>1
  <2> QED
    BY <2>1, <2>2
<1>10. /\ v \in End /\ v.SndBuf = buf /\ v.SndNxt = k.SndNxt /\ v.SndQueue = k.SndQueue
       /\ SameReceiver(k, v) /\ v.Acklist = k.Acklist
  <2>1. v \in End
    BY <1>8 DEF End
  <2> QED
    BY <2>1 DEF End, SameReceiver
<1> HIDE DEF v
<1>11. q = [v EXCEPT !.SndUna = N(a + m)]
  <2>1. CASE buf # <<>>
    <3>1. Len(buf) # 0
      BY <1>8, <2>1, EmptySeq
    <3>2. 1 \in 1 .. b - m /\ (a + m) + 1 - 1 = a + m
      BY <1>1, <1>6, <1>8, <3>1
    <3>3. buf[1].SN = N(a + m)
      BY <1>9, <3>2
    <3> QED
      BY <1>10, <2>1, <3>3 DEF Shrink
  <2>2. CASE buf = <<>>
    <3>1. b - m = 0
      BY <1>8, <2>2
    <3>2. a + b = a + m
      BY <1>1, <1>6, <3>1
    <3> QED
      BY <1>2, <1>10, <2>2, <3>2 DEF Shrink
  <2> QED
    BY <2>1, <2>2
<1> HIDE DEF q
<1>12. q \in End /\ N(a + m) \in SeqNos
  <2>1. N(a + m) \in SeqNos
    BY <1>1, <1>6, Numbers
  <2> QED
    BY <1>10, <1>11, <2>1 DEF End
<1>13. /\ q.SndBuf = buf /\ q.SndNxt = k.SndNxt /\ q.SndQueue = k.SndQueue
       /\ q.SndUna = N(a + m) /\ SameReceiver(k, q) /\ q.Acklist = k.Acklist
  BY <1>10, <1>11 DEF End, SameReceiver
<1>14. NxtOf(q, n) = NxtOf(k, n) /\ UnaOf(q, n) = a + m
  <2>1. NxtOf(q, n) = NxtOf(k, n)
    BY <1>13 DEF NxtOf
  <2>2. UnaOf(q, n) = NxtOf(k, n) - Len(buf)
    BY <1>13, <2>1 DEF UnaOf
  <2>3. UnaOf(q, n) = (a + b) - (b - m)
    BY <1>1, <1>8, <2>2
  <2> QED
    BY <1>1, <1>6, <2>1, <2>3
<1>15. Sender(q, n)
  <2>1. a + m >= 0
    BY <1>1, <1>6
  <2>2. /\ b <= SndWnd /\ b <= RcvWnd
        /\ \A i \in 1 .. b : k.SndBuf[i].Fastack > 0 => i < b
    BY DEF Sender, Flight, b
  <2>3. b - m <= SndWnd /\ b - m <= RcvWnd
    BY <1>1, <1>6, <2>2
  <2>4. ASSUME NEW i \in 1 .. b - m, buf[i].Fastack > 0 PROVE i < b - m
    <3>1. m + i \in 1 .. b
      BY <1>1, <1>6
    <3>2. m + i < b
      BY <1>8, <2>2, <2>4, <3>1
    <3> QED
      BY <1>1, <1>6, <3>2
  <2>5. Flight(q)
    BY <1>8, <1>13, <2>3, <2>4 DEF Flight
  <2> QED
    BY <1>8, <1>9, <1>13, <1>14, <2>1, <2>5 DEF Sender
<1>16. Knows(q, n, r, h)
  <2>1. ASSUME NEW i \in 1 .. b - m, buf[i].Acked PROVE Arrived(r, h, buf[i].data)
    <3>1. m + i \in 1 .. b
      BY <1>1, <1>6
    <3> QED
      BY <1>8, <2>1, <3>1 DEF Knows, b
  <2>2. NxtOf(q, n) <= RcvOf(r, h) + RcvWnd
    BY <1>14 DEF Knows
  <2> QED
    BY <1>7, <1>8, <1>13, <1>14, <2>1, <2>2 DEF Knows
<1> QED
  BY <1>4, <1>12, <1>13, <1>14, <1>15, <1>16 DEF q

\* The smaller and the larger of two numbers.
LEMMA OfTwo ==
    ASSUME NEW x \in Int, NEW y \in Int
    PROVE  /\ Min({x, y}) \in {x, y} /\ Min({x, y}) <= x /\ Min({x, y}) <= y
           /\ Max({x, y}) \in {x, y} /\ Max({x, y}) >= x /\ Max({x, y}) >= y
<1>1. \E z \in {x, y} : \A t \in {x, y} : z <= t
  <2>1. CASE x <= y
    BY <2>1
  <2>2. CASE y <= x
    BY <2>2
  <2> QED
    BY <2>1, <2>2
<1>2. \E z \in {x, y} : \A t \in {x, y} : z >= t
  <2>1. CASE x <= y
    BY <2>1
  <2>2. CASE y <= x
    BY <2>2
  <2> QED
    BY <2>1, <2>2
<1>3. Min({x, y}) \in {x, y} /\ \A t \in {x, y} : Min({x, y}) <= t
  BY <1>1 DEF Min
<1>4. Max({x, y}) \in {x, y} /\ \A t \in {x, y} : Max({x, y}) >= t
  BY <1>2 DEF Max
<1> QED
  BY <1>3, <1>4

\* What changes the marks of the segments in SndBuf, and nothing else.
LEMMA Marked ==
    ASSUME NEW k \in End, NEW n, Sender(k, n), NEW r, NEW h, Knows(k, n, r, h),
           NEW buf \in Seq(SndSeg), Len(buf) = Len(k.SndBuf),
           \A i \in 1 .. Len(buf) :
              /\ buf[i].SN = k.SndBuf[i].SN /\ buf[i].data = k.SndBuf[i].data
              /\ buf[i].Acked => Arrived(r, h, buf[i].data)
              /\ buf[i].Fastack > 0 => i < Len(buf)
    PROVE  LET q == [k EXCEPT !.SndBuf = buf]
           IN  /\ q \in End
               /\ Sender(q, n) /\ Knows(q, n, r, h) /\ NxtOf(q, n) = NxtOf(k, n)
               /\ SameReceiver(k, q) /\ q.Acklist = k.Acklist
<1> DEFINE q == [k EXCEPT !.SndBuf = buf]
<1>1. q \in End
  BY DEF End
<1>2. /\ q.SndBuf = buf /\ q.SndNxt = k.SndNxt /\ q.SndQueue = k.SndQueue
      /\ q.SndUna = k.SndUna /\ SameReceiver(k, q) /\ q.Acklist = k.Acklist
  BY DEF End, SameReceiver
<1> HIDE DEF q
<1>3. NxtOf(q, n) = NxtOf(k, n) /\ UnaOf(q, n) = UnaOf(k, n)
  BY <1>2 DEF NxtOf, UnaOf
<1>4. Sender(q, n)
  <2>1. Flight(q)
    BY <1>2 DEF Sender, Flight
  <2> QED
    BY <1>2, <1>3, <2>1 DEF Sender
<1>5. Knows(q, n, r, h)
  BY <1>2, <1>3 DEF Knows
<1> QED
  BY <1>1, <1>2, <1>3, <1>4, <1>5 DEF q

\* An ack marks the segment that has arrived.
LEMMA AckParsed ==
    ASSUME NEW k \in End, NEW n \in 0 .. MaxMsgs, Sender(k, n),
           NEW r, NEW h, Knows(k, n, r, h),
           NEW sn, Known(r, h, NxtOf(k, n), sn)
    PROVE  LET q == ParseAck(k, sn)
           IN  /\ q \in End
               /\ Sender(q, n) /\ Knows(q, n, r, h) /\ NxtOf(q, n) = NxtOf(k, n)
               /\ SameReceiver(k, q) /\ q.Acklist = k.Acklist
<1> DEFINE b == Len(k.SndBuf)
           a == UnaOf(k, n)
           buf == [i \in DOMAIN k.SndBuf |->
                     [k.SndBuf[i] EXCEPT !.Acked = k.SndBuf[i].Acked \/ k.SndBuf[i].SN = sn]]
<1>0. CASE ~InFlight(k, sn)
  BY <1>0 DEF ParseAck, SameReceiver
<1>1. CASE InFlight(k, sn)
  <2>1. ParseAck(k, sn) = [k EXCEPT !.SndBuf = buf]
    BY <1>1 DEF ParseAck
  <2>2. /\ b \in Nat /\ \A i \in 1 .. b : k.SndBuf[i] \in SndSeg
        /\ DOMAIN k.SndBuf = 1 .. b
    BY Queues, LenProperties DEF End
  <2>3. buf \in Seq(SndSeg) /\ Len(buf) = b
    <3>1. \A i \in 1 .. b : [k.SndBuf[i] EXCEPT !.Acked = k.SndBuf[i].Acked \/ k.SndBuf[i].SN = sn] \in SndSeg
      BY <2>2 DEF SndSeg
    <3> QED
      BY <2>2, <3>1
  <2>4. PICK m \in 1 .. NxtOf(k, n) : sn = N(m - 1) /\ Arrived(r, h, m)
    BY DEF Known
  <2>5. a \in Nat /\ NxtOf(k, n) \in Nat /\ a + b = NxtOf(k, n) /\ NxtOf(k, n) <= MaxMsgs
        /\ MaxMsgs \in Nat /\ SndWnd \in Nat /\ RcvWnd \in Nat
    <3>1. /\ a \in Nat /\ b \in Nat /\ a = NxtOf(k, n) - b /\ NxtOf(k, n) \in Nat
          /\ NxtOf(k, n) = n - Len(k.SndQueue) /\ Len(k.SndQueue) \in Nat
          /\ n \in Nat /\ n <= MaxMsgs
          /\ MaxMsgs \in Nat /\ SndWnd \in Nat /\ RcvWnd \in Nat
      BY Counts
    <3> HIDE DEF a, b
    <3> QED
      BY <3>1
  <2>6. ASSUME NEW i \in 1 .. b
        PROVE  /\ buf[i].SN = k.SndBuf[i].SN /\ buf[i].data = k.SndBuf[i].data
               /\ buf[i].Acked => Arrived(r, h, buf[i].data)
               /\ buf[i].Fastack > 0 => i < b
    <3>0. buf[i].Fastack = k.SndBuf[i].Fastack /\ (k.SndBuf[i].Fastack > 0 => i < b)
      BY <2>2 DEF SndSeg, Sender, Flight
    <3>1. /\ buf[i].SN = k.SndBuf[i].SN /\ buf[i].data = k.SndBuf[i].data
          /\ buf[i].Acked = (k.SndBuf[i].Acked \/ k.SndBuf[i].SN = sn)
      BY <2>2 DEF SndSeg
    <3>2. k.SndBuf[i].Acked => Arrived(r, h, k.SndBuf[i].data)
      BY DEF Knows
    <3>3. k.SndBuf[i].SN = N(a + i - 1) /\ k.SndBuf[i].data = a + i
      BY DEF Sender
    <3> HIDE DEF a, b
    <3>4. ASSUME N(a + i - 1) = N(m - 1) PROVE a + i = m
      <4>1. a + i - 1 \in Offsets /\ m - 1 \in Offsets
        <5>1. b \in Nat /\ i \in 1 .. b /\ m \in 1 .. NxtOf(k, n)
          BY <2>2 DEF b
        <5> QED
          BY <2>5, <5>1 DEF Offsets
      <4>2. a + i - 1 = m - 1
        BY <3>4, <4>1, Numbers
      <4> QED
        BY <2>4, <2>5, <4>2
    <3> HIDE DEF buf
    <3> QED
      BY <2>4, <3>0, <3>1, <3>2, <3>3, <3>4
  <2> HIDE DEF buf
  <2> QED
    BY <2>1, <2>3, <2>6, Marked
<1> QED
  BY <1>0, <1>1

\* An ack counts for the segments before it.
LEMMA FastackParsed ==
    ASSUME NEW k \in End, NEW n \in 0 .. MaxMsgs, Sender(k, n),
           NEW r, NEW h, Knows(k, n, r, h),
           NEW sn, Known(r, h, NxtOf(k, n), sn), NEW young
    PROVE  LET q == ParseFastack(k, sn, young)
           IN  /\ q \in End
               /\ Sender(q, n) /\ Knows(q, n, r, h) /\ NxtOf(q, n) = NxtOf(k, n)
               /\ SameReceiver(k, q) /\ q.Acklist = k.Acklist
<1> DEFINE b == Len(k.SndBuf)
           a == UnaOf(k, n)
           Counted(s) == IF Diff(sn, s.SN) > 0 /\ s.SN \notin young
                         THEN [s EXCEPT !.Fastack = Min({s.Fastack + 1, FastCap})] ELSE s
           buf == [i \in DOMAIN k.SndBuf |-> Counted(k.SndBuf[i])]
<1>0. CASE ~InFlight(k, sn)
  BY <1>0 DEF ParseFastack, SameReceiver
<1>1. CASE InFlight(k, sn)
  <2>1. ParseFastack(k, sn, young) = [k EXCEPT !.SndBuf = buf]
    BY <1>1 DEF ParseFastack
  <2>2. /\ b \in Nat /\ \A i \in 1 .. b : k.SndBuf[i] \in SndSeg
        /\ DOMAIN k.SndBuf = 1 .. b
    BY Queues, LenProperties DEF End
  <2>3. ASSUME NEW s \in SndSeg
        PROVE  /\ Counted(s) \in SndSeg /\ Counted(s).SN = s.SN
               /\ Counted(s).data = s.data /\ Counted(s).Acked = s.Acked
               /\ Counted(s).Fastack # s.Fastack => Diff(sn, s.SN) > 0
    <3>1. FastCap \in Nat /\ s.Fastack \in 0 .. FastCap
      BY Constants DEF FastCap, SndSeg
    <3>2. Min({s.Fastack + 1, FastCap}) \in 0 .. FastCap
      <4> DEFINE x == s.Fastack + 1
      <4>1. x \in Int /\ x >= 0 /\ FastCap \in Int
        BY <3>1
      <4> HIDE DEF x
      <4>2. Min({x, FastCap}) \in {x, FastCap} /\ Min({x, FastCap}) <= FastCap
        BY <4>1, OfTwo
      <4> QED
        BY <3>1, <4>1, <4>2 DEF x
    <3> QED
      BY <3>2 DEF SndSeg
  <2> HIDE DEF Counted
  <2>4. buf \in Seq(SndSeg) /\ Len(buf) = b /\ \A i \in 1 .. b : buf[i] = Counted(k.SndBuf[i])
    BY <2>2, <2>3
  <2>5. ASSUME NEW i \in 1 .. b
        PROVE  /\ buf[i].SN = k.SndBuf[i].SN /\ buf[i].data = k.SndBuf[i].data
               /\ buf[i].Acked => Arrived(r, h, buf[i].data)
    BY <2>2, <2>3, <2>4 DEF Knows
  <2>6. a \in Nat /\ NxtOf(k, n) \in Nat /\ a + b = NxtOf(k, n) /\ NxtOf(k, n) <= MaxMsgs
        /\ MaxMsgs \in Nat /\ SndWnd \in Nat /\ RcvWnd \in Nat
    <3>1. /\ a \in Nat /\ b \in Nat /\ a = NxtOf(k, n) - b /\ NxtOf(k, n) \in Nat
          /\ NxtOf(k, n) = n - Len(k.SndQueue) /\ Len(k.SndQueue) \in Nat
          /\ n \in Nat /\ n <= MaxMsgs
          /\ MaxMsgs \in Nat /\ SndWnd \in Nat /\ RcvWnd \in Nat
      BY Counts
    <3> HIDE DEF a, b
    <3> QED
      BY <3>1
  <2>7. PICK m \in 1 .. NxtOf(k, n) : sn = N(m - 1)
    BY DEF Known
  <2>8. ASSUME NEW i \in 1 .. b, buf[i].Fastack > 0 PROVE i < b
    <3>1. k.SndBuf[i].SN = N(a + i - 1) /\ (k.SndBuf[i].Fastack > 0 => i < b)
      BY DEF Sender, Flight
    <3>2. CASE k.SndBuf[i].Fastack > 0
      BY <3>1, <3>2
    <3>3. CASE ~(k.SndBuf[i].Fastack > 0)
      <4>1. Diff(N(m - 1), N(a + i - 1)) > 0
        BY <2>2, <2>3, <2>4, <2>7, <2>8, <3>1, <3>3
      <4> HIDE DEF a, b
      <4> DEFINE x == m - 1
                 y == a + i - 1
      <4>2. x \in Offsets /\ y \in Offsets
        BY <2>2, <2>6 DEF Offsets
      <4>3. Diff(N(x), N(y)) > 0
        BY <4>1
      <4> HIDE DEF x, y
      <4>4. x - y > 0
        BY <4>2, <4>3, Numbers
      <4> QED
        BY <2>2, <2>6, <4>4 DEF x, y
    <3> QED
      BY <3>2, <3>3
  <2> HIDE DEF buf
  <2> QED
    BY <2>1, <2>4, <2>5, <2>8, Marked
<1> QED
  BY <1>0, <1>1

\* What does not change the receiver's queues.
LEMMA Untouched ==
    ASSUME NEW k, NEW q, SameReceiver(k, q), NEW g, NEW nxt
    PROVE  /\ RcvOf(q, g) = RcvOf(k, g)
           /\ Receiver(k, g, nxt) => Receiver(q, g, nxt)
           /\ \A m : Arrived(q, g, m) <=> Arrived(k, g, m)
           /\ q.Acklist = k.Acklist /\ Acking(k, g, nxt) => Acking(q, g, nxt)
<1>1. RcvOf(q, g) = RcvOf(k, g)
  BY DEF RcvOf, SameReceiver
<1>2. \A m : Arrived(q, g, m) <=> Arrived(k, g, m)
  BY <1>1 DEF Arrived, SameReceiver
<1>3. Receiver(k, g, nxt) => Receiver(q, g, nxt)
  BY <1>1 DEF Receiver, Buffered, MovesUp, SameReceiver
<1>4. q.Acklist = k.Acklist /\ Acking(k, g, nxt) => Acking(q, g, nxt)
  BY <1>2 DEF Acking, Known
<1> QED
  BY <1>1, <1>2, <1>3, <1>4

\* The number of an ack stays that of a message that has arrived.
LEMMA KnownLater ==
    ASSUME NEW k, NEW g, NEW r, NEW h, Later(k, g, r, h),
           NEW nxt \in Nat, NEW to \in Nat, nxt <= to, NEW sn, Known(k, g, nxt, sn)
    PROVE  Known(r, h, to, sn)
<1>1. PICK m \in 1 .. nxt : sn = N(m - 1) /\ Arrived(k, g, m)
  BY DEF Known
<1>2. m \in 1 .. to /\ m \in Nat
  OBVIOUS
<1>3. Arrived(r, h, m)
  BY <1>1, <1>2 DEF Later
<1> QED
  BY <1>1, <1>2, <1>3 DEF Known

\* A segment with a message is taken, acknowledged again, or ignored.
LEMMA PushDone ==
    ASSUME NEW k \in End, NEW g \in Seq(Message), NEW nxt \in 0 .. MaxMsgs,
           Receiver(k, g, nxt), Acking(k, g, nxt),
           NEW s \in SegmentType, s.cmd = "push", Pushed(s, nxt)
    PROVE  /\ Push(k, s) \in End
           /\ Receiver(Push(k, s), g, nxt)
           /\ Later(k, g, Push(k, s), g)
           /\ Acking(Push(k, s), g, nxt)
           /\ SameSender(k, Push(k, s))
<1> DEFINE a == [k EXCEPT !.Acklist = Append(k.Acklist, s.sn)]
           c == RcvOf(k, g)
           b == Len(k.RcvBuf)
           x == s.data
<1>1. /\ c \in Nat /\ c <= nxt /\ nxt <= MaxMsgs /\ nxt \in Nat /\ b \in Nat
      /\ MaxMsgs \in Nat /\ SndWnd \in Nat /\ RcvWnd \in Nat
  <2>1. Len(g) \in Nat /\ Len(k.RcvQueue) \in Nat /\ b \in Nat
    BY Queues, LenProperties
  <2>2. c <= nxt
    BY DEF Receiver, Buffered
  <2>3. c \in Nat
    BY <2>1 DEF RcvOf
  <2> HIDE DEF b, c
  <2> QED
    BY <2>1, <2>2, <2>3, Constants
<1>2. x \in 1 .. nxt /\ x \in Nat /\ s.sn = N(x - 1) /\ s.sn \in SeqNos /\ x \in Message
  <2>1. x \in 1 .. nxt /\ s.sn = N(x - 1) /\ s.sn \in SeqNos
    BY DEF Pushed, SegmentType
  <2> HIDE DEF x
  <2> QED
    BY <1>1, <2>1 DEF Message
<1>3. /\ k.RcvNxt = N(c)
      /\ \A i \in 1 .. b : /\ k.RcvBuf[i].data \in c + 1 .. nxt
                           /\ k.RcvBuf[i].SN = N(k.RcvBuf[i].data - 1)
      /\ \A i, j \in 1 .. b : k.RcvBuf[i].data = k.RcvBuf[j].data => i = j
      /\ Len(k.RcvQueue) <= RcvWnd
      /\ \A i \in 1 .. Len(k.RcvQueue) : k.RcvQueue[i] = Len(g) + i
  BY DEF Receiver, Buffered
<1> HIDE DEF c, b, x
<1>4. Diff(s.sn, k.RcvNxt) = x - 1 - c
  <2>1. x - 1 \in Offsets /\ c \in Offsets
    BY <1>1, <1>2 DEF Offsets
  <2> QED
    BY <1>2, <1>3, <2>1, Numbers
<1>5. /\ a \in End /\ SameReceiver(k, a) /\ SameSender(k, a)
      /\ a.Acklist = Append(k.Acklist, s.sn)
  <2>1. Append(k.Acklist, s.sn) \in Seq(SeqNos)
    BY <1>2, AppendProperties DEF End
  <2> QED
    BY <2>1 DEF End, SameReceiver, SameSender
<1>6. ASSUME NEW q, Later(k, g, q, g), Arrived(q, g, x), q.Acklist = a.Acklist
      PROVE  Acking(q, g, nxt)
  <2>1. Known(q, g, nxt, s.sn)
    BY <1>2, <1>6 DEF Known
  <2>2. ASSUME NEW i \in 1 .. Len(a.Acklist) PROVE Known(q, g, nxt, a.Acklist[i])
    <3>1. k.Acklist \in Seq(SeqNos) /\ Len(k.Acklist) \in Nat
      BY Queues DEF End
    <3>2. CASE i \in 1 .. Len(k.Acklist)
      <4>1. a.Acklist[i] = k.Acklist[i]
        BY <1>2, <1>5, <3>1, <3>2, AppendProperties
      <4>2. Known(k, g, nxt, k.Acklist[i])
        BY <3>2 DEF Acking
      <4>3. nxt \in Nat /\ nxt <= nxt
        BY <1>1
      <4> DEFINE sn == k.Acklist[i]
      <4>4. Known(k, g, nxt, sn)
        BY <4>2
      <4> HIDE DEF sn
      <4>5. Known(q, g, nxt, sn)
        BY <1>6, <4>3, <4>4, KnownLater
      <4> QED
        BY <4>1, <4>5 DEF sn
    <3>3. CASE i = Len(k.Acklist) + 1
      <4>1. a.Acklist[i] = s.sn
        BY <1>2, <1>5, <3>1, <3>3, AppendProperties
      <4> QED
        BY <2>1, <4>1
    <3>4. Len(a.Acklist) = Len(k.Acklist) + 1
      BY <1>2, <1>5, <3>1, AppendProperties
    <3> QED
      BY <3>1, <3>2, <3>3, <3>4
  <2> QED
    BY <1>6, <2>2 DEF Acking
<1>7. ASSUME NEW q, SameReceiver(k, q) PROVE Receiver(q, g, nxt) /\ Later(k, g, q, g)
  <2>1. RcvOf(q, g) = c /\ Receiver(q, g, nxt) /\ \A m : Arrived(q, g, m) <=> Arrived(k, g, m)
    BY <1>7, Untouched DEF c
  <2> QED
    BY <1>1, <2>1 DEF Later, c
<1> HIDE DEF a
<1>8. CASE Diff(s.sn, U32(k.RcvNxt + RcvWnd)) >= 0
  <2>1. ~(Diff(s.sn, k.RcvNxt) < 0)
    <3>1. U32(k.RcvNxt + RcvWnd) = N(c + RcvWnd)
      BY <1>1, <1>3, Numbers
    <3>2. x - 1 \in Offsets /\ c + RcvWnd \in Offsets
      BY <1>1, <1>2 DEF Offsets
    <3>3. x - 1 - (c + RcvWnd) >= 0
      BY <1>2, <1>8, <3>1, <3>2, Numbers
    <3> QED
      BY <1>1, <1>2, <1>4, <3>3
  <2>2. Push(k, s) = k
    BY <1>8, <2>1 DEF Push
  <2> QED
    BY <1>7, <2>2 DEF SameReceiver, SameSender
<1>9. CASE ~(Diff(s.sn, U32(k.RcvNxt + RcvWnd)) >= 0) /\ Diff(s.sn, k.RcvNxt) < 0
  <2>1. Push(k, s) = a
    BY <1>9 DEF Push, a
  <2>2. x <= c
    BY <1>1, <1>2, <1>4, <1>9
  <2>3. Arrived(a, g, x)
    <3>1. RcvOf(a, g) = c
      BY <1>5, Untouched DEF c
    <3> QED
      BY <2>2, <3>1 DEF Arrived
  <2>4. Receiver(a, g, nxt) /\ Later(k, g, a, g)
    BY <1>5, <1>7
  <2> QED
    BY <1>5, <1>6, <2>1, <2>3, <2>4
<1>10. CASE ~(Diff(s.sn, U32(k.RcvNxt + RcvWnd)) >= 0) /\ ~(Diff(s.sn, k.RcvNxt) < 0)
  <2> DEFINE n == Cardinality({i \in DOMAIN a.RcvBuf : Diff(s.sn, a.RcvBuf[i].SN) > 0})
             full == IF \E i \in DOMAIN a.RcvBuf : a.RcvBuf[i].SN = s.sn THEN a
                     ELSE [a EXCEPT !.RcvBuf = InsertAt(a.RcvBuf, n + 1, [SN |-> s.sn, data |-> x])]
  <2>1. Push(k, s) = MoveReady(full)
    <3>1. Push(k, s) = ParseData(a, s.sn, x)
      BY <1>10 DEF Push, a, x
    <3> QED
      BY <3>1, Zenon DEF ParseData
  <2>2. x > c
    BY <1>1, <1>2, <1>4, <1>10
  <2>3. /\ a.RcvBuf = k.RcvBuf /\ a.RcvNxt = k.RcvNxt /\ a.RcvQueue = k.RcvQueue
        /\ DOMAIN a.RcvBuf = 1 .. b /\ k.RcvBuf \in Seq(RcvSeg)
    BY <1>5, LenProperties DEF SameReceiver, b, End
  <2>4. Receiver(a, g, nxt) /\ Later(k, g, a, g) /\ RcvOf(a, g) = c
    BY <1>5, <1>7, Untouched DEF c
  <2>5. CASE \E i \in 1 .. b : k.RcvBuf[i].SN = s.sn
    <3>1. full = a
      BY <2>3, <2>5
    <3>2. Arrived(a, g, x)
      <4>1. PICK i \in 1 .. b : k.RcvBuf[i].SN = s.sn
        BY <2>5
      <4> DEFINE y == k.RcvBuf[i].data
      <4>2. y \in c + 1 .. nxt /\ N(y - 1) = N(x - 1)
        BY <1>2, <1>3, <4>1
      <4>3. y - 1 \in Offsets /\ x - 1 \in Offsets
        <5> HIDE DEF y
        <5> QED
          BY <1>1, <1>2, <4>2 DEF Offsets
      <4>4. y - 1 = x - 1
        BY <4>2, <4>3, Numbers
      <4>5. y = x
        <5> HIDE DEF y
        <5> QED
          BY <1>1, <1>2, <4>2, <4>4
      <4> QED
        BY <2>3, <4>5 DEF Arrived, b
    <3> HIDE DEF full
    <3>3. /\ MoveReady(a) \in End /\ Receiver(MoveReady(a), g, nxt) /\ Later(a, g, MoveReady(a), g)
          /\ SameSender(a, MoveReady(a)) /\ MoveReady(a).Acklist = a.Acklist
      BY <1>5, <2>4, Moved DEF Receiver
    <3>4. Arrived(MoveReady(a), g, x) /\ Later(k, g, MoveReady(a), g)
      <4>1. Arrived(MoveReady(a), g, x)
        BY <1>2, <3>2, <3>3 DEF Later
      <4>2. \A m : Arrived(a, g, m) <=> Arrived(k, g, m)
        BY <1>5, Untouched
      <4> QED
        BY <2>4, <3>3, <4>1, <4>2 DEF Later, c
    <3>5. SameSender(k, MoveReady(a))
      BY <1>5, <3>3 DEF SameSender
    <3> QED
      BY <1>6, <2>1, <3>1, <3>3, <3>4, <3>5
  <2>6. CASE ~\E i \in 1 .. b : k.RcvBuf[i].SN = s.sn
    <3> DEFINE seg == [SN |-> s.sn, data |-> x]
               buf == InsertAt(k.RcvBuf, n + 1, seg)
    <3>1. n \in 0 .. b
      <4> DEFINE S == {i \in DOMAIN a.RcvBuf : Diff(s.sn, a.RcvBuf[i].SN) > 0}
      <4>1. S \subseteq 1 .. b
        BY <2>3
      <4> HIDE DEF S
      <4>2. IsFiniteSet(1 .. b) /\ Cardinality(1 .. b) = b
        BY <1>1, FS_Interval
      <4>3. IsFiniteSet(S) /\ Cardinality(S) <= b /\ Cardinality(S) \in Nat
        BY <4>1, <4>2, FS_Subset, FS_CardinalityType
      <4> QED
        BY <1>1, <4>3 DEF S
    <3> HIDE DEF n
    <3>2. /\ buf \in Seq(RcvSeg) /\ Len(buf) = b + 1
          /\ \A i \in 1 .. b + 1 :
                buf[i] = IF i <= n THEN k.RcvBuf[i] ELSE IF i = n + 1 THEN seg ELSE k.RcvBuf[i - 1]
      <4>1. seg \in RcvSeg
        BY <1>2 DEF RcvSeg
      <4>2. n \in 0 .. Len(k.RcvBuf) /\ k.RcvBuf \in Seq(RcvSeg) /\ b = Len(k.RcvBuf)
        BY <2>3, <3>1 DEF b
      <4> HIDE DEF seg
      <4> DEFINE t == k.RcvBuf
                 q == InsertAt(t, n + 1, seg)
      <4>3. t \in Seq(RcvSeg) /\ n \in 0 .. Len(t)
        BY <4>2
      <4> HIDE DEF t
      <4>4. /\ q \in Seq(RcvSeg) /\ Len(q) = Len(t) + 1
            /\ \A i \in 1 .. Len(t) + 1 :
                  q[i] = IF i <= n THEN t[i] ELSE IF i = n + 1 THEN seg ELSE t[i - 1]
        BY <4>1, <4>3, Inserted
      <4>5. b = Len(t) /\ q = buf
        BY <4>2 DEF t
      <4> HIDE DEF q
      <4> QED
        BY <4>4, <4>5 DEF t
    <3> HIDE DEF buf
    <3>3. full = [a EXCEPT !.RcvBuf = buf]
      BY <2>3, <2>6 DEF buf
    <3> HIDE DEF full
    <3>4. /\ full \in End /\ full.RcvBuf = buf /\ full.RcvNxt = k.RcvNxt /\ full.RcvQueue = k.RcvQueue
          /\ SameSender(k, full) /\ full.Acklist = a.Acklist /\ RcvOf(full, g) = c
      <4>1. full \in End
        BY <1>5, <3>2, <3>3 DEF End
      <4>2. /\ full.RcvBuf = buf /\ full.RcvNxt = k.RcvNxt /\ full.RcvQueue = k.RcvQueue
            /\ SameSender(k, full) /\ full.Acklist = a.Acklist
        BY <1>5, <2>3, <3>3 DEF End, SameSender
      <4> QED
        BY <4>1, <4>2 DEF RcvOf, c
    <3>5. seg.data = x /\ seg.SN = N(x - 1)
      BY <1>2
    <3>6. \A i \in 1 .. b : k.RcvBuf[i].data # x
      BY <1>2, <1>3, <2>6
    <3> HIDE DEF seg
    <3>7. \A i \in 1 .. b + 1 :
             \/ i = n + 1 /\ buf[i] = seg
             \/ i < n + 1 /\ i \in 1 .. b /\ buf[i] = k.RcvBuf[i]
             \/ i > n + 1 /\ i - 1 \in 1 .. b /\ buf[i] = k.RcvBuf[i - 1]
      BY <1>1, <3>1, <3>2
    <3>8. ASSUME NEW i \in 1 .. b + 1
          PROVE  buf[i].data \in c + 1 .. nxt /\ buf[i].SN = N(buf[i].data - 1)
      <4>1. x \in c + 1 .. nxt
        BY <1>1, <1>2, <2>2
      <4> QED
        BY <1>3, <3>5, <3>7, <4>1
    <3>9. ASSUME NEW i \in 1 .. b + 1, NEW j \in 1 .. b + 1, buf[i].data = buf[j].data
          PROVE  i = j
      <4>1. CASE i = n + 1 /\ j = n + 1
        BY <4>1
      <4>2. CASE i = n + 1 /\ j # n + 1
        BY <1>1, <3>1, <3>5, <3>6, <3>7, <3>9, <4>2
      <4>3. CASE j = n + 1 /\ i # n + 1
        BY <1>1, <3>1, <3>5, <3>6, <3>7, <3>9, <4>3
      <4>4. CASE i # n + 1 /\ j # n + 1
        <5> DEFINE u == IF i < n + 1 THEN i ELSE i - 1
                   v == IF j < n + 1 THEN j ELSE j - 1
        <5>1. u \in 1 .. b /\ buf[i] = k.RcvBuf[u] /\ v \in 1 .. b /\ buf[j] = k.RcvBuf[v]
          BY <1>1, <3>1, <3>7, <4>4
        <5> HIDE DEF u, v
        <5>2. u = v
          BY <1>3, <3>9, <5>1
        <5> QED
          BY <1>1, <3>1, <4>4, <5>2 DEF u, v
      <4> QED
        BY <4>1, <4>2, <4>3, <4>4
    <3>10. Buffered(full, g, nxt)
      BY <1>1, <1>3, <3>2, <3>4, <3>8, <3>9 DEF Buffered
    <3>11. /\ MoveReady(full) \in End /\ Receiver(MoveReady(full), g, nxt)
           /\ Later(full, g, MoveReady(full), g)
           /\ SameSender(full, MoveReady(full)) /\ MoveReady(full).Acklist = full.Acklist
      BY <3>4, <3>10, Moved
    <3>12. Arrived(full, g, x)
      <4>1. n + 1 \in 1 .. b + 1 /\ buf[n + 1].data = x
        BY <1>1, <3>1, <3>2, <3>5
      <4> QED
        BY <3>2, <3>4, <4>1 DEF Arrived
    <3>13. ASSUME NEW m \in Nat, Arrived(k, g, m) PROVE Arrived(full, g, m)
      <4>1. CASE m <= c
        BY <3>4, <4>1 DEF Arrived
      <4>2. CASE \E i \in 1 .. b : k.RcvBuf[i].data = m
        <5>1. PICK i \in 1 .. b : k.RcvBuf[i].data = m
          BY <4>2
        <5>2. CASE i <= n
          <6>1. i \in 1 .. n /\ i \in 1 .. b + 1
            BY <1>1, <3>1, <5>2
          <6> QED
            BY <3>2, <3>4, <5>1, <6>1 DEF Arrived
        <5>3. CASE i > n
          <6>1. i + 1 \in n + 2 .. b + 1 /\ i + 1 \in 1 .. b + 1 /\ (i + 1) - 1 = i
            BY <1>1, <3>1, <5>3
          <6>2. buf[i + 1] = k.RcvBuf[i]
            BY <1>1, <3>1, <3>2, <5>3, <6>1
          <6> QED
            BY <3>2, <3>4, <5>1, <6>1, <6>2 DEF Arrived
        <5> QED
          BY <1>1, <3>1, <5>2, <5>3
      <4> QED
        BY <3>13, <4>1, <4>2 DEF Arrived, b, c
    <3>14. Arrived(MoveReady(full), g, x) /\ Later(k, g, MoveReady(full), g)
      <4>1. RcvOf(full, g) <= RcvOf(MoveReady(full), g)
        BY <3>11 DEF Later
      <4>2. \A m \in Nat : Arrived(full, g, m) => Arrived(MoveReady(full), g, m)
        BY <3>11 DEF Later
      <4> QED
        BY <1>2, <3>4, <3>12, <3>13, <4>1, <4>2 DEF Later, c
    <3>15. SameSender(k, MoveReady(full)) /\ MoveReady(full).Acklist = a.Acklist
      BY <3>4, <3>11 DEF SameSender
    <3> QED
      BY <1>6, <2>1, <3>11, <3>14, <3>15
  <2> QED
    BY <2>5, <2>6
<1> QED
  BY <1>8, <1>9, <1>10

-----------------------------------------------------------------------------
\* What holds of an end k that has written n messages and read g, when its peer r has
\* read h and sent the first m messages.
Side(k, n, g, r, h, m) ==
    /\ k \in End
    /\ Sender(k, n) /\ Knows(k, n, r, h)
    /\ Receiver(k, g, m) /\ Acking(k, g, m)

\* One segment of a datagram.
LEMMA SegmentDone ==
    ASSUME NEW x, NEW n \in 0 .. MaxMsgs, NEW g \in Seq(Message), NEW r, NEW h,
           NEW m \in 0 .. MaxMsgs, Side(x.k, n, g, r, h, m), RcvOf(r, h) \in Offsets,
           NEW s \in SegmentType, Answer(s, r, h, NxtOf(x.k, n)), Pushed(s, m),
           NEW young
    PROVE  /\ Side(Segment(x, s, young).k, n, g, r, h, m)
           /\ NxtOf(Segment(x, s, young).k, n) = NxtOf(x.k, n)
           /\ Later(x.k, g, Segment(x, s, young).k, g)
<1> DEFINE k == Shrink(ParseUna([x.k EXCEPT !.RmtWnd = s.wnd], s.una))
           q == Segment(x, s, young).k
<1>1. PICK u \in 0 .. RcvOf(r, h) : s.una = N(u)
  BY DEF Answer
<1>2. /\ k \in End /\ Sender(k, n) /\ Knows(k, n, r, h) /\ NxtOf(k, n) = NxtOf(x.k, n)
      /\ SameReceiver(x.k, k) /\ k.Acklist = x.k.Acklist
  <2>1. s.wnd \in 0 .. RcvWnd
    BY DEF SegmentType
  <2> QED
    BY <1>1, <2>1, Passed DEF Side
<1>3. /\ Receiver(k, g, m) /\ Acking(k, g, m) /\ RcvOf(k, g) = RcvOf(x.k, g)
      /\ \A y : Arrived(k, g, y) <=> Arrived(x.k, g, y)
  BY <1>2, Untouched DEF Side
<1>4. RcvOf(x.k, g) \in Nat
  BY Queues, LenProperties DEF RcvOf, Side
<1>5. q = CASE s.cmd = "ack"  -> ParseFastack(ParseAck(k, s.sn), s.sn, young)
            [] s.cmd = "push" -> Push(k, s)
            [] s.cmd = "wask" -> [k EXCEPT !.Probe = TRUE]
            [] s.cmd = "wins" -> k
  BY DEF Segment
<1> HIDE DEF k, q
<1>6. ASSUME NEW t, t \in End, Sender(t, n), Knows(t, n, r, h), NxtOf(t, n) = NxtOf(k, n),
             SameReceiver(k, t), t.Acklist = k.Acklist
      PROVE  Side(t, n, g, r, h, m) /\ NxtOf(t, n) = NxtOf(x.k, n) /\ Later(x.k, g, t, g)
  <2>1. /\ Receiver(t, g, m) /\ Acking(t, g, m) /\ RcvOf(t, g) = RcvOf(k, g)
        /\ \A y : Arrived(t, g, y) <=> Arrived(k, g, y)
    BY <1>3, <1>6, Untouched
  <2>2. Later(x.k, g, t, g)
    BY <1>3, <1>4, <2>1 DEF Later
  <2> QED
    BY <1>2, <1>6, <2>1, <2>2 DEF Side
<1>7. CASE s.cmd = "ack"
  <2> DEFINE a == ParseAck(k, s.sn)
  <2>1. Known(r, h, NxtOf(k, n), s.sn)
    BY <1>2, <1>7 DEF Answer
  <2>2. /\ a \in End /\ Sender(a, n) /\ Knows(a, n, r, h) /\ NxtOf(a, n) = NxtOf(k, n)
        /\ SameReceiver(k, a) /\ a.Acklist = k.Acklist
    BY <1>2, <2>1, AckParsed
  <2> HIDE DEF a
  <2> DEFINE t == ParseFastack(a, s.sn, young)
  <2>3. /\ t \in End /\ Sender(t, n) /\ Knows(t, n, r, h) /\ NxtOf(t, n) = NxtOf(a, n)
        /\ SameReceiver(a, t) /\ t.Acklist = a.Acklist
    BY <2>1, <2>2, FastackParsed
  <2>4. q = t
    BY <1>5, <1>7 DEF a
  <2> HIDE DEF t
  <2>5. SameReceiver(k, t) /\ t.Acklist = k.Acklist
    BY <2>2, <2>3 DEF SameReceiver
  <2> QED
    BY <1>6, <2>2, <2>3, <2>4, <2>5 DEF q
<1>8. CASE s.cmd = "push"
  <2> DEFINE t == Push(k, s)
  <2>1. q = t
    BY <1>5, <1>8
  <2>2. t \in End /\ Receiver(t, g, m) /\ Later(k, g, t, g) /\ Acking(t, g, m) /\ SameSender(k, t)
    BY <1>2, <1>3, <1>8, PushDone
  <2> HIDE DEF t
  <2>3. Sender(t, n) /\ Knows(t, n, r, h) /\ NxtOf(t, n) = NxtOf(k, n)
    <3>1. NxtOf(t, n) = NxtOf(k, n) /\ UnaOf(t, n) = UnaOf(k, n)
      BY <2>2 DEF SameSender, NxtOf, UnaOf
    <3> QED
      BY <1>2, <2>2, <3>1 DEF Sender, Flight, Knows, SameSender
  <2>4. Later(x.k, g, t, g)
    BY <1>3, <2>2 DEF Later
  <2> QED
    BY <1>2, <2>1, <2>2, <2>3, <2>4 DEF Side, q
<1>9. CASE s.cmd = "wask"
  <2> DEFINE t == [k EXCEPT !.Probe = TRUE]
  <2>1. q = t
    BY <1>5, <1>9
  <2>2. /\ t \in End /\ SameReceiver(k, t) /\ t.Acklist = k.Acklist /\ SameSender(k, t)
    BY <1>2 DEF End, SameReceiver, SameSender
  <2> HIDE DEF t
  <2>3. Sender(t, n) /\ Knows(t, n, r, h) /\ NxtOf(t, n) = NxtOf(k, n)
    <3>1. NxtOf(t, n) = NxtOf(k, n) /\ UnaOf(t, n) = UnaOf(k, n)
      BY <2>2 DEF SameSender, NxtOf, UnaOf
    <3> QED
      BY <1>2, <2>2, <3>1 DEF Sender, Flight, Knows, SameSender
  <2> QED
    BY <1>6, <2>1, <2>2, <2>3 DEF q
<1>10. CASE s.cmd = "wins"
  <2>1. q = k
    BY <1>5, <1>10
  <2> QED
    BY <1>2, <1>6, <2>1 DEF q, SameReceiver
<1>11. s.cmd \in {"ack", "push", "wask", "wins"}
  BY DEF SegmentType
<1> QED
  BY <1>7, <1>8, <1>9, <1>10, <1>11

\* Input's loop is a function defined by recursion over the segments: there is one,
\* which shorter ones extend to.
LEMMA LoopRounds ==
    ASSUME NEW k, NEW d, Len(d) \in Nat, NEW young
    PROVE  \E f : /\ Loop(k, d, young) = f[Len(d)]
                  /\ f[0].k = k
                  /\ \A i \in 1 .. Len(d) : f[i] = Segment(f[i - 1], d[i], young)
<1> DEFINE first == [slides |-> FALSE, k |-> k]
           Round(f, i) == IF i = 0 THEN first ELSE Segment(f[i - 1], d[i], young)
           Bad == {n \in Nat : ~\E f : f = [i \in 0 .. n |-> Round(f, i)]}
           F == CHOOSE f : f = [i \in 0 .. Len(d) |-> Round(f, i)]
<1>1. Bad = {}
  <2> SUFFICES ASSUME Bad # {} PROVE FALSE
    OBVIOUS
  <2>1. PICK n \in Bad : \A m \in Bad : n <= m
    <3> HIDE DEF Round
    <3>1. Bad \in SUBSET Nat
      OBVIOUS
    <3> HIDE DEF Bad
    <3> QED
      BY <3>1, NatMin
  <2>2. n # 0
    <3> SUFFICES ASSUME n = 0 PROVE FALSE
      OBVIOUS
    <3> DEFINE f == [i \in 0 .. 0 |-> first]
    <3>1. f = [i \in 0 .. 0 |-> Round(f, i)]
      <4> HIDE DEF first
      <4> QED
        OBVIOUS
    <3> HIDE DEF f, Round
    <3> QED
      BY <2>1, <3>1
  <2>3. n - 1 \in Nat /\ n - 1 \notin Bad
    <3> HIDE DEF Round
    <3>1. n \in Nat
      BY <2>1
    <3> HIDE DEF Bad
    <3> QED
      BY <2>1, <2>2, <3>1
  <2>4. PICK f : f = [i \in 0 .. n - 1 |-> Round(f, i)]
    <3> HIDE DEF Round
    <3> QED
      BY <2>3
  <2> DEFINE h == [i \in 0 .. n |-> IF i < n THEN f[i] ELSE Segment(f[n - 1], d[n], young)]
  <2>5. h = [i \in 0 .. n |-> Round(h, i)]
    <3>1. n \in Nat /\ n > 0
      BY <2>2, <2>3
    <3>2. ASSUME NEW i \in 0 .. n PROVE h[i] = Round(h, i)
      <4> HIDE DEF first
      <4>1. CASE i = 0
        BY <2>4, <3>1, <4>1
      <4>2. CASE i # 0 /\ i < n
        <5>1. h[i] = f[i] /\ h[i - 1] = f[i - 1] /\ i \in 0 .. n - 1
          BY <3>1, <4>2
        <5>2. f[i] = Round(f, i)
          <6> HIDE DEF Round
          <6> QED
            BY <2>4, <5>1
        <5> HIDE DEF h
        <5> QED
          BY <4>2, <5>1, <5>2
      <4>3. CASE i = n
        <5>1. h[n] = Segment(f[n - 1], d[n], young) /\ h[n - 1] = f[n - 1]
          BY <3>1
        <5> HIDE DEF h
        <5> QED
          BY <3>1, <4>3, <5>1
      <4> QED
        BY <3>1, <4>1, <4>2, <4>3
    <3> DEFINE t == [i \in 0 .. n |-> Round(h, i)]
    <3>3. \A i \in 0 .. n : h[i] = t[i]
      <4> HIDE DEF h, Round
      <4> QED
        BY <3>2
    <3>4. DOMAIN h = 0 .. n /\ h = [i \in 0 .. n |-> h[i]]
      <4> HIDE DEF Round
      <4> QED
        OBVIOUS
    <3> HIDE DEF h, Round
    <3> QED
      BY <3>3, <3>4
  <2> HIDE DEF h, Round
  <2> QED
    BY <2>1, <2>5
<1>2. F = [i \in 0 .. Len(d) |-> Round(F, i)]
  <2> HIDE DEF Round
  <2>1. \E f : f = [i \in 0 .. Len(d) |-> Round(f, i)]
    BY <1>1
  <2> QED
    BY <2>1
<1>3. Loop(k, d, young) = F[Len(d)]
  BY DEF Loop
<1> HIDE DEF F
<1>4. F[0] = first /\ \A i \in 1 .. Len(d) : F[i] = Segment(F[i - 1], d[i], young)
  <2>1. \A i \in 0 .. Len(d) : F[i] = Round(F, i)
    <3> HIDE DEF Round
    <3> QED
      BY <1>2
  <2> HIDE DEF first
  <2>2. 0 \in 0 .. Len(d) /\ \A i \in 1 .. Len(d) : i \in 0 .. Len(d) /\ i # 0
    OBVIOUS
  <2> QED
    BY <2>1, <2>2
<1> QED
  BY <1>3, <1>4

\* A whole datagram.
LEMMA LoopDone ==
    ASSUME NEW k, NEW n \in 0 .. MaxMsgs, NEW g \in Seq(Message), NEW r, NEW h,
           NEW m \in 0 .. MaxMsgs, Side(k, n, g, r, h, m), RcvOf(r, h) \in Offsets,
           NEW d \in Seq(SegmentType),
           \A i \in 1 .. Len(d) : Answer(d[i], r, h, NxtOf(k, n)) /\ Pushed(d[i], m),
           NEW young
    PROVE  /\ Side(Loop(k, d, young).k, n, g, r, h, m)
           /\ NxtOf(Loop(k, d, young).k, n) = NxtOf(k, n)
           /\ Later(k, g, Loop(k, d, young).k, g)
<1>1. Len(d) \in Nat /\ \A i \in 1 .. Len(d) : d[i] \in SegmentType
  BY LenProperties, ElementOfSeq
<1>2. PICK f : /\ Loop(k, d, young) = f[Len(d)]
               /\ f[0].k = k
               /\ \A i \in 1 .. Len(d) : f[i] = Segment(f[i - 1], d[i], young)
  BY <1>1, LoopRounds
<1> DEFINE Ok(q) == Side(q, n, g, r, h, m) /\ NxtOf(q, n) = NxtOf(k, n) /\ Later(k, g, q, g)
           Bad == {i \in 0 .. Len(d) : ~Ok(f[i].k)}
<1>3. Ok(k)
  <2>1. RcvOf(k, g) \in Nat
    BY Queues, LenProperties DEF RcvOf, Side
  <2> QED
    BY <2>1 DEF Later
<1>4. ASSUME NEW i \in 1 .. Len(d), Ok(f[i - 1].k) PROVE Ok(f[i].k)
  <2> DEFINE q == Segment(f[i - 1], d[i], young).k
  <2>1. Answer(d[i], r, h, NxtOf(f[i - 1].k, n)) /\ Pushed(d[i], m) /\ d[i] \in SegmentType
    BY <1>1, <1>4
  <2>2. Side(q, n, g, r, h, m) /\ NxtOf(q, n) = NxtOf(f[i - 1].k, n) /\ Later(f[i - 1].k, g, q, g)
    BY <1>4, <2>1, SegmentDone
  <2>3. f[i].k = q
    BY <1>2
  <2> HIDE DEF q
  <2>4. Later(k, g, q, g)
    <3>0. ASSUME NEW t \in End PROVE RcvOf(t, g) \in Nat
      BY Queues, LenProperties DEF RcvOf
    <3>1. RcvOf(k, g) \in Nat /\ RcvOf(f[i - 1].k, g) \in Nat /\ RcvOf(q, g) \in Nat
      BY <1>3, <1>4, <2>2, <3>0 DEF Side
    <3> QED
      BY <1>4, <2>2, <3>1 DEF Later
  <2> QED
    BY <1>4, <2>2, <2>3, <2>4
<1> HIDE DEF Ok
<1>5. Bad = {}
  <2> SUFFICES ASSUME Bad # {} PROVE FALSE
    OBVIOUS
  <2>1. Bad \in SUBSET Nat
    BY <1>1
  <2>2. PICK i \in Bad : \A j \in Bad : i <= j
    <3> HIDE DEF Bad
    <3> QED
      BY <2>1, NatMin
  <2>3. i # 0 /\ i \in 0 .. Len(d)
    BY <1>2, <1>3, <2>2
  <2>4. i \in 1 .. Len(d) /\ i - 1 \in 0 .. Len(d) /\ ~(i <= i - 1)
    BY <1>1, <2>3
  <2>5. Ok(f[i - 1].k)
    BY <2>2, <2>4
  <2> QED
    BY <1>4, <2>2, <2>4, <2>5
<1>6. Ok(f[Len(d)].k)
  BY <1>1, <1>5
<1> QED
  BY <1>2, <1>6 DEF Ok

-----------------------------------------------------------------------------
\* What an end k that has read g sends, when its peer has sent the first m messages
\* and k itself the first nxt.
Output(out, nxt, k, g, m) ==
    /\ out \in Seq(SegmentType)
    /\ \A i \in 1 .. Len(out) : Pushed(out[i], nxt) /\ Answer(out[i], k, g, m)

\* Two outputs one after the other.
LEMMA Joined ==
    ASSUME NEW a, NEW b, NEW nxt, NEW k, NEW g, NEW m,
           Output(a, nxt, k, g, m), Output(b, nxt, k, g, m)
    PROVE  Output(a \o b, nxt, k, g, m)
<1>1. a \in Seq(SegmentType) /\ b \in Seq(SegmentType) /\ Len(a) \in Nat /\ Len(b) \in Nat
  BY LenProperties DEF Output
<1>2. /\ a \o b \in Seq(SegmentType) /\ Len(a \o b) = Len(a) + Len(b)
      /\ \A i \in 1 .. Len(a) + Len(b) : (a \o b)[i] = IF i <= Len(a) THEN a[i] ELSE b[i - Len(a)]
  BY <1>1, ConcatProperties
<1> DEFINE c == a \o b
<1>3. ASSUME NEW i \in 1 .. Len(a) + Len(b) PROVE Pushed(c[i], nxt) /\ Answer(c[i], k, g, m)
  <2>1. CASE i <= Len(a)
    <3>1. i \in 1 .. Len(a) /\ c[i] = a[i]
      BY <1>1, <1>2, <2>1
    <3> QED
      BY <3>1 DEF Output
  <2>2. CASE ~(i <= Len(a))
    <3>1. i - Len(a) \in 1 .. Len(b) /\ c[i] = b[i - Len(a)]
      BY <1>1, <1>2, <2>2
    <3> QED
      BY <3>1 DEF Output
  <2> QED
    BY <2>1, <2>2
<1> QED
  BY <1>2, <1>3 DEF Output

\* The number of messages received in order.
LEMMA RcvCount ==
    ASSUME NEW k \in End, NEW g \in Seq(Message), NEW m \in 0 .. MaxMsgs, Receiver(k, g, m)
    PROVE  RcvOf(k, g) \in Nat /\ RcvOf(k, g) <= m /\ RcvOf(k, g) \in Offsets
<1>1. RcvOf(k, g) \in Nat
  BY Queues, LenProperties DEF RcvOf
<1>2. RcvOf(k, g) <= m
  BY DEF Receiver, Buffered
<1> QED
  BY <1>1, <1>2, Constants DEF Offsets

\* The fields every segment has.
LEMMA HeaderSent ==
    ASSUME NEW k \in End, NEW g \in Seq(Message), NEW m \in 0 .. MaxMsgs, Receiver(k, g, m),
           NEW cmd \in {"ack", "push", "wask", "wins"}, NEW sn \in SeqNos,
           NEW data \in Message \cup {NoMsg},
           cmd = "ack" => Known(k, g, m, sn)
    PROVE  /\ Header(k, cmd, sn, data) \in SegmentType
           /\ Answer(Header(k, cmd, sn, data), k, g, m)
           /\ Header(k, cmd, sn, data).cmd = cmd
           /\ Header(k, cmd, sn, data).sn = sn
           /\ Header(k, cmd, sn, data).data = data
<1> DEFINE s == Header(k, cmd, sn, data)
<1>1. WndUnused(k) \in 0 .. RcvWnd
  <2>1. Len(k.RcvQueue) \in Nat /\ RcvWnd \in Nat
    BY Queues, Constants
  <2> QED
    BY <2>1 DEF WndUnused
<1>2. k.RcvNxt = N(RcvOf(k, g)) /\ k.RcvNxt \in SeqNos
  BY DEF Receiver, Buffered, End
<1>3. s = [cmd |-> cmd, sn |-> sn, una |-> k.RcvNxt, wnd |-> WndUnused(k), data |-> data]
  BY DEF Header
<1>4. RcvOf(k, g) \in 0 .. RcvOf(k, g)
  BY RcvCount
<1> HIDE DEF s
<1>5. s \in SegmentType
  BY <1>1, <1>2, <1>3 DEF SegmentType
<1>6. s.cmd = cmd /\ s.sn = sn /\ s.data = data /\ s.una = N(RcvOf(k, g))
  BY <1>2, <1>3
<1>7. Answer(s, k, g, m)
  BY <1>4, <1>6 DEF Answer
<1> QED
  BY <1>5, <1>6, <1>7 DEF s

\* The acks an end sends.
LEMMA AcksSent ==
    ASSUME NEW k \in End, NEW g \in Seq(Message), NEW m \in 0 .. MaxMsgs,
           Receiver(k, g, m), Acking(k, g, m), NEW nxt
    PROVE  Output(Acks(k), nxt, k, g, m)
<1> DEFINE n == Len(k.Acklist)
           S == {i \in 1 .. n : i = n \/ Diff(k.Acklist[i], k.RcvNxt) >= 0}
           told == Ascending(S)
           out == [j \in DOMAIN told |-> Header(k, "ack", k.Acklist[told[j]], NoMsg)]
<1>1. Acks(k) = out
  BY DEF Acks
<1>2. n \in Nat /\ \A i \in 1 .. n : k.Acklist[i] \in SeqNos
  BY Queues
<1>3. S \in SUBSET (0 .. n) /\ S \subseteq 1 .. n
  BY <1>2
<1> HIDE DEF S
<1>4. /\ Cardinality(S) \in Nat /\ DOMAIN told = 1 .. Cardinality(S)
      /\ \A j \in 1 .. Cardinality(S) : told[j] \in S
  BY <1>2, <1>3, Listed
<1> HIDE DEF told
<1>5. ASSUME NEW j \in DOMAIN told
      PROVE  out[j] \in SegmentType /\ Pushed(out[j], nxt) /\ Answer(out[j], k, g, m)
  <2> DEFINE sn == k.Acklist[told[j]]
             s == Header(k, "ack", sn, NoMsg)
  <2>1. told[j] \in 1 .. n
    BY <1>3, <1>4
  <2>2. sn \in SeqNos /\ Known(k, g, m, sn)
    BY <1>2, <2>1 DEF Acking
  <2>3. out[j] = s
    OBVIOUS
  <2> HIDE DEF sn, out
  <2>4. s \in SegmentType /\ Answer(s, k, g, m) /\ s.cmd = "ack"
    BY <2>2, HeaderSent
  <2> HIDE DEF s
  <2>5. Pushed(s, nxt)
    BY <2>4 DEF Pushed
  <2> QED
    BY <2>3, <2>4, <2>5
<1>6. out \in Seq(SegmentType) /\ Len(out) = Cardinality(S)
  <2>1. out = [j \in 1 .. Cardinality(S) |-> out[j]]
    BY <1>4
  <2>2. \A j \in 1 .. Cardinality(S) : out[j] \in SegmentType
    BY <1>4, <1>5
  <2> HIDE DEF out
  <2> QED
    BY <1>4, <2>1, <2>2
<1> HIDE DEF out
<1> QED
  BY <1>1, <1>4, <1>5, <1>6 DEF Output

\* Pending acks leave with the datagram.
LEMMA AckFlushed ==
    ASSUME NEW k \in End
    PROVE  LET q == AckFlush(k).k
           IN  /\ q = [k EXCEPT !.Acklist = <<>>] /\ AckFlush(k).out = Acks(k)
               /\ q \in End /\ SameSender(k, q) /\ SameReceiver(k, q) /\ q.Acklist = <<>>
<1> DEFINE q == [k EXCEPT !.Acklist = <<>>]
<1>1. AckFlush(k).k = q /\ AckFlush(k).out = Acks(k)
  BY DEF AckFlush
<1>2. q \in End /\ SameSender(k, q) /\ SameReceiver(k, q) /\ q.Acklist = <<>>
  <2>1. <<>> \in Seq(SeqNos)
    OBVIOUS
  <2>2. q \in End
    BY <2>1 DEF End
  <2> QED
    BY <2>2 DEF End, SameSender, SameReceiver
<1> QED
  BY <1>1, <1>2

\* Neither window is exceeded.
LEMMA WindowBound ==
    ASSUME NEW k \in End
    PROVE  Window(k) \in Nat /\ Window(k) <= SndWnd /\ Window(k) <= RcvWnd
<1> DEFINE S == {SndWnd, k.RmtWnd} \cup (IF Nocwnd THEN {} ELSE {k.Cwnd})
<1>1. SndWnd \in Nat /\ k.RmtWnd \in Nat /\ k.RmtWnd <= RcvWnd /\ k.Cwnd \in Nat /\ RcvWnd \in Nat
  BY Constants DEF End, Cwnds, SeqNos
<1>2. S \in SUBSET Nat /\ SndWnd \in S /\ k.RmtWnd \in S
  BY <1>1
<1>3. Window(k) = Min(S)
  BY DEF Window
<1> HIDE DEF S
<1>4. \E x \in S : \A y \in S : x <= y
  BY <1>2, NatMin
<1>5. Min(S) \in S /\ \A y \in S : Min(S) <= y
  BY <1>4 DEF Min
<1>6. Min(S) \in Nat /\ Min(S) <= SndWnd /\ Min(S) <= k.RmtWnd
  BY <1>2, <1>5
<1> QED
  BY <1>1, <1>3, <1>6

\* What a flush moves into SndBuf is within the peer's window.
LEMMA AdmitDone ==
    ASSUME NEW k \in End, NEW n \in 0 .. MaxMsgs, Sender(k, n),
           NEW r, NEW h, Knows(k, n, r, h), RcvOf(r, h) \in Nat
    PROVE  /\ Admit(k) \in End
           /\ Sender(Admit(k), n) /\ Knows(Admit(k), n, r, h)
           /\ NxtOf(k, n) <= NxtOf(Admit(k), n) /\ NxtOf(Admit(k), n) <= n
           /\ NxtOf(Admit(k), n) \in Nat
           /\ SameReceiver(k, Admit(k)) /\ Admit(k).Acklist = k.Acklist
           /\ Admitted(k) \in 0 .. Len(k.SndQueue)
           /\ Len(Admit(k).SndBuf) = Len(k.SndBuf) + Admitted(k)
           /\ \A i \in 1 .. Len(k.SndBuf) : Admit(k).SndBuf[i] = k.SndBuf[i]
<1> DEFINE a == UnaOf(k, n)
           b == Len(k.SndBuf)
           l == Len(k.SndQueue)
           w == Window(k)
           S == {x \in 0 .. l : \A i \in 1 .. x : Diff(U32(k.SndNxt + i - 1), U32(k.SndUna + w)) < 0}
           m == Max(S)
           added == [i \in 1 .. m |-> [SN |-> U32(k.SndNxt + i - 1), data |-> k.SndQueue[i],
                                       Fastack |-> 0, Acked |-> FALSE]]
           buf == k.SndBuf \o added
           queue == DropFront(k.SndQueue, m)
           q == [k EXCEPT !.SndBuf = buf, !.SndQueue = queue, !.SndNxt = U32(k.SndNxt + m)]
<1>1. /\ a \in Nat /\ b \in Nat /\ l \in Nat /\ a + b = NxtOf(k, n) /\ a + b + l = n
      /\ n \in Nat /\ n <= MaxMsgs
      /\ MaxMsgs \in Nat /\ SndWnd \in Nat /\ RcvWnd \in Nat
  <2>1. /\ a \in Nat /\ b \in Nat /\ a = NxtOf(k, n) - b /\ NxtOf(k, n) \in Nat
        /\ NxtOf(k, n) = n - l /\ l \in Nat
        /\ n \in Nat /\ n <= MaxMsgs
        /\ MaxMsgs \in Nat /\ SndWnd \in Nat /\ RcvWnd \in Nat
    BY Counts
  <2> HIDE DEF a, b, l
  <2> QED
    BY <2>1
<1>2. /\ k.SndNxt = N(a + b) /\ k.SndUna = N(a)
      /\ \A i \in 1 .. l : k.SndQueue[i] = (a + b) + i
      /\ \A i \in 1 .. b : k.SndBuf[i].SN = N(a + i - 1) /\ k.SndBuf[i].data = a + i
  BY <1>1 DEF Sender
<1>3. w \in Nat /\ w <= SndWnd /\ w <= RcvWnd
  BY WindowBound
<1>4. a <= RcvOf(r, h) /\ a + b <= RcvOf(r, h) + RcvWnd
  BY <1>1 DEF Knows
<1>5. Admitted(k) = m /\ Admit(k) = q
  BY DEF Admit, Admitted, Leading
<1> HIDE DEF a, b, l, w
<1>6. m \in S
  <2>1. 0 \in S
    BY <1>1
  <2>2. S \in SUBSET (0 .. l) /\ S # {}
    BY <2>1
  <2> HIDE DEF S
  <2> QED
    BY <1>1, <2>2, MaxOf
<1> HIDE DEF m
<1>7. m \in Nat /\ m <= l /\ \A i \in 1 .. m : Diff(U32(k.SndNxt + i - 1), U32(k.SndUna + w)) < 0
  BY <1>1, <1>6
<1>8. \A i \in 1 .. m : U32(k.SndNxt + i - 1) = N((a + b) + i - 1)
  <2> TAKE i \in 1 .. m
  <2>1. i - 1 \in Int /\ a + b \in Int /\ N(a + b) + i - 1 = N(a + b) + (i - 1)
        /\ (a + b) + (i - 1) = (a + b) + i - 1
    <3>1. N(a + b) \in Int
      BY <1>1, Numbers DEF SeqNos
    <3> QED
      BY <1>1, <3>1
  <2>2. U32(N(a + b) + (i - 1)) = N((a + b) + (i - 1))
    BY <2>1, Numbers
  <2> QED
    BY <1>2, <2>1, <2>2
<1>9. a + b + m <= RcvOf(r, h) + RcvWnd /\ b + m <= SndWnd /\ b + m <= RcvWnd
  <2>1. CASE m = 0
    <3>1. b <= SndWnd /\ b <= RcvWnd
      BY DEF Sender, Flight, b
    <3> QED
      BY <1>1, <1>4, <2>1, <3>1
  <2>2. CASE m > 0
    <3>1. m \in 1 .. m
      BY <1>7, <2>2
    <3>2. U32(k.SndUna + w) = N(a + w)
      BY <1>1, <1>2, <1>3, Numbers
    <3>3. Diff(N((a + b) + m - 1), N(a + w)) < 0
      BY <1>7, <1>8, <3>1, <3>2
    <3>4. (a + b) + m - 1 \in Offsets /\ a + w \in Offsets
      BY <1>1, <1>3, <1>7, <2>2 DEF Offsets
    <3> DEFINE x == (a + b) + m - 1
               y == a + w
    <3>5. x - y < 0
      <4>1. x \in Offsets /\ y \in Offsets /\ Diff(N(x), N(y)) < 0
        BY <3>3, <3>4
      <4> HIDE DEF x, y
      <4> QED
        BY <4>1, Numbers
    <3> QED
      BY <1>1, <1>3, <1>4, <1>7, <3>5
  <2> QED
    BY <1>7, <2>1, <2>2
<1>10. /\ added \in Seq(SndSeg) /\ Len(added) = m
       /\ \A i \in 1 .. m : /\ added[i].SN = N((a + b) + i - 1)
                            /\ added[i].data = (a + b) + i
                            /\ ~added[i].Acked /\ added[i].Fastack = 0
  <2>1. ASSUME NEW i \in 1 .. m
        PROVE  /\ added[i] \in SndSeg
               /\ added[i].SN = N((a + b) + i - 1)
               /\ added[i].data = (a + b) + i
               /\ ~added[i].Acked /\ added[i].Fastack = 0
    <3>1. i \in 1 .. l /\ (a + b) + i - 1 \in Nat /\ (a + b) + i \in Message
      BY <1>1, <1>7 DEF Message
    <3>2. added[i] = [SN |-> N((a + b) + i - 1), data |-> (a + b) + i, Fastack |-> 0, Acked |-> FALSE]
      BY <1>2, <1>8, <3>1
    <3>3. N((a + b) + i - 1) \in SeqNos /\ 0 \in 0 .. FastCap
      <4> DEFINE x == (a + b) + i - 1
      <4>1. x \in Nat
        BY <3>1
      <4> HIDE DEF x
      <4>2. N(x) \in SeqNos
        BY <4>1, Numbers
      <4>3. 0 \in 0 .. FastCap
        BY Constants DEF FastCap
      <4> QED
        BY <4>2, <4>3 DEF x
    <3> HIDE DEF added
    <3> QED
      BY <3>1, <3>2, <3>3 DEF SndSeg
  <2>2. added = [i \in 1 .. m |-> added[i]]
    OBVIOUS
  <2> HIDE DEF added
  <2>3. added \in Seq(SndSeg) /\ Len(added) = m
    BY <1>7, <2>1, <2>2
  <2> QED
    BY <2>1, <2>3
<1> HIDE DEF added
<1>11. /\ buf \in Seq(SndSeg) /\ Len(buf) = b + m
       /\ \A i \in 1 .. b + m : buf[i] = IF i <= b THEN k.SndBuf[i] ELSE added[i - b]
  <2> DEFINE s == k.SndBuf
  <2>1. s \in Seq(SndSeg) /\ Len(s) = b
    BY DEF End, b
  <2> HIDE DEF s
  <2> SUFFICES /\ s \o added \in Seq(SndSeg) /\ Len(s \o added) = b + m
               /\ \A i \in 1 .. b + m : (s \o added)[i] = IF i <= b THEN s[i] ELSE added[i - b]
    BY DEF s
  <2> QED
    BY <1>1, <1>7, <1>10, <2>1, ConcatProperties
<1> HIDE DEF buf
<1>12. /\ queue \in Seq(Message) /\ Len(queue) = l - m
       /\ \A i \in 1 .. l - m : queue[i] = (a + b + m) + i
  <2>1. /\ queue \in Seq(Message) /\ Len(queue) = l - m
        /\ \A i \in 1 .. l - m : queue[i] = k.SndQueue[m + i]
    <3>1. m \in 0 .. Len(k.SndQueue) /\ l = Len(k.SndQueue) /\ k.SndQueue \in Seq(Message)
      BY <1>6 DEF l, End
    <3> QED
      BY <3>1, Dropped
  <2>2. \A i \in 1 .. l - m : m + i \in 1 .. l /\ (a + b) + (m + i) = (a + b + m) + i
    BY <1>1, <1>7
  <2> HIDE DEF queue
  <2> QED
    BY <1>2, <2>1, <2>2
<1> HIDE DEF queue
<1>13. U32(k.SndNxt + m) = N(a + b + m) /\ N(a + b + m) \in SeqNos
  <2> DEFINE c == a + b
  <2>1. c \in Int /\ m \in Int /\ c + m \in Nat /\ k.SndNxt = N(c)
    BY <1>1, <1>2, <1>7
  <2> HIDE DEF c
  <2>2. U32(N(c) + m) = N(c + m) /\ N(c + m) \in SeqNos
    BY <2>1, Numbers
  <2> QED
    BY <2>1, <2>2 DEF c
<1>14. /\ q \in End /\ q.SndBuf = buf /\ q.SndQueue = queue /\ q.SndNxt = N(a + b + m)
       /\ q.SndUna = N(a) /\ SameReceiver(k, q) /\ q.Acklist = k.Acklist
  <2>1. q \in End
    BY <1>11, <1>12, <1>13 DEF End
  <2> QED
    BY <1>2, <1>13, <2>1 DEF End, SameReceiver
<1> HIDE DEF q
<1>15. NxtOf(q, n) = a + b + m /\ UnaOf(q, n) = a
  <2>1. NxtOf(q, n) = n - (l - m)
    BY <1>12, <1>14 DEF NxtOf
  <2>2. UnaOf(q, n) = NxtOf(q, n) - (b + m)
    BY <1>11, <1>14 DEF UnaOf
  <2> QED
    BY <1>1, <1>7, <2>1, <2>2
<1>16. ASSUME NEW i \in 1 .. b + m
       PROVE  /\ buf[i].SN = N(a + i - 1) /\ buf[i].data = a + i
              /\ buf[i].Acked => i \in 1 .. b /\ k.SndBuf[i].Acked
              /\ buf[i].Fastack > 0 => i < b + m
  <2>1. CASE i <= b
    <3>1. i \in 1 .. b
      BY <1>1, <1>7, <2>1
    <3>2. k.SndBuf[i].Fastack > 0 => i < b
      BY <3>1 DEF Sender, Flight, b
    <3>3. i < b => i < b + m
      BY <1>1, <1>7
    <3> QED
      BY <1>2, <1>11, <2>1, <3>1, <3>2, <3>3
  <2>2. CASE ~(i <= b)
    <3>1. i - b \in 1 .. m /\ (a + b) + (i - b) = a + i /\ (a + b) + (i - b) - 1 = a + i - 1
      BY <1>1, <1>7, <2>2
    <3> QED
      BY <1>10, <1>11, <2>2, <3>1
  <2> QED
    BY <2>1, <2>2
<1>17. Sender(q, n)
  <2>1. Flight(q)
    BY <1>9, <1>11, <1>14, <1>16 DEF Flight
  <2> QED
    BY <1>1, <1>11, <1>12, <1>14, <1>15, <1>16, <2>1 DEF Sender
<1>18. Knows(q, n, r, h)
  <2>1. ASSUME NEW i \in 1 .. b + m, buf[i].Acked PROVE Arrived(r, h, buf[i].data)
    <3>1. i \in 1 .. b /\ k.SndBuf[i].Acked /\ buf[i].data = k.SndBuf[i].data
      BY <1>2, <1>16, <2>1
    <3> QED
      BY <3>1 DEF Knows, b
  <2> QED
    BY <1>4, <1>9, <1>11, <1>14, <1>15, <2>1 DEF Knows
<1>19. NxtOf(k, n) <= NxtOf(q, n) /\ NxtOf(q, n) <= n /\ NxtOf(q, n) \in Nat
  BY <1>1, <1>7, <1>15
<1>20. Len(q.SndBuf) = b + m /\ \A i \in 1 .. b : q.SndBuf[i] = k.SndBuf[i]
  <2>1. \A i \in 1 .. b : i \in 1 .. b + m /\ i <= b
    BY <1>1, <1>7
  <2> QED
    BY <1>11, <1>14, <2>1
<1> QED
  BY <1>5, <1>6, <1>14, <1>17, <1>18, <1>19, <1>20 DEF l, b

\* The bound on the congestion window.
LEMMA Bounds ==
    /\ Bound \in Int /\ RcvWnd <= Bound /\ SndWnd \div 2 + Fastresend <= Bound
<1> DEFINE x == RcvWnd
           y == SndWnd \div 2 + Fastresend
<1>1. x \in Int /\ y \in Int
  BY Constants
<1>2. Bound = Max({x, y})
  BY DEF Bound
<1> HIDE DEF x, y
<1>3. Max({x, y}) \in {x, y} /\ Max({x, y}) >= x /\ Max({x, y}) >= y
  BY <1>1, OfTwo
<1> DEFINE b == Max({x, y})
<1>4. b \in Int /\ x <= b /\ y <= b
  <2>1. b \in {x, y} /\ b >= x /\ b >= y
    BY <1>3
  <2> HIDE DEF b
  <2> QED
    BY <1>1, <2>1
<1> QED
  BY <1>2, <1>4 DEF x, y

\* The number of segments in SndBuf, counted by sequence numbers.
LEMMA InFlightCount ==
    ASSUME NEW k \in End, NEW n \in 0 .. MaxMsgs, Sender(k, n)
    PROVE  /\ SegsInFlight(k) = Len(k.SndBuf) /\ Len(k.SndBuf) \in Nat
           /\ Len(k.SndBuf) <= SndWnd /\ Len(k.SndBuf) <= RcvWnd
<1> DEFINE a == UnaOf(k, n)
           b == Len(k.SndBuf)
<1>1. /\ a \in Nat /\ b \in Nat /\ NxtOf(k, n) \in Nat /\ a = NxtOf(k, n) - b
      /\ NxtOf(k, n) <= MaxMsgs
      /\ MaxMsgs \in Nat /\ SndWnd \in Nat /\ RcvWnd \in Nat
  <2>1. /\ a \in Nat /\ b \in Nat /\ a = NxtOf(k, n) - b /\ NxtOf(k, n) \in Nat
        /\ NxtOf(k, n) = n - Len(k.SndQueue) /\ Len(k.SndQueue) \in Nat
        /\ n \in Nat /\ n <= MaxMsgs
        /\ MaxMsgs \in Nat /\ SndWnd \in Nat /\ RcvWnd \in Nat
    BY Counts
  <2> HIDE DEF a, b
  <2> QED
    BY <2>1
<1>2. b <= SndWnd /\ b <= RcvWnd
  BY DEF Sender, Flight
<1>3. k.SndNxt = N(NxtOf(k, n)) /\ k.SndUna = N(a)
  BY DEF Sender
<1> DEFINE x == NxtOf(k, n)
           d == U32(N(x) - N(a))
<1>4. SegsInFlight(k) = d /\ Diff(N(x), N(a)) = IF 2 * d < SNMod THEN d ELSE d - SNMod
  BY <1>3 DEF SegsInFlight, Diff
<1>5. N(x) \in SeqNos /\ N(a) \in SeqNos
  BY <1>1, Numbers
<1>6. d \in 0 .. SNMod - 1 /\ SNMod \in Nat
  <2> DEFINE y == N(x) - N(a)
  <2>1. y \in Int /\ d = y % SNMod /\ SNMod \in Nat
    BY <1>5, Constants DEF SeqNos, U32
  <2> HIDE DEF y, d
  <2> QED
    BY <2>1, Quotient
<1> HIDE DEF a, b, x
<1>7. Diff(N(x), N(a)) = x - a
  <2>1. x \in Offsets /\ a \in Offsets
    BY <1>1 DEF Offsets, x
  <2> QED
    BY <2>1, Numbers
<1> HIDE DEF d
<1>8. d = b
  <2>1. x - a = b
    BY <1>1 DEF x
  <2> QED
    BY <1>1, <1>4, <1>6, <1>7, <2>1
<1> QED
  BY <1>1, <1>2, <1>4, <1>8 DEF b

\* The congestion window follows, and nothing else.  The sum of thresh and Resent does
\* not wrap to a large number: if Resent is 2^32 - 1, thresh is at least 1.
LEMMA CongestionDone ==
    ASSUME NEW k \in End, NEW n \in 0 .. MaxMsgs, Sender(k, n),
           NEW wnd \in 0 .. SndWnd, NEW lost \in BOOLEAN, NEW change \in BOOLEAN,
           change /\ Fastresend <= 0 => Len(k.SndBuf) >= 2
    PROVE  LET q == Congestion(k, wnd, lost, change)
           IN  q \in End /\ SameSender(k, q) /\ SameReceiver(k, q) /\ q.Acklist = k.Acklist
<1> DEFINE thresh == SegsInFlight(k) \div 2
           cwnd == CASE change -> U32(thresh + Resent)
                     [] ~change /\ lost -> 1
                     [] OTHER -> k.Cwnd
           t == IF change THEN thresh ELSE IF lost THEN wnd \div 2 ELSE k.Ssthresh
           c == Max({1, cwnd})
           q == [k EXCEPT !.Ssthresh = t, !.Cwnd = c]
<1>1. /\ SNMod \in Nat /\ SNMod > 2 /\ SndWnd \in Nat /\ SndWnd < SNMod /\ Fastresend \in Int
      /\ k.Cwnd \in SeqNos /\ k.Ssthresh \in SeqNos
  <2>1. /\ SndWnd \in Nat \ {0} /\ RcvWnd \in Nat \ {0} /\ SNMod \in Nat /\ MaxMsgs \in Nat
        /\ 2 * (MaxMsgs + SndWnd + RcvWnd) < SNMod /\ Fastresend \in Int
    BY Constants
  <2>2. k.Cwnd \in SeqNos /\ k.Ssthresh \in SeqNos
    BY DEF End, Cwnds
  <2> QED
    BY <2>1, <2>2
<1>0. /\ thresh \in Nat /\ thresh <= RcvWnd /\ thresh <= SndWnd \div 2
      /\ change /\ Fastresend <= 0 => thresh >= 1
  <2> DEFINE b == Len(k.SndBuf)
  <2>1. SegsInFlight(k) = b /\ b \in Nat /\ b <= SndWnd /\ b <= RcvWnd /\ RcvWnd \in Nat
    BY InFlightCount, Constants
  <2>2. thresh = b \div 2
    BY <2>1
  <2>3. change /\ Fastresend <= 0 => b >= 2
    OBVIOUS
  <2> HIDE DEF b, thresh
  <2> QED
    BY <1>1, <2>1, <2>2, <2>3
<1>2. thresh \in SeqNos
  <2> DEFINE x == k.SndNxt - k.SndUna
             y == SegsInFlight(k)
  <2>1. x \in Int
    BY <1>1 DEF End, SeqNos
  <2>2. y = x % SNMod
    BY DEF SegsInFlight, U32
  <2> HIDE DEF x, y
  <2>3. y \in 0 .. SNMod - 1
    BY <2>1, <2>2, Quotient
  <2>4. y \div 2 \in 0 .. SNMod - 1
    BY <1>1, <2>3
  <2> QED
    BY <2>4 DEF y, SeqNos
<1>3. U32(thresh + Resent) \in SeqNos
  <2> DEFINE x == thresh + Resent
  <2>1. x \in Int
    BY <1>1, <1>2 DEF Resent, SeqNos
  <2> HIDE DEF x
  <2>2. x % SNMod \in 0 .. SNMod - 1
    BY <2>1, Quotient
  <2> QED
    BY <2>2 DEF x, U32, SeqNos
<1>10. change => U32(thresh + Resent) <= Bound
  <2> HIDE DEF thresh
  <2> SUFFICES ASSUME change PROVE U32(thresh + Resent) <= Bound
    OBVIOUS
  <2> DEFINE x == thresh + Resent
             y == x % SNMod
  <2>1. U32(thresh + Resent) = y
    BY DEF U32
  <2>2. CASE Fastresend > 0
    <3>1. x = thresh + Fastresend
      BY <1>1, <2>2 DEF Resent
    <3>2. x \in Nat /\ x <= SndWnd \div 2 + Fastresend
      BY <1>0, <1>1, <2>2, <3>1
    <3> HIDE DEF x
    <3>3. y <= x
      BY <1>1, <3>2
    <3>4. y \in Int /\ SndWnd \div 2 + Fastresend \in Int
      BY <1>1, <3>2
    <3> HIDE DEF y
    <3> QED
      BY <2>1, <3>2, <3>3, <3>4, Bounds
  <2>3. CASE Fastresend <= 0
    <3>1. x = thresh + (SNMod - 1)
      BY <1>1, <2>3 DEF Resent
    <3>2. thresh >= 1 /\ thresh \in Nat /\ thresh <= RcvWnd /\ RcvWnd \in Nat /\ RcvWnd < SNMod
      <4>1. /\ SndWnd \in Nat /\ RcvWnd \in Nat /\ SNMod \in Nat /\ MaxMsgs \in Nat
            /\ 2 * (MaxMsgs + SndWnd + RcvWnd) < SNMod
        BY Constants
      <4> QED
        BY <1>0, <2>3, <4>1
    <3>3. x = (thresh - 1) + SNMod /\ thresh - 1 \in 0 .. SNMod - 1
      BY <1>1, <3>1, <3>2
    <3> HIDE DEF x
    <3>4. y = thresh - 1
      BY <1>1, <3>3
    <3> HIDE DEF y
    <3> QED
      BY <2>1, <3>2, <3>4, Bounds
  <2> QED
    BY <1>1, <2>2, <2>3
<1>4. cwnd \in SeqNos /\ cwnd <= Bound
  <2> HIDE DEF thresh
  <2>1. CASE change
    <3>1. cwnd = U32(thresh + Resent)
      BY <2>1
    <3> QED
      BY <1>3, <1>10, <2>1, <3>1
  <2>2. CASE ~change /\ lost
    <3>1. cwnd = 1
      BY <2>2
    <3>2. 1 <= Bound
      <4>1. RcvWnd \in Nat \ {0}
        BY Constants
      <4> QED
        BY <4>1, Bounds
    <3> QED
      BY <1>1, <3>1, <3>2 DEF SeqNos
  <2>3. CASE ~change /\ ~lost
    <3>1. cwnd = k.Cwnd
      BY <2>3
    <3>2. k.Cwnd <= Bound
      BY DEF End, Cwnds
    <3> QED
      BY <1>1, <3>1, <3>2
  <2> QED
    BY <2>1, <2>2, <2>3
<1> HIDE DEF cwnd
<1>5. c \in Cwnds
  <2>1. cwnd \in Int /\ 1 \in SeqNos
    BY <1>1, <1>4 DEF SeqNos
  <2> DEFINE one == 1
  <2>2. c \in {one, cwnd}
    <3>1. one \in Int /\ c = Max({one, cwnd})
      OBVIOUS
    <3> HIDE DEF one, c
    <3> QED
      BY <2>1, <3>1, OfTwo
  <2>3. 1 <= Bound
    <3>1. RcvWnd \in Nat \ {0}
      BY Constants
    <3> QED
      BY <3>1, Bounds
  <2> HIDE DEF c
  <2> QED
    BY <1>4, <2>1, <2>2, <2>3 DEF Cwnds
<1>6. t \in SeqNos
  <2> HIDE DEF thresh
  <2>1. wnd \div 2 \in SeqNos
    BY <1>1 DEF SeqNos
  <2> QED
    BY <1>1, <1>2, <2>1
<1>7. Congestion(k, wnd, lost, change) = IF Nocwnd THEN k ELSE q
  BY DEF Congestion, cwnd
<1> HIDE DEF c, t
<1>8. q \in End
  BY <1>5, <1>6 DEF End
<1>9. SameSender(k, q) /\ SameReceiver(k, q) /\ q.Acklist = k.Acklist
  BY DEF End, SameSender, SameReceiver
<1> HIDE DEF q
<1> QED
  BY <1>7, <1>8, <1>9 DEF SameSender, SameReceiver

\* What does not change the sender's queues.
LEMMA SentSame ==
    ASSUME NEW k, NEW q, SameSender(k, q), NEW n
    PROVE  /\ NxtOf(q, n) = NxtOf(k, n) /\ UnaOf(q, n) = UnaOf(k, n)
           /\ Sender(k, n) => Sender(q, n)
           /\ \A r, h : Knows(k, n, r, h) => Knows(q, n, r, h)
<1>1. NxtOf(q, n) = NxtOf(k, n) /\ UnaOf(q, n) = UnaOf(k, n)
  BY DEF NxtOf, UnaOf, SameSender
<1> QED
  BY <1>1 DEF Sender, Flight, Knows, SameSender

\* A flush keeps what holds of an end, and what it sends is true.
LEMMA FlushDone ==
    ASSUME NEW k, NEW n \in 0 .. MaxMsgs, NEW g \in Seq(Message), NEW r, NEW h,
           NEW m \in 0 .. MaxMsgs, Side(k, n, g, r, h, m), RcvOf(r, h) \in Nat,
           NEW due, NEW probe
    PROVE  LET f == Flush(k, due, probe)
           IN  /\ Side(f.k, n, g, r, h, m)
               /\ NxtOf(k, n) <= NxtOf(f.k, n) /\ NxtOf(f.k, n) <= n /\ NxtOf(f.k, n) \in Nat
               /\ Later(k, g, f.k, g)
               /\ Output(f.out, NxtOf(f.k, n), k, g, m)
<1> DEFINE k1 == [AckFlush(k).k EXCEPT !.ProbeWait = (k.RmtWnd = 0), !.Probe = FALSE]
           k2 == Admit(k1)
           old == Len(k1.SndBuf)
           Fast(s) == s.Fastack >= Resent \/ (s.Fastack > 0 /\ Admitted(k1) = 0)
           Goes(i) == ~k2.SndBuf[i].Acked
                         /\ (i > old \/ Fast(k2.SndBuf[i]) \/ k2.SndBuf[i].SN \in due)
           Fasts == {i \in 1 .. old : Goes(i) /\ Fast(k2.SndBuf[i])}
           Losts == {i \in 1 .. old : Goes(i)} \ Fasts
           buf == [i \in DOMAIN k2.SndBuf |->
                     IF Goes(i) THEN [k2.SndBuf[i] EXCEPT !.Fastack = 0] ELSE k2.SndBuf[i]]
           k3 == [k2 EXCEPT !.SndBuf = buf]
           index == Ascending({i \in DOMAIN k3.SndBuf : Goes(i)})
           k4 == Congestion(k3, Window(k1), Losts # {}, Fasts # {})
           wask == IF Asks(k, probe) THEN <<Header(k, "wask", 0, NoMsg)>> ELSE <<>>
           wins == IF k.Probe THEN <<Header(k, "wins", 0, NoMsg)>> ELSE <<>>
           push == [j \in DOMAIN index |->
                      Header(k, "push", k3.SndBuf[index[j]].SN, k3.SndBuf[index[j]].data)]
<1>1. Flush(k, due, probe) = [k |-> k4, out |-> Acks(k) \o wask \o wins \o push]
  BY DEF Flush
<1>2. /\ k \in End /\ Sender(k, n) /\ Knows(k, n, r, h) /\ Receiver(k, g, m) /\ Acking(k, g, m)
  BY DEF Side
<1>3. k1 \in End /\ SameSender(k, k1) /\ SameReceiver(k, k1) /\ k1.Acklist = <<>>
  <2> DEFINE q == AckFlush(k).k
  <2>1. q \in End /\ SameSender(k, q) /\ SameReceiver(k, q) /\ q.Acklist = <<>>
    BY <1>2, AckFlushed
  <2> HIDE DEF q
  <2>2. k1 = [q EXCEPT !.ProbeWait = (k.RmtWnd = 0), !.Probe = FALSE]
    BY DEF q
  <2>3. k1 \in End
    BY <2>1, <2>2 DEF End
  <2>4. SameSender(q, k1) /\ SameReceiver(q, k1) /\ k1.Acklist = q.Acklist
    BY <2>1, <2>2 DEF End, SameSender, SameReceiver
  <2> QED
    BY <2>1, <2>3, <2>4 DEF SameSender, SameReceiver
<1> HIDE DEF k1
<1>4. Sender(k1, n) /\ Knows(k1, n, r, h) /\ NxtOf(k1, n) = NxtOf(k, n)
  BY <1>2, <1>3, SentSame
<1>5. /\ k2 \in End /\ Sender(k2, n) /\ Knows(k2, n, r, h)
      /\ NxtOf(k, n) <= NxtOf(k2, n) /\ NxtOf(k2, n) <= n /\ NxtOf(k2, n) \in Nat
      /\ SameReceiver(k1, k2) /\ k2.Acklist = k1.Acklist
      /\ Len(k2.SndBuf) = old + Admitted(k1)
      /\ \A i \in 1 .. old : k2.SndBuf[i] = k1.SndBuf[i]
      /\ Admitted(k1) \in 0 .. Len(k1.SndQueue)
  BY <1>3, <1>4, AdmitDone
<1> HIDE DEF k2
<1>6. /\ Len(k2.SndBuf) \in Nat /\ \A i \in 1 .. Len(k2.SndBuf) : k2.SndBuf[i] \in SndSeg
      /\ DOMAIN k2.SndBuf = 1 .. Len(k2.SndBuf)
  BY <1>5, Queues, LenProperties DEF End
<1>7. /\ buf \in Seq(SndSeg) /\ Len(buf) = Len(k2.SndBuf)
      /\ \A i \in 1 .. Len(buf) : /\ buf[i].SN = k2.SndBuf[i].SN
                                  /\ buf[i].data = k2.SndBuf[i].data
                                  /\ buf[i].Acked = k2.SndBuf[i].Acked
                                  /\ buf[i].Fastack \in {0, k2.SndBuf[i].Fastack}
  <2> HIDE DEF Goes
  <2>1. ASSUME NEW i \in 1 .. Len(k2.SndBuf)
        PROVE  /\ buf[i] \in SndSeg /\ buf[i].SN = k2.SndBuf[i].SN
               /\ buf[i].data = k2.SndBuf[i].data /\ buf[i].Acked = k2.SndBuf[i].Acked
               /\ buf[i].Fastack \in {0, k2.SndBuf[i].Fastack}
    <3>1. 0 \in 0 .. FastCap
      BY Constants DEF FastCap
    <3>2. buf[i] = IF Goes(i) THEN [k2.SndBuf[i] EXCEPT !.Fastack = 0] ELSE k2.SndBuf[i]
      BY <1>6
    <3> QED
      BY <1>6, <3>1, <3>2 DEF SndSeg
  <2>2. buf = [i \in 1 .. Len(k2.SndBuf) |-> buf[i]]
    BY <1>6
  <2> HIDE DEF buf
  <2>3. buf \in Seq(SndSeg) /\ Len(buf) = Len(k2.SndBuf)
    <3> DEFINE b == Len(k2.SndBuf)
    <3>1. b \in Nat /\ buf = [i \in 1 .. b |-> buf[i]] /\ \A i \in 1 .. b : buf[i] \in SndSeg
      BY <1>6, <2>1, <2>2
    <3> HIDE DEF b
    <3>2. buf \in Seq(SndSeg) /\ Len(buf) = b
      BY <3>1
    <3> QED
      BY <3>2 DEF b
  <2> QED
    BY <2>1, <2>3
<1> HIDE DEF buf
<1>8. /\ k3 \in End /\ Sender(k3, n) /\ Knows(k3, n, r, h) /\ NxtOf(k3, n) = NxtOf(k2, n)
      /\ SameReceiver(k2, k3) /\ k3.Acklist = k2.Acklist /\ Len(k3.SndBuf) = Len(k2.SndBuf)
  <2>1. \A i \in 1 .. Len(buf) : buf[i].Acked => Arrived(r, h, buf[i].data)
    BY <1>5, <1>7 DEF Knows
  <2>2. \A i \in 1 .. Len(buf) : buf[i].Fastack > 0 => i < Len(buf)
    <3> DEFINE b == Len(buf)
    <3>1. \A i \in 1 .. b : k2.SndBuf[i].Fastack > 0 => i < b
      BY <1>5, <1>7 DEF Sender, Flight
    <3>2. ASSUME NEW i \in 1 .. b, buf[i].Fastack > 0 PROVE i < b
      <4>1. buf[i].Fastack = 0 \/ buf[i].Fastack = k2.SndBuf[i].Fastack
        BY <1>7
      <4>2. ~(0 > 0)
        OBVIOUS
      <4> HIDE DEF b
      <4> QED
        BY <3>1, <3>2, <4>1, <4>2
    <3> QED
      BY <3>2
  <2>3. k3.SndBuf = buf
    BY <1>5 DEF End
  <2> QED
    <3>1. /\ k2 \in End /\ Sender(k2, n) /\ Knows(k2, n, r, h)
          /\ buf \in Seq(SndSeg) /\ Len(buf) = Len(k2.SndBuf)
          /\ \A i \in 1 .. Len(buf) :
                /\ buf[i].SN = k2.SndBuf[i].SN /\ buf[i].data = k2.SndBuf[i].data
                /\ buf[i].Acked => Arrived(r, h, buf[i].data)
                /\ buf[i].Fastack > 0 => i < Len(buf)
      BY <1>5, <1>7, <2>1, <2>2
    <3>2. /\ k3 \in End /\ Sender(k3, n) /\ Knows(k3, n, r, h) /\ NxtOf(k3, n) = NxtOf(k2, n)
          /\ SameReceiver(k2, k3) /\ k3.Acklist = k2.Acklist
      BY <3>1, Marked
    <3> QED
      BY <1>7, <2>3, <3>2
<1> HIDE DEF k3
<1>9. k4 \in End /\ SameSender(k3, k4) /\ SameReceiver(k3, k4) /\ k4.Acklist = k3.Acklist
  <2> DEFINE w == Window(k1)
             lost == Losts # {}
             change == Fasts # {}
  <2>1. w \in 0 .. SndWnd
    BY <1>3, WindowBound, Constants
  <2>2. lost \in BOOLEAN /\ change \in BOOLEAN
    OBVIOUS
  <2>4. change /\ Fastresend <= 0 => Len(k3.SndBuf) >= 2
    <3> SUFFICES ASSUME change, Fastresend <= 0 PROVE Len(k3.SndBuf) >= 2
      OBVIOUS
    <3> HIDE DEF Goes
    <3>1. PICK i \in 1 .. old : Fast(k2.SndBuf[i])
      OBVIOUS
    <3>2. /\ old \in Nat /\ k1.SndBuf[i] \in SndSeg /\ k2.SndBuf[i] = k1.SndBuf[i]
          /\ (k1.SndBuf[i].Fastack > 0 => i < old)
          /\ Len(k3.SndBuf) = old + Admitted(k1) /\ Admitted(k1) \in Nat
      <4>1. Len(k1.SndQueue) \in Nat /\ old \in Nat /\ k1.SndBuf[i] \in SndSeg
        BY <1>3, Queues
      <4>2. k2.SndBuf[i] = k1.SndBuf[i]
        BY <1>5, <3>1
      <4>3. k1.SndBuf[i].Fastack > 0 => i < old
        BY <1>4, <3>1 DEF Sender, Flight
      <4>4. Len(k3.SndBuf) = old + Admitted(k1)
        BY <1>5, <1>8
      <4> DEFINE queued == Len(k1.SndQueue)
      <4>5. queued \in Nat /\ Admitted(k1) \in 0 .. queued
        BY <1>5, <4>1
      <4> HIDE DEF queued
      <4>6. Admitted(k1) \in Nat
        BY <4>5
      <4> QED
        BY <4>1, <4>2, <4>3, <4>4, <4>6
    <3>3. Resent > 1 /\ k1.SndBuf[i].Fastack \in 0 .. 1
      <4>1. Resent = SNMod - 1 /\ FastCap = 1
        BY DEF Resent, FastCap
      <4>2. SNMod > 2 /\ SNMod \in Nat
        <5>1. /\ SndWnd \in Nat \ {0} /\ RcvWnd \in Nat \ {0} /\ SNMod \in Nat /\ MaxMsgs \in Nat
              /\ 2 * (MaxMsgs + SndWnd + RcvWnd) < SNMod
          BY Constants
        <5> QED
          BY <5>1
      <4> QED
        BY <3>2, <4>1, <4>2 DEF SndSeg
    <3>4. k1.SndBuf[i].Fastack > 0
      <4> DEFINE f == k1.SndBuf[i].Fastack
      <4>1. f >= Resent \/ f > 0
        BY <3>1, <3>2
      <4>2. f \in 0 .. 1 /\ Resent > 1
        BY <3>3
      <4>3. Resent \in Int
        BY Constants DEF Resent
      <4> HIDE DEF f
      <4>4. f > 0
        BY <4>1, <4>2, <4>3
      <4> QED
        BY <4>4 DEF f
    <3> HIDE DEF old
    <3> QED
      BY <3>2, <3>4
  <2> HIDE DEF w, lost, change
  <2>3. LET q == Congestion(k3, w, lost, change)
        IN  q \in End /\ SameSender(k3, q) /\ SameReceiver(k3, q) /\ q.Acklist = k3.Acklist
    BY <1>8, <2>1, <2>2, <2>4, CongestionDone
  <2> QED
    BY <2>3 DEF w, lost, change
<1> HIDE DEF k4
<1>10. Sender(k4, n) /\ Knows(k4, n, r, h) /\ NxtOf(k4, n) = NxtOf(k2, n)
  BY <1>8, <1>9, SentSame
<1>11. SameReceiver(k, k4) /\ k4.Acklist = <<>>
  BY <1>3, <1>5, <1>8, <1>9 DEF SameReceiver
<1>12. Side(k4, n, g, r, h, m) /\ Later(k, g, k4, g)
  <2>1. /\ RcvOf(k4, g) = RcvOf(k, g) /\ Receiver(k4, g, m)
        /\ \A x : Arrived(k4, g, x) <=> Arrived(k, g, x)
    BY <1>2, <1>11, Untouched
  <2>2. Acking(k4, g, m)
    BY <1>11 DEF Acking
  <2>3. RcvOf(k, g) \in Nat
    BY <1>2, RcvCount
  <2> QED
    BY <1>9, <1>10, <2>1, <2>2, <2>3 DEF Side, Later
<1> DEFINE nxt == NxtOf(k4, n)
<1>13. Output(Acks(k), nxt, k, g, m)
  BY <1>2, AcksSent
<1>14. ASSUME NEW cmd \in {"wask", "wins"}
       PROVE  /\ Output(<<Header(k, cmd, 0, NoMsg)>>, nxt, k, g, m)
              /\ Output(<<>>, nxt, k, g, m)
  <2> DEFINE s == Header(k, cmd, 0, NoMsg)
  <2>1. 0 \in SeqNos
    BY Constants DEF SeqNos
  <2>2. s \in SegmentType /\ Answer(s, k, g, m) /\ s.cmd = cmd
    BY <1>2, <2>1, HeaderSent
  <2> HIDE DEF s, nxt
  <2>3. Pushed(s, nxt)
    BY <2>2 DEF Pushed
  <2>4. /\ <<s>> \in Seq(SegmentType) /\ Len(<<s>>) = 1 /\ <<s>>[1] = s
        /\ <<>> \in Seq(SegmentType) /\ Len(<<>>) = 0
    BY <2>2
  <2> HIDE DEF Answer, Pushed
  <2>5. Output(<<s>>, nxt, k, g, m)
    BY <2>2, <2>3, <2>4 DEF Output
  <2>6. Output(<<>>, nxt, k, g, m)
    BY <2>4 DEF Output
  <2> QED
    BY <2>5, <2>6 DEF s
<1>15. Output(wask, nxt, k, g, m) /\ Output(wins, nxt, k, g, m)
  <2> HIDE DEF nxt
  <2> QED
    BY <1>14
<1>16. Output(push, nxt, k, g, m)
  <2> DEFINE S == {i \in DOMAIN k3.SndBuf : Goes(i)}
             b == Len(k3.SndBuf)
  <2>1. b \in Nat /\ DOMAIN k3.SndBuf = 1 .. b
    BY <1>8, Queues, LenProperties DEF End
  <2> HIDE DEF Goes
  <2>2. S \in SUBSET (0 .. b) /\ S \subseteq 1 .. b
    BY <2>1
  <2> HIDE DEF S
  <2>3. index = Ascending(S)
    BY DEF S
  <2> HIDE DEF index
  <2>4. /\ Cardinality(S) \in Nat /\ DOMAIN index = 1 .. Cardinality(S)
        /\ \A j \in 1 .. Cardinality(S) : index[j] \in S
    BY <2>1, <2>2, <2>3, Listed
  <2>5. ASSUME NEW i \in 1 .. b
        PROVE  /\ k3.SndBuf[i].data \in 1 .. nxt /\ k3.SndBuf[i].data \in Message
               /\ k3.SndBuf[i].SN = N(k3.SndBuf[i].data - 1) /\ k3.SndBuf[i].SN \in SeqNos
    <3> DEFINE a == UnaOf(k3, n)
    <3>1. /\ a \in Nat /\ a = NxtOf(k3, n) - b /\ NxtOf(k3, n) \in Nat /\ NxtOf(k3, n) = nxt
          /\ NxtOf(k3, n) <= MaxMsgs /\ MaxMsgs \in Nat
      <4>1. NxtOf(k3, n) = nxt
        BY <1>8, <1>10
      <4>2. a \in Nat /\ a = NxtOf(k3, n) - b /\ NxtOf(k3, n) \in Nat
        BY <1>8, Counts
      <4>3. NxtOf(k3, n) <= MaxMsgs /\ MaxMsgs \in Nat
        <5>1. NxtOf(k3, n) = NxtOf(k2, n) /\ NxtOf(k2, n) <= n /\ n \in Nat /\ n <= MaxMsgs
          BY <1>5, <1>8, Constants
        <5> QED
          BY <1>5, <5>1, Constants
      <4> QED
        BY <4>1, <4>2, <4>3
    <3>2. k3.SndBuf[i].SN = N(a + i - 1) /\ k3.SndBuf[i].data = a + i
      BY <1>8 DEF Sender
    <3>3. k3.SndBuf[i].SN \in SeqNos
      BY <1>8, Queues DEF SndSeg
    <3> HIDE DEF a, nxt, b
    <3>4. a + i \in 1 .. nxt /\ a + i \in Message /\ a + i - 1 = (a + i) - 1
      BY <2>1, <3>1 DEF Message
    <3> QED
      BY <3>2, <3>3, <3>4
  <2>6. ASSUME NEW j \in 1 .. Cardinality(S)
        PROVE  push[j] \in SegmentType /\ Pushed(push[j], nxt) /\ Answer(push[j], k, g, m)
    <3> DEFINE sn == k3.SndBuf[index[j]].SN
               x == k3.SndBuf[index[j]].data
               s == Header(k, "push", sn, x)
    <3>1. index[j] \in 1 .. b
      BY <2>2, <2>4
    <3>2. x \in 1 .. nxt /\ x \in Message /\ sn = N(x - 1) /\ sn \in SeqNos
      BY <2>5, <3>1
    <3>3. push[j] = s
      BY <2>4
    <3> HIDE DEF sn, x, nxt, push
    <3>4. s \in SegmentType /\ Answer(s, k, g, m) /\ s.cmd = "push" /\ s.sn = sn /\ s.data = x
      BY <1>2, <3>2, HeaderSent
    <3> HIDE DEF s
    <3>5. Pushed(s, nxt)
      BY <3>2, <3>4 DEF Pushed
    <3> QED
      BY <3>3, <3>4, <3>5
  <2>7. push \in Seq(SegmentType) /\ Len(push) = Cardinality(S)
    <3>1. push = [j \in 1 .. Cardinality(S) |-> push[j]]
      BY <2>4
    <3> HIDE DEF push
    <3> QED
      BY <2>4, <2>6, <3>1
  <2> HIDE DEF push, nxt
  <2> QED
    BY <2>6, <2>7 DEF Output
<1> HIDE DEF wask, wins, push, nxt
<1>17. Output(Acks(k) \o wask \o wins \o push, nxt, k, g, m)
  <2>1. Output(Acks(k) \o wask, nxt, k, g, m)
    BY <1>13, <1>15, Joined
  <2>2. Output((Acks(k) \o wask) \o wins, nxt, k, g, m)
    BY <1>15, <2>1, Joined
  <2>3. Output(((Acks(k) \o wask) \o wins) \o push, nxt, k, g, m)
    BY <1>16, <2>2, Joined
  <2> QED
    BY <2>3
<1> QED
  BY <1>1, <1>5, <1>10, <1>12, <1>17 DEF nxt

-----------------------------------------------------------------------------
\* There are two ends.
LEMMA Peers ==
    ASSUME NEW e \in Ends
    PROVE  /\ Peer(e) \in Ends /\ Peer(e) # e /\ Peer(Peer(e)) = e
           /\ \A x \in Ends : x = e \/ x = Peer(e)
<1>1. PICK a, b \in Ends : a # b /\ Ends = {a, b}
  BY KcpAssumption, Zenon
<1>2. \A x \in Ends : \E p \in Ends : p # x
  BY <1>1
<1>3. \A x \in Ends : Peer(x) \in Ends /\ Peer(x) # x
  BY <1>2 DEF Peer
<1> QED
  BY <1>1, <1>3

\* A datagram is a part of what is sent that fits.
LEMMA Cut ==
    ASSUME NEW out \in Seq(SegmentType), NEW d \in Datagrams(out)
    PROVE  d \in Datagram /\ \A i \in 1 .. Len(d) : \E j \in 1 .. Len(out) : d[i] = out[j]
<1> DEFINE l == Len(out)
<1>1. l \in Nat /\ Mtu \in Nat /\ Mtu > 0 /\ \A j \in 1 .. l : out[j] \in SegmentType
  BY LenProperties, ElementOfSeq, Constants
<1>2. PICK n \in 0 .. l : n * Mtu < l /\ d = SubSeq(out, n * Mtu + 1, Min({(n + 1) * Mtu, l}))
  BY DEF Datagrams
<1> DEFINE a == n * Mtu
           b == (n + 1) * Mtu
           c == Min({b, l})
<1>3. a \in Nat /\ b = a + Mtu /\ a < l
  <2>1. n \in Nat
    BY <1>1
  <2>2. (n + 1) * Mtu = n * Mtu + Mtu /\ n * Mtu \in Nat
    BY <1>1, <2>1
  <2> QED
    BY <1>2, <2>2
<1> HIDE DEF a, b, l
<1>4. c \in {b, l} /\ c <= b /\ c <= l
  <2>1. b \in Int /\ l \in Int
    BY <1>1, <1>3
  <2> QED
    BY <2>1, OfTwo
<1> HIDE DEF c
<1>5. c \in Nat /\ c > a /\ c - a <= Mtu
  BY <1>1, <1>3, <1>4
<1>6. d = SubSeq(out, a + 1, c)
  BY <1>2 DEF a, b, c, l
<1>7. /\ d \in Seq(SegmentType) /\ Len(d) = c - a
      /\ \A i \in 1 .. c - a : d[i] = out[a + i]
  <2>1. \A i \in a + 1 .. c : out[i] \in SegmentType
    BY <1>1, <1>3, <1>4, <1>5
  <2>2. a + 1 \in Nat /\ c \in Nat /\ a + 1 <= c + 1 /\ c - (a + 1) + 1 = c - a
    BY <1>3, <1>5
  <2> QED
    BY <1>3, <1>5, <1>6, <2>1, <2>2, SubSeqProperties
<1>8. d \in Datagram
  BY <1>1, <1>3, <1>5, <1>7 DEF Datagram
<1>9. \A i \in 1 .. c - a : a + i \in 1 .. l
  BY <1>1, <1>3, <1>4, <1>5
<1> QED
  BY <1>7, <1>8, <1>9 DEF l

\* What holds of a receiver holds when its peer has sent more.
LEMMA Further ==
    ASSUME NEW k \in End, NEW g \in Seq(Message), NEW nxt \in Nat, NEW to \in Nat, nxt <= to
    PROVE  /\ Receiver(k, g, nxt) => Receiver(k, g, to)
           /\ \A sn : Known(k, g, nxt, sn) => Known(k, g, to, sn)
           /\ Acking(k, g, nxt) => Acking(k, g, to)
           /\ \A s : Pushed(s, nxt) => Pushed(s, to)
           /\ \A s : Answer(s, k, g, nxt) => Answer(s, k, g, to)
<1>1. \A x \in 1 .. nxt : x \in 1 .. to
  OBVIOUS
<1>2. \A sn : Known(k, g, nxt, sn) => Known(k, g, to, sn)
  BY <1>1 DEF Known
<1>3. Receiver(k, g, nxt) => Receiver(k, g, to)
  <2> SUFFICES ASSUME Receiver(k, g, nxt) PROVE Receiver(k, g, to)
    OBVIOUS
  <2> DEFINE c == RcvOf(k, g)
  <2>1. c <= nxt /\ c \in Nat
    BY Queues, LenProperties DEF Receiver, Buffered, RcvOf
  <2> HIDE DEF c
  <2>2. c <= to /\ \A x \in c + 1 .. nxt : x \in c + 1 .. to
    BY <2>1
  <2> QED
    BY <2>2 DEF Receiver, Buffered, c
<1>4. Acking(k, g, nxt) => Acking(k, g, to)
  BY <1>2 DEF Acking
<1>5. \A s : Pushed(s, nxt) => Pushed(s, to)
  BY <1>1 DEF Pushed
<1>6. \A s : Answer(s, k, g, nxt) => Answer(s, k, g, to)
  BY <1>2 DEF Answer
<1> QED
  BY <1>2, <1>3, <1>4, <1>5, <1>6

\* An answer stays true of a receiver that has more.
LEMMA AnswerLater ==
    ASSUME NEW k, NEW g, NEW q, NEW h, Later(k, g, q, h),
           RcvOf(k, g) \in Nat, RcvOf(q, h) \in Nat,
           NEW m \in Nat, NEW s, Answer(s, k, g, m)
    PROVE  Answer(s, q, h, m)
<1>1. PICK u \in 0 .. RcvOf(k, g) : s.una = N(u)
  BY DEF Answer
<1>2. u \in 0 .. RcvOf(q, h)
  BY DEF Later
<1>3. s.cmd = "ack" => Known(q, h, m, s.sn)
  BY KnownLater DEF Answer
<1> QED
  BY <1>1, <1>2, <1>3 DEF Answer

\* What the invariant says of an end and its peer.
LEMMA Current ==
    ASSUME IInv, NEW e \in Ends
    PROVE  LET p == Peer(e)
               nxt == NxtOf(kcp[e], sent[e])
               m == NxtOf(kcp[p], sent[p])
           IN  /\ p \in Ends
               /\ kcp[e] \in End /\ kcp[p] \in End
               /\ got[e] \in Seq(Message) /\ got[p] \in Seq(Message)
               /\ sent[e] \in 0 .. MaxMsgs /\ sent[p] \in 0 .. MaxMsgs
               /\ nxt \in 0 .. MaxMsgs /\ nxt <= sent[e]
               /\ m \in 0 .. MaxMsgs
               /\ Side(kcp[e], sent[e], got[e], kcp[p], got[p], m)
               /\ Side(kcp[p], sent[p], got[p], kcp[e], got[e], nxt)
               /\ RcvOf(kcp[e], got[e]) \in Nat /\ RcvOf(kcp[e], got[e]) \in Offsets
               /\ RcvOf(kcp[p], got[p]) \in Nat /\ RcvOf(kcp[p], got[p]) \in Offsets
<1> DEFINE p == Peer(e)
           nxt == NxtOf(kcp[e], sent[e])
           m == NxtOf(kcp[p], sent[p])
<1>1. p \in Ends /\ Peer(p) = e
  BY Peers
<1> HIDE DEF p
<1>2. /\ kcp[e] \in End /\ kcp[p] \in End
      /\ got[e] \in Seq(Message) /\ got[p] \in Seq(Message)
      /\ sent[e] \in 0 .. MaxMsgs /\ sent[p] \in 0 .. MaxMsgs
  BY <1>1 DEF IInv, Shape
<1>3. /\ Sender(kcp[e], sent[e]) /\ Receiver(kcp[p], got[p], nxt)
      /\ Knows(kcp[e], sent[e], kcp[p], got[p]) /\ Acking(kcp[p], got[p], nxt)
  BY DEF IInv, Direction, p
<1>4. /\ Sender(kcp[p], sent[p]) /\ Receiver(kcp[e], got[e], m)
      /\ Knows(kcp[p], sent[p], kcp[e], got[e]) /\ Acking(kcp[e], got[e], m)
  <2>1. Direction(p)
    BY <1>1 DEF IInv
  <2> QED
    BY <1>1, <2>1 DEF Direction
<1> HIDE DEF nxt, m
<1>5. nxt \in 0 .. MaxMsgs /\ nxt <= sent[e]
  <2>1. nxt \in Nat /\ nxt = sent[e] - Len(kcp[e].SndQueue) /\ Len(kcp[e].SndQueue) \in Nat
        /\ sent[e] \in Nat /\ sent[e] <= MaxMsgs /\ MaxMsgs \in Nat
    BY <1>2, <1>3, Counts DEF nxt
  <2> QED
    BY <2>1
<1>6. m \in 0 .. MaxMsgs
  <2>1. m \in Nat /\ m = sent[p] - Len(kcp[p].SndQueue) /\ Len(kcp[p].SndQueue) \in Nat
        /\ sent[p] \in Nat /\ sent[p] <= MaxMsgs /\ MaxMsgs \in Nat
    BY <1>2, <1>4, Counts DEF m
  <2> QED
    BY <2>1
<1>7. /\ Side(kcp[e], sent[e], got[e], kcp[p], got[p], m)
      /\ Side(kcp[p], sent[p], got[p], kcp[e], got[e], nxt)
  BY <1>2, <1>3, <1>4 DEF Side
<1>8. /\ RcvOf(kcp[e], got[e]) \in Nat /\ RcvOf(kcp[e], got[e]) \in Offsets
      /\ RcvOf(kcp[p], got[p]) \in Nat /\ RcvOf(kcp[p], got[p]) \in Offsets
  BY <1>2, <1>3, <1>4, <1>5, <1>6, RcvCount
<1> QED
  BY <1>1, <1>2, <1>5, <1>6, <1>7, <1>8 DEF p, nxt, m

\* A step of one end: it sends, receives, and its application writes or reads.
LEMMA Moves ==
    ASSUME IInv, NEW e \in Ends, NEW k, NEW n \in 0 .. MaxMsgs, NEW g \in Seq(Message), NEW out,
           NEW arrived \in SUBSET net[e], NEW kept \in SUBSET Datagrams(out),
           Side(k, n, g, kcp[Peer(e)], got[Peer(e)], NxtOf(kcp[Peer(e)], sent[Peer(e)])),
           NxtOf(kcp[e], sent[e]) <= NxtOf(k, n), NxtOf(k, n) \in Nat,
           Later(kcp[e], got[e], k, g),
           Output(out, NxtOf(k, n), k, g, NxtOf(kcp[Peer(e)], sent[Peer(e)])),
           \A i \in 1 .. Len(g) : g[i] = i,
           kcp' = [kcp EXCEPT ![e] = k],
           net' = [net EXCEPT ![e] = arrived, ![Peer(e)] = net[Peer(e)] \cup kept],
           sent' = [sent EXCEPT ![e] = n],
           got' = [got EXCEPT ![e] = g]
    PROVE  IInv'
<1> DEFINE p == Peer(e)
           old == NxtOf(kcp[e], sent[e])
           nxt == NxtOf(k, n)
           m == NxtOf(kcp[p], sent[p])
<1>1. /\ p \in Ends /\ p # e /\ Peer(p) = e /\ \A x \in Ends : x = e \/ x = p
  BY Peers
<1>2. /\ kcp[p] \in End /\ got[p] \in Seq(Message) /\ sent[p] \in 0 .. MaxMsgs
      /\ old \in Nat /\ m \in 0 .. MaxMsgs /\ m \in Nat
      /\ Side(kcp[p], sent[p], got[p], kcp[e], got[e], old)
      /\ RcvOf(kcp[e], got[e]) \in Nat
  <2>1. old \in 0 .. MaxMsgs /\ m \in 0 .. MaxMsgs /\ MaxMsgs \in Nat
    BY Current, Constants
  <2> QED
    BY <2>1, Current
<1>3. /\ Side(k, n, g, kcp[p], got[p], m) /\ old <= nxt /\ nxt \in Nat
      /\ Output(out, nxt, k, g, m)
  OBVIOUS
<1>4. /\ kcp' = [kcp EXCEPT ![e] = k]
      /\ net' = [net EXCEPT ![e] = arrived, ![p] = net[p] \cup kept]
  OBVIOUS
<1>5. Direction(e) /\ Direction(p)
  BY <1>1 DEF IInv
<1>6. k \in End /\ RcvOf(k, g) \in Nat
  <2>1. k \in End
    BY <1>3 DEF Side
  <2> QED
    BY <2>1, Queues, LenProperties DEF RcvOf
<1>7. /\ \A d \in net[p] : \A i \in 1 .. Len(d) : Pushed(d[i], old)
      /\ \A d \in net[e] : \A i \in 1 .. Len(d) : Answer(d[i], kcp[p], got[p], old)
      /\ \A i \in 1 .. Len(got[p]) : got[p][i] = i
  BY <1>5 DEF Direction
<1>8. /\ \A d \in net[e] : \A i \in 1 .. Len(d) : Pushed(d[i], m)
      /\ \A d \in net[p] : \A i \in 1 .. Len(d) : Answer(d[i], kcp[e], got[e], m)
  BY <1>1, <1>5 DEF Direction
<1> HIDE DEF p, old, nxt, m
<1>9. /\ kcp \in [Ends -> End] /\ net \in [Ends -> SUBSET Datagram]
      /\ sent \in [Ends -> 0 .. MaxMsgs] /\ got \in [Ends -> Seq(Message)]
  BY DEF IInv, Shape
<1>10. \A d \in kept : /\ d \in Datagram
                      /\ \A i \in 1 .. Len(d) : Pushed(d[i], nxt) /\ Answer(d[i], k, g, m)
  <2> TAKE d \in kept
  <2>1. out \in Seq(SegmentType) /\ d \in Datagrams(out)
    BY <1>3 DEF Output
  <2>2. d \in Datagram /\ \A i \in 1 .. Len(d) : \E j \in 1 .. Len(out) : d[i] = out[j]
    BY <2>1, Cut
  <2> QED
    BY <1>3, <2>2 DEF Output
<1>11. /\ kcp'[e] = k /\ kcp'[p] = kcp[p] /\ sent'[e] = n /\ sent'[p] = sent[p]
       /\ got'[e] = g /\ got'[p] = got[p]
       /\ net'[e] = arrived /\ net'[p] = net[p] \cup kept
  BY <1>1, <1>4, <1>9
<1>12. Shape'
  <2>1. kcp' \in [Ends -> End] /\ sent' \in [Ends -> 0 .. MaxMsgs] /\ got' \in [Ends -> Seq(Message)]
    BY <1>4, <1>6, <1>9
  <2>2. arrived \in SUBSET Datagram /\ net[p] \cup kept \in SUBSET Datagram
    BY <1>1, <1>9, <1>10
  <2>3. net' \in [Ends -> SUBSET Datagram]
    BY <1>1, <1>4, <1>9, <2>2
  <2> QED
    BY <2>1, <2>3 DEF Shape
<1>13. Direction(e)'
  <2>1. Sender(k, n) /\ Knows(k, n, kcp[p], got[p])
    BY <1>3 DEF Side
  <2>2. Receiver(kcp[p], got[p], nxt) /\ Acking(kcp[p], got[p], nxt)
    BY <1>2, <1>3, Further DEF Side
  <2>3. \A d \in net[p] \cup kept : \A i \in 1 .. Len(d) : Pushed(d[i], nxt)
    BY <1>2, <1>3, <1>7, <1>10, Further
  <2>4. \A d \in arrived : \A i \in 1 .. Len(d) : Answer(d[i], kcp[p], got[p], nxt)
    BY <1>2, <1>3, <1>7, Further
  <2>5. LET P == Peer(e)
            x == NxtOf(kcp'[e], sent'[e])
        IN  /\ Sender(kcp'[e], sent'[e])
            /\ Receiver(kcp'[P], got'[P], x)
            /\ Knows(kcp'[e], sent'[e], kcp'[P], got'[P])
            /\ Acking(kcp'[P], got'[P], x)
            /\ \A d \in net'[P] : \A i \in 1 .. Len(d) : Pushed(d[i], x)
            /\ \A d \in net'[e] : \A i \in 1 .. Len(d) : Answer(d[i], kcp'[P], got'[P], x)
            /\ \A i \in 1 .. Len(got'[P]) : got'[P][i] = i
    BY <1>7, <1>11, <2>1, <2>2, <2>3, <2>4 DEF p, nxt
  <2> QED
    BY <2>5 DEF Direction
<1>14. Direction(p)'
  <2>1. Sender(kcp[p], sent[p])
    BY <1>2 DEF Side
  <2>2. Receiver(k, g, m) /\ Acking(k, g, m)
    BY <1>3 DEF Side
  <2>3. Knows(kcp[p], sent[p], k, g)
    <3>1. Knows(kcp[p], sent[p], kcp[e], got[e]) /\ kcp[p] \in End
      BY <1>2 DEF Side
    <3>2. RcvOf(kcp[e], got[e]) <= RcvOf(k, g)
      BY DEF Later
    <3>3. UnaOf(kcp[p], sent[p]) \in Int /\ NxtOf(kcp[p], sent[p]) \in Int /\ RcvWnd \in Int
      <4>1. UnaOf(kcp[p], sent[p]) \in Nat /\ NxtOf(kcp[p], sent[p]) \in Nat
        BY <1>2, <2>1, Counts
      <4> QED
        BY <4>1, Constants
    <3>4. UnaOf(kcp[p], sent[p]) <= RcvOf(k, g) /\ NxtOf(kcp[p], sent[p]) <= RcvOf(k, g) + RcvWnd
      <4>1. UnaOf(kcp[p], sent[p]) <= RcvOf(kcp[e], got[e]) /\ NxtOf(kcp[p], sent[p]) <= RcvOf(kcp[e], got[e]) + RcvWnd
        BY <3>1 DEF Knows
      <4> QED
        BY <1>2, <1>6, <3>2, <3>3, <4>1
    <3>5. ASSUME NEW i \in 1 .. Len(kcp[p].SndBuf), kcp[p].SndBuf[i].Acked
          PROVE  Arrived(k, g, kcp[p].SndBuf[i].data)
      <4>1. kcp[p].SndBuf[i].data \in Nat
        BY <3>1, Queues DEF SndSeg, Message
      <4>2. Arrived(kcp[e], got[e], kcp[p].SndBuf[i].data)
        BY <3>1, <3>5 DEF Knows
      <4> QED
        BY <4>1, <4>2 DEF Later
    <3> QED
      BY <3>4, <3>5 DEF Knows
  <2>4. \A d \in net[p] \cup kept : \A i \in 1 .. Len(d) : Answer(d[i], k, g, m)
    <3>1. \A d \in net[p] : \A i \in 1 .. Len(d) : Answer(d[i], k, g, m)
      BY <1>2, <1>6, <1>8, AnswerLater
    <3> QED
      BY <1>10, <3>1
  <2>5. \A d \in arrived : \A i \in 1 .. Len(d) : Pushed(d[i], m)
    BY <1>8
  <2>6. LET P == Peer(p)
            x == NxtOf(kcp'[p], sent'[p])
        IN  /\ Sender(kcp'[p], sent'[p])
            /\ Receiver(kcp'[P], got'[P], x)
            /\ Knows(kcp'[p], sent'[p], kcp'[P], got'[P])
            /\ Acking(kcp'[P], got'[P], x)
            /\ \A d \in net'[P] : \A i \in 1 .. Len(d) : Pushed(d[i], x)
            /\ \A d \in net'[p] : \A i \in 1 .. Len(d) : Answer(d[i], kcp'[P], got'[P], x)
            /\ \A i \in 1 .. Len(got'[P]) : got'[P][i] = i
    BY <1>1, <1>11, <2>1, <2>2, <2>3, <2>4, <2>5 DEF m
  <2> QED
    BY <2>6 DEF Direction, p
<1>15. ASSUME NEW x \in Ends PROVE Direction(x)'
  <2>1. CASE x = e
    BY <1>13, <2>1
  <2>2. CASE x = p
    BY <1>14, <2>2
  <2> QED
    BY <1>1, <2>1, <2>2
<1> QED
  BY <1>12, <1>15 DEF IInv

\* Later is transitive.
LEMMA LaterStill ==
    ASSUME NEW k \in End, NEW g \in Seq(Message), NEW q \in End, NEW h \in Seq(Message),
           NEW t \in End, NEW f \in Seq(Message), Later(k, g, q, h), Later(q, h, t, f)
    PROVE  Later(k, g, t, f)
<1>1. RcvOf(k, g) \in Nat /\ RcvOf(q, h) \in Nat /\ RcvOf(t, f) \in Nat
  <2>1. \A x \in End, y \in Seq(Message) : RcvOf(x, y) \in Nat
    BY Queues, LenProperties DEF RcvOf
  <2> QED
    BY <2>1
<1> QED
  BY <1>1 DEF Later

\* What an end sends stays true of it when it has more.
LEMMA OutputLater ==
    ASSUME NEW k \in End, NEW g \in Seq(Message), NEW q \in End, NEW h \in Seq(Message),
           Later(k, g, q, h), NEW m \in Nat, NEW nxt, NEW out, Output(out, nxt, k, g, m)
    PROVE  Output(out, nxt, q, h, m)
<1>1. RcvOf(k, g) \in Nat /\ RcvOf(q, h) \in Nat
  <2>1. \A x \in End, y \in Seq(Message) : RcvOf(x, y) \in Nat
    BY Queues, LenProperties DEF RcvOf
  <2> QED
    BY <2>1
<1> QED
  BY <1>1, AnswerLater DEF Output

\* A flush of an end in state k, which a datagram or the application has brought about.
LEMMA FlushStep ==
    ASSUME IInv, NEW e \in Ends, NEW k, NEW n \in 0 .. MaxMsgs, NEW arrived \in SUBSET net[e],
           Side(k, n, got[e], kcp[Peer(e)], got[Peer(e)], NxtOf(kcp[Peer(e)], sent[Peer(e)])),
           NxtOf(kcp[e], sent[e]) <= NxtOf(k, n), NxtOf(k, n) \in Nat,
           Later(kcp[e], got[e], k, got[e]),
           FlushNow(e, k, arrived),
           sent' = [sent EXCEPT ![e] = n], got' = got
    PROVE  IInv'
<1> DEFINE p == Peer(e)
           m == NxtOf(kcp[p], sent[p])
<1>1. PICK due \in SUBSET Unacked(k), probe \in BOOLEAN :
         \E kept \in SUBSET Datagrams(Flush(k, due, probe).out) :
            Emit(e, Flush(k, due, probe), arrived, kept)
  BY DEF FlushNow
<1> DEFINE f == Flush(k, due, probe)
<1>2. PICK kept \in SUBSET Datagrams(f.out) : Emit(e, f, arrived, kept)
  BY <1>1
<1>3. /\ kcp[e] \in End /\ got[e] \in Seq(Message) /\ RcvOf(kcp[p], got[p]) \in Nat
      /\ NxtOf(kcp[e], sent[e]) \in 0 .. MaxMsgs /\ m \in 0 .. MaxMsgs /\ m \in Nat
  <2>1. m \in 0 .. MaxMsgs /\ MaxMsgs \in Nat
    BY Current, Constants
  <2> QED
    BY <2>1, Current
<1>4. Side(k, n, got[e], kcp[p], got[p], m) /\ k \in End
  BY DEF Side
<1>5. /\ net' = [net EXCEPT ![e] = arrived, ![p] = net[p] \cup kept]
      /\ kcp' = [kcp EXCEPT ![e] = f.k]
  BY <1>2 DEF Emit
<1> HIDE DEF m
<1>6. /\ Side(f.k, n, got[e], kcp[p], got[p], m)
      /\ NxtOf(k, n) <= NxtOf(f.k, n) /\ NxtOf(f.k, n) \in Nat
      /\ Later(k, got[e], f.k, got[e])
      /\ Output(f.out, NxtOf(f.k, n), k, got[e], m)
  BY <1>3, <1>4, FlushDone
<1> HIDE DEF f
<1>7. f.k \in End
  BY <1>6 DEF Side
<1>8. /\ Later(kcp[e], got[e], f.k, got[e])
      /\ Output(f.out, NxtOf(f.k, n), f.k, got[e], m)
  BY <1>3, <1>4, <1>6, <1>7, LaterStill, OutputLater
<1>9. NxtOf(kcp[e], sent[e]) <= NxtOf(f.k, n)
  <2>1. NxtOf(kcp[e], sent[e]) \in Nat
    BY <1>3, Constants
  <2> QED
    BY <1>6, <2>1
<1>10. got' = [got EXCEPT ![e] = got[e]]
  BY DEF IInv, Shape
<1>11. \A i \in 1 .. Len(got[e]) : got[e][i] = i
  <2>1. Direction(p) /\ Peer(p) = e
    BY Peers DEF IInv
  <2> QED
    BY <2>1 DEF Direction
<1> QED
  BY <1>2, <1>3, <1>5, <1>6, <1>8, <1>9, <1>10, <1>11, Moves DEF m

\* The timed flush.
LEMMA UpdateStep ==
    ASSUME IInv, NEW e \in Ends, Update(e)
    PROVE  IInv'
<1> DEFINE p == Peer(e)
           m == NxtOf(kcp[p], sent[p])
<1>1. /\ Side(kcp[e], sent[e], got[e], kcp[p], got[p], m)
      /\ sent[e] \in 0 .. MaxMsgs /\ RcvOf(kcp[e], got[e]) \in Nat
      /\ NxtOf(kcp[e], sent[e]) \in 0 .. MaxMsgs
  BY Current
<1>2. NxtOf(kcp[e], sent[e]) \in Nat /\ NxtOf(kcp[e], sent[e]) <= NxtOf(kcp[e], sent[e])
  <2>1. \A x \in 0 .. MaxMsgs : x \in Nat /\ x <= x
    OBVIOUS
  <2> QED
    BY <1>1, <2>1
<1>3. Later(kcp[e], got[e], kcp[e], got[e])
  BY <1>1 DEF Later
<1>4. FlushNow(e, kcp[e], net[e]) /\ got' = got /\ sent' = sent
  BY DEF Update
<1>5. sent' = [sent EXCEPT ![e] = sent[e]]
  BY <1>4 DEF IInv, Shape
<1> QED
  BY <1>1, <1>2, <1>3, <1>4, <1>5, FlushStep

\* The application writes.
LEMMA WriteStep ==
    ASSUME IInv, NEW e \in Ends, NEW n \in 1 .. Batch, Write(e, n)
    PROVE  IInv'
<1> DEFINE p == Peer(e)
           m == NxtOf(kcp[p], sent[p])
           s == sent[e]
           pieces == [i \in 1 .. n |-> s + i]
           k == Send(kcp[e], pieces)
           l == Len(kcp[e].SndQueue)
           queue == kcp[e].SndQueue \o pieces
<1>1. /\ Side(kcp[e], s, got[e], kcp[p], got[p], m)
      /\ s \in 0 .. MaxMsgs /\ RcvOf(kcp[e], got[e]) \in Nat
      /\ NxtOf(kcp[e], s) \in 0 .. MaxMsgs
  BY Current
<1>2. kcp[e] \in End /\ Sender(kcp[e], s) /\ Knows(kcp[e], s, kcp[p], got[p])
      /\ Receiver(kcp[e], got[e], m) /\ Acking(kcp[e], got[e], m)
  BY <1>1 DEF Side
<1>3. /\ s + n <= MaxMsgs /\ FlushNow(e, k, net[e]) /\ got' = got
      /\ sent' = [sent EXCEPT ![e] = s + n]
  BY DEF Write
<1>4. /\ s \in Nat /\ n \in Nat /\ l \in Nat /\ MaxMsgs \in Nat /\ NxtOf(kcp[e], s) = s - l
      /\ NxtOf(kcp[e], s) \in Nat
  <2>1. NxtOf(kcp[e], s) = s - l
    BY DEF NxtOf
  <2>2. l \in Nat
    BY <1>2, Queues
  <2>3. MaxMsgs \in Nat /\ Batch \in Nat
    BY Constants
  <2> HIDE DEF s, l
  <2> QED
    BY <1>1, <2>1, <2>2, <2>3
<1> HIDE DEF m, s, l
<1>5. s + n \in 0 .. MaxMsgs
  BY <1>3, <1>4
<1>6. pieces \in Seq(Message) /\ Len(pieces) = n /\ \A i \in 1 .. n : pieces[i] = s + i
  <2>1. \A i \in 1 .. n : s + i \in Message
    BY <1>3, <1>4 DEF Message
  <2> QED
    BY <1>4, <2>1
<1> HIDE DEF pieces
<1>7. /\ queue \in Seq(Message) /\ Len(queue) = l + n
      /\ \A i \in 1 .. l + n : queue[i] = (s - l) + i
  <2> DEFINE old == kcp[e].SndQueue
  <2>1. old \in Seq(Message) /\ Len(old) = l /\ \A i \in 1 .. l : old[i] = (s - l) + i
    BY <1>2, <1>4 DEF End, Sender, l
  <2> HIDE DEF old
  <2> DEFINE both == old \o pieces
  <2>2. /\ both \in Seq(Message) /\ Len(both) = l + n
        /\ \A i \in 1 .. l + n : both[i] = IF i <= l THEN old[i] ELSE pieces[i - l]
    BY <1>4, <1>6, <2>1, ConcatProperties
  <2> HIDE DEF both
  <2>3. ASSUME NEW i \in 1 .. l + n PROVE both[i] = (s - l) + i
    <3>1. CASE i <= l
      <4>1. i \in 1 .. l
        BY <1>4, <3>1
      <4> QED
        BY <2>1, <2>2, <3>1, <4>1
    <3>2. CASE ~(i <= l)
      <4>1. i - l \in 1 .. n /\ s + (i - l) = (s - l) + i
        BY <1>4, <3>2
      <4> QED
        BY <1>6, <2>2, <3>2, <4>1
    <3> QED
      BY <3>1, <3>2
  <2> QED
    BY <2>2, <2>3 DEF both, old
<1> HIDE DEF queue
<1>8. k = [kcp[e] EXCEPT !.SndQueue = queue]
  BY DEF Send, queue
<1> HIDE DEF k
<1>9. /\ k \in End /\ k.SndQueue = queue /\ k.SndBuf = kcp[e].SndBuf /\ k.SndNxt = kcp[e].SndNxt
      /\ k.SndUna = kcp[e].SndUna /\ SameReceiver(kcp[e], k) /\ k.Acklist = kcp[e].Acklist
  <2>1. k \in End
    BY <1>2, <1>7, <1>8 DEF End
  <2> QED
    BY <1>2, <1>8, <2>1 DEF End, SameReceiver
<1>10. NxtOf(k, s + n) = NxtOf(kcp[e], s) /\ UnaOf(k, s + n) = UnaOf(kcp[e], s)
  <2>1. NxtOf(k, s + n) = (s + n) - (l + n)
    BY <1>7, <1>9 DEF NxtOf
  <2>2. NxtOf(k, s + n) = NxtOf(kcp[e], s)
    BY <1>4, <2>1
  <2> QED
    BY <1>9, <2>2 DEF UnaOf
<1>11. Sender(k, s + n)
  <2>1. Flight(k)
    BY <1>2, <1>9 DEF Sender, Flight
  <2> QED
    BY <1>2, <1>4, <1>7, <1>9, <1>10, <2>1 DEF Sender
<1>12. Knows(k, s + n, kcp[p], got[p])
  BY <1>2, <1>9, <1>10 DEF Knows
<1>13. Receiver(k, got[e], m) /\ Acking(k, got[e], m) /\ Later(kcp[e], got[e], k, got[e])
  <2>1. /\ RcvOf(k, got[e]) = RcvOf(kcp[e], got[e])
        /\ Receiver(k, got[e], m) /\ Acking(k, got[e], m)
        /\ \A x : Arrived(k, got[e], x) <=> Arrived(kcp[e], got[e], x)
    BY <1>2, <1>9, Untouched
  <2> QED
    BY <1>1, <2>1 DEF Later
<1>14. Side(k, s + n, got[e], kcp[p], got[p], m)
  BY <1>9, <1>11, <1>12, <1>13 DEF Side
<1>15. NxtOf(kcp[e], s) <= NxtOf(k, s + n) /\ NxtOf(k, s + n) \in Nat
  BY <1>4, <1>10
<1> QED
  BY <1>3, <1>5, <1>13, <1>14, <1>15, FlushStep DEF k, pieces, s, m

\* The application reads.
LEMMA ReadStep ==
    ASSUME IInv, NEW e \in Ends, Read(e)
    PROVE  IInv'
<1> DEFINE p == Peer(e)
           m == NxtOf(kcp[p], sent[p])
           k == kcp[e]
           g == got[e]
           l == Len(k.RcvQueue)
           h == Append(g, Head(k.RcvQueue))
           t == [k EXCEPT !.RcvQueue = Tail(k.RcvQueue)]
           r == MoveReady(t)
           q == Recv(k)
<1>1. /\ Side(k, sent[e], g, kcp[p], got[p], m)
      /\ sent[e] \in 0 .. MaxMsgs /\ RcvOf(k, g) \in Nat /\ g \in Seq(Message)
      /\ NxtOf(k, sent[e]) \in 0 .. MaxMsgs /\ m \in 0 .. MaxMsgs
  BY Current
<1>2. k \in End /\ Sender(k, sent[e]) /\ Knows(k, sent[e], kcp[p], got[p])
      /\ Receiver(k, g, m) /\ Acking(k, g, m)
  BY <1>1 DEF Side
<1>3. /\ l > 0 /\ got' = [got EXCEPT ![e] = h] /\ kcp' = [kcp EXCEPT ![e] = q]
      /\ net' = net /\ sent' = sent
  BY DEF Read, PeekSize
<1> HIDE DEF k, g, m
<1>4. /\ k.RcvQueue \in Seq(Message) /\ l \in Nat /\ Len(g) \in Nat
      /\ \A i \in 1 .. l : k.RcvQueue[i] = Len(g) + i
      /\ k.RcvNxt = N(RcvOf(k, g)) /\ RcvOf(k, g) = Len(g) + l /\ l <= RcvWnd
  BY <1>1, <1>2, Queues, LenProperties DEF End, Receiver, Buffered, RcvOf
<1>5. /\ Head(k.RcvQueue) = Len(g) + 1 /\ Head(k.RcvQueue) \in Message
      /\ Tail(k.RcvQueue) \in Seq(Message) /\ Len(Tail(k.RcvQueue)) = l - 1
      /\ \A i \in 1 .. l - 1 : Tail(k.RcvQueue)[i] = (Len(g) + 1) + i
  <2> DEFINE s == k.RcvQueue
  <2>1. s \in Seq(Message) /\ Len(s) = l /\ s # <<>>
    BY <1>3, <1>4, EmptySeq
  <2>2. \A i \in 1 .. l : s[i] = Len(g) + i
    BY <1>4
  <2> HIDE DEF s, l
  <2>3. /\ Head(s) = s[1] /\ Head(s) \in Message
        /\ Tail(s) \in Seq(Message) /\ Len(Tail(s)) = l - 1
        /\ \A i \in 1 .. l - 1 : Tail(s)[i] = s[i + 1]
    BY <1>4, <2>1, HeadTailProperties
  <2>4. 1 \in 1 .. l /\ \A i \in 1 .. l - 1 : i + 1 \in 1 .. l /\ Len(g) + (i + 1) = (Len(g) + 1) + i
    BY <1>3, <1>4
  <2>5. Head(s) = Len(g) + 1
    BY <2>2, <2>3, <2>4
  <2>6. \A i \in 1 .. l - 1 : Tail(s)[i] = (Len(g) + 1) + i
    BY <2>2, <2>3, <2>4
  <2> QED
    BY <2>3, <2>5, <2>6 DEF s
<1>6. /\ h \in Seq(Message) /\ Len(h) = Len(g) + 1
      /\ \A i \in 1 .. Len(h) : h[i] = i
  <2>1. \A i \in 1 .. Len(g) : g[i] = i
    <3>1. Direction(p) /\ Peer(p) = e
      BY Peers DEF IInv
    <3> QED
      BY <3>1 DEF Direction, g
  <2> DEFINE x == Head(k.RcvQueue)
  <2>2. x \in Message /\ x = Len(g) + 1
    BY <1>5
  <2> HIDE DEF x
  <2>3. /\ Append(g, x) \in Seq(Message) /\ Len(Append(g, x)) = Len(g) + 1
        /\ \A i \in 1 .. Len(g) : Append(g, x)[i] = g[i]
        /\ Append(g, x)[Len(g) + 1] = x
    BY <1>1, <2>2, AppendProperties
  <2>4. \A i \in 1 .. Len(g) + 1 : i \in 1 .. Len(g) \/ i = Len(g) + 1
    BY <1>4
  <2>5. \A i \in 1 .. Len(g) + 1 : Append(g, x)[i] = i
    BY <2>1, <2>2, <2>3, <2>4
  <2> QED
    BY <2>3, <2>5 DEF x
<1> HIDE DEF h
<1>7. /\ t \in End /\ t.RcvQueue = Tail(k.RcvQueue) /\ t.RcvBuf = k.RcvBuf /\ t.RcvNxt = k.RcvNxt
      /\ SameSender(k, t) /\ t.Acklist = k.Acklist
  <2>1. t \in End
    BY <1>2, <1>5 DEF End
  <2> QED
    BY <1>2, <2>1 DEF End, SameSender
<1> HIDE DEF t
<1>8. RcvOf(t, h) = RcvOf(k, g)
  <2>1. RcvOf(t, h) = (Len(g) + 1) + (l - 1)
    BY <1>5, <1>6, <1>7 DEF RcvOf
  <2> DEFINE b == Len(g)
  <2>2. b \in Nat /\ l \in Nat /\ RcvOf(k, g) = b + l /\ RcvOf(t, h) = (b + 1) + (l - 1)
    BY <1>4, <2>1
  <2> HIDE DEF b, l
  <2> QED
    BY <2>2
<1>9. Buffered(t, h, m)
  <2>1. Len(t.RcvQueue) <= RcvWnd
    <3>1. Len(t.RcvQueue) = l - 1 /\ l \in Nat /\ l <= RcvWnd /\ RcvWnd \in Nat
      BY <1>4, <1>5, <1>7, Constants
    <3> HIDE DEF l
    <3> QED
      BY <3>1
  <2>2. \A i \in 1 .. Len(t.RcvQueue) : t.RcvQueue[i] = Len(h) + i
    BY <1>5, <1>6, <1>7
  <2> QED
    BY <1>2, <1>7, <1>8, <2>1, <2>2 DEF Receiver, Buffered
<1>10. /\ r \in End /\ Receiver(r, h, m) /\ Later(t, h, r, h)
       /\ SameSender(t, r) /\ r.Acklist = t.Acklist
  BY <1>1, <1>6, <1>7, <1>9, Moved
<1>11. /\ q \in End /\ SameReceiver(r, q) /\ SameSender(r, q) /\ q.Acklist = r.Acklist
  <2> DEFINE pr == k.Probe \/ (Len(k.RcvQueue) >= RcvWnd /\ Len(r.RcvQueue) < RcvWnd)
  <2>1. r.Probe = k.Probe
    <3>1. t.Probe = k.Probe
      BY <1>2 DEF t, End
    <3>2. r.Probe = t.Probe
      <4>1. PICK n \in 0 .. Len(t.RcvBuf) :
               MoveReady(t) =
                    [t EXCEPT !.RcvNxt = U32(t.RcvNxt + n),
                              !.RcvQueue = t.RcvQueue \o [i \in 1 .. n |-> t.RcvBuf[i].data],
                              !.RcvBuf = DropFront(t.RcvBuf, n)]
        BY <1>7, ReadyCount
      <4> QED
        BY <1>7, <4>1 DEF End
    <3> QED
      BY <3>1, <3>2
  <2>2. q = [r EXCEPT !.Probe = pr]
    BY <2>1 DEF Recv, t
  <2>3. pr \in BOOLEAN
    BY <1>2 DEF End
  <2> HIDE DEF r, q, pr
  <2>4. q \in End
    BY <1>10, <2>2, <2>3 DEF End
  <2> QED
    BY <1>10, <2>2, <2>4 DEF End, SameReceiver, SameSender
<1> HIDE DEF q, r
<1>12. SameSender(k, q) /\ q.Acklist = k.Acklist
  BY <1>7, <1>10, <1>11 DEF SameSender
<1>13. Later(k, g, q, h) /\ Receiver(q, h, m)
  <2>1. Receiver(q, h, m) /\ RcvOf(q, h) = RcvOf(r, h)
        /\ \A x : Arrived(q, h, x) <=> Arrived(r, h, x)
    BY <1>10, <1>11, Untouched
  <2>2. \A x \in Nat : Arrived(k, g, x) => Arrived(t, h, x)
    BY <1>7, <1>8 DEF Arrived
  <2> QED
    BY <1>8, <1>10, <2>1, <2>2 DEF Later
<1>14. Acking(q, h, m)
  <2>1. m \in Nat /\ m <= m
    BY <1>1, Constants
  <2> QED
    BY <1>2, <1>12, <1>13, <2>1, KnownLater DEF Acking
<1>15. /\ Sender(q, sent[e]) /\ Knows(q, sent[e], kcp[p], got[p])
       /\ NxtOf(q, sent[e]) = NxtOf(k, sent[e])
  BY <1>2, <1>12, SentSame
<1>16. Side(q, sent[e], h, kcp[p], got[p], m)
  BY <1>11, <1>13, <1>14, <1>15 DEF Side
<1>17. NxtOf(k, sent[e]) <= NxtOf(q, sent[e]) /\ NxtOf(q, sent[e]) \in Nat
  <2>1. \A x \in 0 .. MaxMsgs : x <= x /\ x \in Nat
    OBVIOUS
  <2> QED
    BY <1>1, <1>15, <2>1
<1>18. Output(<<>>, NxtOf(q, sent[e]), q, h, m)
  <2>1. <<>> \in Seq(SegmentType) /\ Len(<<>>) = 0
    OBVIOUS
  <2> QED
    BY <2>1 DEF Output
<1>19. /\ sent' = [sent EXCEPT ![e] = sent[e]]
       /\ net' = [net EXCEPT ![e] = net[e], ![Peer(e)] = net[Peer(e)] \cup {}]
  BY <1>3, Peers DEF IInv, Shape
<1> DEFINE none == {}
<1>20. none \in SUBSET Datagrams(<<>>) /\ net[e] \in SUBSET net[e]
  OBVIOUS
<1> QED
  BY <1>1, <1>3, <1>6, <1>13, <1>16, <1>17, <1>18, <1>19, <1>20, Moves DEF k, g, m

\* A step that leaves alone what either direction is about.
LEMMA SideSame ==
    ASSUME NEW k \in End, NEW q \in End, SameSender(k, q), SameReceiver(k, q),
           NEW n, NEW g, NEW r, NEW h, NEW m, Side(k, n, g, r, h, m),
           RcvOf(k, g) \in Nat, Acking(q, g, m)
    PROVE  /\ Side(q, n, g, r, h, m) /\ NxtOf(q, n) = NxtOf(k, n) /\ Later(k, g, q, g)
<1>1. /\ NxtOf(q, n) = NxtOf(k, n) /\ Sender(q, n) /\ Knows(q, n, r, h)
  BY SentSame DEF Side
<1>2. /\ RcvOf(q, g) = RcvOf(k, g) /\ Receiver(q, g, m)
      /\ \A x : Arrived(q, g, x) <=> Arrived(k, g, x)
  BY Untouched DEF Side
<1>3. Later(k, g, q, g)
  BY <1>2 DEF Later
<1> QED
  BY <1>1, <1>2, <1>3 DEF Side

\* The congestion window after a datagram.
LEMMA GrownDone ==
    ASSUME NEW k, NEW n, NEW g \in Seq(Message), NEW r, NEW h, NEW m, Side(k, n, g, r, h, m),
           NEW una, NEW q \in Grown(k, una)
    PROVE  /\ Side(q, n, g, r, h, m) /\ NxtOf(q, n) = NxtOf(k, n) /\ Later(k, g, q, g)
<1>1. k \in End /\ RcvOf(k, g) \in Nat /\ Acking(k, g, m)
  BY Queues, LenProperties DEF Side, RcvOf
<1>2. q \in End /\ SameSender(k, q) /\ SameReceiver(k, q) /\ q.Acklist = k.Acklist
  <2>1. CASE q = k
    BY <1>1, <2>1 DEF SameSender, SameReceiver
  <2>2. CASE q # k
    <3> DEFINE Cw(c) == [k EXCEPT !.Cwnd = Min({k.Cwnd + c, k.RmtWnd})]
               grow == IF k.Cwnd < k.Ssthresh THEN {1} ELSE 0 .. 2
    <3>1. PICK c \in 0 .. 2 : q = [k EXCEPT !.Cwnd = Min({k.Cwnd + c, k.RmtWnd})]
      <4>1. q \in {Cw(c) : c \in grow}
        BY <2>2 DEF Grown
      <4>2. \A c \in grow : c \in 0 .. 2
        OBVIOUS
      <4> HIDE DEF grow, Cw
      <4>3. PICK c \in grow : q = Cw(c)
        BY <4>1
      <4> QED
        BY <4>2, <4>3 DEF Cw
    <3> DEFINE w == Min({k.Cwnd + c, k.RmtWnd})
    <3>2. w \in Cwnds
      <4>1. k.Cwnd \in SeqNos /\ k.RmtWnd \in 0 .. RcvWnd
        BY <1>1 DEF End, Cwnds
      <4> DEFINE a == k.Cwnd + c
                 b == k.RmtWnd
      <4>2. a \in Nat /\ b \in Nat /\ b <= RcvWnd
        <5> DEFINE x == k.Cwnd
        <5>1. x \in 0 .. SNMod - 1 /\ b \in 0 .. RcvWnd /\ c \in 0 .. 2
              /\ SNMod \in Nat /\ RcvWnd \in Nat
          BY <4>1, Constants, Modulus DEF SeqNos
        <5> HIDE DEF x, b
        <5>2. x \in Nat /\ c \in Nat /\ b \in Nat /\ b <= RcvWnd
          BY <5>1
        <5>3. x + c \in Nat
          BY <5>2
        <5> QED
          BY <5>2, <5>3 DEF x
      <4> HIDE DEF a, b
      <4>3. Min({a, b}) \in {a, b} /\ Min({a, b}) <= b
        <5>1. a \in Int /\ b \in Int
          BY <4>2
        <5> QED
          BY <5>1, OfTwo
      <4> DEFINE z == Min({a, b})
      <4>4. z \in Nat /\ z <= b
        BY <4>2, <4>3
      <4> HIDE DEF z
      <4>5. z \in SeqNos /\ z <= Bound
        <5>1. {RcvWnd, SndWnd, MaxMsgs} \subseteq Nat /\ SNMod \in Nat
               /\ 2 * (MaxMsgs + SndWnd + RcvWnd) < SNMod
          BY Constants
        <5>2. z <= Bound
          BY <4>2, <4>4, <5>1, Bounds
        <5> QED
          BY <4>2, <4>4, <5>1, <5>2 DEF SeqNos
      <4> QED
        BY <4>5 DEF Cwnds, z, a, b
    <3> HIDE DEF w
    <3>3. q = [k EXCEPT !.Cwnd = w]
      BY <3>1 DEF w
    <3>4. q \in End
      BY <1>1, <3>2, <3>3 DEF End
    <3> QED
      BY <1>1, <3>3, <3>4 DEF End, SameSender, SameReceiver
  <2> QED
    BY <2>1, <2>2
<1>3. Acking(q, g, m)
  BY <1>1, <1>2, Untouched
<1> QED
  BY <1>1, <1>2, <1>3, SideSame

\* What an end sends at once, when the datagram has not moved its window: its acks,
\* or nothing.
LEMMA Prompt ==
    ASSUME NEW k, NEW n, NEW g \in Seq(Message), NEW r, NEW h, NEW m \in 0 .. MaxMsgs,
           Side(k, n, g, r, h, m), NEW nxt
    PROVE  LET f == IF AckNoDelay THEN AckFlush(k) ELSE [k |-> k, out |-> <<>>]
           IN  /\ Side(f.k, n, g, r, h, m) /\ NxtOf(f.k, n) = NxtOf(k, n)
               /\ Later(k, g, f.k, g) /\ Output(f.out, nxt, f.k, g, m)
<1> DEFINE f == IF AckNoDelay THEN AckFlush(k) ELSE [k |-> k, out |-> <<>>]
<1>1. /\ k \in End /\ RcvOf(k, g) \in Nat /\ Acking(k, g, m) /\ Receiver(k, g, m)
      /\ m \in Nat
  BY Queues, LenProperties, Constants DEF Side, RcvOf
<1>2. CASE AckNoDelay
  <2> DEFINE q == AckFlush(k).k
  <2>1. /\ q \in End /\ SameSender(k, q) /\ SameReceiver(k, q) /\ q.Acklist = <<>>
        /\ AckFlush(k).out = Acks(k)
    BY <1>1, AckFlushed
  <2>2. f.k = q /\ f.out = Acks(k)
    BY <1>2, <2>1
  <2> HIDE DEF q, f
  <2>3. Acking(q, g, m)
    <3>1. Len(<<>>) = 0
      OBVIOUS
    <3> QED
      BY <2>1, <3>1 DEF Acking
  <2>4. Side(q, n, g, r, h, m) /\ NxtOf(q, n) = NxtOf(k, n) /\ Later(k, g, q, g)
    BY <1>1, <2>1, <2>3, SideSame
  <2>5. Output(Acks(k), nxt, k, g, m)
    BY <1>1, AcksSent
  <2>6. Output(Acks(k), nxt, q, g, m)
    BY <1>1, <2>1, <2>4, <2>5, OutputLater
  <2> QED
    BY <2>2, <2>4, <2>6 DEF f
<1>3. CASE ~AckNoDelay
  <2>1. f.k = k /\ f.out = <<>>
    BY <1>3
  <2> HIDE DEF f
  <2>2. Output(<<>>, nxt, k, g, m)
    <3>1. <<>> \in Seq(SegmentType) /\ Len(<<>>) = 0
      OBVIOUS
    <3> QED
      BY <3>1 DEF Output
  <2>3. Later(k, g, k, g)
    BY <1>1 DEF Later
  <2> QED
    BY <2>1, <2>2, <2>3 DEF f
<1> QED
  BY <1>2, <1>3

\* A datagram arrives.
LEMMA InputStep ==
    ASSUME IInv, NEW e \in Ends, NEW d \in net[e], NEW again \in BOOLEAN, Input(e, d, again)
    PROVE  IInv'
<1> DEFINE p == Peer(e)
           m == NxtOf(kcp[p], sent[p])
           n == sent[e]
           g == got[e]
           nxt == NxtOf(kcp[e], n)
           arrived == IF again THEN net[e] ELSE net[e] \ {d}
<1>1. /\ p \in Ends /\ kcp[e] \in End /\ g \in Seq(Message) /\ n \in 0 .. MaxMsgs
      /\ m \in 0 .. MaxMsgs /\ nxt \in 0 .. MaxMsgs /\ nxt \in Nat
      /\ Side(kcp[e], n, g, kcp[p], got[p], m)
      /\ RcvOf(kcp[e], g) \in Nat /\ RcvOf(kcp[p], got[p]) \in Offsets
  <2>1. \A x \in 0 .. MaxMsgs : x \in Nat
    OBVIOUS
  <2> QED
    BY <2>1, Current
<1>2. PICK young :
         \E k \in Grown(Loop(kcp[e], d, young).k, kcp[e].SndUna) :
            IF Loop(kcp[e], d, young).slides
            THEN FlushNow(e, k, arrived)
            ELSE LET f == IF AckNoDelay THEN AckFlush(k) ELSE [k |-> k, out |-> <<>>]
                 IN  \E kept \in SUBSET Datagrams(f.out) : Emit(e, f, arrived, kept)
  BY DEF Input
<1> DEFINE r == Loop(kcp[e], d, young)
<1>3. PICK k \in Grown(r.k, kcp[e].SndUna) :
         IF r.slides
         THEN FlushNow(e, k, arrived)
         ELSE LET f == IF AckNoDelay THEN AckFlush(k) ELSE [k |-> k, out |-> <<>>]
              IN  \E kept \in SUBSET Datagrams(f.out) : Emit(e, f, arrived, kept)
  BY <1>2
<1>4. sent' = [sent EXCEPT ![e] = n] /\ got' = [got EXCEPT ![e] = g] /\ got' = got
  BY DEF Input, IInv, Shape
<1>5. arrived \in SUBSET net[e]
  OBVIOUS
<1>6. d \in Seq(SegmentType)
  BY DEF IInv, Shape, Datagram
<1>7. \A i \in 1 .. Len(d) : Answer(d[i], kcp[p], got[p], nxt) /\ Pushed(d[i], m)
  <2>1. Direction(e) /\ Direction(p) /\ Peer(p) = e
    BY Peers DEF IInv
  <2> QED
    BY <2>1 DEF Direction
<1> HIDE DEF m, n, g, nxt, arrived
<1>8. /\ Side(r.k, n, g, kcp[p], got[p], m) /\ NxtOf(r.k, n) = nxt
      /\ Later(kcp[e], g, r.k, g)
  BY <1>1, <1>6, <1>7, LoopDone DEF nxt
<1> HIDE DEF r
<1>9. /\ Side(k, n, g, kcp[p], got[p], m) /\ NxtOf(k, n) = nxt /\ Later(r.k, g, k, g)
  BY <1>1, <1>8, GrownDone
<1>10. Later(kcp[e], g, k, g) /\ k \in End
  BY <1>1, <1>8, <1>9, LaterStill DEF Side
<1>11. nxt <= nxt
  BY <1>1
<1>12. CASE r.slides
  <2>1. FlushNow(e, k, arrived)
    BY <1>3, <1>12
  <2> QED
    BY <1>1, <1>4, <1>5, <1>9, <1>10, <1>11, <2>1, FlushStep DEF p, m, n, g, nxt
<1>13. CASE ~r.slides
  <2> DEFINE f == IF AckNoDelay THEN AckFlush(k) ELSE [k |-> k, out |-> <<>>]
  <2>1. PICK kept \in SUBSET Datagrams(f.out) : Emit(e, f, arrived, kept)
    BY <1>3, <1>13
  <2>2. /\ Side(f.k, n, g, kcp[p], got[p], m) /\ NxtOf(f.k, n) = nxt
        /\ Later(k, g, f.k, g) /\ Output(f.out, nxt, f.k, g, m)
    BY <1>1, <1>9, Prompt
  <2> HIDE DEF f
  <2>3. Later(kcp[e], g, f.k, g)
    BY <1>1, <1>10, <2>2, LaterStill DEF Side
  <2>4. /\ net' = [net EXCEPT ![e] = arrived, ![p] = net[p] \cup kept]
        /\ kcp' = [kcp EXCEPT ![e] = f.k]
    BY <2>1 DEF Emit
  <2>5. \A i \in 1 .. Len(g) : g[i] = i
    <3>1. Direction(p) /\ Peer(p) = e
      BY Peers DEF IInv
    <3> QED
      BY <3>1 DEF Direction, g
  <2> QED
    BY <1>1, <1>4, <1>5, <1>11, <2>2, <2>3, <2>4, <2>5, Moves DEF p, m, n, g, nxt
<1> QED
  BY <1>12, <1>13

\* A new connection.
LEMMA Fresh == Init => IInv
<1> SUFFICES ASSUME Init PROVE IInv
  OBVIOUS
<1> DEFINE k == NewKCP
<1>1. /\ Len(<<>>) = 0 /\ \A S : <<>> \in Seq(S)
  OBVIOUS
<1>2. k \in End
  <2>1. FirstSN \in SeqNos /\ 0 \in SeqNos /\ ThreshMin \in SeqNos
    BY Constants DEF SeqNos, ThreshMin
  <2>2. RcvWnd \in 0 .. RcvWnd
    BY Constants
  <2>3. 0 \in Cwnds
    <3>1. 0 <= RcvWnd /\ RcvWnd \in Int
      BY Constants
    <3> QED
      BY <2>1, <3>1, Bounds DEF Cwnds
  <2> QED
    BY <1>1, <2>1, <2>2, <2>3 DEF NewKCP, End
<1>3. NxtOf(k, 0) = 0 /\ UnaOf(k, 0) = 0 /\ RcvOf(k, <<>>) = 0
  <2>1. Len(k.SndQueue) = 0 /\ Len(k.SndBuf) = 0 /\ Len(k.RcvQueue) = 0
    BY <1>1 DEF NewKCP
  <2>2. 0 - 0 = 0 /\ 0 + 0 = 0
    OBVIOUS
  <2> HIDE DEF k
  <2> QED
    BY <1>1, <2>1, <2>2 DEF NxtOf, UnaOf, RcvOf
<1>4. N(0) = FirstSN
  BY Numbers
<1>5. Sender(k, 0)
  <2>1. k.SndUna = FirstSN /\ k.SndNxt = FirstSN /\ Len(k.SndQueue) = 0 /\ Len(k.SndBuf) = 0
    BY <1>1 DEF NewKCP
  <2> HIDE DEF k
  <2>2. Flight(k)
    BY <2>1, Constants DEF Flight
  <2> QED
    BY <1>3, <1>4, <2>1, <2>2 DEF Sender
<1>6. Receiver(k, <<>>, 0) /\ Acking(k, <<>>, 0)
  <2>1. /\ k.RcvNxt = FirstSN /\ Len(k.RcvQueue) = 0 /\ Len(k.RcvBuf) = 0 /\ k.RcvBuf = <<>>
        /\ Len(k.Acklist) = 0 /\ 0 <= RcvWnd
    BY <1>1, Constants DEF NewKCP
  <2> HIDE DEF k
  <2> QED
    BY <1>3, <1>4, <2>1 DEF Receiver, Buffered, MovesUp, Acking
<1>7. Knows(k, 0, k, <<>>)
  <2>1. Len(k.SndBuf) = 0 /\ 0 <= 0 + RcvWnd
    BY <1>1, Constants DEF NewKCP
  <2> HIDE DEF k
  <2> QED
    BY <1>3, <2>1 DEF Knows
<1>8. \A e \in Ends : kcp[e] = k /\ net[e] = {} /\ sent[e] = 0 /\ got[e] = <<>>
  BY DEF Init
<1>9. Shape
  <2>1. 0 \in 0 .. MaxMsgs
    BY Constants
  <2>2. kcp = [e \in Ends |-> k] /\ net = [e \in Ends |-> {}]
        /\ sent = [e \in Ends |-> 0] /\ got = [e \in Ends |-> <<>>]
    BY DEF Init
  <2> HIDE DEF k
  <2> QED
    BY <1>1, <1>2, <2>1, <2>2 DEF Shape
<1> HIDE DEF k
<1>10. ASSUME NEW e \in Ends PROVE Direction(e)
  <2>1. Peer(e) \in Ends
    BY Peers
  <2> QED
    BY <1>1, <1>3, <1>5, <1>6, <1>7, <1>8, <2>1 DEF Direction
<1> QED
  BY <1>9, <1>10 DEF IInv

\* Every message is where its numbers say, and each end knows of the other only what
\* is so, in every state.
THEOREM Invariance == Spec => []IInv
<1>1. IInv /\ [Next]_vars => IInv'
  <2> SUFFICES ASSUME IInv, [Next]_vars PROVE IInv'
    OBVIOUS
  <2>1. ASSUME NEW e \in Ends, NEW n \in 1 .. Batch, Write(e, n) PROVE IInv'
    BY <2>1, WriteStep
  <2>2. ASSUME NEW e \in Ends, Read(e) PROVE IInv'
    BY <2>2, ReadStep
  <2>3. ASSUME NEW e \in Ends, Update(e) PROVE IInv'
    BY <2>3, UpdateStep
  <2>4. ASSUME NEW e \in Ends, NEW d \in net[e], NEW again \in BOOLEAN, Input(e, d, again)
        PROVE  IInv'
    BY <2>4, InputStep
  <2>5. CASE UNCHANGED vars
    BY <2>5 DEF vars, IInv, Shape, Direction
  <2> QED
    BY <2>1, <2>2, <2>3, <2>4, <2>5 DEF Next
<1> QED
  BY <1>1, Fresh, PTL DEF Spec

-----------------------------------------------------------------------------
\* Every end and every datagram has its type: queues hold messages, RcvQueue no more
\* than the window, and what is sent fits a datagram.
THEOREM Types == Spec => []TypeOK
<1>1. IInv => TypeOK
  <2> SUFFICES ASSUME IInv PROVE TypeOK
    OBVIOUS
  <2>1. /\ sent \in [Ends -> Message \cup {0}] /\ got \in [Ends -> Seq(Message)]
    <3>1. 0 .. MaxMsgs \subseteq Message \cup {0}
      BY Constants DEF Message
    <3> QED
      BY <3>1 DEF IInv, Shape
  <2>2. ASSUME NEW e \in Ends
        PROVE  LET k == kcp[e]
               IN  /\ {k.SndUna, k.SndNxt, k.RcvNxt, k.Cwnd, k.Ssthresh} \subseteq SeqNos
                   /\ k.RmtWnd \in 0 .. RcvWnd
                   /\ {k.Probe, k.ProbeWait} \subseteq BOOLEAN
                   /\ k.SndQueue \in Seq(Message)
                   /\ k.SndBuf \in Seq(SndSeg)
                   /\ k.RcvQueue \in Seq(Message) /\ Len(k.RcvQueue) <= RcvWnd
                   /\ k.RcvBuf \in Seq(RcvSeg)
                   /\ k.Acklist \in Seq(SeqNos)
                   /\ \A d \in net[e] : d \in Seq(SegmentType) /\ Len(d) \in 1 .. Mtu
    <3>1. kcp[e] \in End /\ net[e] \in SUBSET Datagram
      BY DEF IInv, Shape
    <3>2. Len(kcp[e].RcvQueue) <= RcvWnd
      BY Current DEF Side, Receiver, Buffered
    <3> QED
      BY <3>1, <3>2 DEF End, Cwnds, Datagram
  <2> QED
    BY <2>1, <2>2 DEF TypeOK, SndSeg, RcvSeg
<1> QED
  BY <1>1, Invariance, PTL

\* No flush or datagram makes the congestion window larger than the peer's window, or
\* half the own one and Fastresend, as the sums that give it do not wrap.
THEOREM CwndStays == Spec => []CwndBounded
<1>1. IInv => CwndBounded
  <2> SUFFICES ASSUME IInv, NEW e \in Ends PROVE kcp[e].Cwnd <= Bound
    BY DEF CwndBounded, Bound
  <2> QED
    BY DEF IInv, Shape, End, Cwnds
<1> QED
  BY <1>1, Invariance, PTL

\* NextInOrderMoves is part of IInv: what waits in RcvBuf waits for room or for a
\* segment that is missing.
THEOREM MovedUp == Spec => []NextInOrderMoves
<1>1. IInv => NextInOrderMoves
  <2> SUFFICES ASSUME IInv, NEW e \in Ends PROVE MovesUp(kcp[e])
    BY DEF NextInOrderMoves, MovesUp
  <2> QED
    BY Current DEF Side, Receiver
<1> QED
  BY <1>1, Invariance, PTL

\* The window an end has been told of ends where its peer's window ends, or earlier,
\* as the numbers it has sent show without wrapping.
THEOREM Windows == Spec => []WindowRespected
<1>1. IInv => WindowRespected
  <2> SUFFICES ASSUME IInv, NEW e \in Ends
               PROVE  Diff(kcp[e].SndNxt, kcp[Peer(e)].RcvNxt) <= RcvWnd
    BY DEF WindowRespected
  <2> DEFINE p == Peer(e)
             nxt == NxtOf(kcp[e], sent[e])
             rcv == RcvOf(kcp[p], got[p])
  <2>1. /\ Sender(kcp[e], sent[e]) /\ Knows(kcp[e], sent[e], kcp[p], got[p])
        /\ Receiver(kcp[p], got[p], nxt)
        /\ nxt \in 0 .. MaxMsgs /\ rcv \in Offsets
    BY Current DEF Side
  <2>2. kcp[e].SndNxt = N(nxt) /\ kcp[p].RcvNxt = N(rcv) /\ nxt <= rcv + RcvWnd
    BY <2>1 DEF Sender, Knows, Receiver, Buffered
  <2> HIDE DEF nxt, rcv
  <2>3. nxt \in Offsets /\ nxt \in Int /\ rcv \in Int /\ RcvWnd \in Int
    BY <2>1, Constants DEF Offsets
  <2>4. Diff(N(nxt), N(rcv)) = nxt - rcv
    BY <2>1, <2>3, Numbers
  <2> QED
    BY <2>2, <2>3, <2>4
<1> QED
  BY <1>1, Invariance, PTL

\* What an end has in order its application has read or can read.
LEMMA InOrder ==
    ASSUME NEW k \in End, NEW g \in Seq(Message), \A i \in 1 .. Len(g) : g[i] = i,
           \A i \in 1 .. Len(k.RcvQueue) : k.RcvQueue[i] = Len(g) + i,
           NEW x \in Nat \ {0}, x <= RcvOf(k, g)
    PROVE  x \in ToSet(g) \cup ToSet(k.RcvQueue)
<1> DEFINE a == Len(g)
           b == Len(k.RcvQueue)
<1>1. /\ a \in Nat /\ b \in Nat /\ x <= a + b
      /\ DOMAIN g = 1 .. a /\ DOMAIN k.RcvQueue = 1 .. b
  BY LenProperties DEF RcvOf, End
<1>2. CASE x <= a
  <2>1. x \in 1 .. a
    BY <1>1, <1>2
  <2> QED
    BY <1>1, <2>1 DEF ToSet
<1>3. CASE ~(x <= a)
  <2> DEFINE y == x - a
  <2>1. y \in 1 .. b /\ a + y = x
    <3> HIDE DEF a, b
    <3> QED
      BY <1>1, <1>3
  <2> HIDE DEF y
  <2>2. k.RcvQueue[y] = x
    BY <2>1
  <2> QED
    BY <1>1, <2>1, <2>2 DEF ToSet
<1> QED
  BY <1>2, <1>3

\* A message that is neither waiting nor in flight is before Una, and una is never
\* ahead of the receiver; one that is acknowledged out of order is in RcvBuf.
THEOREM Received == Spec => []AckedIsReceived
<1>1. IInv => AckedIsReceived
  <2> SUFFICES ASSUME IInv, NEW e \in Ends, NEW x \in 1 .. sent[e]
               PROVE  LET k == kcp[e]
                          p == kcp[Peer(e)]
                          waiting == ToSet(k.SndQueue)
                             \cup {s.data : s \in {y \in ToSet(k.SndBuf) : ~y.Acked}}
                      IN  x \in waiting \cup ToSet(got[Peer(e)]) \cup ToSet(p.RcvQueue)
                                \cup {s.data : s \in ToSet(p.RcvBuf)}
    BY KcpAssumption DEF AckedIsReceived
  <2> DEFINE k == kcp[e]
             p == kcp[Peer(e)]
             g == got[Peer(e)]
             waiting == ToSet(k.SndQueue)
                             \cup {s.data : s \in {y \in ToSet(k.SndBuf) : ~y.Acked}}
             arrived == ToSet(g) \cup ToSet(p.RcvQueue) \cup {s.data : s \in ToSet(p.RcvBuf)}
             nxt == NxtOf(k, sent[e])
             una == UnaOf(k, sent[e])
  <2>1. /\ k \in End /\ p \in End /\ g \in Seq(Message) /\ sent[e] \in 0 .. MaxMsgs
        /\ Sender(k, sent[e]) /\ Knows(k, sent[e], p, g) /\ Receiver(p, g, nxt)
        /\ RcvOf(p, g) \in Nat
    BY Current DEF Side
  <2>2. \A i \in 1 .. Len(g) : g[i] = i
    BY DEF IInv, Direction
  <2> HIDE DEF k, p, g
  <2>3. /\ una \in Nat /\ nxt \in Nat /\ sent[e] \in Nat
        /\ Len(k.SndQueue) \in Nat /\ Len(k.SndBuf) \in Nat
        /\ sent[e] = nxt + Len(k.SndQueue) /\ nxt = una + Len(k.SndBuf)
        /\ x \in Nat \ {0} /\ x <= sent[e]
    <3>1. /\ una \in Nat /\ nxt \in Nat /\ sent[e] \in Nat
          /\ Len(k.SndQueue) \in Nat /\ Len(k.SndBuf) \in Nat
          /\ nxt = sent[e] - Len(k.SndQueue) /\ una = nxt - Len(k.SndBuf)
      BY <2>1, Counts
    <3> HIDE DEF nxt, una
    <3> QED
      BY <3>1
  <2>4. /\ DOMAIN k.SndQueue = 1 .. Len(k.SndQueue) /\ DOMAIN k.SndBuf = 1 .. Len(k.SndBuf)
        /\ DOMAIN p.RcvBuf = 1 .. Len(p.RcvBuf)
    BY <2>1, LenProperties DEF End
  <2>5. /\ \A i \in 1 .. Len(k.SndQueue) : k.SndQueue[i] = nxt + i
        /\ \A i \in 1 .. Len(k.SndBuf) : k.SndBuf[i].data = una + i
        /\ \A i \in 1 .. Len(p.RcvQueue) : p.RcvQueue[i] = Len(g) + i
        /\ una <= RcvOf(p, g)
        /\ \A i \in 1 .. Len(k.SndBuf) : k.SndBuf[i].Acked => Arrived(p, g, k.SndBuf[i].data)
    BY <2>1 DEF Sender, Knows, Receiver, Buffered
  <2> HIDE DEF nxt, una
  <2>6. ASSUME x <= RcvOf(p, g) PROVE x \in arrived
    BY <2>1, <2>2, <2>3, <2>5, <2>6, InOrder
  <2>7. CASE x <= una
    BY <2>1, <2>3, <2>5, <2>6, <2>7 DEF k, p, g
  <2>8. CASE ~(x <= una) /\ x <= nxt
    <3> DEFINE i == x - una
    <3>1. i \in 1 .. Len(k.SndBuf) /\ una + i = x
      <4> DEFINE b == Len(k.SndBuf)
      <4>1. una \in Nat /\ b \in Nat /\ nxt = una + b /\ x \in Nat
        BY <2>3
      <4> HIDE DEF b
      <4>2. i \in 1 .. b /\ una + i = x
        BY <2>8, <4>1
      <4> QED
        BY <4>2 DEF b
    <3> HIDE DEF i
    <3> DEFINE s == k.SndBuf[i]
    <3>2. s \in ToSet(k.SndBuf) /\ s.data = x
      BY <2>4, <2>5, <3>1 DEF ToSet
    <3>3. CASE ~s.Acked
      BY <3>2, <3>3 DEF k
    <3>4. CASE s.Acked
      <4>1. Arrived(p, g, x)
        BY <2>5, <3>1, <3>2, <3>4
      <4>2. CASE x <= RcvOf(p, g)
        BY <2>6, <4>2 DEF p, g
      <4>3. CASE \E j \in 1 .. Len(p.RcvBuf) : p.RcvBuf[j].data = x
        BY <2>4, <4>3 DEF ToSet, p
      <4> QED
        BY <4>1, <4>2, <4>3 DEF Arrived
    <3> QED
      BY <3>3, <3>4
  <2>9. CASE ~(x <= nxt)
    <3> DEFINE i == x - nxt
               b == Len(k.SndQueue)
    <3>1. nxt \in Nat /\ b \in Nat /\ sent[e] = nxt + b /\ x \in Nat /\ x <= sent[e]
      BY <2>3
    <3> HIDE DEF b
    <3>2. i \in 1 .. b /\ nxt + i = x
      BY <2>9, <3>1
    <3> HIDE DEF i
    <3>3. x \in ToSet(k.SndQueue)
      BY <2>4, <2>5, <3>2 DEF ToSet, b
    <3> QED
      BY <3>3 DEF k
  <2> QED
    BY <2>7, <2>8, <2>9
<1> QED
  BY <1>1, Invariance, PTL

\* A message an application reads is the next one its peer has written.
LEMMA ReadsNext ==
    ASSUME IInv, NEW e \in Ends, Read(e)
    PROVE  /\ Len(got[e]) \in Nat /\ Len(got[e]) < sent[Peer(e)]
           /\ Head(kcp[e].RcvQueue) = Len(got[e]) + 1
<1> DEFINE p == Peer(e)
           m == NxtOf(kcp[p], sent[p])
           q == kcp[e].RcvQueue
           l == Len(q)
           a == Len(got[e])
<1>1. /\ kcp[e] \in End /\ got[e] \in Seq(Message) /\ Receiver(kcp[e], got[e], m)
      /\ p \in Ends /\ sent[p] \in 0 .. MaxMsgs /\ m <= sent[p] /\ m \in 0 .. MaxMsgs
  <2>1. m <= sent[p]
    <3>1. p \in Ends
      BY Peers
    <3> QED
      BY <3>1, Current
  <2> QED
    BY <2>1, Current DEF Side
<1>2. l > 0
  BY DEF Read, PeekSize
<1>3. q \in Seq(Message) /\ l \in Nat /\ a \in Nat /\ sent[p] \in Nat /\ m \in Nat
  <2>1. \A x \in 0 .. MaxMsgs : x \in Nat
    OBVIOUS
  <2>2. q \in Seq(Message)
    BY <1>1 DEF End
  <2> HIDE DEF q, m
  <2> QED
    BY <1>1, <2>1, <2>2, LenProperties
<1>4. a + l <= m /\ \A i \in 1 .. l : q[i] = a + i
  BY <1>1 DEF Receiver, Buffered, RcvOf
<1> HIDE DEF q, l, a, m
<1>5. q # <<>> /\ 1 \in 1 .. l
  BY <1>2, <1>3, EmptySeq DEF l
<1>6. Head(q) = a + 1
  BY <1>3, <1>4, <1>5, HeadTailProperties
<1>7. a < sent[p]
  BY <1>1, <1>2, <1>3, <1>4
<1> QED
  BY <1>3, <1>6, <1>7 DEF q, a

\* A connection implements KcpStream.tla in each direction: a Write of an end is one
\* of its stream, a Read one of its peer's stream, and no other step changes what was
\* written or read.
THEOREM Refinement == Spec => StreamSpec
<1> DEFINE written == [e \in Writers |-> sent[e]]
           read == [e \in Writers |-> got[Peer(e)]]
<1>1. Init => Stream!Init
  <2> SUFFICES ASSUME Init PROVE Stream!Init
    OBVIOUS
  <2>1. \A e \in Writers : sent[e] = 0 /\ got[Peer(e)] = <<>>
    BY Peers, KcpAssumption DEF Init
  <2> QED
    BY <2>1 DEF Stream!Init
<1>2. IInv /\ [Next]_vars => [Stream!Next]_<<written, read>>
  <2> SUFFICES ASSUME IInv, [Next]_vars PROVE [Stream!Next]_<<written, read>>
    OBVIOUS
  <2>1. sent \in [Ends -> 0 .. MaxMsgs] /\ got \in [Ends -> Seq(Message)]
    BY DEF IInv, Shape
  <2>2. \A e \in Writers : e \in Ends
    BY KcpAssumption
  <2>3. ASSUME NEW e \in Ends, NEW n \in 1 .. Batch, Write(e, n) PROVE Stream!Next
    <3>1. /\ e \in Writers /\ sent' = [sent EXCEPT ![e] = sent[e] + n] /\ got' = got
      BY <2>3 DEF Write
    <3>2. written' = [written EXCEPT ![e] = written[e] + n]
      BY <2>1, <2>2, <3>1
    <3>3. read' = read
      BY <3>1
    <3>4. Stream!Write(e)
      BY <3>1, <3>2, <3>3 DEF Stream!Write
    <3> QED
      BY <3>1, <3>4 DEF Stream!Next
  <2>4. ASSUME NEW e \in Ends, Read(e) PROVE [Stream!Next]_<<written, read>>
    <3> DEFINE p == Peer(e)
               h == Append(got[e], Head(kcp[e].RcvQueue))
    <3>1. /\ got' = [got EXCEPT ![e] = h] /\ sent' = sent
      BY <2>4 DEF Read
    <3>2. /\ Len(got[e]) < sent[p] /\ h = Append(got[e], Len(got[e]) + 1)
      BY <2>4, ReadsNext
    <3>3. p \in Ends /\ Peer(p) = e /\ \A w \in Ends : Peer(w) = e => w = p
      BY Peers
    <3> HIDE DEF p, h
    <3>4. written' = written
      BY <3>1
    <3>5. CASE p \in Writers
      <4>1. read' = [read EXCEPT ![p] = h]
        <5>1. ASSUME NEW w \in Writers
              PROVE  got'[Peer(w)] = IF w = p THEN h ELSE got[Peer(w)]
          <6>1. Peer(w) \in Ends
            BY <2>2, Peers
          <6>2. CASE w = p
            BY <2>1, <3>1, <3>3, <6>2
          <6>3. CASE w # p
            <7>1. Peer(w) # e
              BY <2>2, <3>3, <6>3
            <7> QED
              BY <2>1, <3>1, <6>1, <6>3, <7>1
          <6> QED
            BY <6>2, <6>3
        <5> QED
          BY <3>5, <5>1
      <4>2. read[p] = got[e] /\ written[p] = sent[p]
        BY <3>3, <3>5
      <4>3. Stream!Read(p)
        BY <3>2, <3>4, <4>1, <4>2 DEF Stream!Read
      <4> QED
        BY <3>5, <4>3 DEF Stream!Next
    <3>6. CASE p \notin Writers
      <4>1. ASSUME NEW w \in Writers PROVE got'[Peer(w)] = got[Peer(w)]
        <5>1. Peer(w) \in Ends /\ Peer(w) # e
          BY <2>2, <3>3, <3>6, Peers
        <5> QED
          BY <2>1, <3>1, <5>1
      <4>2. read' = read
        BY <4>1
      <4> QED
        BY <3>4, <4>2
    <3> QED
      BY <3>5, <3>6
  <2>5. ASSUME NEW e \in Ends, Update(e) PROVE UNCHANGED <<written, read>>
    BY <2>5 DEF Update
  <2>6. ASSUME NEW e \in Ends, NEW d \in net[e], NEW again \in BOOLEAN, Input(e, d, again)
        PROVE  UNCHANGED <<written, read>>
    BY <2>6 DEF Input
  <2>7. CASE UNCHANGED vars
    BY <2>7 DEF vars
  <2> QED
    BY <2>3, <2>4, <2>5, <2>6, <2>7 DEF Next
<1> QED
  BY <1>1, <1>2, Invariance, PTL DEF Spec, StreamSpec, Stream!Spec
=============================================================================
