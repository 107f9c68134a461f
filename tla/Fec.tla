-------------------------------- MODULE Fec --------------------------------
(***************************************************************************)
(* Forward error correction of a kcp session: the encoder and the decoder  *)
(* of network/kcp/fec.go and the period search of aototune.go.             *)
(*                                                                         *)
(* The encoder numbers the datagrams and appends ParityShards to every     *)
(* DataShards of them; the numbers of such a batch begin at a multiple of   *)
(* the shard size, across their wrap too.  The decoder, made at the first   *)
(* datagram that comes, keeps those of incomplete batches in rx and         *)
(* recovers a batch as soon as it has DataShards of its datagrams; a number *)
(* at odds with the kind of its datagram makes it look for other shard      *)
(* counts in the numbers it has seen.  The network loses, repeats and       *)
(* reorders.                                                               *)
(***************************************************************************)
EXTENDS Integers, Sequences, FiniteSets, FiniteSetsExt

CONSTANTS DataShards, ParityShards,   \* the encoder's
          Shapes,      \* the <<dataShards, parityShards>> the decoder may begin with
          Modulus,     \* of the 32-bit arithmetic on the numbers
          Multi,       \* rxFECMulti
          Samples,     \* maxAutoTuneSamples
          Starts,      \* what the encoder's next may be when the decoder is made
          MaxEncodes   \* bound: datagrams encoded from then on

Enc == <<DataShards, ParityShards>>
Size(shape) == shape[1] + shape[2]

\* The multiple of the shard size at which the numbers wrap.
Paws == ((Modulus - 1) \div Size(Enc)) * Size(Enc)

\* How far the numbers of the datagrams encoded are from each other, at most.
Span == ((MaxEncodes + DataShards - 1) \div DataShards + 1) * Size(Enc) + Modulus - Paws

\* Numbers are comparable: no datagram comes so late that half of them have been used since.
ASSUME FecAssumption ==
    /\ DataShards \in Nat \ {0} /\ ParityShards \in Nat \ {0}
    /\ \A shape \in Shapes : shape \in (Nat \ {0}) \X (Nat \ {0})
    /\ Modulus \in Nat \ {0} /\ Modulus >= 2 * Span
    /\ Multi \in Nat \ {0} /\ Samples \in Nat \ {0, 1}
    /\ \A n \in Starts : n \in 0 .. Paws - 1 /\ n % Size(Enc) < DataShards
    /\ MaxEncodes \in Nat

VARIABLES
    next,     \* the encoder: the number of the next datagram,
    count,    \* shardCount, and
    batch,    \* the batch it belongs to
    encodes,
    net,      \* the datagrams sent
    shape,    \* the decoder: <<dataShards, parityShards>>,
    rx,       \* the datagrams kept, with whether they are older than fecExpire
    pulses,   \* and the samples of the autotuner
    begin,    \* history: the shape it began with
    seen,     \* history: the datagrams that came
    dropped,  \* history: the datagrams that left rx by its limit or their age
    got,      \* history: the data shards handed to kcp, as such or recovered
    junk,     \* history: the shapes under which it recovered something else
    periods   \* history: the shapes the tuner has found once slot 0 had a sample

encVars == <<next, count, batch, encodes, net>>
decVars == <<shape, rx, pulses>>
histVars == <<begin, seen, dropped, got, junk, periods>>
fecVars == <<encVars, decVars, histVars>>

Junk == <<-1, -1>>   \* a recovered shard that is none of the encoder's

NoPulse == [bit |-> FALSE, seq |-> 0]

FecInit ==
    /\ next \in Starts
    /\ count = next % Size(Enc)
    /\ batch = 0 /\ encodes = 0
    /\ net = {}
    /\ shape \in Shapes
    /\ rx = <<>>
    /\ pulses = [i \in 0 .. Samples - 1 |-> NoPulse]
    /\ begin = shape
    /\ seen = {} /\ dropped = {} /\ got = {} /\ junk = {} /\ periods = {}

\* _itimediff: the signed distance of two numbers.
Diff(a, b) ==
    LET d == (a - b + Modulus) % Modulus IN IF d < Modulus \div 2 THEN d ELSE d - Modulus

-----------------------------------------------------------------------------
Shard(n, data, pos) == [seq |-> n, data |-> data, batch |-> batch, pos |-> pos]

\* encode: mark the datagram and, after the last of a batch, its parity shards.
MarkData == Shard(next, TRUE, count)

\* The numbers of the parity shards, and of what follows: only here do they wrap, as each
\* markParity leaves (next + 1) % paws for the next.
MarkParity(i) ==
    LET first == (next + 1) % Modulus IN IF i = 0 THEN first ELSE (first + i) % Paws

Encode ==
    /\ encodes < MaxEncodes
    /\ encodes' = encodes + 1
    /\ IF count + 1 < DataShards
       THEN /\ net' = net \cup {MarkData}
            /\ next' = (next + 1) % Modulus
            /\ count' = count + 1
            /\ batch' = batch
       ELSE /\ net' = net \cup {MarkData} \cup
                 {Shard(MarkParity(i), FALSE, DataShards + i) : i \in 0 .. ParityShards - 1}
            /\ next' = MarkParity(ParityShards)
            /\ count' = 0
            /\ batch' = batch + 1
    /\ UNCHANGED <<decVars, histVars>>

-----------------------------------------------------------------------------
\* FindPeriod: the length of a run of data (or parity) shards, from its left edge, or
\* the first sample if there is none, to its right edge; -1 at a gap.
FindPeriod(ps, bit) ==
    LET follows(i) == (ps[i - 1].seq + 1) % Modulus = ps[i].seq
        lefts == {i \in 1 .. Samples - 1 :
                     ps[i - 1].bit # bit /\ ps[i].bit = bit /\ follows(i)}
        left == IF lefts = {} THEN 0 ELSE Min(lefts)
        stops == {i \in left + 1 .. Samples - 1 :
                     ~follows(i) \/ (ps[i - 1].bit = bit /\ ps[i].bit # bit)}
    IN  CASE stops = {} -> 0 - left
          [] stops # {} /\ follows(Min(stops)) -> Min(stops) - left
          [] OTHER -> -1

\* Sample: a slot holds the last sample of its numbers.
Sample(s) == [pulses EXCEPT ![s.seq % Samples] = [bit |-> s.data, seq |-> s.seq]]

\* shoulTune: the kind is not that of the number's place.  The periods found become the
\* shape, unless the codec refuses them: then decode returns.
ShouldTune(s) == (s.seq % Size(shape) < shape[1]) # s.data

Tuned(s) ==
    IF ShouldTune(s)
    THEN <<FindPeriod(Sample(s), TRUE), FindPeriod(Sample(s), FALSE)>>
    ELSE shape

TuneFails(s) == Tuned(s)[1] <= 0 \/ Tuned(s)[2] <= 0

Tunes(s) ==
    periods' = IF ShouldTune(s) /\ ~TuneFails(s) /\ Sample(s)[0] # NoPulse
               THEN periods \cup {Tuned(s)} ELSE periods

\* Where it belongs in rx: after the last one that does not follow it.
Place(s) == Max({0} \cup {i \in 1 .. Len(rx) : Diff(s.seq, rx[i].shard.seq) >= 0})

IsDuplicate(s) == Place(s) > 0 /\ rx[Place(s)].shard.seq = s.seq

Insert(s) ==
    SubSeq(rx, 1, Place(s)) \o <<[shard |-> s, old |-> FALSE]>>
        \o SubSeq(rx, Place(s) + 1, Len(rx))

\* decode searches rx, now q, around s for the shards with numbers of the same batch.
SearchBegin(s, sh) == Max({1, Place(s) + 1 - (s.seq % Size(sh))})

\* Broken form of SearchEnd: one short.
SearchEndShort(q, s, sh) == Min({SearchBegin(s, sh) + Size(sh) - 2, Len(q)})

SearchEnd(q, s, sh) == Min({SearchBegin(s, sh) + Size(sh) - 1, Len(q)})

Group(q, s, sh) ==
    LET shardBegin == s.seq - (s.seq % Size(sh))
        shardEnd == (shardBegin + Size(sh) - 1) % Modulus
        around == SearchBegin(s, sh) .. SearchEnd(q, s, sh)
    IN  IF Cardinality(around) < sh[1] THEN {}
        ELSE {i \in around : /\ Diff(q[i].shard.seq, shardEnd) <= 0
                             /\ Diff(q[i].shard.seq, shardBegin) >= 0}

\* fecNestif: with enough of them the data shards that lack are recovered (rightly, if
\* the others are of one batch, each in its place); all leave rx.
Complete(q, g, sh) == Cardinality(g) >= sh[1]

Recovered(q, g, sh) ==
    LET shards == {q[i].shard : i \in g}
        flagged == {t.seq % Size(sh) : t \in shards}
        genuine == /\ sh = Enc
                   /\ \A t, u \in shards : t.batch = u.batch
                   /\ \A t \in shards : t.pos = t.seq % Size(sh)
        lack == 0 .. sh[1] - 1 \ flagged
    IN  IF ~Complete(q, g, sh) \/ Cardinality({t \in shards : t.data}) = sh[1] THEN {}
        ELSE IF genuine THEN {<<(CHOOSE t \in shards : TRUE).batch, k>> : k \in lack}
        ELSE {Junk : k \in lack}

\* freeRange, of the shards of a complete batch.
FreeRange(q, g, sh) ==
    IF Complete(q, g, sh)
    THEN SubSeq(q, 1, Min(g) - 1) \o SubSeq(q, Max(g) + 1, Len(q))
    ELSE q

\* Then the first is dropped if there are too many, and the first ones that are too old.
Limited(q, sh) == IF Len(q) > Multi * Size(sh) THEN Tail(q) ELSE q

Young(q) ==
    SubSeq(q, Min({i \in 1 .. Len(q) : ~q[i].old} \cup {Len(q) + 1}), Len(q))

ShardsOf(q) == {q[i].shard : i \in 1 .. Len(q)}

-----------------------------------------------------------------------------
\* A datagram comes: data is handed to kcp, whatever decode makes of it.
Direct(s) == IF s.data THEN {<<s.batch, s.pos>>} ELSE {}

\* decode returns at the tuning or at a duplicate, ...
DecodeIgnores(s) ==
    /\ pulses' = Sample(s)
    /\ seen' = seen \cup {s}
    /\ got' = got \cup Direct(s)
    /\ \/ TuneFails(s) /\ shape' = shape
       \/ ~TuneFails(s) /\ IsDuplicate(s) /\ shape' = Tuned(s)
    /\ Tunes(s)
    /\ UNCHANGED <<encVars, rx, begin, dropped, junk>>

\* ... or keeps it and recovers what it can.
Decode(s) ==
    LET sh == Tuned(s)
        q == Insert(s)
        g == Group(q, s, sh)
        rest == FreeRange(q, g, sh)
        out == Recovered(q, g, sh)
    IN  /\ ~TuneFails(s) /\ ~IsDuplicate(s)
        /\ pulses' = Sample(s)
        /\ shape' = sh
        /\ Tunes(s)
        /\ rx' = Young(Limited(rest, sh))
        /\ seen' = seen \cup {s}
        /\ dropped' = (dropped \ {s}) \cup (ShardsOf(rest) \ ShardsOf(rx'))
        /\ got' = got \cup Direct(s) \cup (out \ {Junk})
        /\ junk' = IF Junk \in out THEN junk \cup {sh} ELSE junk
        /\ UNCHANGED <<encVars, begin>>

\* fecExpire passes.
Age ==
    /\ \E i \in 1 .. Len(rx) : ~rx[i].old
    /\ rx' = [i \in 1 .. Len(rx) |-> [rx[i] EXCEPT !.old = TRUE]]
    /\ UNCHANGED <<encVars, shape, pulses, histVars>>

\* release, by the session's Close.
Release ==
    /\ rx # <<>>
    /\ rx' = <<>>
    /\ dropped' = dropped \cup ShardsOf(rx)
    /\ UNCHANGED <<encVars, shape, pulses, begin, seen, got, junk, periods>>

FecNext ==
    \/ Encode \/ Age \/ Release
    \/ \E s \in net : DecodeIgnores(s) \/ Decode(s)

FecSpec == FecInit /\ [][FecNext]_fecVars

-----------------------------------------------------------------------------
FecTypeOK ==
    /\ next \in 0 .. Modulus - 1 /\ count \in 0 .. DataShards - 1
    /\ batch \in 0 .. MaxEncodes /\ encodes \in 0 .. MaxEncodes
    /\ seen \subseteq net /\ dropped \subseteq seen /\ ShardsOf(rx) \subseteq seen
    /\ shape \in (Nat \ {0}) \X (Nat \ {0}) /\ begin \in Shapes

\* rx is in the order of the numbers, without repetition, also where they wrap, and
\* within its limit, or within the first one if the shape has become smaller.
RxOrdered ==
    /\ \A i \in 1 .. Len(rx) - 1 : Diff(rx[i + 1].shard.seq, rx[i].shard.seq) > 0
    /\ Len(rx) <= Multi * Size(shape) \/ Len(rx) <= Multi * Size(begin)

\* A batch of which enough shards came is recovered whatever the order and the
\* repetitions, unless rx was too small, or they too old.
Recovers ==
    begin = Enc =>
    \A b \in {s.batch : s \in seen} :
        Cardinality({s \in seen \ dropped : s.batch = b}) >= DataShards
        => \A pos \in {s.pos : s \in {t \in net : t.batch = b /\ t.data}} : <<b, pos>> \in got

\* With the shape of the encoder nothing else is ever recovered than its data.
Genuine == Enc \notin junk

\* The tuner finds no shape but the encoder's, whatever it missed, once the slot of the
\* number 0 has a sample: until then its zero passes for a parity shard with that number.
TunesRight == periods \subseteq {Enc}

\* The decoder makes good what it promises: the four above.
DecodesRight == RxOrdered /\ Recovers /\ Genuine /\ TunesRight
=============================================================================
