----------------------------- MODULE ConnProofs -----------------------------
(* The safety of Conn for every set of goroutines, every capacity and all  *)
(* three copies of the code.                                               *)
EXTENDS Conn, SequenceTheorems, TLAPS

\* The mutex is held exactly by the goroutine between CloseLock and the end of
\* Close, and a goroutine about to send the sentinel has seen isClose false and
\* nobody can have set it since: CloseMark and WriterMark need the mutex.  A
\* goroutine in Write has a message, and no message is the sentinel.
CallInv ==
    /\ \A p \in Procs : lock = p <=> pc[p] \in {"push", "mark"}
    /\ \A p \in Procs : pc[p] = "push" => ~isClose
    /\ \A p \in Procs : pc[p] \in {"len", "send"} => msg[p] # Nil

\* Some goroutine has sent the sentinel and not yet set isClose.
Marking == \E p \in Procs : pc[p] = "mark"

\* Where the sentinel is, phase by phase.
NilInv ==
    /\ HasNil(wCh) => HasNil(accepted)
    /\ WriterGone /\ ~werr => HasNil(accepted)
    /\ isClose \/ Marking => WriterGone \/ HasNil(wCh)
    /\ kind # "ws" /\ ~isClose /\ ~Marking => ~HasNil(accepted)

\* The inductive invariant.
IInv == TypeOK /\ CallInv /\ NilInv /\ OneSentinel

-----------------------------------------------------------------------------
\* Appending to a sequence: what HasNil says of the longer one.
LEMMA HasNilAppend ==
    ASSUME NEW s \in Seq(Nat), NEW m \in Nat
    PROVE  /\ HasNil(Append(s, m)) <=> HasNil(s) \/ m = Nil
           /\ Append(s, m) \in Seq(Nat)
           /\ Len(Append(s, m)) = Len(s) + 1
<1> DEFINE t == Append(s, m)
<1>1. t \in Seq(Nat) /\ Len(t) = Len(s) + 1
  OBVIOUS
<1>2. t[Len(s) + 1] = m
  OBVIOUS
<1>3. \A i \in 1 .. Len(s) : t[i] = s[i]
  OBVIOUS
<1>4. HasNil(s) => HasNil(t)
  BY <1>1, <1>3 DEF HasNil
<1>5. m = Nil => HasNil(t)
  BY <1>1, <1>2 DEF HasNil
<1>6. HasNil(t) => HasNil(s) \/ m = Nil
  BY <1>1, <1>2, <1>3 DEF HasNil
<1> QED
  BY <1>1, <1>4, <1>5, <1>6

\* Receiving from a channel: a sentinel is received or still queued.
LEMMA HasNilTail ==
    ASSUME NEW s \in Seq(Nat), s # <<>>
    PROVE  /\ HasNil(s) <=> HasNil(Tail(s)) \/ Head(s) = Nil
           /\ Tail(s) \in Seq(Nat)
           /\ Len(Tail(s)) = Len(s) - 1
           /\ Head(s) \in Nat
<1> DEFINE t == Tail(s)
<1>1. t \in Seq(Nat) /\ Len(t) = Len(s) - 1 /\ Len(s) >= 1
  OBVIOUS
<1>2. Head(s) = s[1] /\ Head(s) \in Nat
  OBVIOUS
<1>3. \A i \in 1 .. Len(t) : t[i] = s[i + 1]
  OBVIOUS
<1>4. HasNil(t) => HasNil(s)
  BY <1>1, <1>3 DEF HasNil
<1>5. Head(s) = Nil => HasNil(s)
  BY <1>1, <1>2 DEF HasNil
<1>6. HasNil(s) => HasNil(t) \/ Head(s) = Nil
  <2> SUFFICES ASSUME NEW i \in 1 .. Len(s), s[i] = Nil, i # 1
               PROVE  HasNil(t)
    BY <1>2 DEF HasNil
  <2>1. i - 1 \in 1 .. Len(t) /\ t[i - 1] = s[i]
    BY <1>1, <1>3
  <2> QED
    BY <2>1 DEF HasNil
<1> QED
  BY <1>1, <1>2, <1>4, <1>5, <1>6

-----------------------------------------------------------------------------
\* A behaviour starts in the invariant.
LEMMA InitInv == Init => IInv
<1> SUFFICES ASSUME Init PROVE IInv
  OBVIOUS
<1> USE ConnAssumption DEF Init, Nil
<1>1. TypeOK
  <2>1. kind \in {"tcp", "kcp", "ws"}
    OBVIOUS
  <2>2. pc \in [Procs -> {"idle", "len", "send", "close", "push", "mark"}]
    OBVIOUS
  <2>3. <<>> \in Seq(Nat) /\ Len(<<>>) = 0
    OBVIOUS
  <2>4. Len(wCh) <= Cap
    BY <2>3
  <2>5. /\ wCh \in Seq(Nat) /\ hand \in Seq(Nat) /\ accepted \in Seq(Nat)
        /\ written \in Seq(Nat)
    BY <2>3
  <2>6. /\ msg \in [Procs -> Nat] /\ next \in Nat /\ ended \in BOOLEAN
        /\ werr \in BOOLEAN /\ isClose \in BOOLEAN /\ lock \in Procs \cup {NoProc}
        /\ wpc \in {"recv", "write", "shut", "lock", "done"}
        /\ sock \in {"open", "broken", "closed"}
    OBVIOUS
  <2> QED
    BY <2>1, <2>2, <2>4, <2>5, <2>6, Zenon DEF TypeOK
<1>2. CallInv
  BY DEF CallInv
<1>3. ~HasNil(accepted) /\ ~HasNil(wCh)
  BY DEF HasNil
<1>4. NilInv
  BY <1>3 DEF NilInv, Marking, WriterGone
<1>5. OneSentinel
  BY DEF OneSentinel
<1> QED
  BY <1>1, <1>2, <1>4, <1>5 DEF IInv

\* Every step keeps the types.
LEMMA TypeStep == TypeOK /\ [Next]_vars => TypeOK'
<1> SUFFICES ASSUME TypeOK, [Next]_vars PROVE TypeOK'
  OBVIOUS
<1> USE ConnAssumption DEF TypeOK
<1>1. ASSUME NEW p \in Procs, WriteCheck(p) PROVE TypeOK'
  <2>1. pc' \in [Procs -> {"idle", "len", "send", "close", "push", "mark"}]
    BY <1>1 DEF WriteCheck, Goto
  <2>2. next + 1 \in Nat /\ next' = next + 1
    BY <1>1 DEF WriteCheck
  <2>3. msg' \in [Procs -> Nat]
    <3>1. msg' = msg \/ msg' = [msg EXCEPT ![p] = next + 1]
      BY <1>1 DEF WriteCheck
    <3> QED
      BY <2>2, <3>1
  <2> QED
    BY <1>1, <2>1, <2>2, <2>3 DEF WriteCheck, writerVars
<1>2. ASSUME NEW p \in Procs, WriteLen(p) PROVE TypeOK'
  <2>1. pc' \in [Procs -> {"idle", "len", "send", "close", "push", "mark"}]
    <3>1. pc' = [pc EXCEPT ![p] = "close"] \/ pc' = [pc EXCEPT ![p] = "send"]
      BY <1>2 DEF WriteLen, Goto
    <3> QED
      BY <3>1
  <2>2. msg' \in [Procs -> Nat]
    <3>1. msg' = msg \/ msg' = [msg EXCEPT ![p] = Nil]
      BY <1>2, Zenon DEF WriteLen
    <3>2. msg \in [Procs -> Nat] /\ Nil \in Nat
      BY DEF Nil
    <3> QED
      BY <3>1, <3>2, Zenon
  <2> QED
    BY <1>2, <2>1, <2>2 DEF WriteLen, writerVars
<1>3. ASSUME NEW p \in Procs, WriteSend(p) PROVE TypeOK'
  <2>1. /\ wCh' \in Seq(Nat) /\ Len(wCh') = Len(wCh) + 1
        /\ accepted' \in Seq(Nat)
    BY <1>3, HasNilAppend DEF WriteSend, Push
  <2>2. Len(wCh') <= Cap
    BY <1>3, <2>1 DEF WriteSend, Push
  <2>3. /\ pc' \in [Procs -> {"idle", "len", "send", "close", "push", "mark"}]
        /\ msg' \in [Procs -> Nat]
    BY <1>3 DEF WriteSend, Return, Goto, Nil
  <2> QED
    BY <1>3, <2>1, <2>2, <2>3 DEF WriteSend, writerVars
<1>4. ASSUME NEW p \in Procs, CloseLock(p) PROVE TypeOK'
  BY <1>4 DEF CloseLock, Goto, writerVars
<1>5. ASSUME NEW p \in Procs, ClosePush(p) PROVE TypeOK'
  <2>1. /\ pc' \in [Procs -> {"idle", "len", "send", "close", "push", "mark"}]
        /\ lock' \in Procs \cup {NoProc}
    BY <1>5 DEF ClosePush, Goto
  <2>2. wCh' \in Seq(Nat) /\ Len(wCh') <= Cap /\ accepted' \in Seq(Nat)
    BY <1>5 DEF ClosePush, Push, Nil
  <2> QED
    BY <1>5, <2>1, <2>2 DEF ClosePush, writerVars
<1>6. ASSUME NEW p \in Procs, CloseMark(p) PROVE TypeOK'
  BY <1>6 DEF CloseMark, Goto, writerVars
<1>7. CASE OwnerClose
  BY <1>7 DEF OwnerClose, Goto, writerVars
<1>8. CASE WriterRecv
  <2>1. wCh \in Seq(Nat) /\ wCh # <<>>
    BY <1>8 DEF WriterRecv
  <2>2. /\ Tail(wCh) \in Seq(Nat) /\ Len(Tail(wCh)) = Len(wCh) - 1
        /\ Head(wCh) \in Nat /\ Len(wCh) \in Nat
    BY <2>1, HasNilTail
  <2>3. wCh' = Tail(wCh) /\ hand' = <<Head(wCh)>>
    BY <1>8 DEF WriterRecv
  <2>4. wCh' \in Seq(Nat) /\ Len(wCh') <= Cap
    BY <2>2, <2>3
  <2>5. hand' \in Seq(Nat)
    BY <2>2, <2>3
  <2>6. wpc' \in {"recv", "write", "shut", "lock", "done"}
    BY <1>8 DEF WriterRecv
  <2> QED
    BY <1>8, <2>4, <2>5, <2>6 DEF WriterRecv, callVars
<1>9. CASE WriterWrite
  <2>1. written \o hand \in Seq(Nat) /\ <<>> \in Seq(Nat)
    OBVIOUS
  <2>2. written' \in Seq(Nat) /\ hand' \in Seq(Nat)
    BY <1>9, <2>1 DEF WriterWrite
  <2>3. werr' \in BOOLEAN /\ wpc' \in {"recv", "write", "shut", "lock", "done"}
    BY <1>9 DEF WriterWrite
  <2> QED
    BY <1>9, <2>2, <2>3 DEF WriterWrite, callVars
<1>10. CASE WriterShut
  BY <1>10 DEF WriterShut, callVars
<1>11. CASE WriterMark
  BY <1>11 DEF WriterMark, callVars
<1>12. CASE SockBreak
  BY <1>12 DEF SockBreak, callVars, writerVars
<1>13. CASE UNCHANGED vars
  BY <1>13 DEF vars
<1> QED
  BY <1>1, <1>2, <1>3, <1>4, <1>5, <1>6, <1>7, <1>8, <1>9, <1>10, <1>11,
     <1>12, <1>13 DEF Next, CallStep, WriterStep

\* Every step keeps the mutex with its holder.
LEMMA CallInvStep == TypeOK /\ CallInv /\ [Next]_vars => CallInv'
<1> SUFFICES ASSUME TypeOK, CallInv, [Next]_vars PROVE CallInv'
  OBVIOUS
<1> USE ConnAssumption DEF TypeOK, CallInv
<1>1. ASSUME NEW p \in Procs, WriteCheck(p) PROVE CallInv'
  <2>1. UNCHANGED <<lock, isClose>>
    BY <1>1 DEF WriteCheck
  <2>2. CASE UNCHANGED <<pc, msg>>
    BY <2>1, <2>2
  <2>3. CASE /\ pc' = [pc EXCEPT ![p] = "len"]
             /\ msg' = [msg EXCEPT ![p] = next + 1]
             /\ pc[p] = "idle"
    <3>1. next + 1 # Nil
      BY DEF Nil
    <3>2. pc'[p] = "len" /\ msg'[p] # Nil
      BY <2>3, <3>1
    <3>3. \A q \in Procs : q # p => pc'[q] = pc[q] /\ msg'[q] = msg[q]
      BY <2>3
    <3> QED
      BY <2>1, <2>3, <3>2, <3>3
  <2> QED
    BY <1>1, <2>2, <2>3 DEF WriteCheck, Goto
<1>2. ASSUME NEW p \in Procs, WriteLen(p) PROVE CallInv'
  BY <1>2 DEF WriteLen, Goto
<1>3. ASSUME NEW p \in Procs, WriteSend(p) PROVE CallInv'
  BY <1>3 DEF WriteSend, Return, Goto
<1>4. ASSUME NEW p \in Procs, CloseLock(p) PROVE CallInv'
  BY <1>4 DEF CloseLock, Goto
<1>5. ASSUME NEW p \in Procs, ClosePush(p) PROVE CallInv'
  <2>1. pc[p] = "push" /\ lock = p /\ UNCHANGED <<isClose, msg>>
    BY <1>5 DEF ClosePush
  <2>2. CASE lock' = NoProc /\ pc' = [pc EXCEPT ![p] = "idle"]
    BY <2>1, <2>2
  <2>3. CASE lock' = lock /\ pc' = [pc EXCEPT ![p] = "mark"]
    BY <2>1, <2>3
  <2> QED
    BY <1>5, <2>2, <2>3 DEF ClosePush, Goto
<1>6. ASSUME NEW p \in Procs, CloseMark(p) PROVE CallInv'
  BY <1>6 DEF CloseMark, Goto
<1>7. CASE OwnerClose
  BY <1>7 DEF OwnerClose, Goto
<1>8. CASE WriterRecv
  BY <1>8 DEF WriterRecv, callVars
<1>9. CASE WriterWrite
  BY <1>9 DEF WriterWrite, callVars
<1>10. CASE WriterShut
  BY <1>10 DEF WriterShut, callVars
<1>11. CASE WriterMark
  BY <1>11 DEF WriterMark, callVars
<1>12. CASE SockBreak
  BY <1>12 DEF SockBreak, callVars
<1>13. CASE UNCHANGED vars
  BY <1>13 DEF vars
<1> QED
  BY <1>1, <1>2, <1>3, <1>4, <1>5, <1>6, <1>7, <1>8, <1>9, <1>10, <1>11,
     <1>12, <1>13 DEF Next, CallStep, WriterStep

-----------------------------------------------------------------------------
\* What a step that leaves both sequences alone has to show for NilInv and
\* OneSentinel: only the flags and program counters matter.
LEMMA NilQuiet ==
    ASSUME NilInv, OneSentinel, UNCHANGED <<kind, wCh, accepted>>,
           WriterGone => WriterGone',
           WriterGone' /\ ~werr' => HasNil(accepted),
           isClose' \/ Marking' => isClose \/ Marking \/ WriterGone',
           kind # "ws" /\ ~isClose' /\ ~Marking' => ~isClose /\ ~Marking
    PROVE  NilInv' /\ OneSentinel'
<1>1. HasNil(wCh)' = HasNil(wCh) /\ HasNil(accepted)' = HasNil(accepted)
  BY DEF HasNil
<1>2. OneSentinel'
  BY DEF OneSentinel
<1> QED
  BY <1>1, <1>2 DEF NilInv

\* A send of m on wCh keeps everything if the first sentinel comes when nobody
\* has closed or is closing.
LEMMA NilPush ==
    ASSUME TypeOK, NilInv, OneSentinel, NEW m \in Nat, Push(m),
           UNCHANGED <<kind, isClose, wpc, werr>>,
           Marking => Marking',
           m # Nil => (Marking' => Marking),
           m = Nil /\ kind # "ws" => ~isClose /\ ~Marking /\ Marking'
    PROVE  NilInv' /\ OneSentinel'
<1> DEFINE W == HasNil(wCh)
           A == HasNil(accepted)
<1>1. /\ HasNil(wCh)' <=> HasNil(wCh) \/ m = Nil
      /\ HasNil(accepted)' <=> HasNil(accepted) \/ m = Nil
  <2>1. wCh' = Append(wCh, m) /\ accepted' = Append(accepted, m)
    BY DEF Push
  <2>2. wCh \in Seq(Nat) /\ accepted \in Seq(Nat)
    BY DEF TypeOK
  <2>3. HasNil(Append(wCh, m)) <=> HasNil(wCh) \/ m = Nil
    BY <2>2, HasNilAppend
  <2>4. HasNil(Append(accepted, m)) <=> HasNil(accepted) \/ m = Nil
    BY <2>2, HasNilAppend
  <2>5. HasNil(wCh)' = HasNil(Append(wCh, m))
    BY <2>1 DEF HasNil
  <2>6. HasNil(accepted)' = HasNil(Append(accepted, m))
    BY <2>1 DEF HasNil
  <2> QED
    BY <2>3, <2>4, <2>5, <2>6
<1>2. WriterGone' = WriterGone
  BY DEF WriterGone
<1>3. NilInv'
  BY <1>1, <1>2 DEF NilInv
<1>4. OneSentinel'
  <2> SUFFICES ASSUME kind # "ws",
                      NEW i \in 1 .. Len(accepted'), NEW j \in 1 .. Len(accepted'),
                      accepted'[i] = Nil, accepted'[j] = Nil
               PROVE  i = j
    BY DEF OneSentinel
  <2>1. accepted \in Seq(Nat) /\ accepted' = Append(accepted, m)
    BY DEF TypeOK, Push
  <2>2. /\ Len(accepted') = Len(accepted) + 1
        /\ \A k \in 1 .. Len(accepted) : accepted'[k] = accepted[k]
        /\ accepted'[Len(accepted) + 1] = m
    BY <2>1
  <2>3. CASE m = Nil
    <3>1. ~HasNil(accepted)
      BY <2>3 DEF NilInv
    <3>2. \A k \in 1 .. Len(accepted) : accepted'[k] # Nil
      BY <3>1, <2>2 DEF HasNil
    <3> QED
      BY <3>2, <2>1, <2>2
  <2>4. CASE m # Nil
    <3>1. i \in 1 .. Len(accepted) /\ j \in 1 .. Len(accepted)
      BY <2>1, <2>2, <2>4
    <3> QED
      BY <3>1, <2>2 DEF OneSentinel
  <2> QED
    BY <2>3, <2>4
<1> QED
  BY <1>3, <1>4

\* The steps that touch neither the channel nor the writer's progress.
LEMMA NilCallStep ==
    ASSUME TypeOK, CallInv, NilInv, OneSentinel, NEW p \in Procs,
           \/ WriteCheck(p) \/ WriteLen(p) \/ CloseLock(p)
    PROVE  NilInv' /\ OneSentinel'
<1>1. UNCHANGED <<kind, wCh, accepted, isClose, wpc, werr>>
  BY DEF WriteCheck, WriteLen, CloseLock, writerVars
<1>2. Marking' <=> Marking
  <2>1. pc \in [Procs -> {"idle", "len", "send", "close", "push", "mark"}]
    BY DEF TypeOK
  <2>2. pc[p] # "mark" /\ pc'[p] # "mark"
    BY <2>1 DEF WriteCheck, WriteLen, CloseLock, Goto
  <2>3. \A q \in Procs : q # p => pc'[q] = pc[q]
    BY <2>1 DEF WriteCheck, WriteLen, CloseLock, Goto
  <2> QED
    BY <2>2, <2>3 DEF Marking
<1>3. WriterGone' <=> WriterGone
  BY <1>1 DEF WriterGone
<1> QED
  BY <1>1, <1>2, <1>3, NilQuiet DEF NilInv

\* Where the sentinel is, step by step.
LEMMA NilStep ==
    TypeOK /\ CallInv /\ NilInv /\ OneSentinel /\ [Next]_vars
        => NilInv' /\ OneSentinel'
<1> SUFFICES ASSUME TypeOK, CallInv, NilInv, OneSentinel, [Next]_vars
             PROVE  NilInv' /\ OneSentinel'
  OBVIOUS
<1>0. pc \in [Procs -> {"idle", "len", "send", "close", "push", "mark"}]
  BY DEF TypeOK
<1>1. ASSUME NEW p \in Procs, WriteCheck(p) \/ WriteLen(p) \/ CloseLock(p)
      PROVE  NilInv' /\ OneSentinel'
  BY <1>1, NilCallStep
\* A message is sent by a goroutine that is in no Close.
<1>2. ASSUME NEW p \in Procs, WriteSend(p) PROVE NilInv' /\ OneSentinel'
  <2>1. \A q \in Procs : pc'[q] = "mark" <=> pc[q] = "mark"
    BY <1>0, <1>2 DEF WriteSend, Return, Goto
  <2>2. Marking' <=> Marking
    BY <2>1 DEF Marking
  <2>3. msg[p] # Nil /\ msg[p] \in Nat
    BY <1>2 DEF WriteSend, CallInv, TypeOK
  <2>4. Push(msg[p]) /\ UNCHANGED <<kind, isClose, wpc, werr>>
    BY <1>2 DEF WriteSend, writerVars
  <2> QED
    BY <2>2, <2>3, <2>4, NilPush
\* The sentinel is sent with the mutex held, so by one goroutine at a time, and
\* not after another one has sent it.
<1>3. ASSUME NEW p \in Procs, ClosePush(p) PROVE NilInv' /\ OneSentinel'
  <2>1. pc[p] = "push" /\ lock = p /\ ~isClose
    BY <1>3 DEF ClosePush, CallInv
  <2>2. ~Marking
    BY <2>1 DEF Marking, CallInv
  <2>3. kind # "ws" => Marking'
    BY <1>0, <1>3 DEF ClosePush, Goto, Marking
  <2>4. Push(Nil) /\ Nil \in Nat /\ UNCHANGED <<kind, isClose, wpc, werr>>
    BY <1>3 DEF ClosePush, writerVars, Nil
  <2> QED
    BY <2>1, <2>2, <2>3, <2>4, NilPush
\* The goroutine that marks has sent the sentinel.
<1>4. ASSUME NEW p \in Procs, CloseMark(p) PROVE NilInv' /\ OneSentinel'
  <2>1. UNCHANGED <<kind, wCh, accepted, wpc, werr>> /\ isClose'
    BY <1>4 DEF CloseMark, writerVars
  <2>2. Marking
    BY <1>4 DEF CloseMark, Marking
  <2>3. WriterGone' <=> WriterGone
    BY <2>1 DEF WriterGone
  <2> QED
    BY <2>1, <2>2, <2>3, NilQuiet DEF NilInv
<1>5. CASE OwnerClose
  <2>1. UNCHANGED <<kind, wCh, accepted, isClose, wpc, werr>>
    BY <1>5 DEF OwnerClose, writerVars
  <2>2. \A q \in Procs : pc'[q] = "mark" <=> pc[q] = "mark"
    BY <1>0, <1>5 DEF OwnerClose, Goto
  <2>3. (Marking' <=> Marking) /\ (WriterGone' <=> WriterGone)
    BY <2>1, <2>2 DEF Marking, WriterGone
  <2> QED
    BY <2>1, <2>3, NilQuiet DEF NilInv
\* The writer that receives the sentinel leaves its loop with it.
<1>6. CASE WriterRecv
  <2>1. /\ wpc = "recv" /\ wCh' = Tail(wCh)
        /\ UNCHANGED <<kind, accepted, isClose, pc, werr>>
        /\ Head(wCh) = Nil => wpc' = "shut"
        /\ Head(wCh) # Nil => wpc' = "write"
    BY <1>6 DEF WriterRecv, callVars
  <2>2. wCh \in Seq(Nat) /\ wCh # <<>>
    BY <1>6 DEF WriterRecv, TypeOK
  <2>3. HasNil(wCh) <=> HasNil(Tail(wCh)) \/ Head(wCh) = Nil
    BY <2>2, HasNilTail
  <2>4. /\ HasNil(wCh)' <=> HasNil(Tail(wCh))
        /\ HasNil(accepted)' <=> HasNil(accepted)
        /\ Marking' <=> Marking
        /\ OneSentinel'
    BY <2>1 DEF HasNil, Marking, OneSentinel
  <2>5. ~WriterGone /\ (WriterGone' <=> Head(wCh) = Nil)
    BY <2>1 DEF WriterGone
  <2>6. NilInv'
    BY <2>1, <2>3, <2>4, <2>5 DEF NilInv
  <2> QED
    BY <2>4, <2>6
<1>7. CASE WriterWrite \/ WriterShut
  <2>1. UNCHANGED <<kind, wCh, accepted, isClose, pc>>
    BY <1>7 DEF WriterWrite, WriterShut, callVars
  <2>2. Marking' <=> Marking
    BY <2>1 DEF Marking
  <2>3. /\ WriterGone => WriterGone'
        /\ WriterGone' /\ ~werr' => WriterGone /\ ~werr
    BY <1>7 DEF WriterWrite, WriterShut, WriterGone
  <2> QED
    BY <2>1, <2>2, <2>3, NilQuiet DEF NilInv
<1>8. CASE WriterMark
  <2>1. UNCHANGED <<kind, wCh, accepted, pc, werr>> /\ isClose'
    BY <1>8 DEF WriterMark, callVars
  <2>2. WriterGone /\ WriterGone'
    BY <1>8 DEF WriterMark, WriterGone
  <2> QED
    BY <2>1, <2>2, NilQuiet DEF NilInv
<1>9. CASE SockBreak \/ UNCHANGED vars
  <2>1. UNCHANGED <<kind, wCh, accepted, isClose, pc, wpc, werr>>
    BY <1>9 DEF SockBreak, callVars, writerVars, vars
  <2>2. (Marking' <=> Marking) /\ (WriterGone' <=> WriterGone)
    BY <2>1 DEF Marking, WriterGone
  <2> QED
    BY <2>1, <2>2, NilQuiet DEF NilInv
<1> QED
  BY <1>1, <1>2, <1>3, <1>4, <1>5, <1>6, <1>7, <1>8, <1>9
     DEF Next, CallStep, WriterStep

-----------------------------------------------------------------------------
\* The invariant holds in every behaviour of Conn.
THEOREM Invariance == Spec => []IInv
<1>1. IInv /\ [Next]_vars => IInv'
  BY TypeStep, CallInvStep, NilStep DEF IInv
<1> QED
  BY InitInv, <1>1, PTL DEF Spec

\* Every variable keeps its type and wCh never holds more than Cap messages,
\* for all goroutines that test its length outside the mutex.
THEOREM Types == Spec => []TypeOK
<1>1. IInv => TypeOK
  BY DEF IInv
<1> QED
  BY Invariance, <1>1, PTL

\* However many goroutines overflow the channel at once, tcp and kcp connections
\* send one sentinel (conn.go: the isClose test and the assignment are in one
\* critical section, the unlocked tests of Write are not).
THEOREM SentinelOnce == Spec => []OneSentinel
<1>1. IInv => OneSentinel
  BY DEF IInv
<1> QED
  BY Invariance, <1>1, PTL

\* A connection marked closed always has a writer that has gone or will find
\* the sentinel.
THEOREM ClosedEnds == Spec => []ClosedIsEnding
<1>1. IInv => ClosedIsEnding
  BY DEF IInv, NilInv, ClosedIsEnding
<1> QED
  BY Invariance, <1>1, PTL

\* In the tcp and kcp copies no goroutine is left in Close with the mutex, in
\* front of a channel without a reader, unless a write to the socket failed.
THEOREM WedgeCause == Spec => []WedgeNeedsWriteError
<1>1. IInv => WedgeNeedsWriteError
  <2> SUFFICES ASSUME IInv, kind # "ws", NEW p \in Procs, Wedged(p), ~werr
               PROVE  FALSE
    BY DEF WedgeNeedsWriteError
  <2>1. pc[p] = "push" /\ lock = p /\ ~isClose /\ WriterGone
    BY DEF IInv, CallInv, Wedged
  <2>2. ~Marking
    BY <2>1 DEF IInv, CallInv, Marking
  <2>3. HasNil(accepted) /\ ~HasNil(accepted)
    BY <2>1, <2>2 DEF IInv, NilInv
  <2> QED
    BY <2>3
<1> QED
  BY Invariance, <1>1, PTL

-----------------------------------------------------------------------------
\* What the writer holds, phase by phase, with the order of the messages.
FlushInv ==
    /\ Flushed
    /\ wpc = "recv" => hand = <<>>
    /\ wpc = "write" => \E m \in Nat \ {Nil} : hand = <<m>>

\* Order and completeness survive every step.
LEMMA FlushStep == TypeOK /\ TypeOK' /\ CallInv /\ FlushInv /\ [Next]_vars => FlushInv'
<1> SUFFICES ASSUME TypeOK, TypeOK', CallInv, FlushInv, [Next]_vars
             PROVE  FlushInv'
  OBVIOUS
<1>0. /\ accepted \in Seq(Nat) /\ written \in Seq(Nat) /\ hand \in Seq(Nat)
      /\ wCh \in Seq(Nat) /\ wpc \in {"recv", "write", "shut", "lock", "done"}
      /\ accepted = (written \o hand) \o wCh
  BY DEF TypeOK, FlushInv, Flushed
<1>1. ASSUME UNCHANGED <<accepted, written, hand, wCh>>,
             wpc' = "recv" => wpc = "recv", wpc' = "write" => wpc = "write",
             WriterGone' /\ ~werr' => WriterGone /\ ~werr
      PROVE  FlushInv'
  BY <1>1 DEF FlushInv, Flushed, HasNil
<1>2. ASSUME NEW m \in Nat, Push(m), UNCHANGED <<wpc, werr, hand, written>>
      PROVE  FlushInv'
  <2>1. written \o hand \in Seq(Nat)
    BY <1>0, ConcatProperties
  <2>2. Append((written \o hand) \o wCh, m) = (written \o hand) \o Append(wCh, m)
    <3>1. /\ Append((written \o hand) \o wCh, m) = ((written \o hand) \o wCh) \o <<m>>
          /\ Append(wCh, m) = wCh \o <<m>>
      BY <1>0, <2>1, ConcatProperties, AppendIsConcat
    <3>2. <<m>> \in Seq(Nat)
      OBVIOUS
    <3>3. ((written \o hand) \o wCh) \o <<m>> = (written \o hand) \o (wCh \o <<m>>)
      <4> DEFINE d == written \o hand
      <4>1. d \in Seq(Nat) /\ wCh \in Seq(Nat)
        BY <1>0, <2>1
      <4> HIDE DEF d
      <4>2. (d \o wCh) \o <<m>> = d \o (wCh \o <<m>>)
        BY <3>2, <4>1, ConcatAssociative
      <4> QED
        BY <4>2 DEF d
    <3> QED
      BY <3>1, <3>3
  <2>3. accepted' = (written' \o hand') \o wCh'
    BY <1>0, <1>2, <2>2 DEF Push
  <2>4. WriterGone' = WriterGone /\ HasNil(written)' = HasNil(written)
    BY <1>2 DEF WriterGone, HasNil
  <2> QED
    BY <1>2, <2>3, <2>4 DEF FlushInv, Flushed
<1>3. ASSUME NEW p \in Procs, WriteSend(p) PROVE FlushInv'
  <2>1. Push(msg[p]) /\ UNCHANGED <<wpc, werr, hand, written>> /\ msg[p] \in Nat
    BY <1>3 DEF WriteSend, writerVars, TypeOK
  <2> QED
    BY <1>2, <2>1
<1>4. ASSUME NEW p \in Procs, ClosePush(p) PROVE FlushInv'
  <2>1. Push(Nil) /\ UNCHANGED <<wpc, werr, hand, written>> /\ Nil \in Nat
    BY <1>4 DEF ClosePush, writerVars, Nil
  <2> QED
    BY <1>2, <2>1
<1>5. CASE WriterRecv
  <2>1. /\ hand = <<>> /\ wCh # <<>> /\ hand' = <<Head(wCh)>> /\ wCh' = Tail(wCh)
        /\ UNCHANGED <<accepted, written, werr>>
        /\ wpc' = IF Head(wCh) = Nil THEN "shut" ELSE "write"
    BY <1>5 DEF WriterRecv, FlushInv
  <2>2. written \o wCh = (written \o <<Head(wCh)>>) \o Tail(wCh)
    BY <1>0, <2>1
  <2>3. accepted' = (written' \o hand') \o wCh'
    <3>1. accepted = (written \o <<>>) \o wCh /\ written \o <<>> = written
      BY <1>0, <2>1, ConcatEmptySeq
    <3>2. accepted = (written \o <<Head(wCh)>>) \o Tail(wCh)
      BY <2>2, <3>1, Zenon
    <3> QED
      BY <2>1, <3>2
  <2>4. HasNil(written)' = HasNil(written)
    BY <2>1 DEF HasNil
  <2>5. Head(wCh) \in Nat
    BY <1>0, <2>1, HasNilTail
  <2> QED
    BY <2>1, <2>3, <2>4, <2>5 DEF FlushInv, Flushed, WriterGone
<1>6. CASE WriterWrite /\ sock = "open"
  <2>1. /\ wpc = "write" /\ written' = written \o hand /\ hand' = <<>>
        /\ wpc' = "recv" /\ UNCHANGED <<accepted, wCh>>
    BY <1>6 DEF WriterWrite
  <2>2. PICK m \in Nat \ {Nil} : hand = <<m>>
    BY <2>1 DEF FlushInv
  <2>3. written' = Append(written, m)
    BY <1>0, <2>1, <2>2, AppendIsConcat
  <2>4. ~HasNil(Append(written, m))
    BY <1>0, <2>2, HasNilAppend DEF FlushInv, Flushed
  <2>5. ~HasNil(written)'
    BY <2>3, <2>4 DEF HasNil
  <2>6. accepted' = (written' \o hand') \o wCh'
    BY <1>0, <2>1, ConcatEmptySeq, ConcatProperties
  <2> QED
    BY <2>1, <2>5, <2>6 DEF FlushInv, Flushed, WriterGone
<1>7. CASE WriterWrite /\ sock # "open"
  BY <1>1, <1>7 DEF WriterWrite, WriterGone
<1>8. CASE WriterShut \/ WriterMark
  BY <1>1, <1>8 DEF WriterShut, WriterMark, WriterGone
<1>9. CASE \/ \E p \in Procs : WriteCheck(p) \/ WriteLen(p) \/ CloseLock(p) \/ CloseMark(p)
           \/ OwnerClose \/ SockBreak \/ UNCHANGED vars
  <2>1. UNCHANGED <<accepted, written, hand, wCh, wpc, werr>>
    BY <1>9 DEF WriteCheck, WriteLen, CloseLock, CloseMark, OwnerClose, SockBreak,
                writerVars, vars
  <2> QED
    BY <1>1, <2>1 DEF WriterGone
<1> QED
  BY <1>3, <1>4, <1>5, <1>6, <1>7, <1>8, <1>9 DEF Next, CallStep, WriterStep

\* A connection is a FIFO queue up to its first Close: nothing sent on wCh is
\* lost, duplicated or overtaken before the sentinel or a write error, and a
\* Close lets the messages queued before it out first.
THEOREM FlushOrder == Spec => []Flushed
<1>1. Init => FlushInv
  <2> SUFFICES ASSUME Init PROVE FlushInv
    OBVIOUS
  <2>1. <<>> \o <<>> = <<>>
    OBVIOUS
  <2> QED
    BY <2>1 DEF Init, FlushInv, Flushed, HasNil, WriterGone
<1>2. IInv /\ IInv' /\ FlushInv /\ [Next]_vars => FlushInv'
  BY FlushStep DEF IInv
<1>3. FlushInv => Flushed
  BY DEF FlushInv
<1> QED
  BY Invariance, <1>1, <1>2, <1>3, PTL DEF Spec
=============================================================================
