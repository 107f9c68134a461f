--------------------------- MODULE PipelineProofs ---------------------------
(* The safety of Pipeline for any number of Stop and Call calls, any       *)
(* channel capacity and any number of messages.                            *)
EXTENDS Pipeline, SequenceTheorems, TLAPS

\* Run has left its drain loop.
Past == run \in {"signal", "closeGo", "closeCall", "done"}

\* A Stop that has found isClosed false; one that has also set it.
Taken(s)  == spc[s] \in {"mark", "send", "wait", "close", "returned"}
Marked(s) == spc[s] \in {"send", "wait", "close", "returned"}

\* How far Stops and Run are relative to each other.  The token in stopCh and
\* everything Run does after it come from a Stop that has set isClosed; nobody
\* gets past the wait, and nothing is closed, before the drain is over.
StopInv ==
    /\ isClosed <=> \E s \in Stoppers : Marked(s)
    /\ stopCh = 1 \/ run \notin {"off", "serve"} => isClosed
    /\ isStopCh = 1 \/ isStopClosed \/ goClosed \/ callClosed => Past
    /\ \A s \in Stoppers : spc[s] \in {"close", "returned"} => Past
    /\ panic \in {"go", "call"} => Past

\* Without an overlap only one Stop is ever past the test of isClosed, so that
\* isStopCh is closed by the only one that does.
RaceInv ==
    /\ isStopClosed => \E s \in Stoppers : spc[s] = "returned"
    /\ ~overlapped => \A s, t \in Stoppers : Taken(s) /\ Taken(t) => s = t
    /\ panic = "stop" => overlapped

\* What was queued before a Stop is queued or done, and done once the drain is
\* over: from then on no Stop finds isClosed false.
QueueInv ==
    /\ accepted = executed \o goCh
    /\ \A s \in Stoppers :
          /\ goBefore[s] <= Len(accepted)
          /\ Past => goBefore[s] <= Len(executed)
          /\ \A c \in callsBefore[s] : call[c] # "idle" /\ (Past => call[c] # "waiting")
    /\ ~Past => \A c \in Callers : call[c] = "waiting" => callCh = <<c>>

IInv == TypeOK /\ StopInv /\ RaceInv /\ QueueInv

-----------------------------------------------------------------------------
\* A channel of capacity one is empty or holds its head alone.
LEMMA OneSlot ==
    ASSUME NEW S, NEW q \in Seq(S), Len(q) <= 1
    PROVE  /\ q # <<>> => Head(q) \in S /\ q = <<Head(q)>> /\ Tail(q) = <<>>
           /\ Len(q) < 1 => q = <<>> /\ \A m \in S : Append(q, m) = <<m>>
<1>1. CASE q = <<>>
  BY <1>1
<1>2. CASE q # <<>>
  <2>1. Head(q) \in S /\ Tail(q) \in Seq(S) /\ Len(q) = Len(Tail(q)) + 1 /\ q[1] = Head(q)
    BY <1>2, HeadTailProperties
  <2>2. Len(q) = 1 /\ Len(Tail(q)) = 0
    <3>1. Len(Tail(q)) \in Nat
      BY <2>1
    <3> QED
      BY <2>1, <3>1
  <2>3. q = <<q[1]>>
    BY <2>2
  <2>4. Tail(q) = <<>>
    BY <2>1, <2>2, EmptySeq
  <2> QED
    BY <2>1, <2>2, <2>3, <2>4
<1> QED
  BY <1>1, <1>2

\* A behaviour starts in the invariant.
LEMMA InitInv == Init => IInv
<1> SUFFICES ASSUME Init PROVE IInv
  OBVIOUS
<1> USE PipelineAssumption DEF Init
<1>1. /\ <<>> \in Seq(Nat) /\ <<>> \in Seq(Callers) /\ Len(<<>>) = 0
      /\ <<>> \o <<>> = <<>>
  OBVIOUS
<1>2. TypeOK
  <2>1. /\ spc \in [Stoppers -> {"idle", "mark", "send", "wait", "close", "returned",
                                 "early"}]
        /\ call \in [Callers -> {"idle", "waiting", "refused", "answered", "ignored"}]
        /\ goBefore \in [Stoppers -> Nat]
        /\ callsBefore \in [Stoppers -> SUBSET Callers]
    OBVIOUS
  <2>2. /\ goCh \in Seq(Nat) /\ Len(goCh) <= GoLen
        /\ callCh \in Seq(Callers) /\ Len(callCh) <= 1
        /\ accepted \in Seq(Nat) /\ executed \in Seq(Nat)
    BY <1>1
  <2>3. stopCh \in 0 .. 1 /\ isStopCh \in 0 .. 1
    OBVIOUS
  <2>5. /\ isStopClosed \in BOOLEAN /\ isClosed \in BOOLEAN /\ goClosed \in BOOLEAN
        /\ callClosed \in BOOLEAN /\ overlapped \in BOOLEAN
    BY Zenon
  <2>4. /\ run \in {"off", "serve", "drain", "signal", "closeGo", "closeCall", "done"}
        /\ panic \in {"no", "go", "call", "stop"}
    OBVIOUS
  <2> QED
    BY <2>1, <2>2, <2>3, <2>4, <2>5, Zenon DEF TypeOK
<1>3. StopInv /\ RaceInv
  BY DEF StopInv, RaceInv, Past, Taken, Marked
<1>4. QueueInv
  BY <1>1 DEF QueueInv, Past
<1> QED
  BY <1>2, <1>3, <1>4 DEF IInv

\* Every step keeps the types, the capacities included.
LEMMA TypeStep == TypeOK /\ [Next]_vars => TypeOK'
<1> SUFFICES ASSUME TypeOK, [Next]_vars PROVE TypeOK'
  OBVIOUS
<1> USE PipelineAssumption DEF TypeOK, stopVars, goVars, callVars
<1>1. CASE Go
  <2>1. CASE ~goClosed /\ Len(goCh) < GoLen /\ UNCHANGED panic
             /\ goCh' = Append(goCh, Len(accepted) + 1)
             /\ accepted' = Append(accepted, Len(accepted) + 1)
    <3>1. Len(accepted) + 1 \in Nat /\ Len(goCh) \in Nat
      OBVIOUS
    <3>2. goCh' \in Seq(Nat) /\ accepted' \in Seq(Nat) /\ Len(goCh') = Len(goCh) + 1
      BY <2>1, <3>1, AppendProperties
    <3>3. Len(goCh') <= GoLen
      BY <2>1, <3>1, <3>2
    <3> QED
      BY <1>1, <2>1, <3>2, <3>3 DEF Go
  <2>2. CASE panic' = "go" /\ UNCHANGED <<goCh, accepted>>
    BY <1>1, <2>2 DEF Go
  <2> QED
    BY <1>1, <2>1, <2>2 DEF Go
<1>2. ASSUME NEW c \in Callers, Call(c) PROVE TypeOK'
  <2>1. callCh' \in Seq(Callers) /\ Len(callCh') <= 1
    BY <1>2, AppendProperties DEF Call
  <2>2. /\ call' \in [Callers -> {"idle", "waiting", "refused", "answered", "ignored"}]
        /\ panic' \in {"no", "go", "call", "stop"}
    BY <1>2 DEF Call
  <2> QED
    BY <1>2, <2>1, <2>2 DEF Call
<1>3. CASE RunBegin \/ DrainEnd \/ CloseGo \/ CloseCall
  <2>1. CASE RunBegin \/ DrainEnd
    BY <2>1 DEF RunBegin, DrainEnd
  <2>2. CASE CloseGo
    BY <2>2 DEF CloseGo
  <2>3. CASE CloseCall
    BY <2>3 DEF CloseCall
  <2> QED
    BY <1>3, <2>1, <2>2, <2>3
<1>4. CASE RunStop \/ Signal
  <2>1. CASE RunStop
    <3>1. stopCh' \in 0 .. 1 /\ run' = "drain"
      BY <2>1 DEF RunStop
    <3> QED
      BY <2>1, <3>1 DEF RunStop
  <2>2. CASE Signal
    <3>1. isStopCh' \in 0 .. 1 /\ run' = "closeGo"
      BY <2>2 DEF Signal
    <3> QED
      BY <2>2, <3>1 DEF Signal
  <2> QED
    BY <1>4, <2>1, <2>2
<1>5. CASE ExecGo
  <2>1. goCh \in Seq(Nat) /\ goCh # <<>> /\ Len(goCh) \in Nat
    BY <1>5 DEF ExecGo
  <2>2. /\ Head(goCh) \in Nat /\ Tail(goCh) \in Seq(Nat)
        /\ Len(Tail(goCh)) = Len(goCh) - 1
    BY <2>1, HeadTailProperties
  <2>3. executed' \in Seq(Nat)
    BY <1>5, <2>2, AppendProperties DEF ExecGo
  <2>4. goCh' \in Seq(Nat) /\ Len(goCh') <= GoLen
    BY <1>5, <2>1, <2>2 DEF ExecGo
  <2> QED
    BY <1>5, <2>3, <2>4 DEF ExecGo
<1>6. CASE ExecCall
  <2>1. callCh \in Seq(Callers) /\ callCh # <<>> /\ Len(callCh) \in Nat
    BY <1>6 DEF ExecCall
  <2>2. /\ Head(callCh) \in Callers /\ Tail(callCh) \in Seq(Callers)
        /\ Len(Tail(callCh)) = Len(callCh) - 1
    BY <2>1, HeadTailProperties
  <2>3. callCh' \in Seq(Callers) /\ Len(callCh') <= 1
    BY <1>6, <2>1, <2>2 DEF ExecCall
  <2>4. call' \in [Callers -> {"idle", "waiting", "refused", "answered", "ignored"}]
    BY <1>6 DEF ExecCall
  <2> QED
    BY <1>6, <2>3, <2>4 DEF ExecCall
<1>7. ASSUME NEW s \in Stoppers, StopCheck(s) PROVE TypeOK'
  <2>1. /\ spc' \in [Stoppers -> {"idle", "mark", "send", "wait", "close", "returned",
                                  "early"}]
        /\ overlapped' \in BOOLEAN
    BY <1>7 DEF StopCheck
  <2>2. goBefore' \in [Stoppers -> Nat]
    <3>1. Len(accepted) \in Nat
      OBVIOUS
    <3>2. goBefore' = goBefore \/ goBefore' = [goBefore EXCEPT ![s] = Len(accepted)]
      BY <1>7 DEF StopCheck
    <3> QED
      BY <3>1, <3>2
  <2>3. callsBefore' \in [Stoppers -> SUBSET Callers]
    <3>1. Waiting \in SUBSET Callers /\ callsBefore \in [Stoppers -> SUBSET Callers]
      BY DEF Waiting
    <3>2. \/ callsBefore' = callsBefore
          \/ callsBefore' = [callsBefore EXCEPT ![s] = Waiting]
      BY <1>7 DEF StopCheck
    <3> HIDE DEF TypeOK
    <3> QED
      BY <3>1, <3>2
  <2> QED
    BY <1>7, <2>1, <2>2, <2>3 DEF StopCheck
<1>8. ASSUME NEW s \in Stoppers, StopMark(s) \/ StopSend(s) \/ StopWait(s) PROVE TypeOK'
  <2>1. CASE StopMark(s)
    BY <2>1 DEF StopMark
  <2>2. CASE StopSend(s)
    BY <2>2 DEF StopSend
  <2>3. CASE StopWait(s)
    <3>1. isStopCh' \in 0 .. 1
      BY <2>3 DEF StopWait
    <3> QED
      BY <2>3, <3>1 DEF StopWait
  <2> QED
    BY <1>8, <2>1, <2>2, <2>3
<1>9. ASSUME NEW s \in Stoppers, StopClose(s) PROVE TypeOK'
  BY <1>9 DEF StopClose
<1>10. CASE UNCHANGED vars
  BY <1>10 DEF vars
<1> QED
  BY <1>1, <1>2, <1>3, <1>4, <1>5, <1>6, <1>7, <1>8, <1>9, <1>10
     DEF Next, RunStep, StopStep

-----------------------------------------------------------------------------
\* Nobody gets past Run, and Run not past its first loop without a Stop.
LEMMA StopInvStep == TypeOK /\ StopInv /\ [Next]_vars => StopInv'
<1> SUFFICES ASSUME TypeOK, StopInv, [Next]_vars PROVE StopInv'
  OBVIOUS
<1>0. /\ spc \in [Stoppers -> {"idle", "mark", "send", "wait", "close", "returned",
                               "early"}]
      /\ stopCh \in 0 .. 1 /\ isStopCh \in 0 .. 1
      /\ run \in {"off", "serve", "drain", "signal", "closeGo", "closeCall", "done"}
  BY DEF TypeOK
<1> USE DEF StopInv, Past, Marked
<1>1. CASE Go \/ (\E c \in Callers : Call(c)) \/ ExecGo \/ ExecCall \/ UNCHANGED vars
  <2>1. UNCHANGED <<isClosed, spc, stopCh, isStopCh, isStopClosed, goClosed, callClosed, run>>
    BY <1>1 DEF Go, Call, ExecGo, ExecCall, vars, stopVars, goVars, callVars
  <2>2. panic' \in {"go", "call"} => panic \in {"go", "call"} \/ goClosed \/ callClosed
    BY <1>1 DEF Go, Call, ExecGo, ExecCall, vars
  <2> QED
    BY <2>1, <2>2
<1>2. CASE RunBegin \/ RunStop \/ DrainEnd \/ Signal \/ CloseGo \/ CloseCall
  <2>1. UNCHANGED <<isClosed, spc, isStopClosed, panic>>
    BY <1>2 DEF RunBegin, RunStop, DrainEnd, Signal, CloseGo, CloseCall, stopVars
  <2>2. CASE RunBegin \/ DrainEnd
    BY <2>1, <2>2 DEF RunBegin, DrainEnd, stopVars, goVars, callVars
  <2>3. CASE RunStop
    <3>1. /\ stopCh = 1 /\ stopCh' = 0 /\ run = "serve" /\ run' = "drain"
          /\ UNCHANGED <<isStopCh, goClosed, callClosed>>
      BY <1>0, <2>3 DEF RunStop, goVars, callVars
    <3> QED
      BY <2>1, <3>1
  <2>4. CASE Signal
    BY <2>1, <2>4 DEF Signal, goVars, callVars
  <2>5. CASE CloseGo \/ CloseCall
    BY <2>1, <2>5 DEF CloseGo, CloseCall, stopVars, callVars, goVars
  <2> QED
    BY <1>2, <2>2, <2>3, <2>4, <2>5
<1>3. ASSUME NEW s \in Stoppers, StopCheck(s) PROVE StopInv'
  <2>1. /\ UNCHANGED <<isClosed, stopCh, isStopCh, isStopClosed, goClosed, callClosed,
                       run, panic>>
        /\ spc[s] = "idle" /\ spc'[s] \in {"mark", "early"}
        /\ \A t \in Stoppers : t # s => spc'[t] = spc[t]
    BY <1>0, <1>3 DEF StopCheck, goVars, callVars
  <2> QED
    BY <2>1
<1>4. ASSUME NEW s \in Stoppers, StopMark(s) \/ StopSend(s) PROVE StopInv'
  <2>1. /\ UNCHANGED <<isStopCh, isStopClosed, goClosed, callClosed, run, panic>>
        /\ spc'[s] \in {"send", "wait"}
        /\ \A t \in Stoppers : t # s => spc'[t] = spc[t]
    BY <1>0, <1>4 DEF StopMark, StopSend, goVars, callVars
  <2>2. isClosed'
    BY <1>4 DEF StopMark, StopSend
  <2> QED
    BY <2>1, <2>2
<1>5. ASSUME NEW s \in Stoppers, StopWait(s) PROVE StopInv'
  <2>1. /\ UNCHANGED <<isClosed, stopCh, isStopClosed, goClosed, callClosed, run, panic>>
        /\ spc[s] = "wait" /\ spc'[s] = "close"
        /\ \A t \in Stoppers : t # s => spc'[t] = spc[t]
    BY <1>0, <1>5 DEF StopWait, goVars, callVars
  <2>2. Past
    BY <1>0, <1>5 DEF StopWait
  <2> QED
    BY <2>1, <2>2
<1>6. ASSUME NEW s \in Stoppers, StopClose(s) PROVE StopInv'
  <2>1. /\ UNCHANGED <<isClosed, stopCh, isStopCh, goClosed, callClosed, run>>
        /\ spc[s] = "close" /\ spc'[s] \in {"close", "returned"}
        /\ \A t \in Stoppers : t # s => spc'[t] = spc[t]
        /\ panic' = "stop" \/ panic' = panic
    BY <1>0, <1>6 DEF StopClose, goVars, callVars
  <2> QED
    BY <2>1
<1> QED
  BY <1>1, <1>2, <1>3, <1>4, <1>5, <1>6 DEF Next, RunStep, StopStep

\* The Stop that closes isStopCh second has overlapped another one's test.
LEMMA RaceInvStep == TypeOK /\ StopInv /\ RaceInv /\ [Next]_vars => RaceInv'
<1> SUFFICES ASSUME TypeOK, StopInv, RaceInv, [Next]_vars PROVE RaceInv'
  OBVIOUS
<1>0. spc \in [Stoppers -> {"idle", "mark", "send", "wait", "close", "returned", "early"}]
  BY DEF TypeOK
<1> USE DEF RaceInv, Taken
<1>1. CASE Go \/ (\E c \in Callers : Call(c)) \/ RunStep \/ UNCHANGED vars
  <2>1. UNCHANGED <<isStopClosed, spc, overlapped>>
    BY <1>1 DEF Go, Call, RunStep, RunBegin, RunStop, ExecGo, ExecCall, DrainEnd, Signal,
                CloseGo, CloseCall, vars, stopVars
  <2>2. panic' = "stop" => panic = "stop"
    BY <1>1 DEF Go, Call, RunStep, RunBegin, RunStop, ExecGo, ExecCall, DrainEnd, Signal,
                CloseGo, CloseCall, vars
  <2> QED
    BY <2>1, <2>2
<1>2. ASSUME NEW s \in Stoppers, StopCheck(s) PROVE RaceInv'
  <2>1. UNCHANGED <<isStopClosed, panic>> /\ spc[s] = "idle"
        /\ \A t \in Stoppers : t # s => spc'[t] = spc[t]
    BY <1>0, <1>2 DEF StopCheck
  <2>2. CASE isClosed
    <3>1. spc'[s] = "early" /\ overlapped' = overlapped
      BY <1>0, <1>2, <2>2 DEF StopCheck
    <3> QED
      BY <2>1, <3>1
  <2>3. CASE ~isClosed
    <3>1. overlapped' = (overlapped \/ \E t \in Stoppers : spc[t] = "mark")
      BY <1>2, <2>3 DEF StopCheck
    <3>2. \A t \in Stoppers : Taken(t) => spc[t] = "mark"
      BY <1>0, <2>3 DEF StopInv, Marked
    <3>3. ~overlapped' => \A t \in Stoppers : ~Taken(t)
      BY <3>1, <3>2
    <3> QED
      BY <2>1, <3>1, <3>3
  <2> QED
    BY <2>2, <2>3
<1>3. ASSUME NEW s \in Stoppers, StopMark(s) \/ StopSend(s) \/ StopWait(s) PROVE RaceInv'
  <2>1. /\ UNCHANGED <<isStopClosed, panic, overlapped>>
        /\ spc[s] \in {"mark", "send", "wait"}
        /\ \A t \in Stoppers : t # s => spc'[t] = spc[t]
    BY <1>0, <1>3 DEF StopMark, StopSend, StopWait
  <2> QED
    BY <2>1
<1>4. ASSUME NEW s \in Stoppers, StopClose(s) PROVE RaceInv'
  <2>1. CASE isStopClosed
    <3>1. /\ UNCHANGED <<isStopClosed, spc, overlapped>> /\ spc[s] = "close"
      BY <1>4, <2>1 DEF StopClose
    <3>2. PICK t \in Stoppers : spc[t] = "returned"
      BY <2>1
    <3>3. overlapped
      BY <3>1, <3>2
    <3> QED
      BY <3>1, <3>3
  <2>2. CASE ~isStopClosed
    <3>1. /\ UNCHANGED <<overlapped, panic>> /\ spc[s] = "close" /\ spc'[s] = "returned"
          /\ \A t \in Stoppers : t # s => spc'[t] = spc[t]
      BY <1>0, <1>4, <2>2 DEF StopClose
    <3> QED
      BY <3>1
  <2> QED
    BY <2>1, <2>2
<1> QED
  BY <1>1, <1>2, <1>3, <1>4 DEF Next, StopStep

\* What was queued before a Stop is queued or done.
LEMMA QueueInvStep == TypeOK /\ TypeOK' /\ StopInv /\ QueueInv /\ [Next]_vars => QueueInv'
<1> SUFFICES ASSUME TypeOK, TypeOK', StopInv, QueueInv, [Next]_vars PROVE QueueInv'
  OBVIOUS
<1>0. /\ accepted \in Seq(Nat) /\ executed \in Seq(Nat) /\ goCh \in Seq(Nat)
      /\ callCh \in Seq(Callers) /\ Len(callCh) <= 1
      /\ goBefore \in [Stoppers -> Nat] /\ callsBefore \in [Stoppers -> SUBSET Callers]
      /\ call \in [Callers -> {"idle", "waiting", "refused", "answered", "ignored"}]
      /\ Len(accepted) \in Nat /\ Len(executed) \in Nat
      /\ run \in {"off", "serve", "drain", "signal", "closeGo", "closeCall", "done"}
  BY DEF TypeOK
<1>1. CASE Go
  <2>1. UNCHANGED <<executed, callCh, call, goBefore, callsBefore, run>>
    BY <1>1 DEF Go, stopVars, callVars
  <2>2. CASE UNCHANGED <<goCh, accepted>>
    BY <2>1, <2>2 DEF QueueInv, Past
  <2>3. CASE /\ goCh' = Append(goCh, Len(accepted) + 1)
             /\ accepted' = Append(accepted, Len(accepted) + 1)
    <3>1. Len(accepted) + 1 \in Nat /\ Len(accepted') = Len(accepted) + 1
      BY <1>0, <2>3, AppendProperties
    <3>2. Append(executed \o goCh, Len(accepted) + 1)
             = executed \o Append(goCh, Len(accepted) + 1)
      <4> DEFINE m == Len(accepted) + 1
      <4>1. executed \in Seq(Nat) /\ goCh \in Seq(Nat) /\ m \in Nat
        BY <1>0, <3>1
      <4> HIDE DEF m
      <4>2. /\ Append(executed \o goCh, m) = (executed \o goCh) \o <<m>>
            /\ Append(goCh, m) = goCh \o <<m>> /\ <<m>> \in Seq(Nat)
        <5>1. executed \o goCh \in Seq(Nat)
          BY <4>1, ConcatProperties
        <5> QED
          BY <4>1, <5>1, AppendIsConcat
      <4>3. (executed \o goCh) \o <<m>> = executed \o (goCh \o <<m>>)
        BY <4>1, <4>2, ConcatAssociative
      <4> QED
        BY <4>2, <4>3 DEF m
    <3>3. accepted = executed \o goCh
      BY DEF QueueInv
    <3>4. accepted' = executed' \o goCh'
      BY <2>1, <2>3, <3>2, <3>3, Zenon
    <3>5. \A s \in Stoppers : goBefore[s] <= Len(accepted')
      BY <1>0, <3>1 DEF QueueInv
    <3> QED
      BY <2>1, <3>4, <3>5 DEF QueueInv, Past
  <2> QED
    BY <1>1, <2>2, <2>3 DEF Go
<1>2. ASSUME NEW c \in Callers, Call(c) PROVE QueueInv'
  <2>1. UNCHANGED <<accepted, executed, goCh, goBefore, callsBefore, run>> /\ call[c] = "idle"
    BY <1>2 DEF Call, stopVars, goVars
  <2>2. CASE call' = call /\ callCh' = callCh
    BY <2>1, <2>2 DEF QueueInv, Past
  <2>3. CASE call' = [call EXCEPT ![c] = "refused"] /\ callCh' = callCh
    BY <1>0, <2>1, <2>3 DEF QueueInv, Past
  <2>4. CASE /\ call' = [call EXCEPT ![c] = "waiting"]
             /\ callCh' = Append(callCh, c) /\ Len(callCh) < 1
    <3>1. callCh = <<>> /\ callCh' = <<c>>
      BY <1>0, <2>4, OneSlot
    <3>2. ~Past => \A d \in Callers : call'[d] = "waiting" => callCh' = <<d>>
      BY <1>0, <2>4, <3>1 DEF QueueInv
    <3>3. \A s \in Stoppers : c \notin callsBefore[s]
      BY <2>1 DEF QueueInv
    <3> QED
      BY <1>0, <2>1, <2>4, <3>2, <3>3 DEF QueueInv, Past
  <2> QED
    BY <1>2, <2>2, <2>3, <2>4 DEF Call
<1>3. CASE RunBegin \/ RunStop \/ Signal \/ CloseGo \/ CloseCall
  <2>1. UNCHANGED <<accepted, executed, goCh, callCh, call, goBefore, callsBefore>>
    BY <1>3 DEF RunBegin, RunStop, Signal, CloseGo, CloseCall, stopVars, goVars, callVars
  <2>2. Past' <=> Past
    BY <1>3 DEF RunBegin, RunStop, Signal, CloseGo, CloseCall, Past
  <2> QED
    BY <2>1, <2>2 DEF QueueInv
<1>4. CASE ExecGo
  <2>1. /\ UNCHANGED <<accepted, callCh, call, goBefore, callsBefore, run>>
        /\ executed' = Append(executed, Head(goCh)) /\ goCh' = Tail(goCh) /\ goCh # <<>>
        /\ run \in {"serve", "drain"}
    BY <1>4 DEF ExecGo, stopVars, callVars
  <2>2. accepted' = executed' \o goCh'
    <3>1. goCh # <<>> /\ goCh \in Seq(Nat) /\ executed \in Seq(Nat)
      BY <1>0, <2>1
    <3>2. executed \o goCh = Append(executed, Head(goCh)) \o Tail(goCh)
      BY <3>1
    <3> QED
      BY <2>1, <3>2 DEF QueueInv
  <2>3. ~Past /\ ~Past'
    BY <2>1 DEF Past
  <2> QED
    BY <2>1, <2>2, <2>3 DEF QueueInv
<1>5. CASE ExecCall
  <2>1. /\ UNCHANGED <<accepted, executed, goCh, goBefore, callsBefore, run>>
        /\ callCh # <<>> /\ run \in {"serve", "drain"}
    BY <1>5 DEF ExecCall, stopVars, goVars
  <2>2. callCh = <<Head(callCh)>> /\ Head(callCh) \in Callers
    BY <1>0, <2>1, OneSlot
  <2>3. /\ call'[Head(callCh)] \in {"answered", "ignored"}
        /\ \A d \in Callers : d # Head(callCh) => call'[d] = call[d]
    BY <1>0, <1>5, <2>2 DEF ExecCall
  <2>4. ~Past /\ ~Past'
    BY <2>1 DEF Past
  <2>5. \A d \in Callers : call'[d] # "waiting"
    <3> SUFFICES ASSUME NEW d \in Callers, call'[d] = "waiting" PROVE FALSE
      OBVIOUS
    <3>1. d # Head(callCh) /\ call[d] = "waiting"
      BY <2>3
    <3>2. callCh = <<d>>
      BY <2>4, <3>1 DEF QueueInv
    <3>3. Head(callCh) = d
      BY <3>2
    <3> QED
      BY <3>1, <3>3
  <2>6. \A s \in Stoppers : \A d \in callsBefore[s] : call'[d] # "idle"
    BY <1>0, <2>3 DEF QueueInv
  <2> QED
    BY <2>1, <2>4, <2>5, <2>6 DEF QueueInv
\* The drain ends with both channels empty.
<1>6. CASE DrainEnd
  <2>1. /\ UNCHANGED <<accepted, executed, goCh, callCh, call, goBefore, callsBefore>>
        /\ goCh = <<>> /\ callCh = <<>> /\ run = "drain" /\ run' = "signal"
    BY <1>6 DEF DrainEnd, stopVars, goVars, callVars
  <2>2. accepted = executed
    BY <1>0, <2>1, ConcatEmptySeq DEF QueueInv
  <2>3. \A s \in Stoppers : goBefore[s] <= Len(executed)
    BY <2>2 DEF QueueInv
  <2>4. \A c \in Callers : call[c] # "waiting"
    BY <2>1 DEF QueueInv, Past
  <2>5. Past'
    BY <2>1 DEF Past
  <2>6. \A s \in Stoppers : callsBefore[s] \subseteq Callers
    BY <1>0
  <2> QED
    BY <2>1, <2>3, <2>4, <2>5, <2>6 DEF QueueInv
<1>7. ASSUME NEW s \in Stoppers, StopCheck(s) PROVE QueueInv'
  <2>1. UNCHANGED <<accepted, executed, goCh, callCh, call, run>>
    BY <1>7 DEF StopCheck, goVars, callVars
  <2>2. CASE UNCHANGED <<goBefore, callsBefore>>
    BY <2>1, <2>2 DEF QueueInv, Past
  <2>3. CASE /\ ~isClosed
             /\ goBefore' = [goBefore EXCEPT ![s] = Len(accepted)]
             /\ callsBefore' = [callsBefore EXCEPT ![s] = Waiting]
    <3>1. ~Past /\ ~Past'
      BY <2>1, <2>3 DEF StopInv, Past
    <3>2. goBefore'[s] = Len(accepted) /\ callsBefore'[s] = Waiting
      BY <1>0, <2>3
    <3>3. \A t \in Stoppers : t # s => /\ goBefore'[t] = goBefore[t]
                                       /\ callsBefore'[t] = callsBefore[t]
      BY <1>0, <2>3
    <3>4. \A t \in Stoppers : goBefore'[t] <= Len(accepted)
      <4>1. \A t \in Stoppers : goBefore[t] <= Len(accepted)
        BY DEF QueueInv
      <4>2. Len(accepted) <= Len(accepted)
        BY <1>0
      <4> QED
        BY <3>2, <3>3, <4>1, <4>2, Zenon
    <3>5. \A t \in Stoppers : \A c \in callsBefore'[t] : call[c] # "idle"
      BY <3>2, <3>3 DEF QueueInv, Waiting
    <3> QED
      BY <2>1, <3>1, <3>4, <3>5 DEF QueueInv
  <2> QED
    BY <1>7, <2>2, <2>3 DEF StopCheck
<1>8. CASE (\E s \in Stoppers : StopStep(s)) \/ UNCHANGED vars
  <2>1. UNCHANGED <<accepted, executed, goCh, callCh, call, run, goBefore, callsBefore>>
    BY <1>8 DEF StopStep, StopMark, StopSend, StopWait, StopClose, vars, stopVars,
                goVars, callVars
  <2> QED
    BY <2>1 DEF QueueInv, Past
<1> QED
  BY <1>1, <1>2, <1>3, <1>4, <1>5, <1>6, <1>7, <1>8 DEF Next, RunStep

-----------------------------------------------------------------------------
\* The invariant holds in every behaviour of Pipeline.
THEOREM Invariance == Spec => []IInv
<1>1. IInv /\ [Next]_vars => IInv'
  BY TypeStep, StopInvStep, RaceInvStep, QueueInvStep DEF IInv
<1> QED
  BY InitInv, <1>1, PTL DEF Spec

\* Every variable keeps its type and no channel exceeds its capacity.
THEOREM Types == Spec => []TypeOK
<1>1. IInv => TypeOK
  BY DEF IInv
<1> QED
  BY Invariance, <1>1, PTL

\* A Stop that has waited leaves nothing undone that was queued before it, and
\* what Go queues is executed once and in order.
THEOREM StopDrains == Spec => []Drained
<1>1. IInv => Drained
  BY DEF IInv, StopInv, QueueInv, Drained
<1> QED
  BY Invariance, <1>1, PTL

\* Go and Call do not panic before a Stop has drained the pipeline.
THEOREM PanicLate == Spec => []PanicIsLate
<1>1. IInv => PanicIsLate
  <2> SUFFICES ASSUME IInv, panic \in {"go", "call"} PROVE
               isClosed /\ \E s \in Stoppers : /\ spc[s] \notin {"idle", "early"}
                                               /\ goBefore[s] <= Len(executed)
    BY DEF PanicIsLate
  <2>1. Past /\ isClosed
    BY DEF IInv, StopInv, Past
  <2>2. PICK s \in Stoppers : Marked(s)
    BY <2>1 DEF IInv, StopInv
  <2> QED
    BY <2>1, <2>2 DEF IInv, QueueInv, Marked
<1> QED
  BY Invariance, <1>1, PTL

\* The only way to make Stop panic is to let two calls test isClosed before
\* either sets it.
THEOREM StopPanic == Spec => []StopPanicNeedsRace
<1>1. IInv => StopPanicNeedsRace
  BY DEF IInv, RaceInv, StopPanicNeedsRace
<1> QED
  BY Invariance, <1>1, PTL
=============================================================================
