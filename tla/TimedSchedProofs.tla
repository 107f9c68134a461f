-------------------------- MODULE TimedSchedProofs --------------------------
(***************************************************************************)
(* What TimedSched.tla promises for every number of tasks and of sched     *)
(* goroutines, and all deadlines: drained always tells whether a timer     *)
(* still owes a tick, and the scheduler implements TimedTasks, in which a  *)
(* task is executed once and after its deadline.                           *)
(*                                                                         *)
(* For the first, Owed says at each place of a sched goroutine what        *)
(* drained means there.  The second rests on Places: a task that is        *)
(* pending is in one place only, prependTasks, prepend's copy or one heap, *)
(* and one that has been executed is in none.                              *)
(***************************************************************************)
EXTENDS TimedSched, SequencesExt, SequenceTheorems, TLAPS

\* Unless drained, the timer of w runs or has left its tick; drained at the select
\* means that there is nothing to wake for.
Owed(w) ==
    /\ pc[w] \in {"select", "stop"} /\ ~drained[w] => armed[w] \cup tick[w] # {}
    /\ pc[w] = "select" /\ drained[w] => heap[w] = {}
    /\ pc[w] = "drain" => tick[w] # {}
    /\ pc[w] = "expire" => drained[w]

TimersOwed == \A w \in Workers : Owed(w)

\* The tasks in some place, each there once and in no other place.
Places ==
    /\ IsInjective(prependTasks) /\ IsInjective(copied)
    /\ ToSet(prependTasks) \cap ToSet(copied) = {}
    /\ \A w \in Workers :
          /\ heap[w] \cap ToSet(prependTasks) = {}
          /\ heap[w] \cap ToSet(copied) = {}
          /\ \A v \in Workers \ {w} : heap[v] \cap heap[w] = {}

\* Whatever is in a place is pending, and nothing has been executed twice.
InPlacePending ==
    /\ \A t \in ToSet(prependTasks) \cup ToSet(copied) : status[t] = "pending"
    /\ \A w \in Workers : \A t \in heap[w] : status[t] = "pending"
    /\ again = {}

\* No reading of the clock, nor a tick, is ahead of it.
ClockRead ==
    \A w \in Workers : now[w] <= clock /\ \A at \in tick[w] : at <= clock

IInv == TypeOK /\ TimersOwed /\ Places /\ InPlacePending /\ ClockRead

-----------------------------------------------------------------------------
\* The tasks of a list when one is appended.
LEMMA PutLast ==
    ASSUME NEW s \in Seq(Tasks), NEW t \in Tasks
    PROVE  /\ Append(s, t) \in Seq(Tasks)
           /\ ToSet(Append(s, t)) = ToSet(s) \cup {t}
           /\ IsInjective(s) /\ t \notin ToSet(s) => IsInjective(Append(s, t))
<1> DEFINE a == Append(s, t)
<1>1. /\ a \in Seq(Tasks) /\ Len(a) = Len(s) + 1 /\ Len(s) \in Nat
      /\ \A i \in 1 .. Len(s) : a[i] = s[i]
      /\ a[Len(s) + 1] = t
      /\ DOMAIN a = 1 .. Len(s) + 1 /\ DOMAIN s = 1 .. Len(s)
  OBVIOUS
<1> HIDE DEF a
<1>2. ToSet(a) = ToSet(s) \cup {t}
  BY <1>1 DEF ToSet
<1>3. ASSUME IsInjective(s), t \notin ToSet(s) PROVE IsInjective(a)
  BY <1>1, <1>3 DEF ToSet, IsInjective
<1> QED
  BY <1>1, <1>2, <1>3 DEF a

\* The tasks of a list when the first leaves.
LEMMA TakeFirst ==
    ASSUME NEW s \in Seq(Tasks), s # <<>>
    PROVE  /\ Head(s) \in Tasks /\ Tail(s) \in Seq(Tasks)
           /\ ToSet(s) = ToSet(Tail(s)) \cup {Head(s)}
           /\ IsInjective(s) => IsInjective(Tail(s)) /\ Head(s) \notin ToSet(Tail(s))
<1> DEFINE r == Tail(s)
           h == Head(s)
<1>1. /\ h \in Tasks /\ r \in Seq(Tasks) /\ Len(s) = Len(r) + 1 /\ Len(r) \in Nat
      /\ \A i \in 1 .. Len(r) : r[i] = s[i + 1]
      /\ s[1] = h
      /\ DOMAIN s = 1 .. Len(r) + 1 /\ DOMAIN r = 1 .. Len(r)
  OBVIOUS
<1> HIDE DEF r, h
<1>2. ToSet(s) = ToSet(r) \cup {h}
  <2>1. ASSUME NEW i \in 1 .. Len(r) + 1 PROVE s[i] \in ToSet(r) \cup {h}
    <3>1. CASE i = 1
      BY <1>1, <3>1
    <3>2. CASE i # 1
      <4>1. i - 1 \in 1 .. Len(r) /\ r[i - 1] = s[(i - 1) + 1] /\ (i - 1) + 1 = i
        BY <1>1, <3>2
      <4> QED
        BY <1>1, <4>1 DEF ToSet
    <3> QED
      BY <3>1, <3>2
  <2>2. ASSUME NEW i \in 1 .. Len(r) PROVE r[i] \in ToSet(s)
    <3>1. i + 1 \in 1 .. Len(r) + 1 /\ r[i] = s[i + 1]
      BY <1>1
    <3> QED
      BY <1>1, <3>1 DEF ToSet
  <2>3. h \in ToSet(s)
    <3>1. 1 \in 1 .. Len(r) + 1
      BY <1>1
    <3> QED
      BY <1>1, <3>1 DEF ToSet
  <2> QED
    BY <1>1, <2>1, <2>2, <2>3 DEF ToSet
<1>3. ASSUME IsInjective(s) PROVE IsInjective(r) /\ h \notin ToSet(r)
  <2>1. \A i \in 1 .. Len(r) : i + 1 \in 1 .. Len(r) + 1 /\ i + 1 # 1 /\ 1 \in 1 .. Len(r) + 1
    BY <1>1
  <2>2. \A i \in 1 .. Len(r) : s[i + 1] # h
    BY <1>1, <1>3, <2>1 DEF IsInjective
  <2>3. \A i, j \in 1 .. Len(r) : s[i + 1] = s[j + 1] => i = j
    <3> SUFFICES ASSUME NEW i \in 1 .. Len(r), NEW j \in 1 .. Len(r), s[i + 1] = s[j + 1]
                 PROVE  i = j
      OBVIOUS
    <3>1. i + 1 = j + 1
      BY <1>1, <1>3, <2>1 DEF IsInjective
    <3> QED
      BY <3>1
  <2> QED
    BY <1>1, <2>2, <2>3 DEF ToSet, IsInjective
<1> QED
  BY <1>1, <1>2, <1>3 DEF r, h

-----------------------------------------------------------------------------
\* Where a timer is set: not before now, and not after the end of time.
LEMMA RearmTime ==
    ASSUME TypeOK, NEW w \in Workers, Rearm(w)
    PROVE  \E at \in 0 .. MaxTime : armed' = [armed EXCEPT ![w] = {at}]
<1>1. PICK t \in Earliest(w) :
          LET at == clock + (IF due[t] > now[w] THEN due[t] - now[w] ELSE 0) IN
          armed' = [armed EXCEPT ![w] = {IF at < MaxTime THEN at ELSE MaxTime}]
  BY DEF Rearm, Set
<1>2. due[t] \in Nat /\ now[w] \in Nat /\ clock \in Nat
  BY DEF TypeOK, Earliest
<1> DEFINE at == clock + (IF due[t] > now[w] THEN due[t] - now[w] ELSE 0)
<1>3. (IF at < MaxTime THEN at ELSE MaxTime) \in 0 .. MaxTime
  BY <1>2, SchedAssumption
<1> QED
  BY <1>1, <1>3

\* The types.
LEMMA TypeStep == TypeOK /\ [Next]_vars => TypeOK'
<1> SUFFICES ASSUME TypeOK, [Next]_vars PROVE TypeOK'
  OBVIOUS
<1> USE SchedAssumption DEF Set
<1>1. CASE Tick \/ Close \/ UNCHANGED vars
  <2>1. clock' \in 0 .. MaxTime
    <3>1. clock' = clock \/ (clock' = clock + 1 /\ clock < MaxTime)
      BY <1>1 DEF Tick, Close, vars
    <3> QED
      BY <3>1 DEF TypeOK
  <2>3. die' \in BOOLEAN
    BY <1>1 DEF Tick, Close, vars, TypeOK
  <2>2. UNCHANGED <<putVars, workVars, taskVars>>
    BY <1>1 DEF Tick, Close, vars
  <2> QED
    BY <2>1, <2>2, <2>3 DEF TypeOK, putVars, workVars, timerVars, taskVars
<1>2. CASE Prepend
  BY <1>2 DEF Prepend, TypeOK, putVars, workVars, timerVars, taskVars
<1>3. ASSUME NEW t \in Tasks, NEW d \in 0 .. MaxDue, PutTask(t, d) PROVE TypeOK'
  <2>1. prependTasks' \in Seq(Tasks)
    BY <1>3, PutLast DEF PutTask, TypeOK
  <2>2. /\ due' \in [Tasks -> 0 .. MaxDue]
        /\ status' \in [Tasks -> {"none", "pending", "executed"}]
        /\ notifying' \subseteq Tasks
    BY <1>3 DEF PutTask, TypeOK
  <2>3. UNCHANGED <<clock, chPrependNotify, copied, workVars, again, die>>
    BY <1>3 DEF PutTask
  <2> QED
    BY <2>1, <2>2, <2>3 DEF TypeOK, workVars, timerVars
<1>4. ASSUME NEW t \in Tasks, PutNotify(t) PROVE TypeOK'
  BY <1>4 DEF PutNotify, TypeOK, workVars, timerVars, taskVars
<1>5. ASSUME NEW w \in Workers, Take(w) PROVE TypeOK'
  <2>1. Head(copied) \in Tasks /\ copied' \in Seq(Tasks)
    BY <1>5, TakeFirst DEF Take, TypeOK
  <2>2. /\ pc' \in [Workers -> {"select", "stop", "drain", "reset", "expire", "done"}]
        /\ heap' \in [Workers -> SUBSET Tasks]
        /\ now' \in [Workers -> 0 .. MaxTime]
    <3>1. \/ UNCHANGED <<pc, heap, now>>
          \/ /\ now' = [now EXCEPT ![w] = clock]
             /\ heap' = [heap EXCEPT ![w] = heap[w] \cup {Head(copied)}]
             /\ pc' = [pc EXCEPT ![w] = "stop"]
      BY <1>5 DEF Take
    <3>2. heap[w] \cup {Head(copied)} \in SUBSET Tasks
      BY <2>1 DEF TypeOK
    <3> QED
      BY <3>1, <3>2 DEF TypeOK
  <2>3. /\ status' \in [Tasks -> {"none", "pending", "executed"}]
        /\ again' \subseteq Tasks
    BY <1>5, <2>1 DEF Take, TypeOK, Execute
  <2>4. UNCHANGED <<clock, due, prependTasks, notifying, chPrependNotify, timerVars, die>>
    BY <1>5 DEF Take
  <2> QED
    BY <2>1, <2>2, <2>3, <2>4 DEF TypeOK, timerVars
<1>6. ASSUME NEW w \in Workers, StopTimer(w) \/ Drain(w) \/ Leave(w) PROVE TypeOK'
  <2>1. /\ pc' \in [Workers -> {"select", "stop", "drain", "reset", "expire", "done"}]
        /\ armed' \in [Workers -> SUBSET (0 .. MaxTime)]
        /\ tick' \in [Workers -> SUBSET (0 .. MaxTime)]
    BY <1>6 DEF StopTimer, Drain, Leave, TypeOK, timerVars
  <2>2. UNCHANGED <<clock, putVars, heap, now, drained, taskVars, die>>
    BY <1>6 DEF StopTimer, Drain, Leave, timerVars
  <2> QED
    BY <2>1, <2>2 DEF TypeOK, putVars, taskVars
<1>7. ASSUME NEW w \in Workers, Reset(w) PROVE TypeOK'
  <2>1. PICK at \in 0 .. MaxTime : armed' = [armed EXCEPT ![w] = {at}]
    BY <1>7, RearmTime DEF Reset
  <2>2. armed' \in [Workers -> SUBSET (0 .. MaxTime)]
    BY <2>1 DEF TypeOK
  <2>3. /\ pc' \in [Workers -> {"select", "stop", "drain", "reset", "expire", "done"}]
        /\ now' \in [Workers -> 0 .. MaxTime]
        /\ drained' \in [Workers -> BOOLEAN]
    BY <1>7 DEF Reset, TypeOK
  <2>4. UNCHANGED <<clock, putVars, heap, tick, taskVars, die>>
    BY <1>7 DEF Reset
  <2> QED
    BY <2>2, <2>3, <2>4 DEF TypeOK, putVars, taskVars
<1>8. ASSUME NEW w \in Workers, Wake(w) PROVE TypeOK'
  <2>1. PICK at \in tick[w] : now' = [now EXCEPT ![w] = at]
    BY <1>8 DEF Wake
  <2>2. now' \in [Workers -> 0 .. MaxTime]
    BY <2>1 DEF TypeOK
  <2>3. /\ pc' \in [Workers -> {"select", "stop", "drain", "reset", "expire", "done"}]
        /\ tick' \in [Workers -> SUBSET (0 .. MaxTime)]
        /\ drained' \in [Workers -> BOOLEAN]
    BY <1>8 DEF Wake, TypeOK
  <2>4. UNCHANGED <<clock, putVars, heap, armed, taskVars, die>>
    BY <1>8 DEF Wake
  <2> QED
    BY <2>2, <2>3, <2>4 DEF TypeOK, putVars, taskVars
<1>9. ASSUME NEW w \in Workers, Fire(w) PROVE TypeOK'
  <2>1. /\ armed' \in [Workers -> SUBSET (0 .. MaxTime)]
        /\ tick' \in [Workers -> SUBSET (0 .. MaxTime)]
    BY <1>9 DEF Fire, TypeOK
  <2>2. UNCHANGED <<clock, putVars, pc, heap, now, drained, taskVars, die>>
    BY <1>9 DEF Fire
  <2> QED
    BY <2>1, <2>2 DEF TypeOK, putVars, taskVars
<1>10. ASSUME NEW w \in Workers, ExpireRun(w) PROVE TypeOK'
  <2>1. PICK t \in Earliest(w) : heap' = Set(heap, w, heap[w] \ {t}) /\ Execute(t)
    BY <1>10 DEF ExpireRun
  <2>2. t \in Tasks
    BY DEF Earliest, TypeOK
  <2>3. /\ heap' \in [Workers -> SUBSET Tasks]
        /\ status' \in [Tasks -> {"none", "pending", "executed"}]
        /\ again' \subseteq Tasks
    BY <2>1, <2>2 DEF TypeOK, Execute
  <2>4. UNCHANGED <<clock, due, putVars, pc, now, timerVars, die>>
    BY <1>10 DEF ExpireRun
  <2> QED
    BY <2>3, <2>4 DEF TypeOK, putVars, timerVars
<1>11. ASSUME NEW w \in Workers, ExpireEnd(w) PROVE TypeOK'
  <2>1. armed' \in [Workers -> SUBSET (0 .. MaxTime)]
    <3>1. CASE heap[w] = {}
      BY <1>11, <3>1 DEF ExpireEnd, TypeOK
    <3>2. CASE heap[w] # {}
      <4>1. PICK at \in 0 .. MaxTime : armed' = [armed EXCEPT ![w] = {at}]
        BY <1>11, <3>2, RearmTime DEF ExpireEnd
      <4> QED
        BY <4>1 DEF TypeOK
    <3> QED
      BY <3>1, <3>2
  <2>2. /\ pc' \in [Workers -> {"select", "stop", "drain", "reset", "expire", "done"}]
        /\ now' \in [Workers -> 0 .. MaxTime]
    BY <1>11 DEF ExpireEnd, TypeOK
  <2>4. drained' \in [Workers -> BOOLEAN]
    <3>1. drained' = drained \/ drained' = [drained EXCEPT ![w] = FALSE]
      BY <1>11 DEF ExpireEnd
    <3> QED
      BY <3>1 DEF TypeOK
  <2>3. UNCHANGED <<clock, putVars, heap, tick, taskVars, die>>
    BY <1>11 DEF ExpireEnd
  <2> QED
    BY <2>1, <2>2, <2>3, <2>4 DEF TypeOK, putVars, taskVars
<1> QED
  BY <1>1, <1>2, <1>3, <1>4, <1>5, <1>6, <1>7, <1>8, <1>9, <1>10, <1>11 DEF Next, SchedStep

\* What drained means at each place of a sched goroutine survives every step; the
\* timers are each goroutine's own.
LEMMA OwedStep == TypeOK /\ TimersOwed /\ [Next]_vars => TimersOwed'
<1> SUFFICES ASSUME TypeOK, TimersOwed, [Next]_vars PROVE TimersOwed'
  OBVIOUS
<1> DEFINE Timer == \A w \in Workers :
        Rearm(w) => \E at \in 0 .. MaxTime : armed' = [armed EXCEPT ![w] = {at}]
<1>0. Timer
  BY RearmTime
<1> HIDE DEF Timer
<1> USE DEF TypeOK, TimersOwed, Owed, Set, putVars, workVars, timerVars, taskVars
<1>1. CASE \/ Tick \/ Prepend \/ Close \/ UNCHANGED vars
           \/ \E t \in Tasks : PutNotify(t) \/ \E d \in 0 .. MaxDue : PutTask(t, d)
  <2>1. UNCHANGED workVars
    BY <1>1 DEF Tick, Prepend, Close, PutNotify, PutTask, vars
  <2> QED
    BY <2>1
<1>2. ASSUME NEW w \in Workers, Take(w) PROVE TimersOwed'
  BY <1>2 DEF Take
<1>3. ASSUME NEW w \in Workers, StopTimer(w) PROVE TimersOwed'
  BY <1>3 DEF StopTimer
<1>4. ASSUME NEW w \in Workers, Drain(w) \/ Leave(w) PROVE TimersOwed'
  BY <1>4 DEF Drain, Leave
<1>5. ASSUME NEW w \in Workers, Reset(w) PROVE TimersOwed'
  <2>1. PICK at \in 0 .. MaxTime : armed' = [armed EXCEPT ![w] = {at}]
    BY <1>5, <1>0 DEF Reset, Timer
  <2> QED
    BY <1>5, <2>1 DEF Reset
<1>6. ASSUME NEW w \in Workers, Wake(w) PROVE TimersOwed'
  BY <1>6 DEF Wake
<1>7. ASSUME NEW w \in Workers, Fire(w) PROVE TimersOwed'
  BY <1>7 DEF Fire
<1>8. ASSUME NEW w \in Workers, ExpireRun(w) PROVE TimersOwed'
  BY <1>8 DEF ExpireRun
<1>9. ASSUME NEW w \in Workers, ExpireEnd(w) PROVE TimersOwed'
  <2>1. CASE heap[w] = {}
    BY <1>9, <2>1 DEF ExpireEnd
  <2>2. CASE heap[w] # {}
    <3>1. PICK at \in 0 .. MaxTime : armed' = [armed EXCEPT ![w] = {at}]
      BY <1>9, <2>2, <1>0 DEF ExpireEnd, Timer
    <3> QED
      BY <1>9, <2>2, <3>1 DEF ExpireEnd
  <2> QED
    BY <2>1, <2>2
<1> QED
  BY <1>1, <1>2, <1>3, <1>4, <1>5, <1>6, <1>7, <1>8, <1>9 DEF Next, SchedStep

-----------------------------------------------------------------------------
\* Nothing moves when the lists, the heaps and status stay as they are.
LEMMA PlacesStay ==
    ASSUME Places, InPlacePending, UNCHANGED <<prependTasks, copied, heap, status, again>>
    PROVE  Places' /\ InPlacePending'
  BY DEF Places, InPlacePending

\* A task is put in one place, moves from list to copy to heap, and leaves it when it
\* is executed: each of these in one step.
LEMMA PlacesStep ==
    TypeOK /\ Places /\ InPlacePending /\ [Next]_vars => Places' /\ InPlacePending'
<1> SUFFICES ASSUME TypeOK, Places, InPlacePending, [Next]_vars
             PROVE  Places' /\ InPlacePending'
  OBVIOUS
<1> USE DEF Set
<1>1. CASE Tick \/ Close \/ UNCHANGED vars \/ \E t \in Tasks : PutNotify(t)
  BY <1>1, PlacesStay DEF Tick, Close, PutNotify, vars, putVars, workVars, taskVars
<1>2. ASSUME NEW w \in Workers,
             \/ StopTimer(w) \/ Drain(w) \/ Reset(w) \/ Wake(w) \/ ExpireEnd(w) \/ Leave(w)
             \/ Fire(w)
      PROVE  Places' /\ InPlacePending'
  <2>1. UNCHANGED <<putVars, heap, taskVars>>
    BY <1>2 DEF StopTimer, Drain, Reset, Wake, ExpireEnd, Leave, Fire
  <2> QED
    BY <2>1, PlacesStay DEF putVars, taskVars
\* prepend's copy is empty when the list moves there.
<1>3. CASE Prepend
  <2>1. /\ copied = <<>> /\ copied' = prependTasks /\ prependTasks' = <<>>
        /\ UNCHANGED <<heap, status, again>>
    BY <1>3 DEF Prepend, workVars, taskVars
  <2>2. ToSet(<<>>) = {} /\ IsInjective(<<>>)
    BY DEF ToSet, IsInjective
  <2> QED
    BY <2>1, <2>2 DEF Places, InPlacePending
\* A task that is put has been nowhere.
<1>4. ASSUME NEW t \in Tasks, NEW d \in 0 .. MaxDue, PutTask(t, d)
      PROVE  Places' /\ InPlacePending'
  <2>1. /\ prependTasks' = Append(prependTasks, t) /\ status[t] = "none"
        /\ status' = [status EXCEPT ![t] = "pending"]
        /\ UNCHANGED <<copied, heap, again>>
    BY <1>4 DEF PutTask, workVars
  <2>2. /\ t \notin ToSet(prependTasks) /\ t \notin ToSet(copied)
        /\ \A w \in Workers : t \notin heap[w]
    BY <2>1 DEF InPlacePending
  <2>3. ToSet(prependTasks') = ToSet(prependTasks) \cup {t} /\ IsInjective(prependTasks')
    BY <2>1, <2>2, PutLast DEF TypeOK, Places
  <2>4. Places'
    BY <2>1, <2>2, <2>3 DEF Places
  <2>5. status'[t] = "pending" /\ \A u \in Tasks \ {t} : status'[u] = status[u]
    BY <2>1 DEF TypeOK
  <2>6. /\ ToSet(prependTasks) \subseteq Tasks /\ ToSet(copied) \subseteq Tasks
        /\ \A w \in Workers : heap[w] \subseteq Tasks
    BY DEF TypeOK, ToSet
  <2> QED
    BY <2>1, <2>3, <2>4, <2>5, <2>6 DEF InPlacePending
\* A task that is taken leaves the copy, for w's heap or for good.
<1>5. ASSUME NEW w \in Workers, Take(w) PROVE Places' /\ InPlacePending'
  <2> DEFINE h == Head(copied)
  <2>1. /\ copied # <<>> /\ copied' = Tail(copied) /\ prependTasks' = prependTasks
        /\ \/ Execute(h) /\ heap' = heap
           \/ heap' = [heap EXCEPT ![w] = heap[w] \cup {h}] /\ UNCHANGED <<status, again>>
    BY <1>5 DEF Take
  <2>2. /\ h \in Tasks /\ h \in ToSet(copied) /\ h \notin ToSet(copied')
        /\ ToSet(copied) = ToSet(copied') \cup {h} /\ IsInjective(copied')
    BY <2>1, TakeFirst DEF TypeOK, Places
  <2>3. /\ h \notin ToSet(prependTasks) /\ status[h] = "pending"
        /\ \A v \in Workers : h \notin heap[v]
    BY <2>2 DEF Places, InPlacePending
  <2> HIDE DEF h
  <2>4. CASE Execute(h) /\ heap' = heap
    <3>1. again' = again /\ status' = [status EXCEPT ![h] = "executed"]
      BY <2>3, <2>4 DEF Execute
    <3>2. \A u \in Tasks \ {h} : status'[u] = status[u]
      BY <3>1 DEF TypeOK
    <3>3. /\ ToSet(prependTasks) \subseteq Tasks /\ ToSet(copied) \subseteq Tasks
          /\ \A v \in Workers : heap[v] \subseteq Tasks
      BY DEF TypeOK, ToSet
    <3>4. Places'
      BY <2>1, <2>2, <2>4 DEF Places
    <3> QED
      BY <2>1, <2>2, <2>3, <2>4, <3>1, <3>2, <3>3, <3>4 DEF InPlacePending
  <2>5. CASE heap' = [heap EXCEPT ![w] = heap[w] \cup {h}] /\ UNCHANGED <<status, again>>
    <3>1. /\ heap'[w] = heap[w] \cup {h}
          /\ \A v \in Workers \ {w} : heap'[v] = heap[v]
      BY <2>5 DEF TypeOK
    <3>2. Places'
      BY <2>1, <2>2, <2>3, <3>1 DEF Places
    <3>3. InPlacePending'
      BY <2>1, <2>2, <2>3, <2>5, <3>1 DEF InPlacePending
    <3> QED
      BY <3>2, <3>3
  <2> QED
    BY <2>1, <2>4, <2>5
<1>6. ASSUME NEW w \in Workers, ExpireRun(w) PROVE Places' /\ InPlacePending'
  <2>1. PICK t \in heap[w] : heap' = [heap EXCEPT ![w] = heap[w] \ {t}] /\ Execute(t)
    BY <1>6 DEF ExpireRun, Earliest
  <2>2. UNCHANGED <<prependTasks, copied>> /\ t \in Tasks /\ status[t] = "pending"
    BY <1>6 DEF ExpireRun, putVars, TypeOK, InPlacePending
  <2>3. /\ heap'[w] = heap[w] \ {t}
        /\ \A v \in Workers \ {w} : heap'[v] = heap[v]
    BY <2>1 DEF TypeOK
  <2>4. Places'
    BY <2>2, <2>3 DEF Places
  <2>5. again' = again /\ status' = [status EXCEPT ![t] = "executed"]
    BY <2>1, <2>2 DEF Execute
  <2>6. \A u \in Tasks \ {t} : status'[u] = status[u]
    BY <2>5 DEF TypeOK
  <2>7. /\ t \notin ToSet(prependTasks) /\ t \notin ToSet(copied)
        /\ \A v \in Workers \ {w} : t \notin heap[v]
    BY <2>1 DEF Places
  <2>8. /\ ToSet(prependTasks) \subseteq Tasks /\ ToSet(copied) \subseteq Tasks
        /\ \A v \in Workers : heap[v] \subseteq Tasks
    BY DEF TypeOK, ToSet
  <2> QED
    BY <2>2, <2>3, <2>4, <2>5, <2>6, <2>7, <2>8 DEF InPlacePending
<1> QED
  BY <1>1, <1>2, <1>3, <1>4, <1>5, <1>6 DEF Next, SchedStep

\* Time does not run backwards, so that what has been read stays in the past.
LEMMA ClockStep == TypeOK /\ ClockRead /\ [Next]_vars => ClockRead'
<1> SUFFICES ASSUME TypeOK, ClockRead, [Next]_vars PROVE ClockRead'
  OBVIOUS
<1> USE DEF Set
<1>0. clock \in Nat /\ clock <= clock'
  <2>1. clock' = clock \/ clock' = clock + 1
    BY DEF Next, SchedStep, Tick, Prepend, Close, PutNotify, PutTask, Take, StopTimer,
           Drain, Reset, Fire, Wake, ExpireRun, ExpireEnd, Leave, vars
  <2> QED
    BY <2>1 DEF TypeOK
<1>a. \A v \in Workers : now[v] <= clock' /\ \A at \in tick[v] : at <= clock'
  <2> SUFFICES ASSUME NEW v \in Workers
               PROVE  now[v] <= clock' /\ \A at \in tick[v] : at <= clock'
    OBVIOUS
  <2>1. clock' \in Nat
    BY TypeStep DEF TypeOK
  <2>2. now[v] \in Nat /\ now[v] <= clock /\ tick[v] \subseteq Nat
    BY DEF TypeOK, ClockRead
  <2>3. now[v] <= clock'
    BY <1>0, <2>1, <2>2
  <2>4. ASSUME NEW at \in tick[v] PROVE at <= clock'
    <3>1. at \in Nat /\ at <= clock
      BY <2>2 DEF ClockRead
    <3> QED
      BY <1>0, <2>1, <3>1
  <2> QED
    BY <2>3, <2>4
<1>1. ASSUME UNCHANGED <<now, tick>> PROVE ClockRead'
  BY <1>a, <1>1 DEF ClockRead
<1>2. ASSUME NEW w \in Workers, Take(w) PROVE ClockRead'
  BY <1>0, <1>1, <1>2 DEF Take, ClockRead, TypeOK, timerVars
<1>3. ASSUME NEW w \in Workers, Reset(w) \/ ExpireEnd(w) PROVE ClockRead'
  <2>1. now' = [now EXCEPT ![w] = 0] /\ tick' = tick /\ clock' = clock
    BY <1>3 DEF Reset, ExpireEnd
  <2>2. \A v \in Workers : now'[v] = now[v] \/ now'[v] = 0
    BY <2>1 DEF TypeOK
  <2> QED
    BY <1>0, <1>a, <2>1, <2>2 DEF ClockRead
<1>4. ASSUME NEW w \in Workers, Wake(w) PROVE ClockRead'
  BY <1>0, <1>4 DEF Wake, ClockRead, TypeOK
<1>5. ASSUME NEW w \in Workers, Fire(w) \/ Drain(w) PROVE ClockRead'
  <2>1. now' = now /\ clock' = clock
    BY <1>5 DEF Fire, Drain
  <2>2. \A v \in Workers : tick'[v] = tick[v] \/ tick'[v] = {clock} \/ tick'[v] = {}
    BY <1>5 DEF Fire, Drain, TypeOK
  <2>3. clock <= clock
    BY <1>0
  <2> QED
    BY <1>a, <2>1, <2>2, <2>3 DEF ClockRead
<1>6. ASSUME NEW w \in Workers, StopTimer(w) \/ ExpireRun(w) \/ Leave(w) PROVE ClockRead'
  BY <1>1, <1>6 DEF StopTimer, ExpireRun, Leave, timerVars
<1>7. CASE \/ Tick \/ Prepend \/ Close \/ UNCHANGED vars
           \/ \E t \in Tasks : PutNotify(t) \/ \E d \in 0 .. MaxDue : PutTask(t, d)
  BY <1>1, <1>7 DEF Tick, Prepend, Close, PutNotify, PutTask, vars, workVars, timerVars
<1> QED
  BY <1>2, <1>3, <1>4, <1>5, <1>6, <1>7 DEF Next, SchedStep

-----------------------------------------------------------------------------
\* The invariant holds in the beginning.
LEMMA InitInv == Init => IInv
<1> SUFFICES ASSUME Init PROVE IInv
  OBVIOUS
<1>1. ToSet(<<>>) = {} /\ IsInjective(<<>>)
  BY DEF ToSet, IsInjective
<1>2. TypeOK
  <2>1. /\ clock \in 0 .. MaxTime /\ due \in [Tasks -> 0 .. MaxDue]
        /\ status \in [Tasks -> {"none", "pending", "executed"}]
    BY SchedAssumption DEF Init
  <2>2. /\ prependTasks \in Seq(Tasks) /\ copied \in Seq(Tasks)
        /\ notifying \subseteq Tasks /\ again \subseteq Tasks
    BY EmptySeq DEF Init
  <2>6. chPrependNotify \in BOOLEAN /\ die \in BOOLEAN
    BY DEF Init
  <2>3. /\ pc \in [Workers -> {"select", "stop", "drain", "reset", "expire", "done"}]
        /\ heap \in [Workers -> SUBSET Tasks] /\ drained \in [Workers -> BOOLEAN]
    BY DEF Init
  <2>4. 0 \in 0 .. MaxTime
    BY SchedAssumption
  <2>5. /\ now \in [Workers -> 0 .. MaxTime]
        /\ armed \in [Workers -> SUBSET (0 .. MaxTime)]
        /\ tick \in [Workers -> SUBSET (0 .. MaxTime)]
    BY <2>4 DEF Init
  <2> QED
    BY <2>1, <2>2, <2>3, <2>5, <2>6 DEF TypeOK
<1>3. TimersOwed
  BY DEF Init, TimersOwed, Owed
<1>4. Places /\ InPlacePending
  BY <1>1 DEF Init, Places, InPlacePending
<1>5. ClockRead
  BY DEF Init, ClockRead
<1> QED
  BY <1>2, <1>3, <1>4, <1>5 DEF IInv

\* The invariant holds in every behaviour of the scheduler.
THEOREM Invariance == Spec => []IInv
<1>1. IInv /\ [Next]_vars => IInv'
  BY TypeStep, OwedStep, PlacesStep, ClockStep DEF IInv
<1> QED
  BY InitInv, <1>1, PTL DEF Spec

\* Every variable keeps its type; no task is in a heap or list that was never put.
THEOREM Types == Spec => []TypeOK
<1>1. IInv => TypeOK
  BY DEF IInv
<1> QED
  BY Invariance, <1>1, PTL

\* A sched goroutine that drains its timer finds a tick, and one that sleeps on tasks
\* has a timer that will wake it, for every interleaving of Put, the prepend goroutine,
\* the runtime's timers and the other sched goroutines.
THEOREM TimersReady == Spec => []TimerReady
<1>1. IInv => TimerReady
  BY DEF IInv, TimersOwed, Owed, TimerReady
<1> QED
  BY Invariance, <1>1, PTL

-----------------------------------------------------------------------------
\* Every step of the scheduler is one of TimedTasks, or none.
LEMMA RefinementStep ==
    IInv /\ IInv' /\ [Next]_vars =>
        [Abstract!Next]_<<clock, due, [t \in Tasks |-> IF t \in again THEN "twice" ELSE status[t]]>>
<1> DEFINE m == [t \in Tasks |-> IF t \in again THEN "twice" ELSE status[t]]
<1> SUFFICES ASSUME IInv, IInv', [Next]_vars
             PROVE  Abstract!Next \/ UNCHANGED <<clock, due, m>>
  OBVIOUS
<1>0. m = status /\ m' = status'
  <2>1. TypeOK /\ again = {} /\ TypeOK' /\ again' = {}
    BY DEF IInv, InPlacePending
  <2> QED
    BY <2>1 DEF TypeOK
\* Executing a pending task after its deadline is Execute of TimedTasks.
<1>1. ASSUME NEW t \in Tasks, status[t] = "pending", clock > due[t], Execute(t),
             UNCHANGED <<clock, due>>
      PROVE  Abstract!Next
  <2>1. status' = [status EXCEPT ![t] = "executed"]
    BY <1>1 DEF Execute
  <2>2. /\ m[t] = "pending" /\ clock > due[t] /\ m' = [m EXCEPT ![t] = "executed"]
        /\ UNCHANGED <<clock, due>>
    BY <1>0, <1>1, <2>1
  <2>3. Abstract!Execute(t)
    BY <2>2 DEF Abstract!Execute
  <2> QED
    BY <2>3 DEF Abstract!Next
<1>2. CASE Tick
  <2>1. clock' = clock + 1 /\ UNCHANGED <<due, m>>
    BY <1>0, <1>2 DEF Tick, taskVars
  <2>2. Abstract!Tick
    BY <2>1 DEF Abstract!Tick
  <2> QED
    BY <2>2 DEF Abstract!Next
<1>3. ASSUME NEW t \in Tasks, NEW d \in 0 .. MaxDue, PutTask(t, d) PROVE Abstract!Next
  <2>1. /\ m[t] = "none" /\ due' = [due EXCEPT ![t] = d]
        /\ m' = [m EXCEPT ![t] = "pending"] /\ UNCHANGED clock
    BY <1>0, <1>3 DEF PutTask
  <2>2. Abstract!Put(t)
    BY <2>1 DEF Abstract!Put
  <2> QED
    BY <2>2 DEF Abstract!Next
<1>4. ASSUME NEW w \in Workers, Take(w) PROVE Abstract!Next \/ UNCHANGED <<clock, due, m>>
  <2> DEFINE h == Head(copied)
  <2>1. copied # <<>> /\ UNCHANGED <<clock, due>>
    BY <1>4 DEF Take
  <2>2. h \in Tasks /\ status[h] = "pending"
    <3>1. h \in Tasks /\ h \in ToSet(copied)
      BY <2>1, TakeFirst DEF IInv, TypeOK
    <3> QED
      BY <3>1 DEF IInv, InPlacePending
  <2>3. (clock > due[h] /\ Execute(h)) \/ UNCHANGED <<status, again>>
    BY <1>4 DEF Take
  <2> HIDE DEF h
  <2>4. CASE clock > due[h] /\ Execute(h)
    BY <1>1, <2>1, <2>2, <2>4
  <2>5. CASE UNCHANGED <<status, again>>
    BY <1>0, <2>1, <2>5
  <2> QED
    BY <2>3, <2>4, <2>5
<1>5. ASSUME NEW w \in Workers, ExpireRun(w) PROVE Abstract!Next
  <2>1. PICK t \in heap[w] : now[w] > due[t] /\ Execute(t)
    BY <1>5 DEF ExpireRun, Earliest
  <2>2. t \in Tasks /\ status[t] = "pending" /\ UNCHANGED <<clock, due>>
    BY <1>5 DEF ExpireRun, IInv, TypeOK, InPlacePending
  <2>3. clock > due[t]
    <3>1. now[w] <= clock /\ now[w] \in Nat /\ clock \in Nat /\ due[t] \in Nat
      BY <2>2 DEF IInv, TypeOK, ClockRead
    <3> QED
      BY <2>1, <3>1
  <2> QED
    BY <1>1, <2>1, <2>2, <2>3
<1>6. ASSUME UNCHANGED <<clock, taskVars>> PROVE UNCHANGED <<clock, due, m>>
  BY <1>0, <1>6 DEF taskVars
<1>7. CASE Prepend \/ Close \/ UNCHANGED vars \/ \E t \in Tasks : PutNotify(t)
  BY <1>6, <1>7 DEF Prepend, Close, PutNotify, vars
<1>8. ASSUME NEW w \in Workers,
             \/ StopTimer(w) \/ Drain(w) \/ Reset(w) \/ Wake(w) \/ ExpireEnd(w) \/ Leave(w)
             \/ Fire(w)
      PROVE  UNCHANGED <<clock, due, m>>
  BY <1>6, <1>8 DEF StopTimer, Drain, Reset, Wake, ExpireEnd, Leave, Fire
<1> QED
  BY <1>2, <1>3, <1>4, <1>5, <1>7, <1>8 DEF Next, SchedStep

\* The scheduler implements TimedTasks: in every behaviour a task is executed at most
\* once, and after its deadline, by whichever sched goroutine and over whichever way.
THEOREM Refinement == Spec => TaskSpec
<1>1. Init => Abstract!Init
  BY DEF Init, Abstract!Init
<1> QED
  BY <1>1, Invariance, RefinementStep, PTL DEF Spec, TaskSpec, Abstract!Spec
=============================================================================
