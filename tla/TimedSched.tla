----------------------------- MODULE TimedSched -----------------------------
(***************************************************************************)
(* The scheduler of the sessions' updates: network/kcp/timesched.go.       *)
(*                                                                         *)
(* Put appends a function and its deadline to prependTasks and leaves a    *)
(* token in chPrependNotify; the prepend goroutine takes the token, copies *)
(* the list and sends the copy, one task at a time, on the unbuffered      *)
(* chTask; a sched goroutine executes what is overdue and keeps the rest   *)
(* in a heap with one timer for the earliest.  Stop of a Go timer (go.mod  *)
(* says go 1.17) leaves an expired timer's tick in its channel, so that    *)
(* sched drains it, unless drained says that it has had it already.        *)
(***************************************************************************)
EXTENDS Integers, Sequences, FiniteSets

CONSTANTS Tasks,      \* the functions put, each once
          Workers,    \* the sched goroutines, NumCPU of them in the code
          MaxTime,    \* bound: the clock stops here, and timers fire by then
          MaxDue      \* bound: the latest deadline

ASSUME SchedAssumption ==
    /\ MaxTime \in Nat /\ MaxDue \in Nat
    /\ MaxDue < MaxTime

VARIABLES
    clock,
    due,       \* the deadlines
    prependTasks,
    notifying, \* tasks whose Put has yet to leave its token
    chPrependNotify,  \* a token is pending
    copied,    \* prepend's copy, what is left to send
    pc,        \* where each sched goroutine is
    heap,      \* its tasks
    now,       \* its reading of the clock, 0 between two rounds of its loop
    armed,     \* when its timer fires: {} or {time}
    tick,      \* what its timer's channel holds: {} or {time}
    drained,
    status,    \* what has become of each task: none, pending, executed
    again,     \* tasks executed more than once
    die        \* the scheduler has been closed

putVars == <<prependTasks, notifying, chPrependNotify, copied>>
timerVars == <<armed, tick, drained>>
workVars == <<pc, heap, now, timerVars>>
taskVars == <<due, status, again>>
vars == <<clock, putVars, workVars, taskVars, die>>

Init ==
    /\ clock = 0
    /\ due = [t \in Tasks |-> 0]
    /\ prependTasks = <<>>
    /\ notifying = {}
    /\ chPrependNotify = FALSE
    /\ copied = <<>>
    /\ pc = [w \in Workers |-> "select"]
    /\ heap = [w \in Workers |-> {}]
    /\ now = [w \in Workers |-> 0]
    /\ armed = [w \in Workers |-> {0}]
    /\ tick = [w \in Workers |-> {}]
    /\ drained = [w \in Workers |-> FALSE]
    /\ status = [t \in Tasks |-> "none"]
    /\ again = {}
    /\ die = FALSE

Set(f, w, x) == [f EXCEPT ![w] = x]

Tick ==
    /\ clock < MaxTime
    /\ clock' = clock + 1
    /\ UNCHANGED <<putVars, workVars, taskVars, die>>

-----------------------------------------------------------------------------
\* Put: append with prependLock held ...
PutTask(t, d) ==
    /\ status[t] = "none"
    /\ due' = [due EXCEPT ![t] = d]
    /\ status' = [status EXCEPT ![t] = "pending"]
    /\ prependTasks' = Append(prependTasks, t)
    /\ notifying' = notifying \cup {t}
    /\ UNCHANGED <<clock, chPrependNotify, copied, workVars, again, die>>

\* ... and notify, unless a token is pending.
PutNotify(t) ==
    /\ t \in notifying
    /\ notifying' = notifying \ {t}
    /\ chPrependNotify' = TRUE
    /\ UNCHANGED <<clock, prependTasks, copied, workVars, taskVars, die>>

\* Broken form of Prepend: the list is copied but not emptied.
PrependKeeps ==
    /\ chPrependNotify
    /\ copied = <<>>
    /\ ~die
    /\ chPrependNotify' = FALSE
    /\ copied' = prependTasks
    /\ UNCHANGED <<clock, prependTasks, notifying, workVars, taskVars, die>>

\* prepend takes the token, the list is copied and emptied with prependLock.
Prepend ==
    /\ chPrependNotify
    /\ copied = <<>>
    /\ ~die
    /\ chPrependNotify' = FALSE
    /\ copied' = prependTasks
    /\ prependTasks' = <<>>
    /\ UNCHANGED <<clock, notifying, workVars, taskVars, die>>

-----------------------------------------------------------------------------
Execute(t) ==
    /\ status' = [status EXCEPT ![t] = "executed"]
    /\ again' = IF status[t] = "executed" THEN again \cup {t} ELSE again

\* chTask hands w a task: execute it, or push it and reset the timer.
Take(w) ==
    /\ pc[w] = "select"
    /\ copied # <<>>
    /\ copied' = Tail(copied)
    /\ IF clock > due[Head(copied)]
       THEN /\ Execute(Head(copied))
            /\ UNCHANGED <<pc, heap, now>>
       ELSE /\ now' = Set(now, w, clock)
            /\ heap' = Set(heap, w, heap[w] \cup {Head(copied)})
            /\ pc' = Set(pc, w, "stop")
            /\ UNCHANGED <<status, again>>
    /\ UNCHANGED <<clock, due, prependTasks, notifying, chPrependNotify, timerVars, die>>

\* timer.Stop, and whether the tick has to be drained.
StopTimer(w) ==
    /\ pc[w] = "stop"
    /\ armed' = Set(armed, w, {})
    /\ pc' = Set(pc, w, IF armed[w] = {} /\ ~drained[w] THEN "drain" ELSE "reset")
    /\ UNCHANGED <<clock, putVars, heap, now, tick, drained, taskVars, die>>

\* <-timer.C: blocks while the channel is empty.
Drain(w) ==
    /\ pc[w] = "drain"
    /\ tick[w] # {}
    /\ tick' = Set(tick, w, {})
    /\ pc' = Set(pc, w, "reset")
    /\ UNCHANGED <<clock, putVars, heap, now, armed, drained, taskVars, die>>

Earliest(w) == {t \in heap[w] : \A u \in heap[w] : due[t] <= due[u]}

\* timer.Reset(tasks[0].ts.Sub(now)), from a now that may be past.
Rearm(w) ==
    \E t \in Earliest(w) :
        LET at == clock + (IF due[t] > now[w] THEN due[t] - now[w] ELSE 0) IN
        armed' = Set(armed, w, {IF at < MaxTime THEN at ELSE MaxTime})

Reset(w) ==
    /\ pc[w] = "reset"
    /\ Rearm(w)
    /\ drained' = Set(drained, w, FALSE)
    /\ now' = Set(now, w, 0)
    /\ pc' = Set(pc, w, "select")
    /\ UNCHANGED <<clock, putVars, heap, tick, taskVars, die>>

\* The runtime fires the timer: a tick, unless the channel has one.
Fire(w) ==
    /\ \E at \in armed[w] : clock >= at
    /\ armed' = Set(armed, w, {})
    /\ tick' = IF tick[w] = {} THEN Set(tick, w, {clock}) ELSE tick
    /\ UNCHANGED <<clock, putVars, pc, heap, now, drained, taskVars, die>>

\* Broken form of Wake: drained is not set.
WakeNotDrained(w) ==
    /\ pc[w] = "select"
    /\ \E at \in tick[w] : now' = Set(now, w, at)
    /\ tick' = Set(tick, w, {})
    /\ pc' = Set(pc, w, "expire")
    /\ UNCHANGED <<clock, putVars, heap, armed, drained, taskVars, die>>

\* The tick wakes sched ...
Wake(w) ==
    /\ pc[w] = "select"
    /\ \E at \in tick[w] : now' = Set(now, w, at)
    /\ tick' = Set(tick, w, {})
    /\ drained' = Set(drained, w, TRUE)
    /\ pc' = Set(pc, w, "expire")
    /\ UNCHANGED <<clock, putVars, heap, armed, taskVars, die>>

\* ... which executes what is overdue by then ...
ExpireRun(w) ==
    /\ pc[w] = "expire"
    /\ \E t \in Earliest(w) :
          /\ now[w] > due[t]
          /\ heap' = Set(heap, w, heap[w] \ {t})
          /\ Execute(t)
    /\ UNCHANGED <<clock, due, putVars, pc, now, timerVars, die>>

\* ... and sets the timer for the first task that is not, if there is one.
ExpireEnd(w) ==
    /\ pc[w] = "expire"
    /\ \A t \in Earliest(w) : now[w] <= due[t]
    /\ IF heap[w] = {}
       THEN UNCHANGED <<armed, drained>>
       ELSE /\ Rearm(w)
            /\ drained' = Set(drained, w, FALSE)
    /\ now' = Set(now, w, 0)
    /\ pc' = Set(pc, w, "select")
    /\ UNCHANGED <<clock, putVars, heap, tick, taskVars, die>>

-----------------------------------------------------------------------------
Close == ~die /\ die' = TRUE /\ UNCHANGED <<clock, putVars, workVars, taskVars>>

\* A sched goroutine that selects the closed die.
Leave(w) ==
    /\ pc[w] = "select"
    /\ die
    /\ pc' = Set(pc, w, "done")
    /\ UNCHANGED <<clock, putVars, heap, now, timerVars, taskVars, die>>

SchedStep(w) ==
    \/ Take(w) \/ StopTimer(w) \/ Drain(w) \/ Reset(w)
    \/ Wake(w) \/ ExpireRun(w) \/ ExpireEnd(w) \/ Leave(w)

Next ==
    \/ Tick \/ Prepend \/ Close
    \/ \E t \in Tasks : PutNotify(t) \/ \E d \in 0 .. MaxDue : PutTask(t, d)
    \/ \E w \in Workers : SchedStep(w) \/ Fire(w)

Spec == Init /\ [][Next]_vars

\* Time passes, the runtime fires timers, goroutines that can run do, and a
\* select that can take a task or a tick for ever takes each (Go chooses at
\* random among the ready cases).
Fairness ==
    /\ WF_vars(Tick) /\ WF_vars(Prepend)
    /\ \A t \in Tasks : WF_vars(PutNotify(t))
    /\ \A w \in Workers :
          WF_vars(SchedStep(w)) /\ WF_vars(Fire(w)) /\ SF_vars(Wake(w))

FairSpec == Spec /\ Fairness

-----------------------------------------------------------------------------
TypeOK ==
    /\ clock \in 0 .. MaxTime
    /\ due \in [Tasks -> 0 .. MaxDue]
    /\ prependTasks \in Seq(Tasks) /\ copied \in Seq(Tasks)
    /\ notifying \subseteq Tasks /\ again \subseteq Tasks
    /\ chPrependNotify \in BOOLEAN /\ die \in BOOLEAN
    /\ pc \in [Workers -> {"select", "stop", "drain", "reset", "expire", "done"}]
    /\ heap \in [Workers -> SUBSET Tasks]
    /\ now \in [Workers -> 0 .. MaxTime]
    /\ armed \in [Workers -> SUBSET (0 .. MaxTime)]
    /\ tick \in [Workers -> SUBSET (0 .. MaxTime)]
    /\ drained \in [Workers -> BOOLEAN]
    /\ status \in [Tasks -> {"none", "pending", "executed"}]

\* A sched goroutine that waits for its timer's tick will have it, and one that
\* sleeps with tasks in its heap has a timer running or a tick to come: drained
\* tells in every state whether the timer still owes a tick.
TimerReady ==
    \A w \in Workers :
        /\ pc[w] = "drain" => tick[w] # {}
        /\ pc[w] = "select" /\ heap[w] # {} => armed[w] \cup tick[w] # {}

\* A task is executed at most once and after its deadline, whatever goroutine it
\* ends up in: TimedSched implements TimedTasks.
Abstract == INSTANCE TimedTasks WITH
    status <- [t \in Tasks |-> IF t \in again THEN "twice" ELSE status[t]]

TaskSpec == Abstract!Spec

\* Unless the scheduler is closed, every task put is executed: no token that is
\* dropped, no timer that is stopped, reset or drained loses one.
EveryTaskRuns ==
    \A t \in Tasks : status[t] = "pending" ~> (status[t] = "executed" \/ die)
=============================================================================
