------------------------- MODULE ApplicationProofs -------------------------
(***************************************************************************)
(* What the clients and the registration of an application promise.        *)
(*                                                                         *)
(* Client.tla promises whoever calls Stop, for every number of callers, of *)
(* retries and of reconnections: at most one connection is made after a    *)
(* Stop has returned, a Stop of a client that has been connected does not  *)
(* panic, and Start gives up after MaxReconnectNum + 1 failed dials in a   *)
(* row.  That there is only one late dial depends on who holds the mutex   *)
(* when closeFlag is set: IInv says so, and relates conn to the dials made,*)
(* and reCount to the dials failed, at each place Start can be.            *)
(*                                                                         *)
(* Registry.tla promises whoever looks for a server, for any processes,    *)
(* servers, starts and times with Interval < TTL: a server that is up is   *)
(* listed, one that has been closed is not.  RegInv says why: in redis the *)
(* time a key has left covers the time to the next tick, in zookeeper the  *)
(* cache is right for as long as there is no other process.                *)
(***************************************************************************)
EXTENDS Client, Discovery, TLAPS

\* The mutex is held for a dial, and by a Stop from setting closeFlag to closing conn.
Locking ==
    /\ lock = Starter <=> spc = "dial"
    /\ \A p \in Stops : lock = p <=> stop[p] = "close"

\* A Stop that has begun has set closeFlag.
Flagged == (\E p \in Stops : stop[p] # "idle") => closeFlag

\* conn is the last connection dialled, until a Stop has closed that and forgotten it.
ConnIsLast ==
    /\ conn # Nil => conn = dialled
    /\ dialled # 0 /\ ~Stopped => conn # Nil

\* The dial after a Stop was the last: Start is on its way to find closeFlag set.
LateIsLast ==
    late # 0 =>
        /\ late = 1 /\ Stopped
        /\ spc \in {"connect", "run", "close", "hung", "onclose", "check", "returned"}

\* reCount counts the failed dials, but for the one that Start sleeps on or fails with.
Retries ==
    /\ fails = IF spc \in {"sleep", "failed"} THEN reCount + 1 ELSE reCount
    /\ spc = "sleep" => reCount < MaxReconnectNum
    /\ spc = "failed" => reCount = MaxReconnectNum
    /\ spc \in {"connect", "run", "close", "hung", "onclose"} => reCount = 0

IInv ==
    TypeOK /\ Locking /\ Flagged /\ ConnIsLast /\ LateIsLast /\ Retries /\ StopOutcome

-----------------------------------------------------------------------------
\* The invariant holds in the beginning.
LEMMA InitInv == Init => IInv
<1> SUFFICES ASSUME Init PROVE IInv
  OBVIOUS
<1> USE ClientAssumption, FreeAssumption DEF Init
<1>1. TypeOK
  <2>1. reCount \in 0 .. MaxReconnectNum /\ dialled \in 0 .. MaxConns /\ conn \in 0 .. dialled
    BY DEF Nil
  <2>2. closeFlag \in BOOLEAN /\ panicked \in BOOLEAN /\ lock \in Stops \cup {Starter, Free}
    OBVIOUS
  <2>3. open \subseteq 1 .. dialled /\ fails \in Nat /\ late \in Nat
    OBVIOUS
  <2>4. stop \in [Stops -> {"idle", "close", "returned"}]
    OBVIOUS
  <2> QED
    BY <2>1, <2>2, <2>3, <2>4 DEF TypeOK
<1>2. Locking /\ Flagged /\ ConnIsLast /\ LateIsLast /\ Retries
  BY DEF Locking, Flagged, ConnIsLast, LateIsLast, Retries, Stopped, Nil
<1>3. StopOutcome
  BY DEF StopOutcome, PanicNeedsNil, OneLateDial
<1> QED
  BY <1>1, <1>2, <1>3 DEF IInv

\* The steps of Start and of its session that leave the mutex, conn and the sockets
\* as they are.
Quiet == Check \/ Sleep \/ OnConnect \/ RunEnds \/ CoClose \/ OnClose

\* The types.
LEMMA TypeStep == TypeOK /\ Retries /\ [Next]_vars => TypeOK'
<1> SUFFICES ASSUME TypeOK, Retries, [Next]_vars PROVE TypeOK'
  OBVIOUS
<1> USE ClientAssumption DEF TypeOK, Goto, startVars
<1>1. CASE Check \/ OnConnect \/ RunEnds \/ CoClose \/ OnClose
  <2>1. UNCHANGED <<reCount, fails, lock, closeFlag, conn, dialled, open, stop, late,
                    panicked>>
    BY <1>1 DEF Check, OnConnect, RunEnds, CoClose, OnClose
  <2>2. spc' \in {"returned", "lock", "run", "close", "onclose", "hung", "check"}
    BY <1>1 DEF Check, OnConnect, RunEnds, CoClose, OnClose
  <2> QED
    BY <2>1, <2>2
<1>2. CASE Lock \/ DialFails
  <2>1. UNCHANGED <<reCount, closeFlag, conn, dialled, open, stop, late, panicked>>
    BY <1>2 DEF Lock, DialFails
  <2>2. spc' \in {"dial", "failed", "sleep"} /\ lock' \in {Starter, Free}
    BY <1>2 DEF Lock, DialFails
  <2>3. fails' \in Nat
    BY <1>2 DEF Lock, DialFails
  <2> QED
    BY <2>1, <2>2, <2>3
<1>3. CASE Dial
  <2>1. /\ spc' = "connect" /\ reCount' = 0 /\ fails' = 0 /\ lock' = Free
        /\ UNCHANGED <<closeFlag, stop, panicked>>
        /\ dialled' = dialled + 1 /\ conn' = dialled + 1 /\ dialled < MaxConns
        /\ open' = open \cup {dialled + 1}
    BY <1>3 DEF Dial
  <2>6. late' = late \/ late' = late + 1
    BY <1>3, Zenon DEF Dial
  <2>2. dialled' \in 0 .. MaxConns /\ conn' \in 0 .. dialled'
    BY <2>1
  <2>3. open' \subseteq 1 .. dialled'
    BY <2>1
  <2>4. reCount' \in 0 .. MaxReconnectNum /\ fails' \in Nat /\ late' \in Nat
    BY <2>1, <2>6
  <2>5. /\ lock' \in Stops \cup {Starter, Free} /\ spc' \in {"connect"}
        /\ closeFlag' \in BOOLEAN /\ panicked' \in BOOLEAN
        /\ stop' \in [Stops -> {"idle", "close", "returned"}]
    BY <2>1
  <2> QED
    BY <2>2, <2>3, <2>4, <2>5
<1>4. ASSUME NEW c \in Conns, WriterShuts(c) PROVE TypeOK'
  BY <1>4 DEF WriterShuts
<1>5. ASSUME NEW p \in Stops, StopLock(p) PROVE TypeOK'
  BY <1>5 DEF StopLock
<1>6. ASSUME NEW p \in Stops, StopClose(p) PROVE TypeOK'
  <2>1. /\ UNCHANGED <<startVars, closeFlag, dialled, late>>
        /\ panicked' \in BOOLEAN
        /\ open' \subseteq open
        /\ conn' = conn \/ conn' = 0
        /\ lock' = lock \/ lock' = Free
        /\ stop' = stop \/ stop' = [stop EXCEPT ![p] = "returned"]
    BY <1>6 DEF StopClose, Nil
  <2>2. stop' \in [Stops -> {"idle", "close", "returned"}]
    BY <2>1
  <2>3. conn' \in 0 .. dialled' /\ open' \subseteq 1 .. dialled'
    BY <2>1
  <2>4. lock' \in Stops \cup {Starter, Free}
    BY <2>1
  <2> QED
    BY <2>1, <2>2, <2>3, <2>4
<1>7. CASE UNCHANGED vars
  BY <1>7 DEF vars
<1>8. CASE Sleep
  BY <1>8 DEF Sleep, Retries
<1> QED
  BY <1>1, <1>2, <1>3, <1>4, <1>5, <1>6, <1>7, <1>8 DEF Next, StartStep

\* The mutex, and closeFlag under it.
LEMMA LockStep == TypeOK /\ Locking /\ Flagged /\ [Next]_vars => Locking' /\ Flagged'
<1> SUFFICES ASSUME TypeOK, Locking, Flagged, [Next]_vars PROVE Locking' /\ Flagged'
  OBVIOUS
<1> USE ClientAssumption, FreeAssumption DEF TypeOK, Goto, startVars, Locking, Flagged
<1>1. CASE Quiet
  BY <1>1 DEF Quiet, Check, Sleep, OnConnect, RunEnds, CoClose, OnClose
<1>2. CASE Lock
  BY <1>2 DEF Lock
<1>3. CASE Dial \/ DialFails
  BY <1>3 DEF Dial, DialFails
<1>4. ASSUME NEW c \in Conns, WriterShuts(c) PROVE Locking' /\ Flagged'
  BY <1>4 DEF WriterShuts
<1>5. ASSUME NEW p \in Stops, StopLock(p) PROVE Locking' /\ Flagged'
  BY <1>5 DEF StopLock
<1>6. ASSUME NEW p \in Stops, StopClose(p) PROVE Locking' /\ Flagged'
  BY <1>6 DEF StopClose
<1>7. CASE UNCHANGED vars
  BY <1>7 DEF vars
<1> QED
  BY <1>1, <1>2, <1>3, <1>4, <1>5, <1>6, <1>7 DEF Next, StartStep, Quiet

\* reCount and the failed dials, at each place of Start.
LEMMA RetriesStep == TypeOK /\ Retries /\ [Next]_vars => Retries'
<1> SUFFICES ASSUME TypeOK, Retries, [Next]_vars PROVE Retries'
  OBVIOUS
<1> USE ClientAssumption DEF TypeOK, Goto, startVars, Retries
<1>1. CASE Quiet
  BY <1>1 DEF Quiet, Check, Sleep, OnConnect, RunEnds, CoClose, OnClose
<1>2. CASE Lock \/ Dial \/ DialFails
  BY <1>2 DEF Lock, Dial, DialFails
<1>3. CASE \/ \E c \in Conns : WriterShuts(c)
           \/ \E p \in Stops : StopLock(p) \/ StopClose(p)
           \/ UNCHANGED vars
  BY <1>3 DEF WriterShuts, StopLock, StopClose, vars
<1> QED
  BY <1>1, <1>2, <1>3 DEF Next, StartStep, Quiet

\* What a Stop does to conn, and a dial that comes after it.
LEMMA StopStep == IInv /\ [Next]_vars => ConnIsLast' /\ LateIsLast' /\ StopOutcome'
<1> DEFINE Goal == ConnIsLast /\ LateIsLast /\ StopOutcome
<1> SUFFICES ASSUME IInv, [Next]_vars PROVE Goal'
  OBVIOUS
<1> USE DEF IInv, TypeOK, Goto, startVars, ConnIsLast, LateIsLast, StopOutcome,
            PanicNeedsNil, OneLateDial, Stopped
\* Once closeFlag is set, Check is Start's last step.
<1>1. CASE Quiet
  BY <1>1 DEF Quiet, Check, Sleep, OnConnect, RunEnds, CoClose, OnClose, Flagged
<1>2. CASE Lock \/ DialFails
  BY <1>2 DEF Lock, DialFails
\* No dial has been late before this one, for Start would not have come here.
<1>3. CASE Dial
  BY <1>3 DEF Dial, Nil
<1>4. ASSUME NEW c \in Conns, WriterShuts(c) PROVE Goal'
  BY <1>4 DEF WriterShuts
<1>5. ASSUME NEW p \in Stops, StopLock(p) PROVE Goal'
  BY <1>5 DEF StopLock
\* conn is the connection Start runs on, if it is not nil, and the mutex is Stop's.
<1>6. ASSUME NEW p \in Stops, StopClose(p) PROVE Goal'
  <2>1. CASE conn = Nil
    BY <1>6, <2>1 DEF StopClose
  <2>2. CASE conn # Nil
    BY <1>6, <2>2 DEF StopClose, Nil
  <2> QED
    BY <2>1, <2>2
<1>7. CASE UNCHANGED vars
  BY <1>7 DEF vars
<1> QED
  BY <1>1, <1>2, <1>3, <1>4, <1>5, <1>6, <1>7 DEF Next, StartStep, Quiet

-----------------------------------------------------------------------------
\* The invariant holds in every behaviour of a client.
THEOREM Invariance == Spec => []IInv
<1>1. IInv /\ [Next]_vars => IInv'
  BY TypeStep, LockStep, RetriesStep, StopStep DEF IInv
<1> QED
  BY InitInv, <1>1, PTL DEF Spec

\* Every variable keeps its type; what conn and the sockets name has been dialled.
THEOREM Types == Spec => []TypeOK
<1>1. IInv => TypeOK
  BY DEF IInv
<1> QED
  BY Invariance, <1>1, PTL

\* The mutex is held by Start while it dials and by a Stop while it closes conn, and
\* by one of them at a time, for any number of Stops.
THEOREM MutexHeld == Spec => []Locking
<1>1. IInv => Locking
  BY DEF IInv
<1> QED
  BY Invariance, <1>1, PTL

\* However many goroutines call Stop, and whenever: at most one dial succeeds after a
\* Stop has returned, an earlier connection that runs has been closed by then, and a
\* Stop panics only before the first connection or after another Stop.
THEOREM Outcome == Spec => []StopOutcome
<1>1. IInv => StopOutcome
  BY DEF IInv
<1> QED
  BY Invariance, <1>1, PTL

\* Start gives up after MaxReconnectNum + 1 failed dials in a row, neither sooner
\* nor later, whatever outages there were before.
THEOREM GivesUpInTime == Spec => []GivesUp
<1>1. IInv => GivesUp
  BY ClientAssumption DEF IInv, TypeOK, Retries, GivesUp
<1> QED
  BY Invariance, <1>1, PTL
-----------------------------------------------------------------------------
\* What a process can do.
Act(p) ==
    \/ Start(p) \/ InitFails(p) \/ RegisterFails(p) \/ Up(p) \/ TickRound(p) \/ TickStop(p)
    \/ CloseBegin(p) \/ End(p, "exit") \/ End(p, "crash")
    \/ \E s \in Svrs :
          \/ RegisterRedis(p, s) \/ RegisterExists(p, s) \/ RegisterSet(p, s)
          \/ CreatePath(p, s) \/ Create(p, s) \/ RegisterCache(p, s)
          \/ DeRegisterRedis(p, s) \/ DeRegisterCache(p, s) \/ DeRegisterDelete(p, s)

\* Who registers is in a round; only doClose deregisters; the ticker runs from Up.
Place(p) ==
    /\ pc[p] = "down" => todo[p] = {} /\ ticker[p] = "off"
    /\ reg[p] # NoReg => kind = "zookeeper" /\ reg[p][1] \in todo[p]
    /\ pc[p] # "closing" => dereg[p] = {} /\ deleting[p] = None
    /\ deleting[p] # None => kind = "zookeeper"
    /\ pc[p] = "boot" => ~failed[p] /\ ticker[p] = "off"
    /\ pc[p] = "up" => ticker[p] = "on"
    /\ starts[p] = 0 => pc[p] = "down"

\* redis: a key that the round has set lasts until the next round, as one the round has
\* still to set has lasted until this one.
Fresh(p) ==
    kind = "redis" =>
        /\ pc[p] = "boot" => \A s \in Svrs \ todo[p] : ttl[p][s] = TTL
        /\ pc[p] = "up" =>
              /\ ~failed[p] \/ todo[p] # {} =>
                    \A s \in Svrs \ todo[p] : ttl[p][s] + Interval >= TTL + next[p]
              /\ ~failed[p] => \A s \in todo[p] : ttl[p][s] > 0

\* zookeeper: until doClose the cache has what the round is done with, and while no
\* other process has been started the node of what it has is there.
Alone(p) == \A q \in Procs \ {p} : starts[q] = 0

Caching(p) ==
    kind = "zookeeper" =>
        /\ pc[p] = "boot" => Svrs \ todo[p] \subseteq cached[p]
        /\ pc[p] = "up" => cached[p] = Svrs /\ reg[p] = NoReg
        /\ pc[p] \in {"boot", "up"} /\ Alone(p) =>
              /\ \A s \in cached[p] : node[s] = p
              /\ \A s \in Svrs : reg[p] = <<s, "cache">> => node[s] = p

\* What doClose is done with is no longer listed, but for what ClosedIsGone excepts.
Gone(p) ==
    ~after[p] /\ (pc[p] = "closing" \/ (pc[p] = "down" /\ how[p] = "exit"))
        => \A s \in Svrs \ (dereg[p] \cup kept[p]) : p \notin Listed(s)

\* A node has the address of a process that was started.
Nodes == \A s \in Svrs : node[s] # None => starts[node[s]] # 0

RegInv ==
    /\ RegTypeOK /\ Nodes
    /\ \A p \in Procs : Place(p) /\ Fresh(p) /\ Caching(p) /\ Gone(p)

-----------------------------------------------------------------------------
\* g is f, but for p.
Puts(f, g, p, T) == \E x \in T : g = [f EXCEPT ![p] = x]

\* A process changes its own part of the state only, but for the nodes, and there
\* puts values of the types.
LEMMA Effects ==
    ASSUME RegTypeOK, NEW p \in Procs, Act(p)
    PROVE  /\ kind' = kind /\ node' \in [Svrs -> Procs \cup {None}]
           /\ ttl' = ttl \/ \E s \in Svrs, t \in {0, TTL} : ttl' = [ttl EXCEPT ![p][s] = t]
           /\ Puts(pc, pc', p, {"down", "boot", "up", "closing"})
           /\ Puts(how, how', p, {"never", "exit", "crash"})
           /\ \/ starts' = starts
              \/ starts[p] < MaxStarts /\ starts' = [starts EXCEPT ![p] = starts[p] + 1]
           /\ Puts(todo, todo', p, SUBSET Svrs)
           /\ Puts(cached, cached', p, SUBSET Svrs)
           /\ Puts(dereg, dereg', p, SUBSET Svrs)
           /\ Puts(kept, kept', p, SUBSET Svrs)
           /\ Puts(reg, reg', p, {NoReg} \cup Svrs \X {"set", "path", "create", "cache"})
           /\ Puts(ticker, ticker', p, {"off", "on", "stopping"})
           /\ next' = next \/ Puts(next, next', p, {0, Interval})
           /\ Puts(deleting, deleting', p, Svrs \cup {None})
           /\ Puts(failed, failed', p, BOOLEAN)
           /\ Puts(after, after', p, BOOLEAN)
<1> USE DEF Set, storeVars, lifeVars, roundVars, tickVars, closeVars,
            Act, Start, InitFails, RegisterFails, Up, TickRound, TickStop, CloseBegin, End,
            RegisterRedis, RegisterExists, RegisterSet, CreatePath, Create, RegisterCache,
            DeRegisterRedis, DeRegisterCache, DeRegisterDelete
<1>1. kind' = kind /\ node' \in [Svrs -> Procs \cup {None}]
  <2>1. \/ node' = node
        \/ \E s \in Svrs, x \in Procs \cup {None} : node' = [node EXCEPT ![s] = x]
    OBVIOUS
  <2>2. node \in [Svrs -> Procs \cup {None}]
    BY DEF RegTypeOK
  <2> QED
    BY <2>1, <2>2
<1>2. ttl' = ttl \/ \E s \in Svrs, t \in {0, TTL} : ttl' = [ttl EXCEPT ![p][s] = t]
  OBVIOUS
<1>3. Puts(pc, pc', p, {"down", "boot", "up", "closing"})
  <2>1. pc' = pc \/ \E x \in {"down", "boot", "up", "closing"} : pc' = [pc EXCEPT ![p] = x]
    BY DEF Abort
  <2> QED
    BY <2>1 DEF RegTypeOK, Puts
<1>4. Puts(how, how', p, {"never", "exit", "crash"})
  <2>1. how' = how \/ \E x \in {"never", "exit", "crash"} : how' = [how EXCEPT ![p] = x]
    BY DEF Abort
  <2> QED
    BY <2>1 DEF RegTypeOK, Puts
<1>5. \/ starts' = starts
      \/ starts[p] < MaxStarts /\ starts' = [starts EXCEPT ![p] = starts[p] + 1]
  OBVIOUS
<1>6. Puts(todo, todo', p, SUBSET Svrs)
  <2>1. todo' = todo \/ \E x \in SUBSET Svrs : todo' = [todo EXCEPT ![p] = x]
    BY DEF Abort, Done, RegTypeOK
  <2> QED
    BY <2>1 DEF RegTypeOK, Puts
<1>7. Puts(cached, cached', p, SUBSET Svrs)
  <2>1. cached' = cached \/ \E x \in SUBSET Svrs : cached' = [cached EXCEPT ![p] = x]
    BY DEF RegTypeOK
  <2> QED
    BY <2>1 DEF RegTypeOK, Puts
<1>8. Puts(dereg, dereg', p, SUBSET Svrs)
  <2>1. dereg' = dereg \/ \E x \in SUBSET Svrs : dereg' = [dereg EXCEPT ![p] = x]
    BY DEF Deregistered, RegTypeOK
  <2> QED
    BY <2>1 DEF RegTypeOK, Puts
<1>9. Puts(kept, kept', p, SUBSET Svrs)
  <2>1. kept' = kept \/ \E x \in SUBSET Svrs : kept' = [kept EXCEPT ![p] = x]
    BY DEF RegTypeOK
  <2> QED
    BY <2>1 DEF RegTypeOK, Puts
<1>10. Puts(reg, reg', p, {NoReg} \cup Svrs \X {"set", "path", "create", "cache"})
  <2> DEFINE R == {NoReg} \cup Svrs \X {"set", "path", "create", "cache"}
  <2>1. NoReg \in R /\ \A s \in Svrs, c \in {"set", "path", "create", "cache"} : <<s, c>> \in R
    OBVIOUS
  <2>2. reg \in [Procs -> R]
    BY DEF RegTypeOK
  <2> HIDE DEF R
  <2>3. reg' = reg \/ \E x \in R : reg' = [reg EXCEPT ![p] = x]
    BY <2>1 DEF Abort
  <2>4. \E x \in R : reg' = [reg EXCEPT ![p] = x]
    BY <2>2, <2>3
  <2> QED
    BY <2>4 DEF R, Puts
<1>11. Puts(ticker, ticker', p, {"off", "on", "stopping"})
  <2>1. ticker' = ticker \/ \E x \in {"off", "on", "stopping"} : ticker' = [ticker EXCEPT ![p] = x]
    OBVIOUS
  <2> QED
    BY <2>1 DEF RegTypeOK, Puts
<1>12. next' = next \/ Puts(next, next', p, {0, Interval})
  BY DEF Puts
<1>13. Puts(deleting, deleting', p, Svrs \cup {None})
  <2>1. deleting' = deleting \/ \E x \in Svrs \cup {None} : deleting' = [deleting EXCEPT ![p] = x]
    OBVIOUS
  <2> QED
    BY <2>1 DEF RegTypeOK, Puts
<1>14. Puts(failed, failed', p, BOOLEAN)
  <2>1. failed' = failed \/ \E x \in BOOLEAN : failed' = [failed EXCEPT ![p] = x]
    BY DEF Abort, Done, RegTypeOK
  <2> QED
    BY <2>1 DEF RegTypeOK, Puts
<1>15. Puts(after, after', p, BOOLEAN)
  <2>1. after' = after \/ \E x \in BOOLEAN : after' = [after EXCEPT ![p] = x]
    BY DEF Wrote, RegTypeOK
  <2> QED
    BY <2>1 DEF RegTypeOK, Puts
<1> QED
  BY <1>1, <1>2, <1>3, <1>4, <1>5, <1>6, <1>7, <1>8, <1>9, <1>10, <1>11, <1>12, <1>13,
     <1>14, <1>15

\* So what another process has does not change, and the types stay.
LEMMA Kept ==
    ASSUME NEW T, NEW f \in [Procs -> T], NEW g, NEW p \in Procs, Puts(f, g, p, T)
    PROVE  g \in [Procs -> T] /\ \A q \in Procs \ {p} : g[q] = f[q]
  BY DEF Puts

LEMMA ActKeeps ==
    ASSUME RegTypeOK, NEW p \in Procs, Act(p)
    PROVE  /\ RegTypeOK'
           /\ \A q \in Procs \ {p} :
                 /\ ttl'[q] = ttl[q] /\ pc'[q] = pc[q] /\ how'[q] = how[q]
                 /\ starts'[q] = starts[q] /\ todo'[q] = todo[q] /\ reg'[q] = reg[q]
                 /\ cached'[q] = cached[q] /\ ticker'[q] = ticker[q] /\ next'[q] = next[q]
                 /\ dereg'[q] = dereg[q] /\ deleting'[q] = deleting[q]
                 /\ failed'[q] = failed[q] /\ after'[q] = after[q] /\ kept'[q] = kept[q]
<1>1. /\ ttl' \in [Procs -> [Svrs -> 0 .. TTL]]
      /\ \A q \in Procs \ {p} : ttl'[q] = ttl[q]
  <2> DEFINE T == 0 .. TTL
  <2>1. ttl \in [Procs -> [Svrs -> T]] /\ 0 \in T /\ TTL \in T
    BY RegistryAssumption DEF RegTypeOK
  <2>2. ttl' = ttl \/ \E s \in Svrs, t \in {0, TTL} : ttl' = [ttl EXCEPT ![p][s] = t]
    BY Effects
  <2> HIDE DEF T
  <2>3. ttl' \in [Procs -> [Svrs -> T]] /\ \A q \in Procs \ {p} : ttl'[q] = ttl[q]
    BY <2>1, <2>2
  <2> QED
    BY <2>3 DEF T
<1>2. /\ next' \in [Procs -> 0 .. Interval]
      /\ \A q \in Procs \ {p} : next'[q] = next[q]
  <2> DEFINE T == 0 .. Interval
  <2>1. next \in [Procs -> T] /\ 0 \in T /\ Interval \in T
    BY RegistryAssumption DEF RegTypeOK
  <2>2. next' = next \/ \E x \in {0, Interval} : next' = [next EXCEPT ![p] = x]
    BY Effects DEF Puts
  <2> HIDE DEF T
  <2>3. next' \in [Procs -> T] /\ \A q \in Procs \ {p} : next'[q] = next[q]
    BY <2>1, <2>2
  <2> QED
    BY <2>3 DEF T
<1>3. /\ starts' \in [Procs -> 0 .. MaxStarts]
      /\ \A q \in Procs \ {p} : starts'[q] = starts[q]
  <2> DEFINE T == 0 .. MaxStarts
  <2>1. starts \in [Procs -> T] /\ (starts[p] < MaxStarts => starts[p] + 1 \in T)
    BY RegistryAssumption DEF RegTypeOK
  <2>2. \/ starts' = starts
        \/ starts[p] < MaxStarts /\ starts' = [starts EXCEPT ![p] = starts[p] + 1]
    BY Effects
  <2> HIDE DEF T
  <2>3. starts' \in [Procs -> T] /\ \A q \in Procs \ {p} : starts'[q] = starts[q]
    BY <2>1, <2>2
  <2> QED
    BY <2>3 DEF T
<1>4. /\ pc' \in [Procs -> {"down", "boot", "up", "closing"}]
      /\ \A q \in Procs \ {p} : pc'[q] = pc[q]
  <2> DEFINE T == {"down", "boot", "up", "closing"}
  <2>1. pc \in [Procs -> T] /\ Puts(pc, pc', p, T)
    BY Effects DEF RegTypeOK
  <2> HIDE DEF T
  <2>2. pc' \in [Procs -> T] /\ \A q \in Procs \ {p} : pc'[q] = pc[q]
    BY <2>1, Kept
  <2> QED
    BY <2>2 DEF T
<1>5. /\ how' \in [Procs -> {"never", "exit", "crash"}]
      /\ \A q \in Procs \ {p} : how'[q] = how[q]
  <2> DEFINE T == {"never", "exit", "crash"}
  <2>1. how \in [Procs -> T] /\ Puts(how, how', p, T)
    BY Effects DEF RegTypeOK
  <2> HIDE DEF T
  <2>2. how' \in [Procs -> T] /\ \A q \in Procs \ {p} : how'[q] = how[q]
    BY <2>1, Kept
  <2> QED
    BY <2>2 DEF T
<1>6. /\ todo' \in [Procs -> SUBSET Svrs]
      /\ \A q \in Procs \ {p} : todo'[q] = todo[q]
  <2> DEFINE T == SUBSET Svrs
  <2>1. todo \in [Procs -> T] /\ Puts(todo, todo', p, T)
    BY Effects DEF RegTypeOK
  <2> HIDE DEF T
  <2>2. todo' \in [Procs -> T] /\ \A q \in Procs \ {p} : todo'[q] = todo[q]
    BY <2>1, Kept
  <2> QED
    BY <2>2 DEF T
<1>7. /\ cached' \in [Procs -> SUBSET Svrs]
      /\ \A q \in Procs \ {p} : cached'[q] = cached[q]
  <2> DEFINE T == SUBSET Svrs
  <2>1. cached \in [Procs -> T] /\ Puts(cached, cached', p, T)
    BY Effects DEF RegTypeOK
  <2> HIDE DEF T
  <2>2. cached' \in [Procs -> T] /\ \A q \in Procs \ {p} : cached'[q] = cached[q]
    BY <2>1, Kept
  <2> QED
    BY <2>2 DEF T
<1>8. /\ dereg' \in [Procs -> SUBSET Svrs]
      /\ \A q \in Procs \ {p} : dereg'[q] = dereg[q]
  <2> DEFINE T == SUBSET Svrs
  <2>1. dereg \in [Procs -> T] /\ Puts(dereg, dereg', p, T)
    BY Effects DEF RegTypeOK
  <2> HIDE DEF T
  <2>2. dereg' \in [Procs -> T] /\ \A q \in Procs \ {p} : dereg'[q] = dereg[q]
    BY <2>1, Kept
  <2> QED
    BY <2>2 DEF T
<1>9. /\ kept' \in [Procs -> SUBSET Svrs]
      /\ \A q \in Procs \ {p} : kept'[q] = kept[q]
  <2> DEFINE T == SUBSET Svrs
  <2>1. kept \in [Procs -> T] /\ Puts(kept, kept', p, T)
    BY Effects DEF RegTypeOK
  <2> HIDE DEF T
  <2>2. kept' \in [Procs -> T] /\ \A q \in Procs \ {p} : kept'[q] = kept[q]
    BY <2>1, Kept
  <2> QED
    BY <2>2 DEF T
<1>10. /\ reg' \in [Procs -> {NoReg} \cup Svrs \X {"set", "path", "create", "cache"}]
      /\ \A q \in Procs \ {p} : reg'[q] = reg[q]
  <2> DEFINE T == {NoReg} \cup Svrs \X {"set", "path", "create", "cache"}
  <2>1. reg \in [Procs -> T] /\ Puts(reg, reg', p, T)
    BY Effects DEF RegTypeOK
  <2> HIDE DEF T
  <2>2. reg' \in [Procs -> T] /\ \A q \in Procs \ {p} : reg'[q] = reg[q]
    BY <2>1, Kept
  <2> QED
    BY <2>2 DEF T
<1>11. /\ ticker' \in [Procs -> {"off", "on", "stopping"}]
      /\ \A q \in Procs \ {p} : ticker'[q] = ticker[q]
  <2> DEFINE T == {"off", "on", "stopping"}
  <2>1. ticker \in [Procs -> T] /\ Puts(ticker, ticker', p, T)
    BY Effects DEF RegTypeOK
  <2> HIDE DEF T
  <2>2. ticker' \in [Procs -> T] /\ \A q \in Procs \ {p} : ticker'[q] = ticker[q]
    BY <2>1, Kept
  <2> QED
    BY <2>2 DEF T
<1>12. /\ deleting' \in [Procs -> Svrs \cup {None}]
      /\ \A q \in Procs \ {p} : deleting'[q] = deleting[q]
  <2> DEFINE T == Svrs \cup {None}
  <2>1. deleting \in [Procs -> T] /\ Puts(deleting, deleting', p, T)
    BY Effects DEF RegTypeOK
  <2> HIDE DEF T
  <2>2. deleting' \in [Procs -> T] /\ \A q \in Procs \ {p} : deleting'[q] = deleting[q]
    BY <2>1, Kept
  <2> QED
    BY <2>2 DEF T
<1>13. /\ failed' \in [Procs -> BOOLEAN]
      /\ \A q \in Procs \ {p} : failed'[q] = failed[q]
  <2> DEFINE T == BOOLEAN
  <2>1. failed \in [Procs -> T] /\ Puts(failed, failed', p, T)
    BY Effects DEF RegTypeOK
  <2> HIDE DEF T
  <2>2. failed' \in [Procs -> T] /\ \A q \in Procs \ {p} : failed'[q] = failed[q]
    BY <2>1, Kept
  <2> QED
    BY <2>2 DEF T
<1>14. /\ after' \in [Procs -> BOOLEAN]
      /\ \A q \in Procs \ {p} : after'[q] = after[q]
  <2> DEFINE T == BOOLEAN
  <2>1. after \in [Procs -> T] /\ Puts(after, after', p, T)
    BY Effects DEF RegTypeOK
  <2> HIDE DEF T
  <2>2. after' \in [Procs -> T] /\ \A q \in Procs \ {p} : after'[q] = after[q]
    BY <2>1, Kept
  <2> QED
    BY <2>2 DEF T
<1>15. RegTypeOK'
  <2>1. kind' \in {"redis", "zookeeper"} /\ node' \in [Svrs -> Procs \cup {None}]
    BY Effects DEF RegTypeOK
  <2> QED
    BY <2>1, <1>1, <1>2, <1>3, <1>4, <1>5, <1>6, <1>7,
       <1>8, <1>9, <1>10, <1>11, <1>12, <1>13, <1>14 DEF RegTypeOK
<1> QED
  BY <1>1, <1>2, <1>3, <1>4, <1>5, <1>6, <1>7,
     <1>8, <1>9, <1>10, <1>11, <1>12, <1>13, <1>14, <1>15

\* The clock keeps them too.
LEMMA RegTypeClock == RegTypeOK /\ Clock => RegTypeOK'
<1> SUFFICES ASSUME RegTypeOK, Clock PROVE RegTypeOK'
  OBVIOUS
<1>1. next' \in [Procs -> 0 .. Interval] /\ ttl' \in [Procs -> [Svrs -> 0 .. TTL]]
  BY RegistryAssumption DEF Clock, RegTypeOK
<1> QED
  BY <1>1 DEF Clock, RegTypeOK, lifeVars, roundVars, closeVars

\* What a process does to the nodes: nothing before it has been started.
LEMMA NodesOf ==
    ASSUME RegTypeOK, NEW p \in Procs, Act(p), Place(p)
    PROVE  /\ kind' = kind
           /\ \A s \in Svrs : node'[s] \in {node[s], p, None}
           /\ starts'[p] = 0 => starts[p] = 0
           /\ pc[p] = "down" => node' = node
<1> USE DEF Set, storeVars, lifeVars, roundVars, tickVars, closeVars
<1>1. kind' = kind /\ \A s \in Svrs : node'[s] \in {node[s], p, None}
  BY DEF Act, Start, InitFails, RegisterFails, Up, TickRound, TickStop, CloseBegin, End,
         RegisterRedis, RegisterExists, RegisterSet, CreatePath, Create, RegisterCache,
         DeRegisterRedis, DeRegisterCache, DeRegisterDelete, RegTypeOK
<1>2. starts'[p] = 0 => starts[p] = 0
  <2>1. starts' = starts \/ starts' = [starts EXCEPT ![p] = starts[p] + 1]
    BY DEF Act, Start, InitFails, RegisterFails, Up, TickRound, TickStop, CloseBegin, End,
           RegisterRedis, RegisterExists, RegisterSet, CreatePath, Create, RegisterCache,
           DeRegisterRedis, DeRegisterCache, DeRegisterDelete
  <2>2. starts[p] \in Nat /\ starts \in [Procs -> 0 .. MaxStarts]
    BY RegistryAssumption DEF RegTypeOK
  <2> QED
    BY <2>1, <2>2
<1>3. pc[p] = "down" => node' = node
  <2>1. ASSUME NEW s \in Svrs, RegisterSet(p, s) \/ Create(p, s) PROVE pc[p] # "down"
    <3>1. reg[p] # NoReg
      BY <2>1, NoneAssumption DEF RegisterSet, Create, NoReg
    <3> QED
      BY <3>1 DEF Place
  <2>2. ASSUME NEW s \in Svrs, DeRegisterDelete(p, s) PROVE pc[p] # "down"
    BY <2>2, NoneAssumption DEF DeRegisterDelete, Place
  <2> QED
    BY <2>1, <2>2
       DEF Act, Start, InitFails, RegisterFails, Up, TickRound, TickStop, CloseBegin, End,
           RegisterRedis, RegisterExists, CreatePath, RegisterCache, DeRegisterRedis,
           DeRegisterCache
<1> QED
  BY <1>1, <1>2, <1>3

\* What one process does keeps what the invariant says of another.
LEMMA OtherStep ==
    ASSUME RegInv, NEW p \in Procs, Act(p), NEW q \in Procs, q # p
    PROVE  Place(q)' /\ Fresh(q)' /\ Caching(q)' /\ Gone(q)'
<1>1. /\ ttl'[q] = ttl[q] /\ pc'[q] = pc[q] /\ how'[q] = how[q]
      /\ starts'[q] = starts[q] /\ todo'[q] = todo[q] /\ reg'[q] = reg[q]
      /\ cached'[q] = cached[q] /\ ticker'[q] = ticker[q] /\ next'[q] = next[q]
      /\ dereg'[q] = dereg[q] /\ deleting'[q] = deleting[q] /\ failed'[q] = failed[q]
      /\ after'[q] = after[q] /\ kept'[q] = kept[q]
  BY ActKeeps DEF RegInv
<1>2. /\ kind' = kind
      /\ \A s \in Svrs : node'[s] \in {node[s], p, None}
      /\ starts'[p] = 0 => starts[p] = 0
      /\ pc[p] = "down" => node' = node
  BY NodesOf DEF RegInv
<1>3. Place(q) /\ Fresh(q) /\ Caching(q) /\ Gone(q) /\ Place(p)
  BY DEF RegInv
<1>4. Place(q)'
  BY <1>1, <1>2, <1>3 DEF Place
<1>5. Fresh(q)'
  BY <1>1, <1>2, <1>3 DEF Fresh
<1>6. Caching(q)'
  <2>1. ASSUME Alone(q)' PROVE Alone(q) /\ node' = node
    <3>1. \A r \in Procs \ {q, p} : starts'[r] = starts[r]
      BY ActKeeps DEF RegInv
    <3>2. starts'[p] = 0
      BY <2>1 DEF Alone
    <3>3. starts[p] = 0 /\ node' = node
      BY <1>2, <1>3, <3>2 DEF Place
    <3> QED
      BY <2>1, <3>1, <3>3 DEF Alone
  <2>2. ASSUME Alone(q)', kind = "zookeeper", pc[q] \in {"boot", "up"}
        PROVE  /\ \A s \in cached[q] : node'[s] = q
               /\ \A s \in Svrs : reg[q] = <<s, "cache">> => node'[s] = q
    BY <1>3, <2>1, <2>2 DEF Caching
  <2> QED
    BY <1>1, <1>2, <1>3, <2>2 DEF Caching
<1>7. Gone(q)'
  <2>1. \A s \in Svrs : q \notin Listed(s) => q \notin Listed(s)'
    BY <1>1, <1>2 DEF Listed
  <2> QED
    BY <1>1, <1>3, <2>1 DEF Gone
<1> QED
  BY <1>4, <1>5, <1>6, <1>7

\* Each step of a process keeps where it is and what belongs to that.
LEMMA PlaceStep ==
    ASSUME RegTypeOK, NEW p \in Procs, Act(p), Place(p)
    PROVE  Place(p)'
<1> USE DEF Set, storeVars, lifeVars, roundVars, tickVars, closeVars
<1>0. starts[p] \in Nat
  BY RegistryAssumption DEF RegTypeOK
<1>1. CASE Start(p) \/ InitFails(p)
  <2>1. starts'[p] # 0
    BY <1>0, <1>1 DEF Start, InitFails, RegTypeOK
  <2> QED
    BY <1>1, <2>1 DEF Start, InitFails, Place, RegTypeOK
<1>2. CASE RegisterFails(p)
  BY <1>2 DEF RegisterFails, Abort, Place, RegTypeOK
<1>3. CASE Up(p) \/ TickRound(p) \/ TickStop(p) \/ CloseBegin(p)
  BY <1>3 DEF Up, TickRound, TickStop, CloseBegin, Place, RegTypeOK
<1>4. ASSUME NEW s \in Svrs, RegisterRedis(p, s) PROVE Place(p)'
  BY <1>4 DEF RegisterRedis, Done, Place, RegTypeOK
<1>5. ASSUME NEW s \in Svrs, RegisterExists(p, s) PROVE Place(p)'
  BY <1>5 DEF RegisterExists, Done, Place, RegTypeOK
<1>6. ASSUME NEW s \in Svrs, RegisterSet(p, s) \/ Create(p, s) PROVE Place(p)'
  <2>1. reg[p][1] = s /\ reg[p] # NoReg
    BY <1>6, NoneAssumption DEF RegisterSet, Create, NoReg
  <2> QED
    BY <1>6, <2>1 DEF RegisterSet, Create, Abort, Place, RegTypeOK
<1>7. ASSUME NEW s \in Svrs, CreatePath(p, s) PROVE Place(p)'
  <2>1. reg[p][1] = s /\ reg[p] # NoReg
    BY <1>7, NoneAssumption DEF CreatePath, NoReg
  <2> QED
    BY <1>7, <2>1 DEF CreatePath, Place, RegTypeOK
<1>8. ASSUME NEW s \in Svrs, RegisterCache(p, s) PROVE Place(p)'
  <2>1. reg[p][1] = s /\ reg[p] # NoReg
    BY <1>8, NoneAssumption DEF RegisterCache, NoReg
  <2> QED
    BY <1>8, <2>1 DEF RegisterCache, Done, Place, RegTypeOK
<1>9. ASSUME NEW s \in Svrs, DeRegisterRedis(p, s) PROVE Place(p)'
  BY <1>9 DEF DeRegisterRedis, Deregistered, Place, RegTypeOK
<1>10. ASSUME NEW s \in Svrs, DeRegisterCache(p, s) PROVE Place(p)'
  BY <1>10 DEF DeRegisterCache, Place, RegTypeOK
<1>11. ASSUME NEW s \in Svrs, DeRegisterDelete(p, s) PROVE Place(p)'
  BY <1>11, NoneAssumption DEF DeRegisterDelete, Deregistered, Place, RegTypeOK
<1>12. CASE End(p, "exit") \/ End(p, "crash")
  BY <1>12 DEF End, Place, RegTypeOK
<1> QED
  BY <1>1, <1>2, <1>3, <1>4, <1>5, <1>6, <1>7, <1>8, <1>9, <1>10, <1>11, <1>12 DEF Act

\* The keys of a process last.
LEMMA FreshStep ==
    ASSUME RegTypeOK, NEW p \in Procs, Act(p), Place(p), Fresh(p)
    PROVE  Fresh(p)'
<1> SUFFICES ASSUME kind' = "redis", pc'[p] \in {"boot", "up"} PROVE Fresh(p)'
  BY DEF Fresh
<1> USE DEF Set, storeVars, lifeVars, roundVars, tickVars, closeVars
<1>0. /\ TTL \in Nat /\ Interval \in Nat /\ Interval < TTL
      /\ next[p] \in 0 .. Interval /\ \A s \in Svrs : ttl[p][s] \in 0 .. TTL
  BY RegistryAssumption DEF RegTypeOK
<1>k. kind = "redis" /\ reg[p] = NoReg
  BY Effects DEF Place
<1>1. CASE Start(p)
  BY <1>1 DEF Start, Fresh, RegTypeOK
<1>2. CASE InitFails(p) \/ RegisterFails(p)
  BY <1>2, <1>k DEF InitFails, RegisterFails, Abort, Fresh, RegTypeOK
<1>3. CASE Up(p)
  <2>1. /\ pc[p] = "boot" /\ todo'[p] = {} /\ next'[p] = Interval /\ ttl' = ttl
        /\ \A s \in Svrs : ttl[p][s] = TTL
    BY <1>3, <1>k DEF Up, Fresh, RegTypeOK
  <2>2. TTL + Interval >= TTL + Interval
    BY <1>0
  <2>3. pc'[p] = "up"
    BY <1>3 DEF Up, RegTypeOK
  <2> QED
    BY <2>1, <2>2, <2>3 DEF Fresh
<1>4. CASE TickRound(p)
  <2>1. /\ pc' = pc /\ pc[p] = "up" /\ todo[p] = {} /\ todo'[p] = Svrs /\ next[p] = 0
        /\ ttl' = ttl /\ failed' = failed
    BY <1>4 DEF TickRound, Place, RegTypeOK
  <2>2. ~failed[p] => \A s \in Svrs : ttl[p][s] + Interval >= TTL + 0
    BY <1>k, <2>1 DEF Fresh
  <2>3. ~failed[p] => \A s \in Svrs : ttl[p][s] > 0
    BY <1>0, <2>2
  <2> QED
    BY <2>1, <2>3 DEF Fresh
<1>5. ASSUME NEW s \in Svrs, RegisterRedis(p, s) PROVE Fresh(p)'
  <2>1. /\ pc' = pc /\ next' = next /\ s \in todo[p] /\ todo'[p] = todo[p] \ {s}
        /\ ttl'[p][s] = TTL /\ \A t \in Svrs \ {s} : ttl'[p][t] = ttl[p][t]
        /\ failed'[p] => failed[p]
        /\ failed[p] /\ ~failed'[p] => todo'[p] = {}
    BY <1>5 DEF RegisterRedis, Done, RegTypeOK
  <2>2. TTL + Interval >= TTL + next[p]
    BY <1>0
  <2>3. CASE pc[p] = "boot"
    BY <1>k, <2>1, <2>3 DEF Fresh
  <2>4. CASE pc[p] = "up"
    <3>1. \A t \in Svrs \ todo[p] : ttl[p][t] + Interval >= TTL + next[p]
      BY <1>k, <2>1, <2>4 DEF Fresh
    <3>2. \A t \in Svrs \ todo'[p] : ttl'[p][t] + Interval >= TTL + next'[p]
      BY <2>1, <2>2, <3>1
    <3>3. ~failed'[p] => \A t \in todo'[p] : ttl'[p][t] > 0
      <4>1. todo'[p] \subseteq Svrs
        BY <2>1 DEF RegTypeOK
      <4>2. ~failed[p] => \A t \in todo[p] : ttl[p][t] > 0
        BY <1>k, <2>4 DEF Fresh
      <4> QED
        BY <2>1, <4>1, <4>2
    <3> QED
      BY <2>1, <2>4, <3>2, <3>3 DEF Fresh
  <2> QED
    BY <2>1, <2>3, <2>4
<1>6. ASSUME NEW s \in Svrs,
             \/ RegisterExists(p, s) \/ RegisterSet(p, s) \/ CreatePath(p, s) \/ Create(p, s)
             \/ RegisterCache(p, s) \/ DeRegisterCache(p, s)
      PROVE  FALSE
  <2>1. NoReg # <<s, "set">> /\ NoReg # <<s, "path">> /\ NoReg # <<s, "create">>
        /\ NoReg # <<s, "cache">>
    BY NoneAssumption DEF NoReg
  <2> QED
    BY <1>6, <1>k, <2>1
       DEF RegisterExists, RegisterSet, CreatePath, Create, RegisterCache, DeRegisterCache
<1>7. ASSUME NEW s \in Svrs, DeRegisterRedis(p, s) \/ DeRegisterDelete(p, s) PROVE FALSE
  BY <1>7, NoneAssumption DEF DeRegisterRedis, DeRegisterDelete, Place
<1>8. CASE TickStop(p)
  BY <1>k, <1>8 DEF TickStop, Fresh
<1>9. CASE CloseBegin(p) \/ End(p, "exit") \/ End(p, "crash")
  BY <1>9 DEF CloseBegin, End, RegTypeOK
<1> QED
  BY <1>1, <1>2, <1>3, <1>4, <1>5, <1>6, <1>7, <1>8, <1>9 DEF Act

\* The cache of a process is right.
LEMMA CachingStep ==
    ASSUME RegTypeOK, Nodes, NEW p \in Procs, Act(p), Place(p), Caching(p)
    PROVE  Caching(p)'
<1> SUFFICES ASSUME kind' = "zookeeper", pc'[p] \in {"boot", "up"} PROVE Caching(p)'
  BY DEF Caching
<1> USE DEF Set, storeVars, lifeVars, roundVars, tickVars, closeVars
<1>k. kind = "zookeeper"
  BY Effects
<1>a. Alone(p)' => Alone(p)
  BY ActKeeps DEF Alone
<1>n. Alone(p) => \A s \in Svrs : node[s] \in {p, None}
  BY DEF Alone, Nodes, RegTypeOK
<1>t. cached[p] \subseteq Svrs /\ todo[p] \subseteq Svrs
  BY DEF RegTypeOK
<1>r. \A s \in Svrs : \A c : NoReg # <<s, c>>
  BY NoneAssumption DEF NoReg
<1>1. CASE Start(p)
  <2>1. /\ pc'[p] = "boot" /\ todo'[p] = Svrs /\ cached'[p] = {} /\ reg' = reg
        /\ pc[p] = "down"
    BY <1>1 DEF Start, RegTypeOK
  <2>2. reg[p] = NoReg
    BY <2>1 DEF Place
  <2> QED
    BY <1>r, <2>1, <2>2 DEF Caching
<1>2. CASE InitFails(p) \/ RegisterFails(p)
  <2>1. /\ pc'[p] = "up" /\ pc' = pc /\ node' = node /\ cached' = cached /\ reg'[p] = NoReg
    BY <1>k, <1>2 DEF InitFails, RegisterFails, Abort, RegTypeOK
  <2> QED
    BY <1>a, <1>k, <1>r, <2>1 DEF Caching
<1>3. CASE Up(p)
  <2>1. /\ pc[p] = "boot" /\ pc'[p] = "up" /\ todo[p] = {} /\ UNCHANGED <<node, cached, reg>>
    BY <1>3 DEF Up, RegTypeOK
  <2>2. cached[p] = Svrs /\ reg[p] = NoReg
    BY <1>k, <1>t, <2>1 DEF Caching, Place
  <2> QED
    BY <1>a, <1>k, <1>r, <2>1, <2>2 DEF Caching
<1>4. CASE TickRound(p) \/ TickStop(p)
  <2>1. UNCHANGED <<kind, pc, node, cached, reg>>
    BY <1>4 DEF TickRound, TickStop
  <2>2. pc[p] = "up"
    BY <1>4, <2>1 DEF TickRound, TickStop, Place
  <2> QED
    BY <1>a, <2>1, <2>2 DEF Caching
<1>5. ASSUME NEW s \in Svrs, RegisterExists(p, s) PROVE Caching(p)'
  <2>1. UNCHANGED <<kind, pc, node, cached>> /\ s \in todo[p] /\ reg[p] = NoReg
    BY <1>5 DEF RegisterExists
  <2>2. CASE s \in cached[p]
    <3>1. reg' = reg /\ todo'[p] = todo[p] \ {s}
      BY <1>5, <2>2 DEF RegisterExists, Done, RegTypeOK
    <3> QED
      BY <1>a, <1>k, <1>t, <2>1, <2>2, <3>1 DEF Caching
  <2>3. CASE s \notin cached[p]
    <3>1. /\ reg'[p] = <<s, IF node[s] = None THEN "path" ELSE "set">> /\ todo' = todo
      BY <1>5, <2>3 DEF RegisterExists, RegTypeOK
    <3>2. pc[p] = "boot"
      BY <1>k, <2>1, <2>3 DEF Caching
    <3>3. \A u \in Svrs : reg'[p] # <<u, "cache">>
      BY <3>1
    <3> QED
      BY <1>a, <1>k, <2>1, <3>1, <3>2, <3>3 DEF Caching
  <2> QED
    BY <2>2, <2>3
<1>6. ASSUME NEW s \in Svrs, RegisterSet(p, s) \/ Create(p, s) PROVE Caching(p)'
  <2>1. reg[p] # NoReg /\ cached' = cached
    BY <1>6, <1>r DEF RegisterSet, Create
  <2>2. pc[p] # "down"
    BY <2>1 DEF Place
  <2>3. /\ pc[p] = "boot" /\ pc' = pc /\ todo' = todo
        /\ node' = [node EXCEPT ![s] = p] /\ reg'[p] = <<s, "cache">>
    BY <1>6, <1>k, <2>1 DEF RegisterSet, Create, Abort, Caching, RegTypeOK
  <2>4. node'[s] = p /\ \A u \in Svrs \ {s} : node'[u] = node[u]
    BY <2>3 DEF RegTypeOK
  <2>5. ASSUME Alone(p) PROVE \A u \in cached[p] : node'[u] = p
    BY <1>k, <1>t, <2>3, <2>4, <2>5 DEF Caching
  <2>6. \A u \in Svrs : reg'[p] = <<u, "cache">> => node'[u] = p
    BY <2>3, <2>4
  <2> QED
    BY <1>a, <1>k, <2>1, <2>3, <2>5, <2>6 DEF Caching
<1>7. ASSUME NEW s \in Svrs, CreatePath(p, s) PROVE Caching(p)'
  <2>1. /\ reg[p] # NoReg /\ UNCHANGED <<kind, pc, node, cached, todo>>
        /\ reg'[p] = <<s, IF node[s] = None THEN "create" ELSE "cache">>
    BY <1>7, <1>r DEF CreatePath, RegTypeOK
  <2>2. pc[p] = "boot"
    BY <1>k, <2>1 DEF Caching
  <2>3. ASSUME Alone(p), NEW u \in Svrs, reg'[p] = <<u, "cache">> PROVE node'[u] = p
    BY <1>n, <2>1, <2>3
  <2> QED
    BY <1>a, <1>k, <2>1, <2>2, <2>3 DEF Caching
<1>8. ASSUME NEW s \in Svrs, RegisterCache(p, s) PROVE Caching(p)'
  <2>1. /\ reg[p] = <<s, "cache">> /\ reg[p] # NoReg /\ reg'[p] = NoReg
        /\ UNCHANGED <<kind, pc, node>>
        /\ cached'[p] = cached[p] \cup {s} /\ todo'[p] = todo[p] \ {s}
    BY <1>8, <1>r DEF RegisterCache, Done, RegTypeOK
  <2>2. pc[p] = "boot"
    BY <1>k, <2>1 DEF Caching
  <2> QED
    BY <1>a, <1>k, <1>r, <2>1, <2>2 DEF Caching
<1>9. ASSUME NEW s \in Svrs,
             RegisterRedis(p, s) \/ DeRegisterRedis(p, s) \/ DeRegisterCache(p, s)
                \/ DeRegisterDelete(p, s)
      PROVE  FALSE
  BY <1>9, <1>k, NoneAssumption
     DEF RegisterRedis, DeRegisterRedis, DeRegisterCache, DeRegisterDelete, Place
<1>10. CASE CloseBegin(p) \/ End(p, "exit") \/ End(p, "crash")
  BY <1>10 DEF CloseBegin, End, RegTypeOK
<1> QED
  BY <1>1, <1>2, <1>3, <1>4, <1>5, <1>6, <1>7, <1>8, <1>9, <1>10 DEF Act

\* What doClose has deregistered comes back only by a round, which sets after.
LEMMA GoneStep ==
    ASSUME RegTypeOK, NEW p \in Procs, Act(p), Place(p), Gone(p)
    PROVE  Gone(p)'
<1> SUFFICES ASSUME ~after'[p], pc'[p] = "closing" \/ (pc'[p] = "down" /\ how'[p] = "exit"),
                    NEW t \in Svrs \ (dereg'[p] \cup kept'[p])
             PROVE  p \notin Listed(t)'
  BY DEF Gone
<1> USE DEF Set, storeVars, lifeVars, roundVars, tickVars, closeVars
<1>k. kind' = kind
  BY Effects
<1>g. ~after[p] /\ (pc[p] = "closing" \/ (pc[p] = "down" /\ how[p] = "exit"))
         /\ t \notin dereg[p] \cup kept[p] => p \notin Listed(t)
  BY DEF Gone
<1>s. ASSUME UNCHANGED <<ttl, node>> PROVE Listed(t)' = Listed(t)
  BY <1>k, <1>s DEF Listed
<1>1. CASE Start(p) \/ InitFails(p) \/ RegisterFails(p)
  <2>1. UNCHANGED <<ttl, node, pc, how, after, dereg, kept>>
    BY <1>1 DEF Start, InitFails, RegisterFails, Abort, RegTypeOK
  <2> QED
    BY <1>g, <1>s, <2>1
<1>2. CASE Up(p) \/ TickRound(p) \/ TickStop(p)
  <2>1. UNCHANGED <<ttl, node, how, after, dereg, kept>> /\ pc' = pc
    BY <1>2 DEF Up, TickRound, TickStop, RegTypeOK
  <2> QED
    BY <1>g, <1>s, <2>1
<1>3. CASE CloseBegin(p)
  BY <1>3 DEF CloseBegin, RegTypeOK
<1>4. CASE End(p, "exit")
  <2>1. /\ pc[p] = "closing" /\ dereg[p] = {} /\ UNCHANGED <<ttl, node, after, kept>>
    BY <1>4 DEF End
  <2> QED
    BY <1>g, <1>s, <2>1
<1>5. CASE End(p, "crash")
  BY <1>5 DEF End, RegTypeOK
<1>6. ASSUME NEW s \in Svrs,
             \/ RegisterExists(p, s) \/ CreatePath(p, s) \/ RegisterCache(p, s)
             \/ DeRegisterCache(p, s)
      PROVE  UNCHANGED <<ttl, node, pc, how, after, dereg, kept>>
  BY <1>6 DEF RegisterExists, CreatePath, RegisterCache, DeRegisterCache
<1>7. ASSUME NEW s \in Svrs, RegisterRedis(p, s) \/ RegisterSet(p, s) \/ Create(p, s)
      PROVE  UNCHANGED <<ttl, node, pc, how, after, dereg, kept>>
  <2>1. CASE RegisterRedis(p, s)
    BY <2>1 DEF RegisterRedis, Wrote, Place, RegTypeOK
  <2>2. CASE RegisterSet(p, s) \/ Create(p, s)
    <3>1. reg[p] # NoReg
      BY <2>2, NoneAssumption DEF RegisterSet, Create, NoReg
    <3>2. pc[p] # "down"
      BY <3>1 DEF Place
    <3> QED
      BY <2>2, <3>2 DEF RegisterSet, Create, Abort, Wrote, RegTypeOK
  <2> QED
    BY <1>7, <2>1, <2>2
<1>8. ASSUME NEW s \in Svrs, DeRegisterRedis(p, s) PROVE p \notin Listed(t)'
  <2>1. /\ kind = "redis" /\ UNCHANGED <<pc, how, after>> /\ dereg'[p] = dereg[p] \ {s}
        /\ s \in dereg[p]
    BY <1>8 DEF DeRegisterRedis, Deregistered, RegTypeOK
  <2>2. CASE ttl' = [ttl EXCEPT ![p][s] = 0] /\ kept' = kept
    <3>1. ttl'[p][s] = 0 /\ \A u \in Svrs \ {s} : ttl'[p][u] = ttl[p][u]
      BY <2>2 DEF RegTypeOK
    <3>2. t # s => ~(ttl[p][t] > 0)
      BY <1>g, <2>1, <2>2 DEF Listed
    <3>3. ~(0 > 0)
      OBVIOUS
    <3> QED
      BY <1>k, <2>1, <3>1, <3>2, <3>3 DEF Listed
  <2>3. CASE kept'[p] = kept[p] \cup {s} /\ ttl' = ttl
    <3>1. node' = node /\ t # s /\ t \notin dereg[p] \cup kept[p]
      BY <1>8, <2>1, <2>3 DEF DeRegisterRedis
    <3> QED
      BY <1>g, <1>s, <2>1, <2>3, <3>1
  <2> QED
    BY <1>8, <2>2, <2>3 DEF DeRegisterRedis, RegTypeOK
<1>9. ASSUME NEW s \in Svrs, DeRegisterDelete(p, s) PROVE p \notin Listed(t)'
  <2>1. /\ UNCHANGED <<pc, how, after, ttl>> /\ dereg'[p] = dereg[p] \ {s} /\ pc[p] = "closing"
    BY <1>9, NoneAssumption DEF DeRegisterDelete, Deregistered, Place, RegTypeOK
  <2>2. CASE node' = [node EXCEPT ![s] = None] /\ kept' = kept
    <3>1. node'[s] = None /\ \A u \in Svrs \ {s} : node'[u] = node[u]
      BY <2>2 DEF RegTypeOK
    <3>2. t # s => p \notin Listed(t)
      BY <1>g, <2>1, <2>2
    <3>3. kind = "zookeeper"
      BY <1>9, NoneAssumption DEF DeRegisterDelete, Place
    <3> QED
      BY <1>k, <2>1, <3>1, <3>2, <3>3 DEF Listed
  <2>3. CASE kept'[p] = kept[p] \cup {s} /\ node' = node
    <3>1. t # s /\ t \notin dereg[p] \cup kept[p]
      BY <2>1, <2>3
    <3> QED
      BY <1>g, <1>s, <2>1, <2>3, <3>1
  <2> QED
    BY <1>9, <2>2, <2>3 DEF DeRegisterDelete, RegTypeOK
<1> QED
  BY <1>1, <1>2, <1>3, <1>4, <1>5, <1>6, <1>7, <1>8, <1>9, <1>g, <1>s DEF Act

\* Only a process that has been started gets a node.
LEMMA NodesStep ==
    ASSUME RegTypeOK, Nodes, NEW p \in Procs, Act(p), Place(p)
    PROVE  Nodes'
<1> SUFFICES ASSUME NEW s \in Svrs, node'[s] # None PROVE starts'[node'[s]] # 0
  BY DEF Nodes
<1>1. /\ node'[s] \in {node[s], p} /\ (starts'[p] = 0 => starts[p] = 0)
      /\ (pc[p] = "down" => node' = node)
  BY NodesOf
<1>2. CASE node'[s] = node[s] /\ node[s] # p
  <2>1. node[s] \in Procs /\ starts[node[s]] # 0
    BY <1>2 DEF Nodes, RegTypeOK
  <2> QED
    BY <1>2, <2>1, ActKeeps
<1>3. CASE node'[s] = p
  <2>1. ASSUME starts'[p] = 0 PROVE FALSE
    <3>1. starts[p] = 0 /\ node' = node
      BY <1>1, <2>1 DEF Place
    <3> QED
      BY <1>3, <3>1 DEF Nodes
  <2> QED
    BY <1>3, <2>1
<1> QED
  BY <1>1, <1>2, <1>3

\* Time passes between two rounds: a key that covered the time to the next tick does.
LEMMA ClockStep ==
    ASSUME RegInv, Clock, NEW p \in Procs
    PROVE  Place(p)' /\ Fresh(p)' /\ Caching(p)' /\ Gone(p)'
<1> USE DEF storeVars, lifeVars, roundVars, tickVars, closeVars
<1>1. /\ UNCHANGED <<kind, node, pc, how, starts, todo, reg, cached, failed, after, ticker,
                     dereg, deleting, kept>>
      /\ todo[p] = {} /\ pc[p] # "boot" /\ (ticker[p] # "off" => next[p] # 0)
      /\ next'[p] = IF next[p] > 0 THEN next[p] - 1 ELSE 0
      /\ \A s \in Svrs : ttl'[p][s] = IF ttl[p][s] > 0 THEN ttl[p][s] - 1 ELSE 0
  BY DEF Clock
<1>2. RegTypeOK /\ Place(p) /\ Fresh(p) /\ Caching(p) /\ Gone(p)
  BY DEF RegInv
<1>3. Place(p)' /\ Caching(p)'
  BY <1>1, <1>2 DEF Place, Caching, Alone
<1>4. Fresh(p)'
  <2>0. /\ TTL \in Nat /\ Interval \in Nat /\ Interval < TTL
        /\ next[p] \in 0 .. Interval /\ \A s \in Svrs : ttl[p][s] \in 0 .. TTL
    BY <1>2, RegistryAssumption DEF RegTypeOK
  <2>1. SUFFICES ASSUME kind = "redis", pc[p] = "up", ~failed[p], NEW s \in Svrs
                 PROVE  ttl'[p][s] + Interval >= TTL + next'[p]
    BY <1>1, <2>1 DEF Fresh
  <2>2. ttl[p][s] + Interval >= TTL + next[p]
    BY <1>1, <1>2, <2>1 DEF Fresh
  <2>3. next[p] > 0 /\ next'[p] = next[p] - 1
    BY <1>1, <1>2, <2>0, <2>1 DEF Place
  <2> DEFINE k == ttl[p][s]
             n == next[p]
  <2>4. /\ TTL \in Nat /\ Interval \in Nat /\ Interval < TTL /\ n \in Nat /\ k \in Nat
        /\ n > 0 /\ k + Interval >= TTL + n
    BY <2>0, <2>2, <2>3
  <2>5. ttl'[p][s] = IF k > 0 THEN k - 1 ELSE 0
    BY <1>1
  <2> HIDE DEF k, n
  <2>6. k > 0 /\ k - 1 + Interval >= TTL + (n - 1)
    BY <2>4
  <2> QED
    BY <2>3, <2>5, <2>6 DEF n
<1>5. Gone(p)'
  <2>1. ASSUME NEW s \in Svrs, p \notin Listed(s) PROVE p \notin Listed(s)'
    <3>1. kind = "redis" => ~(ttl[p][s] > 0)
      BY <2>1 DEF Listed
    <3>2. kind = "redis" => ~(ttl'[p][s] > 0)
      BY <1>1, <3>1
    <3> QED
      BY <1>1, <2>1, <3>2 DEF Listed
  <2> QED
    BY <1>1, <1>2, <2>1 DEF Gone
<1> QED
  BY <1>3, <1>4, <1>5

\* Nothing is registered at first.
LEMMA RegInitInv == RegInit => RegInv
<1> SUFFICES ASSUME RegInit PROVE RegInv
  OBVIOUS
<1>1. RegTypeOK
  <2>1. /\ ttl \in [Procs -> [Svrs -> 0 .. TTL]] /\ starts \in [Procs -> 0 .. MaxStarts]
        /\ next \in [Procs -> 0 .. Interval]
    BY RegistryAssumption DEF RegInit
  <2>2. /\ kind \in {"redis", "zookeeper"} /\ node \in [Svrs -> Procs \cup {None}]
        /\ pc \in [Procs -> {"down", "boot", "up", "closing"}]
        /\ how \in [Procs -> {"never", "exit", "crash"}]
        /\ ticker \in [Procs -> {"off", "on", "stopping"}]
        /\ deleting \in [Procs -> Svrs \cup {None}]
    BY RegistryAssumption DEF RegInit
  <2>3. /\ \A f \in {todo, cached, dereg, kept} : f \in [Procs -> SUBSET Svrs]
        /\ reg \in [Procs -> {NoReg} \cup Svrs \X {"set", "path", "create", "cache"}]
        /\ failed \in [Procs -> BOOLEAN] /\ after \in [Procs -> BOOLEAN]
    BY DEF RegInit
  <2> QED
    BY <2>1, <2>2, <2>3 DEF RegTypeOK
<1>2. Nodes
  BY DEF RegInit, Nodes
<1>3. ASSUME NEW p \in Procs PROVE Place(p) /\ Fresh(p) /\ Caching(p) /\ Gone(p)
  BY DEF RegInit, Place, Fresh, Caching, Gone
<1> QED
  BY <1>1, <1>2, <1>3 DEF RegInv

-----------------------------------------------------------------------------
\* The invariant holds of any number of processes with any servers.
THEOREM RegInvariance == DiscSpec => []RegInv
<1>1. DiscInit => RegInv
  BY RegInitInv DEF DiscInit
<1>2. RegInv /\ [DiscNext]_discVars => RegInv'
  <2> SUFFICES ASSUME RegInv, [DiscNext]_discVars PROVE RegInv'
    OBVIOUS
  <2>1. CASE Clock
    <3>1. RegTypeOK' /\ Nodes'
      BY <2>1, RegTypeClock DEF RegInv, Nodes, Clock, lifeVars
    <3> QED
      BY <2>1, <3>1, ClockStep DEF RegInv
  <2>2. ASSUME NEW p \in Procs, Act(p) PROVE RegInv'
    <3>1. RegTypeOK' /\ Nodes'
      BY <2>2, ActKeeps, NodesStep DEF RegInv
    <3>2. Place(p)' /\ Fresh(p)' /\ Caching(p)' /\ Gone(p)'
      BY <2>2, PlaceStep, FreshStep, CachingStep, GoneStep DEF RegInv
    <3>3. ASSUME NEW q \in Procs, q # p PROVE Place(q)' /\ Fresh(q)' /\ Caching(q)' /\ Gone(q)'
      BY <2>2, <3>3, OtherStep
    <3> QED
      BY <3>1, <3>2, <3>3 DEF RegInv
  <2>3. CASE UNCHANGED regVars
    BY <2>3 DEF regVars, storeVars, lifeVars, roundVars, tickVars, closeVars, RegInv, RegTypeOK,
                Nodes, Place, Fresh, Caching, Alone, Gone, Listed
  <2>4. RegNext \/ UNCHANGED regVars
    BY DEF DiscNext, discVars, ClientSetStart, ClientStart, RPCClientStart, Watch, Poll, Release
  <2> QED
    BY <2>1, <2>2, <2>3, <2>4 DEF RegNext, RoundStep, Act
<1> QED
  BY <1>1, <1>2, PTL DEF DiscSpec

\* The watcher's state, and what its list may hold.
Watcher == dpc \in {"start", "watch", "run", "over"} /\ service \subseteq Procs

\* Only processes are listed for a server.
LEMMA ListedProcs == ASSUME RegTypeOK, NEW s \in Svrs PROVE Listed(s) \subseteq Procs
<1>1. node[s] \in Procs \cup {None}
  BY DEF RegTypeOK
<1>2. CASE kind = "redis"
  BY <1>2 DEF Listed
<1>3. CASE kind # "redis"
  BY <1>1, <1>3 DEF Listed
<1> QED
  BY <1>2, <1>3

\* The variables of the registration, and of who looks for a server, have their types.
THEOREM DiscTypes == DiscSpec => []DiscTypeOK
<1>1. DiscInit => Watcher
  BY DEF DiscInit, Watcher
<1>2. RegInv /\ Watcher /\ [DiscNext]_discVars => Watcher'
  <2> SUFFICES ASSUME RegInv, Watcher, [DiscNext]_discVars PROVE Watcher'
    OBVIOUS
  <2>1. Listed(Domain) \subseteq Procs
    BY DiscoveryAssumption, ListedProcs DEF RegInv
  <2>2. CASE UNCHANGED <<dpc, service>>
    BY <2>2 DEF Watcher
  <2>3. CASE ClientSetStart \/ ClientStart \/ RPCClientStart \/ Watch \/ Poll \/ Release
    BY <2>1, <2>3 DEF Watcher, ClientSetStart, ClientStart, RPCClientStart, Watch, Poll, Release
  <2> QED
    BY <2>2, <2>3 DEF DiscNext, discVars
<1>3. RegInv /\ Watcher => DiscTypeOK
  BY DEF RegInv, DiscTypeOK, Watcher
<1> QED
  BY <1>1, <1>2, <1>3, RegInvariance, PTL DEF DiscSpec

\* As long as no round of register has failed, every server of a process that is up is
\* listed, in zookeeper unless there are others with its IDs; and whatever was
\* deregistered is not listed any more, unless a round was still under way.
THEOREM Registered == DiscSpec => []ListedIsUp
<1>1. RegInv => UpIsListed
  <2> SUFFICES ASSUME RegInv, NEW p \in Procs, pc[p] = "up", ~failed[p],
                      kind = "zookeeper" => Alone(p), NEW s \in Svrs
               PROVE  p \in Listed(s)
    BY DEF UpIsListed, Alone
  <2>1. RegTypeOK /\ Fresh(p) /\ Caching(p)
    BY DEF RegInv
  <2>2. CASE kind = "redis"
    <3>1. /\ TTL \in Nat /\ Interval \in Nat /\ Interval < TTL
          /\ next[p] \in Nat /\ ttl[p][s] \in Nat
      BY <2>1, RegistryAssumption DEF RegTypeOK
    <3>2. ttl[p][s] > 0 \/ ttl[p][s] + Interval >= TTL + next[p]
      BY <2>1, <2>2 DEF Fresh
    <3>3. ttl[p][s] > 0
      BY <3>1, <3>2
    <3> QED
      BY <2>2, <3>3 DEF Listed
  <2>3. CASE kind = "zookeeper"
    <3>1. node[s] = p /\ p # None
      BY <2>1, <2>3, NoneAssumption DEF Caching
    <3> QED
      BY <2>3, <3>1 DEF Listed
  <2> QED
    BY <2>1, <2>2, <2>3 DEF RegTypeOK
<1>2. RegInv => ClosedIsGone
  <2> SUFFICES ASSUME RegInv, NEW p \in Procs, ~after[p],
                      (pc[p] = "closing" /\ dereg[p] = {}) \/ (pc[p] = "down" /\ how[p] = "exit"),
                      NEW s \in Svrs \ kept[p]
               PROVE  p \notin Listed(s)
    BY DEF ClosedIsGone
  <2>1. dereg[p] = {}
    BY DEF RegInv, Place
  <2> QED
    BY <2>1 DEF RegInv, Gone
<1> QED
  BY <1>1, <1>2, RegInvariance, PTL DEF ListedIsUp
=============================================================================
