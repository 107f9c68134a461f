------------------------------ MODULE Registry ------------------------------
(***************************************************************************)
(* Registration of an application's servers: register, doDeregister* and   *)
(* doClose of app.go over registry/redis and registry/zookeeper.           *)
(*                                                                         *)
(* Run registers every server, then a ticker's goroutine does so again      *)
(* every DefaultRegisterInterval, until doClose, on a signal, stops the     *)
(* ticker and deregisters them.  In redis a service is a key of its domain, *)
(* address and ID that expires; in zookeeper it is a node of its domain and *)
(* ID, with the address as data, that does not, and that Register leaves    *)
(* alone once its cache has the service.                                   *)
(***************************************************************************)
EXTENDS Naturals

CONSTANTS Procs,     \* processes that run the same servers, with the same IDs
          Svrs,      \* the servers, network and rpc ones; each has an ID of its own (a
                     \* UUID unless one is given), so that zookeeper's cache, whose key
                     \* is the ID alone, has an entry for each
          TTL, Interval,   \* in units no registration takes longer than
          Kinds,     \* which registries are considered
          MaxStarts  \* bound: starts of a process

ASSUME RegistryAssumption ==
    /\ Svrs # {}
    /\ TTL \in Nat \ {0} /\ Interval \in Nat \ {0} /\ Interval < TTL
    /\ Kinds \subseteq {"redis", "zookeeper"}
    /\ MaxStarts \in Nat

None == "none"
ASSUME NoneAssumption == None \notin Procs /\ None \notin Svrs

VARIABLES
    kind,
    ttl,      \* redis: the time each process's key of a server has left
    node,     \* zookeeper: the process whose address a server's node has
    pc,       \* where each process is
    how,      \* how it last ended: never, exit, crash
    starts,
    todo,     \* the servers the current round of register has left
    reg,      \* zookeeper's Register: the server, and the call that is next
    cached,   \* z.register
    ticker, next,  \* the ticker: off, on, stopping; time to its tick
    dereg,    \* the servers doClose has left to deregister
    deleting, \* zookeeper's DeRegister: the server
    failed,   \* history: the last round stopped at a server
    after,    \* history: a round wrote to the store during or after doClose
    kept      \* history: servers whose DeRegister failed

storeVars == <<ttl, node>>
roundVars == <<todo, reg, cached, failed, after>>
tickVars == <<ticker, next>>
closeVars == <<dereg, deleting, kept>>
lifeVars == <<pc, how, starts>>
regVars == <<kind, storeVars, lifeVars, roundVars, tickVars, closeVars>>

NoReg == <<None, None>>

RegInit ==
    /\ kind \in Kinds
    /\ ttl = [p \in Procs |-> [s \in Svrs |-> 0]]
    /\ node = [s \in Svrs |-> None]
    /\ pc = [p \in Procs |-> "down"]
    /\ how = [p \in Procs |-> "never"]
    /\ starts = [p \in Procs |-> 0]
    /\ todo = [p \in Procs |-> {}]
    /\ reg = [p \in Procs |-> NoReg]
    /\ cached = [p \in Procs |-> {}]
    /\ ticker = [p \in Procs |-> "off"]
    /\ next = [p \in Procs |-> 0]
    /\ dereg = [p \in Procs |-> {}]
    /\ deleting = [p \in Procs |-> None]
    /\ failed = [p \in Procs |-> FALSE]
    /\ after = [p \in Procs |-> FALSE]
    /\ kept = [p \in Procs |-> {}]

Set(f, p, x) == [f EXCEPT ![p] = x]

\* What ListServices returns of a server: the processes at whose address it is.
Listed(s) ==
    IF kind = "redis" THEN {p \in Procs : ttl[p][s] > 0} ELSE {node[s]} \ {None}

-----------------------------------------------------------------------------
\* Run begins to register.
Start(p) ==
    /\ pc[p] = "down" /\ starts[p] < MaxStarts
    /\ starts' = Set(starts, p, starts[p] + 1)
    /\ pc' = Set(pc, p, "boot")
    /\ todo' = Set(todo, p, Svrs)
    /\ cached' = Set(cached, p, {})
    /\ failed' = Set(failed, p, FALSE)
    /\ after' = Set(after, p, FALSE)
    /\ kept' = Set(kept, p, {})
    /\ UNCHANGED <<kind, storeVars, how, reg, tickVars, dereg, deleting>>

\* The registry's Init fails (redis: no answer to a PING), and Run with it.
InitFails(p) ==
    /\ kind = "redis"
    /\ pc[p] = "down" /\ starts[p] < MaxStarts
    /\ starts' = Set(starts, p, starts[p] + 1)
    /\ how' = Set(how, p, "crash")
    /\ UNCHANGED <<kind, storeVars, pc, roundVars, tickVars, closeVars>>

\* The round goes on to the next server.
Done(p, s) ==
    /\ todo' = Set(todo, p, todo[p] \ {s})
    /\ failed' = Set(failed, p, failed[p] /\ todo[p] # {s})

\* A write to the store by a round that doClose should have been the last of.
Wrote(p) == after' = Set(after, p, after[p] \/ pc[p] = "closing")

\* register gives up at the first server that fails, and Run with it at boot.
Abort(p) ==
    /\ todo' = Set(todo, p, {})
    /\ reg' = Set(reg, p, NoReg)
    /\ failed' = Set(failed, p, TRUE)
    /\ IF pc[p] = "boot"
       THEN pc' = Set(pc, p, "down") /\ how' = Set(how, p, "crash")
       ELSE UNCHANGED <<pc, how>>

\* Broken form of RegisterRedis: an existing key keeps its time (SET NX).
RegisterRedisNX(p, s) ==
    /\ kind = "redis"
    /\ s \in todo[p]
    /\ ttl' = [ttl EXCEPT ![p][s] = IF @ > 0 THEN @ ELSE TTL]
    /\ Done(p, s)
    /\ Wrote(p)
    /\ UNCHANGED <<kind, node, lifeVars, reg, cached, tickVars, closeVars>>

\* redis: SET key EX ttl.
RegisterRedis(p, s) ==
    /\ kind = "redis"
    /\ s \in todo[p]
    /\ ttl' = [ttl EXCEPT ![p][s] = TTL]
    /\ Done(p, s)
    /\ Wrote(p)
    /\ UNCHANGED <<kind, node, lifeVars, reg, cached, tickVars, closeVars>>

\* A call of either store fails.
RegisterFails(p) ==
    /\ todo[p] # {}
    /\ Abort(p)
    /\ UNCHANGED <<kind, storeVars, starts, cached, after, tickVars, closeVars>>

\* zookeeper: nothing to do if cached, or else Exists ...
RegisterExists(p, s) ==
    /\ kind = "zookeeper"
    /\ s \in todo[p]
    /\ reg[p] = NoReg
    /\ IF s \in cached[p]
       THEN Done(p, s) /\ UNCHANGED reg
       ELSE /\ reg' = Set(reg, p, <<s, IF node[s] = None THEN "path" ELSE "set">>)
            /\ UNCHANGED <<todo, failed>>
    /\ UNCHANGED <<kind, storeVars, lifeVars, cached, after, tickVars, closeVars>>

\* ... Set, which fails if the node has gone since ...
RegisterSet(p, s) ==
    /\ reg[p] = <<s, "set">>
    /\ IF node[s] = None
       THEN Abort(p) /\ UNCHANGED <<node, after>>
       ELSE /\ node' = Set(node, s, p)
            /\ Wrote(p)
            /\ reg' = Set(reg, p, <<s, "cache">>)
            /\ UNCHANGED <<todo, failed, pc, how>>
    /\ UNCHANGED <<kind, ttl, starts, cached, tickVars, closeVars>>

\* ... or createPath: content with a node that has come up since, whoever's it is ...
CreatePath(p, s) ==
    /\ reg[p] = <<s, "path">>
    /\ reg' = Set(reg, p, <<s, IF node[s] = None THEN "create" ELSE "cache">>)
    /\ UNCHANGED <<kind, storeVars, lifeVars, todo, cached, failed, after, tickVars,
                   closeVars>>

\* ... or creates it, which fails if it has come up by now ...
Create(p, s) ==
    /\ reg[p] = <<s, "create">>
    /\ IF node[s] # None
       THEN Abort(p) /\ UNCHANGED <<node, after>>
       ELSE /\ node' = Set(node, s, p)
            /\ Wrote(p)
            /\ reg' = Set(reg, p, <<s, "cache">>)
            /\ UNCHANGED <<todo, failed, pc, how>>
    /\ UNCHANGED <<kind, ttl, starts, cached, tickVars, closeVars>>

\* ... and remembers the service.
RegisterCache(p, s) ==
    /\ reg[p] = <<s, "cache">>
    /\ cached' = Set(cached, p, cached[p] \cup {s})
    /\ reg' = Set(reg, p, NoReg)
    /\ Done(p, s)
    /\ UNCHANGED <<kind, storeVars, lifeVars, after, tickVars, closeVars>>

-----------------------------------------------------------------------------
\* Run has registered everything and starts the ticker.
Up(p) ==
    /\ pc[p] = "boot" /\ todo[p] = {}
    /\ pc' = Set(pc, p, "up")
    /\ ticker' = Set(ticker, p, "on")
    /\ next' = Set(next, p, Interval)
    /\ UNCHANGED <<kind, storeVars, how, starts, roundVars, closeVars>>

\* The ticker's goroutine selects a tick, even if doClose has stopped it by now ...
TickRound(p) ==
    /\ ticker[p] # "off" /\ next[p] = 0 /\ todo[p] = {}
    /\ todo' = Set(todo, p, Svrs)
    /\ next' = Set(next, p, Interval)
    /\ UNCHANGED <<kind, storeVars, lifeVars, reg, cached, failed, after, ticker, closeVars>>

\* ... or ends, between two rounds.
TickStop(p) ==
    /\ ticker[p] = "stopping" /\ todo[p] = {}
    /\ ticker' = Set(ticker, p, "off")
    /\ UNCHANGED <<kind, storeVars, lifeVars, roundVars, next, closeVars>>

\* A unit of time passes; no round, nor the start of the ticker, takes that long.
Clock ==
    /\ \A p \in Procs : pc[p] # "boot" /\ todo[p] = {} /\ ~(ticker[p] # "off" /\ next[p] = 0)
    /\ next' = [p \in Procs |-> IF next[p] > 0 THEN next[p] - 1 ELSE 0]
    /\ ttl' = [p \in Procs |-> [s \in Svrs |-> IF ttl[p][s] > 0 THEN ttl[p][s] - 1 ELSE 0]]
    /\ UNCHANGED <<kind, node, lifeVars, roundVars, ticker, closeVars>>

-----------------------------------------------------------------------------
\* doClose: on a signal, stop the ticker ...
CloseBegin(p) ==
    /\ pc[p] = "up"
    /\ pc' = Set(pc, p, "closing")
    /\ ticker' = Set(ticker, p, "stopping")
    /\ dereg' = Set(dereg, p, Svrs)
    /\ UNCHANGED <<kind, storeVars, how, starts, roundVars, next, deleting, kept>>

\* ... deregister each server in turn, whatever becomes of it ...
Deregistered(p, s) == dereg' = Set(dereg, p, dereg[p] \ {s})

\* ... by redis's DEL ...
DeRegisterRedis(p, s) ==
    /\ kind = "redis"
    /\ s \in dereg[p]
    /\ Deregistered(p, s)
    /\ \/ ttl' = [ttl EXCEPT ![p][s] = 0] /\ UNCHANGED kept
       \/ kept' = Set(kept, p, kept[p] \cup {s}) /\ UNCHANGED ttl
    /\ UNCHANGED <<kind, node, lifeVars, roundVars, tickVars, deleting>>

\* ... zookeeper's forgets the service ...
DeRegisterCache(p, s) ==
    /\ kind = "zookeeper"
    /\ s \in dereg[p] /\ deleting[p] = None
    /\ cached' = Set(cached, p, cached[p] \ {s})
    /\ deleting' = Set(deleting, p, s)
    /\ UNCHANGED <<kind, storeVars, lifeVars, todo, reg, failed, after, tickVars, dereg, kept>>

\* ... and deletes its node, whoever's it is by now ...
DeRegisterDelete(p, s) ==
    /\ deleting[p] = s
    /\ deleting' = Set(deleting, p, None)
    /\ Deregistered(p, s)
    /\ \/ node' = Set(node, s, None) /\ UNCHANGED kept
       \/ kept' = Set(kept, p, kept[p] \cup {s}) /\ UNCHANGED node
    /\ UNCHANGED <<kind, ttl, lifeVars, roundVars, tickVars>>

\* When all are deregistered, doClose releases the registry, stops clients and servers
\* and Run returns; or the process crashes; its goroutines end with it.
End(p, why) ==
    /\ IF why = "exit"
       THEN pc[p] = "closing" /\ dereg[p] = {}
       ELSE pc[p] # "down"
    /\ pc' = Set(pc, p, "down")
    /\ how' = Set(how, p, why)
    /\ todo' = Set(todo, p, {})
    /\ reg' = Set(reg, p, NoReg)
    /\ cached' = Set(cached, p, {})
    /\ ticker' = Set(ticker, p, "off")
    /\ next' = Set(next, p, 0)
    /\ dereg' = Set(dereg, p, {})
    /\ deleting' = Set(deleting, p, None)
    /\ failed' = Set(failed, p, FALSE)
    /\ IF why = "exit"
       THEN UNCHANGED <<after, kept>>
       ELSE after' = Set(after, p, FALSE) /\ kept' = Set(kept, p, {})
    /\ UNCHANGED <<kind, storeVars, starts>>

-----------------------------------------------------------------------------
RoundStep(p) ==
    \/ Up(p) \/ TickRound(p)
    \/ \E s \in Svrs :
          \/ RegisterRedis(p, s) \/ RegisterExists(p, s) \/ RegisterSet(p, s)
          \/ CreatePath(p, s) \/ Create(p, s) \/ RegisterCache(p, s)

RegNext ==
    \/ Clock
    \/ \E p \in Procs :
          \/ Start(p) \/ InitFails(p) \/ RegisterFails(p) \/ RoundStep(p) \/ TickStop(p)
          \/ CloseBegin(p) \/ End(p, "exit") \/ End(p, "crash")
          \/ \E s \in Svrs :
                DeRegisterRedis(p, s) \/ DeRegisterCache(p, s) \/ DeRegisterDelete(p, s)

RegTypeOK ==
    /\ kind \in {"redis", "zookeeper"}
    /\ ttl \in [Procs -> [Svrs -> 0 .. TTL]] /\ node \in [Svrs -> Procs \cup {None}]
    /\ pc \in [Procs -> {"down", "boot", "up", "closing"}]
    /\ how \in [Procs -> {"never", "exit", "crash"}] /\ starts \in [Procs -> 0 .. MaxStarts]
    /\ \A f \in {todo, cached, dereg, kept} : f \in [Procs -> SUBSET Svrs]
    /\ reg \in [Procs -> {NoReg} \cup Svrs \X {"set", "path", "create", "cache"}]
    /\ ticker \in [Procs -> {"off", "on", "stopping"}] /\ next \in [Procs -> 0 .. Interval]
    /\ deleting \in [Procs -> Svrs \cup {None}]
    /\ failed \in [Procs -> BOOLEAN] /\ after \in [Procs -> BOOLEAN]

\* Every server of a running process is listed at its address, from one round to the
\* next, as long as no round has stopped at a server that failed; in zookeeper, as
\* long as no other process with the same IDs has been there (its doClose deletes
\* the node, and the cache then keeps this process from making it again).
UpIsListed ==
    \A p \in Procs :
        /\ pc[p] = "up" /\ ~failed[p]
        /\ kind = "zookeeper" => \A q \in Procs \ {p} : starts[q] = 0
        => \A s \in Svrs : p \in Listed(s)

\* A process that has deregistered is no longer listed, unless a round of register was
\* still under way, or selected once more, when it deregistered, or the store failed.
ClosedIsGone ==
    \A p \in Procs :
        /\ (pc[p] = "closing" /\ dereg[p] = {}) \/ (pc[p] = "down" /\ how[p] = "exit")
        /\ ~after[p]
        => \A s \in Svrs \ kept[p] : p \notin Listed(s)

\* The registry tells who is up: the two above.
ListedIsUp == UpIsListed /\ ClosedIsGone
=============================================================================
