# Verification of emt

emt is a Go framework for game servers: three interchangeable transports (tcp,
kcp over udp, websocket) with sessions and codecs on top, a single goroutine
"pipeline" that executes a game's logic, frame synchronisation, and thin layers
over service registries, brokers and grpc.  This directory holds TLA+ modules of
its concurrent core, the TLC runs that check them, and TLAPS proofs.

Run, in this directory:

    tlc -workers 2 -config MCConn.cfg MCConn.tla        # likewise the other MC*.cfg
    tlapm ConnProofs.tla                                # likewise the other *Proofs.tla

| module | models | run | proofs |
|---|---|---|---|
| `Conn` | `network/{tcp,kcp,ws}/conn.go`: Write, Close, writer goroutine | `conn` | `ConnProofs` |
| `Server` | `network/{tcp,kcp,ws}/server.go`: Start, accept, limit, session end, Stop | `server` | `ServerProofs` |
| `Pipeline` | `util/pipeline/pipeline.go`: Run, Go, Call, Stop | `pipeline` | `PipelineProofs` |
| `KcpStream` | what a kcp connection promises (abstract) | property of `kcp` | refined by `Kcp`: `KcpProofs` |
| `Kcp` | `network/kcp/kcp.go`, the parts of `udp.go` and `tx.go` that drive it | `kcp`, `kcp_live` | `KcpProofs` |
| `TimedTasks` | what the scheduler of kcp promises (abstract) | property of `timed_sched` | refined by `TimedSched`: `TimedSchedProofs` |
| `TimedSched` | `network/kcp/timesched.go` | `timed_sched` | `TimedSchedProofs` |
| `UdpSession` | the blocking calls, events, deadlines and Close of `network/kcp/udp.go` | `udp_session` | `SessionProofs` |
| `Listener` | `network/kcp/ln.go`: monitor, table, accept queue, Close | `listener` | `SessionProofs` |
| `Fec` | `network/kcp/fec.go`, `aototune.go` | `fec` | `SessionProofs` |
| `Client` | `network/{tcp,kcp,ws}/client.go` | `client` | `ApplicationProofs` |
| `FrameSync` | `util/framesync`, `util/timer` | `frame_sync` | `FrameSyncProofs` |
| `Registry` | registration of `app.go` over `registry/redis` and `registry/zookeeper` | part of `registry` | `ApplicationProofs` |
| `Discovery` | clients of `app.go` that look servers up; extends `Registry` | `registry` | `ApplicationProofs` |

## 1. Inventory

For each part: its state; its operations; what it interacts with; what is hard
about it; what makes it correct.

**Connection writer** (`network/tcp/conn.go`, copied in `kcp/` and `ws/`).
State: the bounded channel `wCh`, `isClose`, a mutex, the socket.  Operations:
`Write`, `Close`, the writer goroutine.  Called by handlers, by the session's
goroutine when its read loop ends, and by `Write` itself when the channel is full.
Hard: `Write` looks at `isClose` and at the channel's length without the mutex;
`Close` sends a nil sentinel on the same bounded channel *with* the mutex held,
the mutex the writer needs for its last step.  Correct: what was accepted before
Close reaches the socket in order; a session that ends closes its socket; calls
return.  → `Conn`.

**Session** (`network/session/session.go`).  State: connection, codec, handler
parameters, a data map without synchronisation.  `Run` reads until an error and
then returns; the server or client that started it calls `Close`.  → the event
`OwnerClose` of `Conn` and `SessionEnd` of `Server`; the data map is a hazard
without a property (any use from two goroutines is a race, there is no protocol
to check).

**Servers** (`network/{tcp,kcp,ws}/server.go`).  State: listener, `conns` map and its
mutex, two WaitGroups.  Operations: `Start`, the accepting goroutine, the session
goroutines, `Stop`.  Hard: Stop runs concurrently with Start, which the application calls
in a goroutine and whose assignments nothing guards, with accepting, with sessions that are
starting and with sessions that are ending, and the three copies differ in which
WaitGroup covers whom.  Correct: never more than `MaxConnNum` connections; after
Stop nothing runs on an open socket, Stop returns, a server that listens does not panic.
→ `Server`.

**Clients** (`network/{tcp,kcp,ws}/client.go`).  State: `closeFlag`, the connection and
session of the moment, a mutex.  Operations: `Start` (dial with retries, run the session,
again), `Stop`.  Hard: `closeFlag` is tested before the mutex is taken and the mutex is held
while dialling, so that Stop comes before, during or after a dial; `conn` may be nil.
Correct: Start gives up after the configured retries in a row; after Stop no connection
is left open and Start returns; Stop does not panic.  → `Client`.

**Kcp protocol** (`network/kcp/kcp.go`).  State: two sequence-number windows, four
queues, a list of acks, the peer's window, a congestion window, a probe timer.
Operations: Send, Recv, Input, flush.  Interacts with the peer by datagrams that
may be lost, repeated and reordered.  Hard: everything.  Correct: the peer reads
what was written, once and in order; nothing that is needed is dropped; the peer's
window is respected; a closed window opens again.  → `Kcp` implements `KcpStream`.

**Kcp session and listener** (`udp.go`, `ln.go`, `readloop.go`).  State: the kcp
record under the session's mutex, one-token channels for read and write events, a
`die` channel, deadlines, two windows that change at run time; the listener's table of
sessions by address and its accept queue.  Hard: a token that finds one pending is dropped, and the waiting side looks at
the deadline before it sleeps; `closeSession` deletes by address; one goroutine reads
for all sessions and sends on the accept queue.  Correct: nobody sleeps on what is there;
a session stays in the table while it lives; the monitor never stops.
→ `UdpSession`, `Listener`; what Read, Write and update do to the protocol is in `Kcp`.

**Kcp scheduler** (`timesched.go`).  State: a prepend list with a one-token
notification, per goroutine a heap of tasks, a timer and `drained`.  Hard: Stop of a timer
that has fired leaves its tick in the channel, which is drained, or would block for ever,
as `drained` says.  Correct: every task put runs once, after its deadline.  → `TimedSched`
implements `TimedTasks`; `Kcp` assumes that timed flushes go on.

**Kcp error correction** (`fec.go`, `aototune.go`).  State: the encoder's next number and
batch; the decoder's list `rx` of shards, its shard counts, the tuner's samples.  Hard:
search windows by position, numbers that wrap at a multiple of the batch size, a decoder
that begins with other counts than the encoder's.  Correct: a batch with enough shards is
recovered, nothing else is.  → `Fec`.

**Kcp statistics and entropy** (`snmp.go`, `entropy.go`).  No behaviour of their own.

**Message framing** (`network/tcp/msg.go`).  Length prefix with limits: a pure conversion
used by one goroutine at a time.  Not modelled.

**Pipeline** (`util/pipeline/pipeline.go`).  State: `goCh`, `callCh`, `stopCh`,
`isStopCh`, `isClosed`, two handler tables filled before Run.  Operations: Run, Go,
Call, Stop.  Hard: Run closes channels producers still send on; `isClosed` is tested
and set without a lock.  Correct: what was accepted before a Stop is executed before
it returns; every registered Call is answered; panics only where they must be.
→ `Pipeline`.

**Frame synchronisation** (`util/framesync`, `util/timer`).  State: frame number,
input buffers, history, a ticker; runs on the pipeline and is started and stopped
from outside it.  Hard: `update` unlocks a mutex it has locked only when the history
is kept; the assignments of Start and Stop are not synchronised with the pipeline.
Correct: frames are broadcast 1, 2, 3, ... with the commands meant for them; the history is complete.
→ `FrameSync`.

**Application, registries** (`app.go`, `registry/redis`, `registry/zookeeper`).  State:
keys with a time to live, a registration ticker, a hash cache.  Hard: the ticker may
be registering while the application deregisters; one failing registration stops the
later ones; a cache that outlives the node it describes.  Correct: who is up is listed, who
has gone is not, and watchers learn of both.  → `Registry`, `Discovery`.

**Not modelled**: brokers (`broker/`, thin wrappers whose behaviour
is in client libraries), message framing, rpc (`rpc/`, wrappers around grpc), codecs (library
conversions), `network/udp/server.go` (an unfinished stub that does not compile), log,
prometheus, profile and address helpers (input and output), the example game.

How they interact: a server or client owns connections; each connection owns its
writer; a session's end calls the connection's Close, whose possible outcomes
(`Conn`: returns or hangs) are the alternatives `CoClose` and `CoCloseHangs` of
`Server` and `Client`; a kcp connection's socket is a kcp session (`UdpSession`) driving
`Kcp`, whose timed flushes the scheduler (`TimedSched`) executes; on the server's side
the sessions come from `Listener`, whose Accept is the one of `Server`; a game's handlers
hand their work to the pipeline by `Go` and `Call`, as frame synchronisation does; the
application starts servers and clients and registers the servers.

## 2. Plan

Order of work, the most important behaviour first.  All of it is done.

1. `Conn`, its run and its proofs.
2. `Server`, its run.
3. `Pipeline`, its run and its proofs.
4. `KcpStream` and `Kcp`, with refinement, and their two runs.
5. `TimedTasks` and `TimedSched`, with refinement; `Client`.
6. `UdpSession`, `Listener`.
7. `FrameSync`.
8. `Registry` and `Discovery`.
9. `Fec`.
10. Proofs of the safety properties of `Server`, `Client`, `TimedSched` with its
    refinement, `FrameSync`, `Listener` and `Kcp` with its refinement.
11. Proofs of the safety properties of `UdpSession`, of `Registry` with `Discovery`, and of
    `Fec`.

Every module has a type invariant `TypeOK` (`CallTypeOK` in `UdpSession`, `RegTypeOK` in
`Registry`, `DiscTypeOK` in `Discovery`, `FecTypeOK` in `Fec`), the first conjunct
of the inductive invariants of section 5.  TLC has confirmed all of them on the instances
below; only those of `Conn`, `Server` and `Pipeline` are properties of a run, as one that
only says what the values of the variables are shows little by itself.

## 3. Modules

In every module the definitions called *Broken form of X* are variants of X with a
plausible mistake; no specification uses them.  They are there to show that a property
notices the mistake: put in the place of X, each makes the property it is
listed with in `PROJECT.json` fail.

### Conn

One behaviour is one connection of one `kind`.  tcp and kcp are the same text from
Write to the writer's end; ws differs in one statement (its Close does not set
`isClose`), so `kind` is consulted in one action.  A goroutine's `pc` is its place
between two points where another goroutine can interfere: the unlocked read of
`isClose` (`WriteCheck`), the unlocked comparison of the channel's length
(`WriteLen`), the send (`WriteSend`, which blocks if the channel has filled up
since), the mutex (`CloseLock`), the sentinel's send (`ClosePush`), the assignment
(`CloseMark`).  The writer goroutine is `WriterRecv`, `WriterWrite`, `WriterShut`,
`WriterMark`.  The socket breaks at any time, by the peer or because the server's
Stop closes it.  A message is the number of its Write call; `accepted` and
`written` are histories.

Left out: the read side but for its end; partial writes (a failed write ends the
loop whatever was written before); SetLinger(0), so that "written" means handed to
the socket, not received; the capacity 0, for which every Write would be a Close.
The unlocked reads are data races in Go; they are modelled as reads of the current
value at any moment before their use.

Run `conn`: owner and two writers, one slot, three messages, tcp and ws.  Three
goroutines are the least with which two writers pass the length check together
while the owner closes; one slot makes "full" frequent; three messages make a message
before, in and after the slot.

* `Flushed`: accepted = written, then in hand, then queued; without a write error,
  the writer left because it received the sentinel.
* `OneSentinel`: tcp and kcp send one sentinel at most.
* `WedgeNeedsWriteError`: a Close that hangs for ever with the mutex (full
  channel, writer gone) needs, in tcp and kcp, a failed write first.  In ws it does not:
  several Closes fill the channel with sentinels.
* `ClosedIsEnding`: `isClose` is never set on a connection nobody will shut.
* `CloseShuts`: the end of a session closes the socket, also when Close hangs.
* `CallsReturn`: Write and Close return unless the channel is full and the writer gone.

The last two say in which states the code as it is can strand goroutines: those states are
reachable (a write error with senders queued), the properties say that nothing
else strands them.

### Server

`start` is how far Start is: it listens (`Listen`), assigns `svr.ln` (`AssignLn`) and then
the map (`MakeConns`), each without a lock, in a goroutine of the application's Run, which
panics if Start returns an error (`Listen`, `StartError`).  `cst` is where each connection
is from the listener's queue to the end of its session; `acc` is the accepting goroutine,
for ws the Serve that Start calls, and `stop` is Stop.  The three kinds differ in
which goroutines the WaitGroups count and in what an Accept error does (the table at
the head of the module).  A critical section of `mutexConns` is one action (`Admit`,
`Delete`, `StopConns`); WaitGroup operations outside it are actions of their own
(`Spawn`: `wgConns.Add` after the registration).  `CoClose`/`CoCloseHangs` are the
two outcomes `Conn` finds.  `StopListen` before the assignment is a method of nil, which
panics; in tcp and ws, where `svr.ln` is an interface of two words, it may also find one of
the two only, and leave the listener open (`Torn`).

Run `server`: three peers, limit two, all kinds: one connection over the limit, and
one that comes when another leaves.  Stop comes at any time, once, also before Start and
between any two of its steps.

* `Limit`: while there is a map it is exactly the live connections, and these are at most
  `MaxConnNum`.
* `NoSessionSurvives`: once Stop has gone through the map, no session is on an open
  socket.  If Start makes the map after Stop has dropped it, kcp goes on to accept what is
  queued; a torn tcp or ws server does whatever comes.
* `QuietAfterStop`: when the Stop of a tcp server that closed its listener returns nothing
  of it is left, although the accepting goroutine may add itself to `wgLn` after Stop has
  waited for it, or Start go on after it.
* `PanicOnlyBy`: once `svr.ln` is assigned a tcp server never panics.  A ws server does only
  because Serve returns after Stop, with an error that the application panics on; kcp's
  accepting goroutine does on any listener error, and by registering in the nil map.
* `StopReturns`: Stop of a tcp or ws server that closed its listener returns, unless some
  Close hangs or, in ws, that panic comes first.

Reachable, and named as the exceptions above: the panic of a Stop before the assignment
(all three kinds), the torn interface, the map made after Stop.

### Pipeline

`run` is the place of the Run goroutine, `spc` that of each Stop, `call` what has
become of each Call.  The two select statements are the alternatives of `RunStep`.
A process panics by sending on a closed channel (Go, Call) or by closing `isStopCh`
twice (Stop); nothing happens after a panic (`Alive`).

Run `pipeline`: two Stops, a registered and an unregistered call, one slot (the code's
default), two Go messages: enough for a full queue at the time of a Stop, for two
Stops between test and set, and for a message queued during the drain.

* `Drained`: what was accepted, and every Call that waited, before a Stop that did
  not return early has been executed (answered) when it returns; order is kept.
* `PanicIsLate`: Go and Call panic only after some Stop has begun, and after
  everything accepted before it has been executed.
* `StopPanicNeedsRace`: Stop panics only if two Stops overlapped between the test and
  the assignment of `isClosed`.
* `CallsAnswered`, `StopReturns`: liveness.

Not promised by the code, and stated nowhere: a second Stop returns at once, before the
drain; a message accepted after the drain's last look is never executed; a Call whose
message has no handler waits for ever.

### KcpStream and Kcp

`KcpStream` is the promise: per direction, messages are read in the order of writing,
once, after they were written.  `Kcp` is two ends, each a record of the fields of
`KCP` under their names, and the set of datagrams on their way to each.  Handlers run
under the session's mutex, so each is an action: `Write`, `Read`, `Update`, `Input`.
An action is the whole handler: Input runs all segments of the datagram in turn
(`Loop`, of which `Segment` is a round, with una, window, ack, data, probe), then the
congestion window, then the flush it triggers.  Helper functions are operators from
record to record under the code's names (`MoveReady`, `ParseUna`, `ParseAck`,
`ParseFastack`, `ParseData`, `Shrink`, `Recv`, `Acks`, `Admit`, `Congestion`, `Flush`).

Abstractions:

* a message is one segment, as `UDPSession` cuts what it writes to at most Mss bytes
  (fragment number 0, no stream mode);
* clocks are open choices: `due` (which segments have timed out), `probe` (whether the
  probe timer has), `young` (which segments were sent again after the one acked).
  Any schedule of the real clock, and any round trip estimate, is one of these choices;
* the byte count with which the congestion window grows above Ssthresh is a growth
  of 0, 1 or 2; `Fastack` stops counting at the number that triggers a resend;
* 2^32 is `SNMod` = 18, and both ends start one before the wrap.  An assumption keeps
  `SNMod` large enough that no number is in use twice, as in the code;
* loss is decided when a datagram is sent (`kept`), order by taking any of the set,
  repetition by leaving a datagram in it.

Left out: malformed segments, DeadLink's state (set, never read), encryption, and error
correction (see `Fec`: to `Kcp` it is a network that loses less).

Run `kcp` (safety): three messages in pieces of up to two, windows three and two (so
that the peer's window is the smaller one), two datagrams in flight, one
segment each, losses, repetitions, reordering, no congestion window (every send that a
congestion window would allow is then possible), acks at once.

* `StreamSpec`: refinement of `KcpStream`.
* `AckedIsReceived`: what the sender will not send again has been received.
* `WindowRespected`: the sender never exceeds the window the receiver has, although
  una and window it knows may be from different datagrams.
* `NextInOrderMoves`: a segment whose turn it is stays in RcvBuf only while RcvQueue is full.

Run `kcp_live`: with the congestion window, several segments to a datagram, delayed
acks, one datagram in flight.

* `CwndBounded`: with Fastresend off, `cwnd = ssthresh + resent` adds 2^32 - 1, a
  decrement modulo 2^32; it never wraps to a huge window, because two segments at least
  are in flight then.
* `Delivered`: every message written is read, also past a closed window whose
  reopening was announced in a lost datagram.

`noc` bounds ssthresh from below *before* it assigns it; the bound has no effect, and
the model has none: `Ssthresh` does fall below `IKcpThreshMin`, and no property denies it, as
`CwndBounded` bounds the window whatever the threshold is.  `windowSlides` is that of the last segment of a datagram only;
the timed flush makes up for it.

### TimedTasks and TimedSched

`TimedTasks` is the promise: a task put is executed at most once, after its deadline.
`TimedSched` has the prepend goroutine (`Prepend`, which holds its copy in `copied` until
the sched goroutines have taken it all) and any number of sched goroutines, each with
its heap, its timer and its place in the loop.  A timer is a time at which it fires
(`armed`) and a channel of one tick (`tick`): with the Go version of go.mod, Stop and
Reset leave the tick of a timer that has fired in the channel.  `Fire` may come any time
after the timer is due, so that all the races of Stop with the runtime occur.  `now` is the
sched goroutine's reading of the clock, older than the clock by the time it is used.

Run `timed_sched`: two tasks with deadlines 0 or 1, two sched goroutines, time up to 2: a
task earlier and one later than what the timer is set for, in the same or in different
heaps, with the tick before, between and after Stop, drain and Reset.

* `TimerReady`: whoever drains has a tick coming, whoever has tasks has a timer or tick.
* `TaskSpec`: refinement of `TimedTasks`.
* `EveryTaskRuns`: every task put is executed, unless the scheduler is closed.

Abstracted: the order of equal deadlines in the heap; a timer set beyond `MaxTime` fires
there, for otherwise the bound on time would keep it from firing at all.

### UdpSession

One session, with the callers of Read and of Write as processes.  Of the protocol it
keeps the number of messages ready and of segments not acknowledged.  A caller is idle,
past its first tests ("check", "woken") or asleep in its select ("wait") with the timer
for the deadline it saw (`rtimer`, `wtimer`); the critical sections of `mu` are single
actions.  Deadlines are numbered in the order they are set, and pass in any order.
`KcpInput` stands for packetInput, kcpInput and the flush it may lead to; `Update` for the
timed flush; `Uncork`, part of both, may fail and is then notified once.

`Room` compares the segments that wait with both windows.  `rmtWnd` is what the last
datagram said, anything up to `MaxRmt`, so that the window closes and opens again whether or
not something was acknowledged; `sndWnd` is changed by `SetWindowSize` at any time, which
notifies nobody: `widened` remembers, until the next write event, that it has made
room.  A Write tests for room once and then adds all its segments (up to `MaxSegs`), so that
more may wait than either window.

Run `udp_session`: one reader, which is what a `Conn` has, and two writers (the writer
goroutine and an application that uses the session itself), windows of up to two, Writes of
up to two segments, two messages, one deadline that replaces none.  Two writers are the least
with which one takes the token the other needs; with windows of zero, one and two either
side's is the smaller one, and is closed, and a Write in the last place goes beyond it.
The two sides share the session's end and its deadlines' clock and nothing else, so that
the run (`MCSpec`) takes one side at a time: behaviours with Reads and messages, and
behaviours with Writes and windows; together they would be twenty times as many states.

* `NoLostWakeup`: when all readers (writers) sleep and no token is left for them, there is
  nothing to read (no room), and the deadline one of them sleeps on is the current one.  Room
  made by SetWindowSize, until the next write event, and by Close is excepted; without either
  exception TLC finds all writers asleep on room.
* `CallsReturn`: a writer does not sleep on room that lasts, because the timed update
  notifies again whatever became of the earlier token, also of the room SetWindowSize made;
  after Close, a socket error or a failed send every call under way returns, also one that has
  been woken for nothing and goes round its loop.

What it does not promise, as the code does not: that *each* of several readers sees a
new deadline (the one token wakes one of them); that a Write returns after Close other
than by die, since `released` makes room without a notification; that a Write goes on when
SetWindowSize has made room, before the next timed update.

### Listener

The monitor is one goroutine whose steps from the lookup to the accept queue are
interleaved with the application's Accept and Close of sessions and of the listener.  Any
datagram may come at any time: late, repeated, of an earlier conversation of its address.
A session is `live`, `dying` between closing `die` and `closeSession`, or `dead`.
`Replace` closes the session found, in the monitor itself.

Run `listener`: two addresses with two conversations each, an accept queue of one, four
sessions: three in a row on one address are what it takes for a Close to remove a
successor and the successor's Close to remove the third.

* `OrphanNeedsRace`: a live session leaves the table only where a session was put in while
  the Close of an earlier one was under way (the hazard of deletion by address); before
  that an address has no orphan.
* `MonitorServes`: the send on the accept queue never blocks the monitor, although the
  length is tested earlier; when the monitor has left, every live session that is no
  orphan knows that its socket has failed.

Left out: a parity datagram of error correction whose bytes where a segment has its number
happen to be zero (it then counts as the first of a conversation); the listener's own read
deadline, with which AcceptKCP returns without a change.

### Fec

Numbers are modulo 32 instead of 2^32, and wrap where the encoder wraps them, at a multiple
of the batch size (`Paws`), in `MarkParity` only, as in the code: a data shard's number is
never the last before the wrap.  A shard is its number, its kind, and, as history, its batch
and place.  What the library's Reed-Solomon code recovers is right if the shards it is
given are of one batch of the encoder's counts, each in its place; otherwise it is `Junk`.
The decoder is created at the first datagram, at any point of the encoder's course
(`Starts`), with the encoder's counts or with one and one, as a listener's is.
`fecExpire` passes for all shards at once (`Age`).  Numbers that wrap can only be compared if
no two that occur are half of all numbers apart, which is what `FecAssumption` asks of `Span`,
an upper bound of their distances: no datagram is 2^31 numbers late.

Run `fec`: batches of three and one, a decoder made within a batch, at the second number
or two before the wrap; five datagrams, in any order, any number of times; a tuner of 8 samples; a limit
of one batch for `rx`.

* `DecodesRight`, four parts.  `rx` is ordered without repetition, also across the wrap, and
  within its limit, or within the first one if the shape has become smaller (each datagram
  removes one at most); a batch with enough shards that were not dropped has been recovered;
  with the right counts nothing but the encoder's data is ever recovered; the tuner finds
  no counts but the encoder's once its slot of the number 0 has a sample.

The condition in the last part is a property of the code: slots without a sample are zero,
and zero passes for a parity shard with the number 0.  A decoder that joins at data shard
1 can therefore tune to counts that are too small, which then recover junk until a number
that falls into slot 0 comes (every 258th does).  Under wrong counts junk is recovered before the
first tuning too; kcp drops it unless it parses.

### Client

The three clients are one text but for the call that dials (kcp's first sleeps a second).
`Start` is a process with one state between any two points where Stop can come; `Stop` is
`StopLock` and `StopClose`, by any goroutines, once each.  `open` has the sockets not
closed: an ended session's is closed by its writer goroutine, later (`WriterShuts`, see
`Conn`).  A dial fails or succeeds; `co.Close` returns or hangs.

Run `client`: two Stops, four connections, two retries: enough for a Stop at each place
of a reconnection, a second Stop after it, and a row of failures on either side of a
success.

* `StopOutcome`: once there has been a connection the first Stop does not panic; after a
  Stop at most one more connection is made, by a Start already past its test, and no other
  is left open.  (Before the first connection Stop panics on the nil `conn`; so does a
  second Stop, unless the late dial has set `conn` again.)
* `GivesUp`: Start gives up after exactly `MaxReconnectNum` retries in a row.
* `StartReturns`: after a Stop, Start returns, unless a Close hangs or the late
  connection stays open.

### FrameSync

The goroutine that starts and stops (`app`), the ticker goroutines, the pipeline's
goroutine and callers of HistoryFrames.  The pipeline is its queue and whether Release has
closed it (`Pipeline` has the rest).  Start is not synchronised with the pipeline, so that
each of its assignments is an action (`StartFlag`, `StartFrame`, `StartCmds`,
`StartHistory`, `StartTicker`), and so is each use of these fields in `update` and `input`:
the command's append, the frame's number, the broadcast, the history's read and write under
the mutex, the unlock, the read and the write of `f.frame++`, and the next frame.
Whole updates left from an earlier run fit between two assignments.  `f` is the frame in the
making with the frame numbers of its commands, and `Nil` before the first Start.  A slice
that Start drops while it is read may be torn (`UpdateLock`), or shorter than its length was
(`HistoryPanic`).  `StopOrRelease` leaves a token for the ticker of the last Start; a
ticker selects at random between its tick and its stop.

Run `frame_sync`: two runs, four ticks, commands for frames 1 and 2, a queue of two: updates
of the first run in the queue of the second, a command too old, too early and in time.

* `FramesInOrder`: the frames are 1, 2, 3, ..., each with commands at most `GiveUp` frames
  old, and the history has each at its place, unless `raced`: an update or an input was under
  way when Start set the frame to 1, or an update began between that and the end of its
  assignments.  Such an update can broadcast the old run's commands as frame 1, be
  appended to the old history, count the new run on, or repeat a number; without either
  half of the condition TLC finds such runs.
* `BrokenOnlyBy`: what can kill the process: the unlock of a free mutex, only without
  history (there it does so at the first update, unless HistoryFrames holds the mutex);
  a tick after Release has closed the pipeline; a command before the first Start has made a
  frame; the history dropped by a second Start under whoever reads it.

### Registry and Discovery

`Registry` has processes that run the same servers: the life of each (`pc`), a round of
register as the set of servers it has left (`todo`), the ticker, and doClose.  A server is
named by domain and ID; what differs between processes is the address.  In redis a key has
domain, address and ID, so that each process has its own, with the time it has left; in
zookeeper a node has domain and ID, so that it holds one process's address.  Its cache is
keyed by the ID alone; each server has an ID of its own (a UUID unless one is given), so
that one entry per server is the same.  zookeeper's
Register is one action per call of the client (`RegisterExists`, `RegisterSet`,
`CreatePath`, `Create`) and one for the cache.  Any call may fail; processes crash at any
time; time is in units no round takes longer than.  `Discovery` adds an application with a
client: `ListServices` at the start, `Watch`, the ticker's `Poll`.

Run `registry`: two processes, one server, one start each, time to live of two intervals,
both stores: one after the other, at once, and each crash and each failure between any two
calls.

* `ListedIsUp`, two parts.  A running process is listed as long as no round has failed,
  and in zookeeper as long as no other process with the same IDs has run; one that has
  deregistered is not listed unless a round was still under way then.  Both exceptions are
  reachable: doClose stops the ticker without waiting for the round; DeRegister of
  zookeeper deletes the node whoever's it is, and the other process's cache keeps it from
  making it again.  The exceptions are what the code does, so that the property does not
  cover the hazards of a late or failed round, of the stale cache and of the two calls.
* `WatcherLearns`: a watcher forgets a process that has gone, in redis also after a crash,
  because the key expires; in zookeeper nodes are not ephemeral, and only a process that
  deregistered is forgotten.

Reported in the modules, and no part of a property: doClientSetStart panics on the first
server it finds (it sets options of a client that is not in its map yet), and
doRPCClientStart looks for rpc clients with an address among the network clients.

Left out: how keys, node names and data are put together (names without the separator are
assumed, which redis's Register requires); zookeeper's loop over the parents of a node,
which exist after NewRegistry; loss of the stores' data; WriteMessageToServer.

## 4. Fairness

* `Conn`: strong fairness of the writer and of each call.  Goroutines run; mutex and
  channel serve their waiters in turn (Go's mutex in starvation mode, FIFO queues of
  blocked senders), so a waiter is not passed over for ever.  A write to the socket is
  assumed to return.  No fairness for starting a call, ending a session or breaking the
  socket.
* `Server`: weak fairness of the acceptor, the rest of Start included (not that Start is
  called, nor that it can listen), of Stop once called, of every session's
  end once its socket is closed, and of the steps after it.  A hang of Close is always
  possible instead of its return.
* `Pipeline`: weak fairness of Run, strong fairness of its choosing the stop token and
  the calls (Go's select chooses at random among ready cases) and of each Stop.  None
  for Go and Call.
* `Kcp`: formulas of the form "if P holds again and again, then again and again A".
  The application reads; a datagram in the network arrives; a segment sent again and
  again is not lost every time; timed flushes and the timers they look at go on.
  These are the udp network's and the scheduler's part; without them delivery is
  not promised by any code.

* `TimedSched`: time passes, the runtime fires timers, goroutines that can run do; strong
  fairness of `Wake`, as a select that can take a tick again and again takes it (Go
  chooses at random among the ready cases).
* `UdpSession`: callers run; strong fairness of `WriteWake`, because a Go channel serves its
  receivers in turn; the timed update goes on (`TimedSched`).  None for arrivals,
  deadlines, SetWindowSize or Close, and an update whose datagrams cannot be sent is no help.
* `Client`: `Start` goes on, a dial ends one way or the other, a mutex serves its waiters in
  turn (strong fairness of `Lock`), a Stop that has the mutex goes on, and a session
  whose socket is closed ends.  For kcp the last rests on the codec: its Conn turns the error
  of Read into an empty message, which the codec has to refuse.
* `Discovery`: time passes, rounds of register run and end, a stopped ticker ends, and the
  watcher's listing succeeds again and again.
* `Listener`, `FrameSync`, `Fec`: safety only, no fairness.

Deadlock is not checked: every one of these systems may stop for good (all calls have
returned, the server is down, everything is read, the process has panicked).  What
must not stop is stated as liveness.

## 5. Proofs

`ConnProofs` (for any set of goroutines, any capacity from 1, any number of messages,
all three kinds), from `ConnAssumption`:

* `Invariance`, `Types`, `SentinelOnce`, `ClosedEnds`, `WedgeCause`, `FlushOrder`.

  The inductive invariant is `TypeOK /\ CallInv /\ NilInv /\ OneSentinel`.  `CallInv` ties
  the mutex to the program counters and says that a goroutine about to send the
  sentinel has seen `isClose` false with nobody able to set it since.  `NilInv` follows
  the sentinel: in tcp and kcp, while `isClose` is false and nobody is about to set it,
  none has been sent.  `OneSentinel` alone is not inductive: it is that last
  fact that excludes a second one.  `FlushInv` adds what the writer holds in each phase.

`PipelineProofs` (any number of Stops and Calls, any capacity), from
`PipelineAssumption`:

* `Invariance`, `Types`, `StopDrains`, `PanicLate`, `StopPanic`.

  The invariant has three parts: `StopInv` orders Stops and Run (nothing is closed or
  signalled before the drain is over, and the drain is over before any Stop passes its
  wait), `RaceInv` (without an overlap one Stop only is past the test), `QueueInv`
  (what was queued before a Stop is queued or done, and done once the drain is over).

`ServerProofs` (any number of peers, any limit, all three kinds), from `ServerAssumption`:

* `Invariance`, `Types`, `LimitHolds`, `SurvivorsShut`, `StopIsQuiet`, `Panics`
  (`PanicOnlyBy`).

  None of the four properties is inductive.  `Counted` says what the WaitGroups count;
  `InHand`, that the accepting goroutine of tcp and kcp has one connection in its hands
  between Accept and Spawn, so that the limit, tested before, is not overrun;
  `Stopping` orders Start's and Stop's steps: the listener is open from Listen to Stop, a tcp
  acceptor that comes to `wgLn` after Stop has waited for it finds it closed, once
  the map is nil every live connection's socket is shut, and a map made after that stays empty
  if the listener was closed.  `NoSessionSurvives` follows from the last.

`TimedSchedProofs` (any number of tasks, goroutines and times), from `SchedAssumption`:

* `Invariance`, `Types`, `TimersReady`, `Refinement` (every behaviour is one of `TimedTasks`).

  `TimersOwed` says for each place of a sched goroutine what its timer owes it, with
  `drained`: at the drain there is a tick, at the select with `drained` nothing to wait
  for.  `Places`: a task is in one list or heap at a time, and once; with `InPlacePending`
  it is not executed twice.  `ClockRead`: a goroutine's clock is never ahead, hence no task
  runs early.  In the refinement only `Put` and the execution of a task are steps of
  `TimedTasks`; everything else stutters.

`FrameSyncProofs` (any commands, queue and number of ticks), from `FrameAssumption`:

* `Invariance`, `Types`, `Deaths`, `Order`.

  `Numbered` relates frame, frames sent and history at each place of an update and of Start,
  unless raced: between Start's assignments (`Window`) no update is under way, and what was
  sent is still the old run's.  `Making` bounds the age of the commands of the frame in
  the making before that is sent, also while an input or `f.frame++` is half done; `Started`
  says what there cannot be before the first Start is over (`Early`); `Locking` is what
  makes the unlock safe with a history.

`SessionProofs`, of `Listener` (any addresses, conversations, sessions and backlog), from
`ListenerAssumption`:

* `Invariance`, `Types`, `Orphans`, `Monitor`.

  `OrphanNeedsRace` becomes inductive with what the monitor knows between its steps
  (`LookedUp`, `InTheMaking`) and with `SlowClose`: a session between `die` and
  `closeSession` whose entry is another's is the race already.  `ErrorReaches`, the second
  half of `MonitorServes`, needs that every live session that is no orphan is in the table.

and of `UdpSession` (any readers, writers, windows, segments of a Write, number of messages and
deadlines), from
`SessionAssumption`:

* `CallTypes`, `Wakeups` (`NoLostWakeup`).

  With the types, which bound what waits by the own window and one Write beyond it,
  `NoLostWakeup` is inductive by itself.  Whoever goes to sleep has looked at
  what there is and at the deadline in the same critical section; and while all sleep without
  a token, every step that brings something, room or a deadline leaves one, but for the
  two that `released` and `widened` record.

and of `Fec` (any shard counts, beginning shapes, limit, samples and starts, and as many
datagrams as the numbers can tell apart; any loss, repetition and order), from `FecAssumption`:

* `FecInvariance`, `FecTypes`, `Decodes` (`DecodesRight`).

  The invariant gives every datagram its batch and place: `Encoding` says that its number is
  the one of that place, counted from the block in which the encoder began, `Decoding` what is
  in `rx` and in the tuner's samples, `Keeping` that a datagram that came is in `rx`, was
  dropped, or is of a batch that is whole.  `Apart` is the arithmetic: `Diff` of two
  numbers that occur has the sign of the difference of their places (`Ord`), also across the
  wrap, where the numbers up to `Modulus` that the encoder skips make the distance only
  larger.  From it: `rx` is ordered, and as places in it grow no faster than numbers do
  (`Steep`), the window that decode searches holds all that is there of the batch (`GroupIs`).
  `RecoveredIs` counts: of a batch each of whose places is filled once at most, the data
  shards that lack are exactly those no number stands for.  `TunerFinds`: the edges of a run in
  the samples are those of a batch; only a slot 0 without a sample gives another length
  (`Short`).

`ApplicationProofs`, of `Client` (any set of stopping goroutines, any bound on connections and retries), from
`ClientAssumption` and `FreeAssumption`:

* `Invariance`, `Types`, `MutexHeld`, `Outcome`, `GivesUpInTime`.

  `Locking` ties the mutex to Start's dial and to the two halves of Stop, `Flagged` and
  `LateIsLast` say that a dial after a Stop is by a Start on its way to `closeFlag`,
  `ConnIsLast` that `conn` is the connection dialled last; `Retries` counts failures.

and of `Registry` and `Discovery` (any processes, servers and starts; any interval below the
time to live; both stores), from `RegistryAssumption`, `NoneAssumption` and
`DiscoveryAssumption`:

* `RegInvariance`, `DiscTypes`, `Registered` (`ListedIsUp`).

  `ListedIsUp` says nothing of a round that is under way.  `RegInv` adds it: `Place` ties a
  process's life to its round and its ticker.  `Fresh`: in redis, the time a key has left
  covers the time to the next tick, or the round that renews it is under way and has not
  failed.  `Caching`: in zookeeper, what a process that is alone has cached is in its node, at
  each place between the calls.  `Gone`: doClose has removed what it has dealt with, unless a
  round that was under way has put it back.  The steps are proved process by process:
  `ActKeeps` says what a step of one leaves alone, `OtherStep` that this is enough for the
  others.

The modules of proofs that extend several components, `SessionProofs` and `ApplicationProofs`,
are the reason why the components' names are distinct (`CallSpec`, `FecSpec`, `DiscSpec`): an assumption about a constant can be cited where
its module is extended.

`KcpProofs` (any windows, batches, datagram sizes, modulus, first number, options, and
number of messages that the modulus allows; any loss, repetition and order), from
`KcpAssumption`:

* `Invariance`, `Types`, `Received` (`AckedIsReceived`), `Windows` (`WindowRespected`), `MovedUp`
  (`NextInOrderMoves`), `CwndStays` (`CwndBounded`), `Refinement` (every behaviour is, in each
  direction, one of `KcpStream`).

  The invariant numbers everything by message.  `NxtOf`, `UnaOf` and `RcvOf` are how far the
  sender has sent, how far it has been told of arrivals, and how far the receiver has got in
  order, computed from lengths and counts; `Sender`, `Receiver`, `Pushed`, `Acking` and
  `Answer` say that each sequence number in the ends and in the network is `N` of the place
  it stands for, `Knows` that what the sender believes of the receiver has become true.  These
  facts are monotone: nothing in them stops holding when the other end goes on, which is
  why it does not matter how old a datagram is (`Later`, `Further`, `AnswerLater`).
  `Numbers` makes the wrapping arithmetic ordinary: for the offsets that occur, `Diff` of
  two numbers is the difference of their places.  `Flight` and `Cwnds` are for the congestion
  window: the last segment in flight is never overtaken by an ack, so there are two at least
  when `thresh + Resent` wraps, and it wraps to `thresh - 1`.

  One lemma per helper of kcp.go says what it keeps (`Moved` for MoveReady, `Passed` for
  una, `AckParsed`, `FastackParsed`, `PushDone`, `SegmentDone`, `AdmitDone`, `CongestionDone`,
  `FlushDone`); `Moves` is the one lemma about a step of an end and the network, of which
  every action is an instance.  Input's loop and the two operators that order and count
  (`Ascending`, `Leading`) are dealt with by a least counterexample: the set of rounds that
  break the fact has a least element (`NatMin`, from the well-foundedness of the naturals),
  which leads to a contradiction.  The module's recursive function `round` exists by the same
  argument (`LoopRounds`), without an induction theorem.

Only model-checked: all liveness, `EveryTaskRuns`, `Delivered` and the others, as no prover here
handles fairness and ENABLED.  Every safety property of a run is a theorem.
