----------------------------- MODULE FrameSync -----------------------------
(***************************************************************************)
(* Frame synchronisation: util/framesync and the ticker of util/timer.     *)
(*                                                                         *)
(* A ticker's goroutine queues an update in the frameSync's pipeline every *)
(* interval, connections queue commands there, and the pipeline's goroutine *)
(* executes both: update broadcasts the frame that collected the commands, *)
(* appends it to the history and begins the next.  Start, Stop and Release *)
(* belong to another goroutine and synchronise with none of this, so that  *)
(* every assignment of Start and every use of its fields is a step of its  *)
(* own; HistoryFrames and the append take the mutex.  Pipeline.tla has the *)
(* pipeline itself; here it is its queue and whether Release has closed it. *)
(***************************************************************************)
EXTENDS Integers, Sequences

CONSTANTS Cmds,       \* the frame numbers commands may carry
          GiveUp,     \* giveUpFrameInterval
          GoLen,      \* the length of the pipeline's queue
          MaxStarts,  \* bound: calls of Start
          MaxTicks    \* bound: ticks of all tickers

ASSUME FrameAssumption ==
    /\ Cmds \subseteq Nat
    /\ GiveUp \in Nat /\ GoLen \in Nat /\ MaxStarts \in Nat /\ MaxTicks \in Nat

Tickers == 1 .. MaxStarts

Update == -1       \* the message of a tick, where that of a command is its frame
NewFrame == [frame |-> 0, cmds |-> {}]         \* &Frame{}
Nil == [frame |-> 0, cmds |-> {Update}]        \* f.f before the first Start

VARIABLES
    isSaveHistory,
    running, frame,
    f,         \* f.f: its number and the frame numbers of the commands collected
    history,   \* the frame numbers saved
    lock,      \* the mutex: free, or who has locked it
    reading,   \* HistoryFrames is under way, or cut: and Start has dropped what it reads
    tickers,   \* the goroutine of each ticker: off, wait, call, done
    stop,      \* the tickers with a token in their stop channel
    starts, ticks,
    app,       \* where the goroutine that calls Start, Stop, Release is
    queue,     \* the pipeline's goCh: updates and commands
    pip,       \* the pipeline: run, stop (Stop was called), closed
    upc,       \* where the pipeline's goroutine is, in update or in input
    local,     \* its copy of a number: the command's in input, f.frame's in f.frame++
    saved,     \* its copy of the history with one more frame, in append
    sent,      \* history: what was broadcast since Start
    raced,     \* history: update was under way between two assignments of a Start
    broken     \* why the process has died, or no

runVars == <<isSaveHistory, running, starts, app>>
tickVars == <<tickers, stop, ticks>>
frameVars == <<frame, f, history, sent>>
pipVars == <<upc, local, saved>>
vars == <<runVars, tickVars, frameVars, pipVars, lock, reading, queue, pip, raced, broken>>

Init ==
    /\ isSaveHistory \in BOOLEAN
    /\ running = FALSE /\ frame = 1 /\ f = Nil
    /\ history = <<>> /\ lock = "free" /\ reading = "no"
    /\ tickers = [k \in Tickers |-> "off"] /\ stop = {}
    /\ starts = 0 /\ ticks = 0 /\ app = "idle"
    /\ queue = <<>> /\ pip = "run"
    /\ upc = "idle" /\ local = 0 /\ saved = <<>>
    /\ sent = <<>> /\ raced = FALSE /\ broken = "no"

Alive == broken = "no"

Break(why) ==
    /\ broken' = why
    /\ UNCHANGED <<runVars, tickVars, frameVars, pipVars, lock, reading, queue, pip, raced>>

\* pip.Go: never blocks, drops when the queue is full, panics when it is closed.
Go(m) == queue' = IF Len(queue) < GoLen THEN Append(queue, m) ELSE queue

-----------------------------------------------------------------------------
\* Start, unless running: set the flag ...
StartFlag ==
    /\ Alive /\ app = "idle" /\ ~running
    /\ starts < MaxStarts
    /\ running' = TRUE
    /\ starts' = starts + 1
    /\ app' = "frame"
    /\ UNCHANGED <<isSaveHistory, tickVars, frameVars, pipVars, lock, reading, queue, pip, raced,
                   broken>>

\* ... begin with frame 1 ...
StartFrame ==
    /\ Alive /\ app = "frame"
    /\ frame' = 1
    /\ raced' = (raced \/ upc # "idle")
    /\ app' = "cmds"
    /\ UNCHANGED <<isSaveHistory, running, starts, tickVars, f, history, sent, pipVars, lock,
                   reading, queue, pip, broken>>

\* ... without commands ...
StartCmds ==
    /\ Alive /\ app = "cmds"
    /\ f' = NewFrame
    /\ app' = "history"
    /\ UNCHANGED <<isSaveHistory, running, starts, tickVars, frame, history, sent, pipVars, lock,
                   reading, queue, pip, raced, broken>>

\* ... and no history, without the mutex ...
StartHistory ==
    /\ Alive /\ app = "history"
    /\ history' = <<>> /\ sent' = <<>>
    /\ reading' = IF reading = "yes" /\ history # <<>> THEN "cut" ELSE reading
    /\ app' = "ticker"
    /\ UNCHANGED <<isSaveHistory, running, starts, tickVars, frame, f, pipVars, lock, queue, pip,
                   raced, broken>>

\* ... and start a ticker.
StartTicker ==
    /\ Alive /\ app = "ticker"
    /\ tickers' = [tickers EXCEPT ![starts] = "wait"]
    /\ app' = "idle"
    /\ UNCHANGED <<isSaveHistory, running, starts, stop, ticks, frameVars, pipVars, lock, reading,
                   queue, pip, raced, broken>>

\* Stop, if running, leaves a token for the ticker; Release stops the pipeline too.
StopOrRelease(release) ==
    /\ Alive /\ app = "idle"
    /\ running \/ release
    /\ running' = FALSE
    /\ stop' = IF running THEN stop \cup {starts} ELSE stop
    /\ IF release THEN pip' = "stop" /\ app' = "released" ELSE UNCHANGED <<pip, app>>
    /\ UNCHANGED <<isSaveHistory, starts, tickers, ticks, frameVars, pipVars, lock, reading, queue,
                   raced, broken>>

-----------------------------------------------------------------------------
\* The ticker's goroutine selects a tick ...
TickFire(k) ==
    /\ Alive /\ tickers[k] = "wait"
    /\ ticks < MaxTicks
    /\ ticks' = ticks + 1
    /\ tickers' = [tickers EXCEPT ![k] = "call"]
    /\ UNCHANGED <<runVars, stop, frameVars, pipVars, lock, reading, queue, pip, raced, broken>>

\* ... and queues an update ...
TickCall(k) ==
    /\ Alive /\ tickers[k] = "call"
    /\ IF pip = "closed"
       THEN Break("closed")
       ELSE /\ Go(Update)
            /\ tickers' = [tickers EXCEPT ![k] = "wait"]
            /\ UNCHANGED <<runVars, stop, ticks, frameVars, pipVars, lock, reading, pip, raced,
                           broken>>

\* ... or selects stop and ends.
TickStop(k) ==
    /\ Alive /\ tickers[k] = "wait"
    /\ k \in stop
    /\ stop' = stop \ {k}
    /\ tickers' = [tickers EXCEPT ![k] = "done"]
    /\ UNCHANGED <<runVars, ticks, frameVars, pipVars, lock, reading, queue, pip, raced, broken>>

\* Input, by the goroutines of connections, which are gone before Release.
Input(c) ==
    /\ Alive /\ app # "released"
    /\ Go(c)
    /\ UNCHANGED <<runVars, tickVars, frameVars, pipVars, lock, reading, pip, raced, broken>>

-----------------------------------------------------------------------------
Pop ==
    /\ Alive /\ upc = "idle"
    /\ queue # <<>>
    /\ queue' = Tail(queue)

\* Broken form of ExecInput: commands of any earlier frame are taken.
ExecInputNoGiveUp ==
    /\ Pop
    /\ \E in \in Cmds :
          /\ Head(queue) = in
          /\ IF in > frame
             THEN UNCHANGED <<upc, local>>
             ELSE upc' = "input" /\ local' = in
    /\ UNCHANGED <<runVars, tickVars, frameVars, saved, lock, reading, pip, raced, broken>>

\* input: a command for a later frame, or too old, is dropped ...
ExecInput ==
    /\ Pop
    /\ \E in \in Cmds :
          /\ Head(queue) = in
          /\ IF in > frame \/ frame - in > GiveUp
             THEN UNCHANGED <<upc, local>>
             ELSE upc' = "input" /\ local' = in
    /\ UNCHANGED <<runVars, tickVars, frameVars, saved, lock, reading, pip, raced, broken>>

\* ... another is collected; before the first Start there is no frame to collect it.
InputAppend ==
    /\ Alive /\ upc = "input"
    /\ IF f = Nil
       THEN Break("nil")
       ELSE /\ f' = [f EXCEPT !.cmds = @ \cup {local}]
            /\ upc' = "idle"
            /\ UNCHANGED <<runVars, tickVars, frame, history, sent, local, saved, lock, reading,
                           queue, pip, raced, broken>>

\* update: nothing unless running ...
UpdateBegin ==
    /\ Pop
    /\ Head(queue) = Update
    /\ upc' = IF running THEN "number" ELSE "idle"
    /\ raced' = (raced \/ (running /\ app \in {"cmds", "history"}))
    /\ UNCHANGED <<runVars, tickVars, frameVars, local, saved, lock, reading, pip, broken>>

\* ... number the frame ...
UpdateNumber ==
    /\ Alive /\ upc = "number"
    /\ IF f = Nil
       THEN Break("nil")
       ELSE /\ f' = [f EXCEPT !.frame = frame]
            /\ upc' = "broadcast"
            /\ UNCHANGED <<runVars, tickVars, frame, history, sent, local, saved, lock, reading,
                           queue, pip, raced, broken>>

\* ... broadcast it ...
UpdateBroadcast ==
    /\ Alive /\ upc = "broadcast"
    /\ sent' = Append(sent, f)
    /\ upc' = IF isSaveHistory THEN "lock" ELSE "unlock"
    /\ UNCHANGED <<runVars, tickVars, frame, f, history, local, saved, lock, reading, queue, pip,
                   raced, broken>>

\* Broken form of UpdateLock: the history is appended to without the mutex.
UpdateNoLock ==
    /\ Alive /\ upc = "lock"
    /\ saved' = Append(history, f.frame)
    /\ upc' = "save"
    /\ UNCHANGED <<runVars, tickVars, frameVars, local, lock, reading, queue, pip, raced, broken>>

\* ... append it to the history with the mutex: read the history; with Start dropping
\* it, the length read may be the old one and the pointer nil ...
UpdateLock ==
    /\ Alive /\ upc = "lock"
    /\ lock = "free"
    /\ \/ /\ lock' = "update"
          /\ saved' = Append(history, f.frame)
          /\ upc' = "save"
          /\ UNCHANGED <<runVars, tickVars, frameVars, local, reading, queue, pip, raced, broken>>
       \/ /\ app = "history" /\ history # <<>>
          /\ Break("race")

\* ... and write it ...
UpdateSave ==
    /\ Alive /\ upc = "save"
    /\ history' = saved
    /\ upc' = "unlock"
    /\ UNCHANGED <<runVars, tickVars, frame, f, sent, local, saved, lock, reading, queue, pip,
                   raced, broken>>

\* ... release the mutex, locked or not, which kills the process if it is free, and
\* read the number ...
UpdateUnlock ==
    /\ Alive /\ upc = "unlock"
    /\ IF lock = "free"
       THEN Break("unlock")
       ELSE /\ lock' = "free"
            /\ local' = frame
            /\ upc' = "advance"
            /\ UNCHANGED <<runVars, tickVars, frameVars, saved, reading, queue, pip, raced, broken>>

\* ... to write the next ...
UpdateAdvance ==
    /\ Alive /\ upc = "advance"
    /\ frame' = local + 1
    /\ upc' = "renew"
    /\ UNCHANGED <<runVars, tickVars, f, history, sent, local, saved, lock, reading, queue, pip,
                   raced, broken>>

\* ... and begin it.
UpdateRenew ==
    /\ Alive /\ upc = "renew"
    /\ f' = NewFrame
    /\ upc' = "idle"
    /\ UNCHANGED <<runVars, tickVars, frame, history, sent, local, saved, lock, reading, queue, pip,
                   raced, broken>>

\* The pipeline has executed what was queued and closes its channels.
PipClose ==
    /\ Alive /\ upc = "idle"
    /\ pip = "stop" /\ queue = <<>>
    /\ pip' = "closed"
    /\ UNCHANGED <<runVars, tickVars, frameVars, pipVars, lock, reading, queue, raced, broken>>

\* HistoryFrames of somebody who joins, holding the mutex for the time of the call,
\* unless update has unlocked it meanwhile.
HistoryLock ==
    /\ Alive /\ reading = "no"
    /\ lock = "free"
    /\ lock' = "reader"
    /\ reading' = "yes"
    /\ UNCHANGED <<runVars, tickVars, frameVars, pipVars, queue, pip, raced, broken>>

HistoryUnlock ==
    /\ Alive /\ reading # "no"
    /\ IF lock = "free"
       THEN Break("unlock")
       ELSE /\ lock' = "free"
            /\ reading' = "no"
            /\ UNCHANGED <<runVars, tickVars, frameVars, pipVars, queue, pip, raced, broken>>

\* The length was that of the history Start has dropped: slicing panics.
HistoryPanic ==
    /\ Alive /\ reading = "cut"
    /\ Break("race")

\* What it returns: from the frame asked for to the last but one.
HistoryFrames(n) ==
    IF n = 0 \/ Len(history) < n THEN <<>> ELSE SubSeq(history, n, Len(history) - 1)

-----------------------------------------------------------------------------
Next ==
    \/ StartFlag \/ StartFrame \/ StartCmds \/ StartHistory \/ StartTicker
    \/ \E release \in BOOLEAN : StopOrRelease(release)
    \/ \E k \in Tickers : TickFire(k) \/ TickCall(k) \/ TickStop(k)
    \/ \E c \in Cmds : Input(c)
    \/ ExecInput \/ InputAppend
    \/ UpdateBegin \/ UpdateNumber \/ UpdateBroadcast \/ UpdateLock \/ UpdateSave
    \/ UpdateUnlock \/ UpdateAdvance \/ UpdateRenew
    \/ PipClose \/ HistoryLock \/ HistoryUnlock \/ HistoryPanic

Spec == Init /\ [][Next]_vars

-----------------------------------------------------------------------------
Messages == {Update} \cup Cmds
Frames == [frame : Nat, cmds : SUBSET Cmds]

TypeOK ==
    /\ isSaveHistory \in BOOLEAN /\ running \in BOOLEAN /\ raced \in BOOLEAN
    /\ frame \in Nat \ {0}
    /\ f \in Frames \cup {Nil}
    /\ history \in Seq(Nat) /\ saved \in Seq(Nat) /\ queue \in Seq(Messages)
    /\ lock \in {"free", "update", "reader"} /\ reading \in {"no", "yes", "cut"}
    /\ tickers \in [Tickers -> {"off", "wait", "call", "done"}] /\ stop \subseteq Tickers
    /\ starts \in 0 .. MaxStarts /\ ticks \in 0 .. MaxTicks
    /\ app \in {"idle", "frame", "cmds", "history", "ticker", "released"}
    /\ pip \in {"run", "stop", "closed"}
    /\ upc \in {"idle", "input", "number", "broadcast", "lock", "save", "unlock", "advance",
                "renew"}
    /\ local \in Nat
    /\ sent \in Seq(Frames)
    /\ broken \in {"no", "closed", "nil", "unlock", "race"}

\* Unless an update or an input was under way where Start assigns (the new run may then
\* lose its first frame, begin with one of the old or with its history, or repeat a
\* number), the frames broadcast since Start are 1, 2, 3, ..., whatever updates of an
\* earlier ticker were left in the queue; a command is broadcast at most GiveUp frames
\* after the one it was meant for and never before; and the history has every frame
\* broadcast at its own place, which HistoryFrames takes for granted.
FramesInOrder ==
    ~raced =>
        /\ \A i \in DOMAIN sent :
              /\ sent[i].frame = i
              /\ sent[i].cmds \subseteq (i - GiveUp) .. i
        /\ isSaveHistory =>
              /\ \/ Len(history) = Len(sent)
                 \/ upc \in {"lock", "save"} /\ Len(history) + 1 = Len(sent)
              /\ \A n \in 1 .. Len(history) : \A i \in DOMAIN HistoryFrames(n) :
                    HistoryFrames(n)[i] = n + i - 1

\* The process only dies of an unlock when no history is kept (it then does so at
\* the first update, unless HistoryFrames happens to hold the mutex), of a closed
\* pipeline after Release, of a missing frame before the first Start has made
\* one, and of the history dropped under its reader by a second Start.
BrokenOnlyBy ==
    /\ broken = "unlock" => ~isSaveHistory
    /\ broken = "closed" => app = "released"
    /\ broken = "nil" => starts = 0 \/ (starts = 1 /\ app \in {"frame", "cmds"})
    /\ broken = "race" => starts > 1
=============================================================================
