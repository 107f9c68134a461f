-------------------------- MODULE FrameSyncProofs --------------------------
(***************************************************************************)
(* What FrameSync.tla promises for any commands, any length of the queue   *)
(* and any number of runs and ticks: the frames broadcast since Start are  *)
(* numbered as they come, a command is broadcast in time, the history has  *)
(* every frame at its place, and the process dies only of what             *)
(* BrokenOnlyBy lists.                                                     *)
(*                                                                         *)
(* Neither is inductive: what was broadcast says nothing of the next frame.*)
(* IInv relates the frame in the making to what was broadcast before it, at*)
(* every point of an update, and the mutex to who is about to unlock it.   *)
(***************************************************************************)
EXTENDS FrameSync, SequenceTheorems, TLAPS

\* Where an update has broadcast its frame and not yet counted on, and where it has
\* not yet saved it.
Broadcast == upc \in {"lock", "save", "unlock", "advance"}
Saving == upc \in {"lock", "save"}

\* Where Start has set the frame back to 1, but not yet all of the run.
Window == app \in {"cmds", "history"}

\* Before the first Start has emptied the history, and so before any ticker.
Early == starts = 0 \/ (starts = 1 /\ app \in {"frame", "cmds", "history"})

\* With a history each of those who are about to unlock the mutex has locked it.
Locking ==
    isSaveHistory =>
        /\ upc \in {"save", "unlock"} <=> lock = "update"
        /\ reading # "no" <=> lock = "reader"

\* Release stops the pipeline and is the last call of its goroutine.
Released == pip # "run" => app = "released"

\* What runs has been started; there is no frame only until the first Start has made
\* one; without a ticker there is no update, and nothing to save; input has a command;
\* and only a later Start drops a history that somebody reads.
Started ==
    /\ running \/ app \in {"frame", "cmds", "history", "ticker"} => starts > 0
    /\ f = Nil => starts = 0 \/ (starts = 1 /\ app \in {"frame", "cmds"})
    /\ Early =>
          /\ tickers = [k \in Tickers |-> "off"]
          /\ queue \in Seq(Cmds)
          /\ upc \in {"idle", "input"}
          /\ history = <<>>
    /\ upc = "input" => local \in Cmds
    /\ reading = "cut" => starts > 1

\* Unless raced, the commands of the frame in the making are for it or for one of the
\* GiveUp frames before, and what the pipeline's goroutine has read is what it would
\* read again.
Making ==
    ~raced =>
        /\ upc = "input" => local \in (frame - GiveUp) .. frame
        /\ f # Nil /\ app # "cmds" /\ upc # "renew" => f.cmds \subseteq (frame - GiveUp) .. frame
        /\ upc = "broadcast" \/ Broadcast => f.frame = frame
        /\ upc = "save" => saved = Append(history, frame)
        /\ upc = "advance" => local = frame

\* Unless raced, no update is under way where Start assigns, and the frame in the making
\* is the one after the last broadcast, until that is done with; what was broadcast is
\* numbered from 1 and has its commands in time; and the history has all of it, but for
\* the frame about to be saved.
Numbered ==
    ~raced =>
        /\ Window => upc \in {"idle", "input"} /\ frame = 1
        /\ ~Window => Len(sent) = IF Broadcast THEN frame ELSE frame - 1
        /\ \A i \in 1 .. Len(sent) :
              /\ sent[i].frame = i
              /\ sent[i].cmds \subseteq (i - GiveUp) .. i
        /\ isSaveHistory =>
              /\ Len(history) = IF Saving THEN Len(sent) - 1 ELSE Len(sent)
              /\ \A i \in 1 .. Len(history) : history[i] = i

IInv ==
    TypeOK /\ Locking /\ Released /\ Started /\ Making /\ Numbered /\ BrokenOnlyBy

-----------------------------------------------------------------------------
\* A message queued, dropped or taken leaves a queue of messages, and without updates
\* one of commands.
LEMMA QueueType ==
    ASSUME NEW S, queue \in Seq(S)
    PROVE  /\ \A m \in S : Go(m) => queue' \in Seq(S)
           /\ Pop => queue' \in Seq(S)
<1>1. ASSUME NEW m \in S, Go(m) PROVE queue' \in Seq(S)
  <2>1. Append(queue, m) \in Seq(S)
    BY AppendProperties
  <2> QED
    BY <1>1, <2>1 DEF Go
<1>2. ASSUME Pop PROVE queue' \in Seq(S)
  BY <1>2, HeadTailProperties DEF Pop
<1> QED
  BY <1>1, <1>2

\* A frame, numbered or with one more command, is a frame.
LEMMA FrameType ==
    /\ NewFrame \in Frames /\ NewFrame # Nil
    /\ \A g \in Frames \cup {Nil} : g # Nil => g \in Frames /\ g.frame \in Nat /\ g.cmds \subseteq Cmds
    /\ \A g \in Frames \cup {Nil} : g.frame \in Nat
    /\ \A g \in Frames, n \in Nat :
          /\ [g EXCEPT !.frame = n] \in Frames
          /\ [g EXCEPT !.frame = n].frame = n
          /\ [g EXCEPT !.frame = n].cmds = g.cmds
    /\ \A g \in Frames, c \in Cmds :
          /\ [g EXCEPT !.cmds = @ \cup {c}] \in Frames
          /\ [g EXCEPT !.cmds = @ \cup {c}].frame = g.frame
          /\ [g EXCEPT !.cmds = @ \cup {c}].cmds = g.cmds \cup {c}
    /\ \A g \in Frames : g # Nil
<1>1. Update \notin Cmds
  BY FrameAssumption DEF Update
<1>2. \A g \in Frames : g # Nil
  BY <1>1 DEF Frames, Nil
<1> QED
  BY <1>2 DEF Frames, Nil, NewFrame

\* The types.
LEMMA TypeStep == TypeOK /\ Started /\ [Next]_vars => TypeOK'
<1> SUFFICES ASSUME TypeOK, Started, [Next]_vars PROVE TypeOK'
  OBVIOUS
<1>0. /\ <<>> \in Seq(Nat) /\ <<>> \in Seq(Frames)
      /\ Update \in Messages /\ Cmds \subseteq Messages
  BY EmptySeq DEF Messages
<1>1. CASE StartFlag
  <2>1. starts' \in 0 .. MaxStarts
    BY <1>1, FrameAssumption DEF StartFlag, TypeOK
  <2> QED
    BY <1>1, <2>1 DEF StartFlag, TypeOK, tickVars, frameVars, pipVars
<1>2. CASE StartFrame
  <2>1. frame' \in Nat \ {0} /\ raced' \in BOOLEAN
    BY <1>2 DEF StartFrame, TypeOK
  <2> QED
    BY <1>2, <2>1 DEF StartFrame, TypeOK, tickVars, pipVars
<1>3. CASE StartCmds
  <2>1. f' \in Frames \cup {Nil}
    BY <1>3, FrameType DEF StartCmds
  <2> QED
    BY <1>3, <2>1 DEF StartCmds, TypeOK, tickVars, pipVars
<1>4. CASE StartHistory
  <2>1. reading' \in {"no", "yes", "cut"}
    BY <1>4 DEF StartHistory, TypeOK
  <2> QED
    BY <1>0, <1>4, <2>1 DEF StartHistory, TypeOK, tickVars, pipVars
<1>5. CASE StartTicker
  <2>1. tickers' \in [Tickers -> {"off", "wait", "call", "done"}]
    BY <1>5 DEF StartTicker, TypeOK
  <2> QED
    BY <1>5, <2>1 DEF StartTicker, TypeOK, frameVars, pipVars
<1>6. ASSUME NEW release \in BOOLEAN, StopOrRelease(release) PROVE TypeOK'
  <2>1. stop' \subseteq Tickers
    <3>1. running => starts \in Tickers
      BY FrameAssumption DEF Started, TypeOK, Tickers
    <3> QED
      BY <1>6, <3>1 DEF StopOrRelease, TypeOK
  <2>2. /\ running' \in BOOLEAN
        /\ pip' \in {"run", "stop", "closed"}
        /\ app' \in {"idle", "frame", "cmds", "history", "ticker", "released"}
    BY <1>6 DEF StopOrRelease, TypeOK
  <2> QED
    BY <1>6, <2>1, <2>2 DEF StopOrRelease, TypeOK, frameVars, pipVars
<1>7. ASSUME NEW k \in Tickers, TickFire(k) PROVE TypeOK'
  <2>1. ticks' \in 0 .. MaxTicks
    BY <1>7, FrameAssumption DEF TickFire, TypeOK
  <2> QED
    BY <1>7, <2>1 DEF TickFire, TypeOK, runVars, frameVars, pipVars
<1>8. ASSUME NEW k \in Tickers, TickCall(k) PROVE TypeOK'
  <2>1. queue' \in Seq(Messages)
    <3>1. queue' = queue \/ Go(Update)
      BY <1>8 DEF TickCall, Break
    <3> QED
      BY <1>0, <3>1, QueueType DEF TypeOK
  <2>2. /\ tickers' \in [Tickers -> {"off", "wait", "call", "done"}]
        /\ broken' \in {"no", "closed", "nil", "unlock", "race"}
    BY <1>8 DEF TickCall, Break, TypeOK, tickVars
  <2>3. UNCHANGED <<runVars, stop, ticks, frameVars, pipVars, lock, reading, pip, raced>>
    BY <1>8 DEF TickCall, Break, tickVars
  <2> QED
    BY <2>1, <2>2, <2>3 DEF TypeOK, runVars, frameVars, pipVars
<1>9. ASSUME NEW k \in Tickers, TickStop(k) PROVE TypeOK'
  BY <1>9 DEF TickStop, TypeOK, runVars, frameVars, pipVars
<1>10. ASSUME NEW c \in Cmds, Input(c) PROVE TypeOK'
  <2>1. queue' \in Seq(Messages)
    BY <1>0, <1>10, QueueType DEF Input, TypeOK
  <2> QED
    BY <1>10, <2>1 DEF Input, TypeOK, runVars, tickVars, frameVars, pipVars
<1>11. CASE ExecInput
  <2>1. queue' \in Seq(Messages)
    BY <1>11, QueueType DEF ExecInput, TypeOK
  <2>2. /\ upc' \in {"idle", "input", "number", "broadcast", "lock", "save", "unlock", "advance",
                     "renew"}
        /\ local' \in Nat
    BY <1>11, FrameAssumption DEF ExecInput, TypeOK
  <2> QED
    BY <1>11, <2>1, <2>2 DEF ExecInput, TypeOK, runVars, tickVars, frameVars
<1>12. CASE InputAppend
  <2>1. f' \in Frames \cup {Nil}
    BY <1>12, FrameType DEF InputAppend, Break, TypeOK, Started, frameVars
  <2>2. /\ upc' \in {"idle", "input", "number", "broadcast", "lock", "save", "unlock", "advance",
                     "renew"}
        /\ broken' \in {"no", "closed", "nil", "unlock", "race"}
    BY <1>12 DEF InputAppend, Break, TypeOK, pipVars
  <2>3. UNCHANGED <<runVars, tickVars, frame, history, sent, local, saved, lock, reading, queue,
                    pip, raced>>
    BY <1>12 DEF InputAppend, Break, frameVars, pipVars
  <2> QED
    BY <2>1, <2>2, <2>3 DEF TypeOK, runVars, tickVars
<1>13. CASE UpdateBegin
  <2>1. queue' \in Seq(Messages)
    BY <1>13, QueueType DEF UpdateBegin, TypeOK
  <2>2. /\ upc' \in {"idle", "input", "number", "broadcast", "lock", "save", "unlock", "advance",
                     "renew"}
        /\ raced' \in BOOLEAN
    BY <1>13 DEF UpdateBegin, TypeOK
  <2> QED
    BY <1>13, <2>1, <2>2 DEF UpdateBegin, TypeOK, runVars, tickVars, frameVars
<1>14. CASE UpdateNumber
  <2>1. f' \in Frames \cup {Nil}
    BY <1>14, FrameType DEF UpdateNumber, Break, TypeOK, frameVars
  <2>2. /\ upc' \in {"idle", "input", "number", "broadcast", "lock", "save", "unlock", "advance",
                     "renew"}
        /\ broken' \in {"no", "closed", "nil", "unlock", "race"}
    BY <1>14 DEF UpdateNumber, Break, TypeOK, pipVars
  <2>3. UNCHANGED <<runVars, tickVars, frame, history, sent, local, saved, lock, reading, queue,
                    pip, raced>>
    BY <1>14 DEF UpdateNumber, Break, frameVars, pipVars
  <2> QED
    BY <2>1, <2>2, <2>3 DEF TypeOK, runVars, tickVars
<1>15. CASE UpdateBroadcast
  <2>1. sent' \in Seq(Frames)
    <3>1. f \in Frames
      BY <1>15 DEF UpdateBroadcast, Started, Early, TypeOK
    <3> QED
      BY <1>15, <3>1, AppendProperties DEF UpdateBroadcast, TypeOK
  <2>2. upc' \in {"idle", "input", "number", "broadcast", "lock", "save", "unlock", "advance",
                  "renew"}
    BY <1>15 DEF UpdateBroadcast
  <2> QED
    BY <1>15, <2>1, <2>2 DEF UpdateBroadcast, TypeOK, runVars, tickVars
<1>16. CASE UpdateLock
  <2>1. saved' \in Seq(Nat)
    <3>1. saved' = saved \/ saved' = Append(history, f.frame)
      BY <1>16 DEF UpdateLock, Break, pipVars
    <3>2. f.frame \in Nat /\ history \in Seq(Nat) /\ saved \in Seq(Nat)
      BY FrameType DEF TypeOK
    <3> QED
      BY <3>1, <3>2, AppendProperties
  <2>2. /\ upc' \in {"idle", "input", "number", "broadcast", "lock", "save", "unlock", "advance",
                     "renew"}
        /\ lock' \in {"free", "update", "reader"}
        /\ broken' \in {"no", "closed", "nil", "unlock", "race"}
    BY <1>16 DEF UpdateLock, Break, TypeOK, pipVars
  <2>3. UNCHANGED <<runVars, tickVars, frameVars, local, reading, queue, pip, raced>>
    BY <1>16 DEF UpdateLock, Break, pipVars
  <2> QED
    BY <2>1, <2>2, <2>3 DEF TypeOK, runVars, tickVars, frameVars
<1>17. CASE UpdateSave
  BY <1>17 DEF UpdateSave, TypeOK, runVars, tickVars
<1>18. CASE UpdateUnlock
  <2>1. /\ upc' \in {"idle", "input", "number", "broadcast", "lock", "save", "unlock", "advance",
                     "renew"}
        /\ local' \in Nat /\ saved' = saved
        /\ broken' \in {"no", "closed", "nil", "unlock", "race"}
        /\ lock' \in {"free", "update", "reader"}
    BY <1>18 DEF UpdateUnlock, Break, TypeOK, pipVars
  <2>2. UNCHANGED <<runVars, tickVars, frameVars, reading, queue, pip, raced>>
    BY <1>18 DEF UpdateUnlock, Break
  <2> QED
    BY <2>1, <2>2 DEF TypeOK, runVars, tickVars, frameVars
<1>19. CASE HistoryLock \/ HistoryUnlock \/ HistoryPanic
  <2>1. /\ broken' \in {"no", "closed", "nil", "unlock", "race"}
        /\ lock' \in {"free", "update", "reader"} /\ reading' \in {"no", "yes", "cut"}
    BY <1>19 DEF HistoryLock, HistoryUnlock, HistoryPanic, Break, TypeOK
  <2>2. UNCHANGED <<runVars, tickVars, frameVars, pipVars, queue, pip, raced>>
    BY <1>19 DEF HistoryLock, HistoryUnlock, HistoryPanic, Break
  <2> QED
    BY <2>1, <2>2 DEF TypeOK, runVars, tickVars, frameVars, pipVars
<1>20. CASE UpdateAdvance
  <2>1. frame' \in Nat \ {0}
    BY <1>20 DEF UpdateAdvance, TypeOK
  <2> QED
    BY <1>20, <2>1 DEF UpdateAdvance, TypeOK, runVars, tickVars
<1>21. CASE UpdateRenew
  <2>1. f' \in Frames \cup {Nil}
    BY <1>21, FrameType DEF UpdateRenew
  <2> QED
    BY <1>21, <2>1 DEF UpdateRenew, TypeOK, runVars, tickVars
<1>22. CASE PipClose
  BY <1>22 DEF PipClose, TypeOK, runVars, tickVars, frameVars, pipVars
<1>23. CASE UNCHANGED vars
  BY <1>23 DEF TypeOK, vars, runVars, tickVars, frameVars, pipVars
<1> QED
  BY <1>1, <1>2, <1>3, <1>4, <1>5, <1>6, <1>7, <1>8, <1>9, <1>10, <1>11, <1>12, <1>13, <1>14,
     <1>15, <1>16, <1>17, <1>18, <1>19, <1>20, <1>21, <1>22, <1>23 DEF Next

-----------------------------------------------------------------------------
\* Who holds the mutex.
LEMMA LockingStep == TypeOK /\ Locking /\ [Next]_vars => Locking'
<1> SUFFICES ASSUME TypeOK, Locking, [Next]_vars PROVE Locking'
  OBVIOUS
<1> USE DEF Locking
<1>1. CASE UpdateLock \/ UpdateSave \/ UpdateUnlock
  BY <1>1 DEF UpdateLock, UpdateSave, UpdateUnlock, Break, runVars, pipVars, TypeOK
<1>2. CASE HistoryLock \/ HistoryUnlock
  BY <1>2 DEF HistoryLock, HistoryUnlock, Break, runVars, pipVars, TypeOK
<1>3. CASE /\ UNCHANGED <<isSaveHistory, lock>>
           /\ reading' # "no" <=> reading # "no"
           /\ upc \notin {"save", "unlock"} /\ (isSaveHistory => upc' \notin {"save", "unlock"})
  BY <1>3
<1>4. CASE \/ ExecInput \/ InputAppend
           \/ UpdateBegin \/ UpdateNumber \/ UpdateBroadcast \/ UpdateAdvance \/ UpdateRenew
  <2>1. UNCHANGED <<isSaveHistory, lock, reading>>
    BY <1>4 DEF ExecInput, InputAppend, UpdateBegin, UpdateNumber, UpdateBroadcast,
                UpdateAdvance, UpdateRenew, Break, runVars
  <2>2. upc \notin {"save", "unlock"} /\ (isSaveHistory => upc' \notin {"save", "unlock"})
    BY <1>4 DEF ExecInput, InputAppend, UpdateBegin, UpdateNumber, UpdateBroadcast,
                UpdateAdvance, UpdateRenew, Pop, Break, pipVars
  <2> QED
    BY <1>3, <2>1, <2>2
<1>5. CASE UNCHANGED <<isSaveHistory, upc, lock>> /\ (reading' # "no" <=> reading # "no")
  BY <1>5
<1>6. CASE \/ StartFlag \/ StartFrame \/ StartCmds \/ StartHistory \/ StartTicker
           \/ \E release \in BOOLEAN : StopOrRelease(release)
           \/ \E k \in Tickers : TickFire(k) \/ TickCall(k) \/ TickStop(k)
           \/ \E c \in Cmds : Input(c)
           \/ PipClose \/ HistoryPanic \/ UNCHANGED vars
  <2>1. UNCHANGED <<isSaveHistory, upc, lock>> /\ (reading' # "no" <=> reading # "no")
    BY <1>6 DEF StartFlag, StartFrame, StartCmds, StartHistory, StartTicker, StopOrRelease,
                TickFire, TickCall, TickStop, Input, PipClose, HistoryPanic, Break, vars, runVars,
                pipVars
  <2> QED
    BY <1>5, <2>1
<1> QED
  BY <1>1, <1>2, <1>4, <1>6 DEF Next

\* A step that leaves Start, the frame and the history alone, and queues no update,
\* keeps Started.
LEMMA SameStart ==
    ASSUME Started,
           UNCHANGED <<running, starts, app, tickers, history>>,
           f' = Nil => f = Nil,
           Early => queue' \in Seq(Cmds) /\ upc' \in {"idle", "input"},
           upc' = "input" => local' \in Cmds,
           reading' = "cut" => reading = "cut"
    PROVE  Started'
  BY DEF Started, Early

\* Who has stopped the pipeline, and what there is before the first Start.
LEMMA StartedStep ==
    TypeOK /\ Released /\ Started /\ [Next]_vars => Released' /\ Started'
<1> SUFFICES ASSUME TypeOK, Released, Started, [Next]_vars PROVE Released' /\ Started'
  OBVIOUS
<1> USE DEF Released
<1>1. CASE StartFlag \/ StartFrame \/ StartTicker
  <2>1. UNCHANGED <<pip, f, history, queue, upc, local, reading>>
    BY <1>1 DEF StartFlag, StartFrame, StartTicker, frameVars, pipVars
  <2>2. CASE StartFlag
    BY <2>1, <2>2 DEF StartFlag, tickVars, Started, Early, TypeOK
  <2>3. CASE StartFrame
    BY <2>1, <2>3 DEF StartFrame, tickVars, Started, Early, TypeOK
  <2>4. CASE StartTicker
    BY <2>1, <2>4 DEF StartTicker, Started, Early, TypeOK
  <2> QED
    BY <1>1, <2>2, <2>3, <2>4
<1>2. CASE StartCmds
  BY <1>2, FrameType DEF StartCmds, tickVars, pipVars, Started, Early, TypeOK
<1>3. CASE StartHistory
  BY <1>3 DEF StartHistory, tickVars, pipVars, Started, Early, TypeOK
<1>4. ASSUME NEW release \in BOOLEAN, StopOrRelease(release) PROVE Released' /\ Started'
  BY <1>4 DEF StopOrRelease, frameVars, pipVars, Started, Early, TypeOK
<1>5. ASSUME NEW k \in Tickers, TickFire(k) \/ TickCall(k) \/ TickStop(k)
      PROVE  Released' /\ Started'
  <2>1. /\ UNCHANGED <<running, starts, app, frameVars, pipVars, reading, pip>>
        /\ ~Early
    BY <1>5 DEF TickFire, TickCall, TickStop, Break, runVars, Started
  <2> QED
    BY <2>1 DEF Started, Early, frameVars, pipVars
<1>6. ASSUME NEW c \in Cmds, Input(c) PROVE Released' /\ Started'
  <2>1. Early => queue' \in Seq(Cmds)
    BY <1>6, QueueType DEF Input, Started
  <2> QED
    BY <1>6, <2>1 DEF Input, runVars, tickVars, frameVars, pipVars, Started, Early
<1>7. CASE ExecInput
  <2>1. Early => queue' \in Seq(Cmds)
    BY <1>7, QueueType DEF ExecInput, Started
  <2>2. UNCHANGED <<running, starts, app, tickers, history, f, reading, pip>>
    BY <1>7 DEF ExecInput, runVars, tickVars, frameVars
  <2>3. /\ Early => upc' \in {"idle", "input"}
        /\ upc' = "input" => local' \in Cmds
    BY <1>7 DEF ExecInput, Pop
  <2> QED
    BY <2>1, <2>2, <2>3, SameStart
<1>8. CASE UpdateBegin
  <2>1. ~Early
    <3> SUFFICES ASSUME Early PROVE FALSE
      OBVIOUS
    <3>1. queue \in Seq(Cmds) /\ queue # <<>>
      BY <1>8 DEF UpdateBegin, Pop, Started
    <3>2. Head(queue) \in Cmds
      BY <3>1, HeadTailProperties
    <3> QED
      BY <1>8, <3>2, FrameAssumption DEF UpdateBegin, Update
  <2>2. UNCHANGED <<running, starts, app, tickers, history, f, reading, pip>>
    BY <1>8 DEF UpdateBegin, runVars, tickVars, frameVars
  <2>3. upc' # "input"
    BY <1>8 DEF UpdateBegin
  <2> QED
    BY <2>1, <2>2, <2>3, SameStart
<1>9. CASE InputAppend \/ UpdateNumber \/ UpdateRenew
  <2>1. UNCHANGED <<running, starts, app, tickers, history, queue, local, reading, pip>>
    BY <1>9 DEF InputAppend, UpdateNumber, UpdateRenew, Break, runVars, tickVars, frameVars,
                pipVars
  <2>2. f' = Nil => f = Nil
    BY <1>9, FrameType DEF InputAppend, UpdateNumber, UpdateRenew, Break, frameVars, TypeOK,
                           Started
  <2>3. /\ Early => queue' \in Seq(Cmds) /\ upc' \in {"idle", "input"}
        /\ upc' = "input" => local' \in Cmds
    BY <1>9, <2>1 DEF InputAppend, UpdateNumber, UpdateRenew, Break, pipVars, Started
  <2> QED
    BY <2>1, <2>2, <2>3, SameStart
<1>10. CASE UpdateBroadcast \/ UpdateLock \/ UpdateSave \/ UpdateUnlock \/ UpdateAdvance
  <2>1. ~Early /\ upc' # "input"
    BY <1>10 DEF UpdateBroadcast, UpdateLock, UpdateSave, UpdateUnlock, UpdateAdvance, Break,
                 pipVars, Started
  <2>2. UNCHANGED <<running, starts, app, tickers, f, reading, pip>>
    BY <1>10 DEF UpdateBroadcast, UpdateLock, UpdateSave, UpdateUnlock, UpdateAdvance, Break,
                 runVars, tickVars, frameVars
  <2> QED
    BY <2>1, <2>2 DEF Started, Early
<1>11. CASE PipClose
  BY <1>11 DEF PipClose, runVars, tickVars, frameVars, pipVars, Started, Early
<1>12. CASE HistoryLock \/ HistoryUnlock \/ HistoryPanic \/ UNCHANGED vars
  <2>1. /\ UNCHANGED <<running, starts, app, tickers, history, f, queue, upc, local, pip>>
        /\ reading' = "cut" => reading = "cut"
    BY <1>12 DEF HistoryLock, HistoryUnlock, HistoryPanic, Break, vars, runVars, tickVars,
                 frameVars, pipVars
  <2> QED
    BY <2>1 DEF Started, Early
<1> QED
  BY <1>1, <1>2, <1>3, <1>4, <1>5, <1>6, <1>7, <1>8, <1>9, <1>10, <1>11, <1>12 DEF Next

\* What the process dies of.
LEMMA BrokenStep ==
    TypeOK /\ Locking /\ Released /\ Started /\ BrokenOnlyBy /\ [Next]_vars => BrokenOnlyBy'
<1> SUFFICES ASSUME TypeOK, Locking, Released, Started, BrokenOnlyBy, [Next]_vars
             PROVE  BrokenOnlyBy'
  OBVIOUS
<1> USE DEF BrokenOnlyBy
<1>1. ASSUME NEW k \in Tickers, TickCall(k) PROVE BrokenOnlyBy'
  BY <1>1 DEF TickCall, Break, Alive, Released, runVars
<1>2. CASE InputAppend \/ UpdateNumber
  BY <1>2 DEF InputAppend, UpdateNumber, Break, Alive, Started, runVars
<1>3. CASE UpdateLock
  BY <1>3 DEF UpdateLock, Break, Alive, Started, Early, runVars, TypeOK
<1>4. CASE UpdateUnlock
  BY <1>4 DEF UpdateUnlock, Break, Alive, Locking, runVars
<1>5. CASE HistoryUnlock
  BY <1>5 DEF HistoryUnlock, Break, Alive, Locking, runVars
<1>6. CASE HistoryPanic
  BY <1>6 DEF HistoryPanic, Break, Alive, Started, runVars
<1>7. CASE Alive /\ UNCHANGED broken
  BY <1>7 DEF Alive
<1>8. CASE UNCHANGED vars
  BY <1>8 DEF vars, runVars
<1>9. CASE \/ StartFlag \/ StartFrame \/ StartCmds \/ StartHistory \/ StartTicker
           \/ \E release \in BOOLEAN : StopOrRelease(release)
           \/ \E k \in Tickers : TickFire(k) \/ TickStop(k)
           \/ \E c \in Cmds : Input(c)
           \/ ExecInput \/ UpdateBegin \/ UpdateBroadcast \/ UpdateSave \/ UpdateAdvance
           \/ UpdateRenew \/ PipClose \/ HistoryLock
  BY <1>7, <1>9 DEF StartFlag, StartFrame, StartCmds, StartHistory, StartTicker, StopOrRelease,
                    TickFire, TickStop, Input, ExecInput, UpdateBegin, UpdateBroadcast,
                    UpdateSave, UpdateAdvance, UpdateRenew, PipClose, HistoryLock, Pop
<1> QED
  BY <1>1, <1>2, <1>3, <1>4, <1>5, <1>6, <1>8, <1>9 DEF Next

-----------------------------------------------------------------------------
\* What the pipeline's goroutine has in hand, and the frame in the making.
LEMMA MakingStep ==
    TypeOK /\ Started /\ Making /\ Numbered /\ [Next]_vars => Making'
<1> SUFFICES ASSUME TypeOK, Started, Making, Numbered, [Next]_vars, ~raced' PROVE Making'
  BY DEF Making
<1>0. /\ frame \in Nat /\ GiveUp \in Nat
      /\ NewFrame.cmds = {}
  BY FrameAssumption DEF TypeOK, NewFrame
<1>1. CASE StartFrame
  BY <1>1 DEF StartFrame, pipVars, Making, Broadcast
\* No update is under way: its frame would lose its number.
<1>2. CASE StartCmds
  <2>1. upc \in {"idle", "input"} /\ ~raced
    BY <1>2 DEF StartCmds, Numbered, Window
  <2> QED
    BY <1>0, <1>2, <2>1 DEF StartCmds, pipVars, Making, Broadcast
<1>3. CASE StartHistory
  <2>1. upc \in {"idle", "input"} /\ ~raced
    BY <1>3 DEF StartHistory, Numbered, Window
  <2> QED
    BY <1>3, <2>1 DEF StartHistory, pipVars, Making, Broadcast
<1>4. CASE ExecInput
  <2>1. PICK in \in Cmds :
            /\ Head(queue) = in
            /\ IF in > frame \/ frame - in > GiveUp
               THEN UNCHANGED <<upc, local>>
               ELSE upc' = "input" /\ local' = in
    BY <1>4 DEF ExecInput
  <2>2. in \in Nat
    BY FrameAssumption
  <2>3. ~(in > frame \/ frame - in > GiveUp) => in \in (frame - GiveUp) .. frame
    BY <1>0, <2>2
  <2>4. UNCHANGED <<frame, f, app, raced>> /\ upc = "idle"
    BY <1>4 DEF ExecInput, Pop, runVars, frameVars
  <2>5. upc' = "idle" \/ (upc' = "input" /\ local' \in (frame - GiveUp) .. frame)
    BY <2>1, <2>3, <2>4
  <2> QED
    BY <2>4, <2>5 DEF Making, Broadcast
<1>5. CASE InputAppend
  <2>1. CASE f = Nil
    BY <1>5, <2>1 DEF InputAppend, Break, runVars, frameVars, pipVars, Making, Broadcast
  <2>2. CASE f # Nil
    <3>1. /\ f' = [f EXCEPT !.cmds = @ \cup {local}]
          /\ upc = "input" /\ upc' = "idle"
          /\ UNCHANGED <<frame, app, raced>>
      BY <1>5, <2>2 DEF InputAppend, runVars
    <3>2. f'.cmds = f.cmds \cup {local}
      BY <2>2, <3>1, FrameType DEF TypeOK, Started
    <3> QED
      BY <2>2, <3>1, <3>2 DEF Making, Broadcast
  <2> QED
    BY <2>1, <2>2
<1>6. CASE UpdateBegin
  BY <1>6 DEF UpdateBegin, Pop, runVars, frameVars, Making, Broadcast
<1>7. CASE UpdateNumber
  <2>1. CASE f = Nil
    BY <1>7, <2>1 DEF UpdateNumber, Break, runVars, frameVars, pipVars, Making, Broadcast
  <2>2. CASE f # Nil
    <3>1. /\ f' = [f EXCEPT !.frame = frame]
          /\ upc = "number" /\ upc' = "broadcast"
          /\ UNCHANGED <<frame, app, raced>>
      BY <1>7, <2>2 DEF UpdateNumber, runVars
    <3>2. f'.cmds = f.cmds /\ f'.frame = frame
      BY <1>0, <2>2, <3>1, FrameType DEF TypeOK
    <3> QED
      BY <2>2, <3>1, <3>2 DEF Making, Broadcast
  <2> QED
    BY <2>1, <2>2
<1>8. CASE UpdateBroadcast
  BY <1>8 DEF UpdateBroadcast, runVars, Making, Broadcast
<1>9. CASE UpdateLock
  BY <1>9 DEF UpdateLock, Break, runVars, frameVars, pipVars, Making, Broadcast
<1>10. CASE UpdateSave
  BY <1>10 DEF UpdateSave, runVars, Making, Broadcast
<1>11. CASE UpdateUnlock
  BY <1>11 DEF UpdateUnlock, Break, runVars, frameVars, pipVars, Making, Broadcast
<1>12. CASE UpdateAdvance
  BY <1>12 DEF UpdateAdvance, runVars, Making, Broadcast
<1>13. CASE UpdateRenew
  BY <1>0, <1>12, <1>13 DEF UpdateRenew, runVars, Making, Broadcast
<1>14. ASSUME UNCHANGED <<frameVars, pipVars, raced>>, app' # "cmds", app # "cmds" \/ app' = app
       PROVE  Making'
  BY <1>14 DEF frameVars, pipVars, Making, Broadcast
<1>15. ASSUME UNCHANGED <<app, frameVars, pipVars, raced>> PROVE Making'
  BY <1>15 DEF frameVars, pipVars, Making, Broadcast
<1>16. CASE StartFlag \/ StartTicker \/ \E release \in BOOLEAN : StopOrRelease(release)
  BY <1>14, <1>16 DEF StartFlag, StartTicker, StopOrRelease
<1>17. CASE \/ \E k \in Tickers : TickFire(k) \/ TickCall(k) \/ TickStop(k)
            \/ \E c \in Cmds : Input(c)
            \/ PipClose \/ HistoryLock \/ HistoryUnlock \/ HistoryPanic \/ UNCHANGED vars
  BY <1>15, <1>17 DEF TickFire, TickCall, TickStop, Input, PipClose, HistoryLock, HistoryUnlock,
                      HistoryPanic, Break, vars, runVars
<1> QED
  BY <1>1, <1>2, <1>3, <1>4, <1>5, <1>6, <1>7, <1>8, <1>9, <1>10, <1>11, <1>12, <1>13, <1>16,
     <1>17 DEF Next

\* The frame broadcast is the next, and its commands are in time.
LEMMA BroadcastStep ==
    ASSUME TypeOK, Started, Making, Numbered, UpdateBroadcast
    PROVE  Numbered'
<1> SUFFICES ASSUME ~raced' PROVE Numbered'
  BY DEF Numbered
<1>1. /\ sent' = Append(sent, f)
      /\ upc = "broadcast" /\ upc' = IF isSaveHistory THEN "lock" ELSE "unlock"
      /\ UNCHANGED <<isSaveHistory, app, frame, history, raced>>
  BY DEF UpdateBroadcast, runVars
<1>2. frame \in Nat \ {0} /\ sent \in Seq(Frames) /\ f \in Frames /\ f # Nil
  BY <1>1 DEF TypeOK, Started, Early
<1>3. /\ Len(sent) \in Nat /\ Len(sent') = Len(sent) + 1
      /\ \A i \in 1 .. Len(sent) : sent'[i] = sent[i]
      /\ sent'[Len(sent) + 1] = f
  BY <1>1, <1>2, AppendProperties, LenProperties
<1>4. ~raced /\ ~Window /\ Len(sent) = frame - 1
  BY <1>1 DEF Numbered, Broadcast, Window
<1>5. Len(sent') = frame /\ Broadcast' /\ ~Window'
  BY <1>1, <1>2, <1>3, <1>4 DEF Broadcast, Window
<1>6. f.frame = frame /\ f.cmds \subseteq (frame - GiveUp) .. frame
  BY <1>1, <1>2, <1>4 DEF Making, Window
<1>7. ASSUME NEW i \in 1 .. Len(sent')
      PROVE  sent'[i].frame = i /\ sent'[i].cmds \subseteq (i - GiveUp) .. i
  <2>1. CASE i \in 1 .. Len(sent)
    BY <1>3, <1>4, <2>1 DEF Numbered
  <2>2. CASE i = frame
    <3>1. sent'[i] = f
      BY <1>2, <1>3, <1>4, <2>2
    <3> QED
      BY <1>6, <2>2, <3>1
  <2> QED
    BY <1>2, <1>3, <1>4, <1>7, <2>1, <2>2
<1>8. ASSUME isSaveHistory
      PROVE  /\ Len(history') = Len(sent') - 1 /\ Saving'
             /\ \A i \in 1 .. Len(history') : history'[i] = i
  <2>1. Len(history) = Len(sent) /\ \A i \in 1 .. Len(history) : history[i] = i
    BY <1>1, <1>4, <1>8 DEF Numbered, Saving
  <2> QED
    BY <1>1, <1>3, <1>8, <2>1 DEF Saving
<1> QED
  BY <1>1, <1>5, <1>7, <1>8 DEF Numbered

\* The frame saved goes to its own place.
LEMMA SaveStep ==
    ASSUME TypeOK, Making, Numbered, UpdateSave
    PROVE  Numbered'
<1> SUFFICES ASSUME ~raced' PROVE Numbered'
  BY DEF Numbered
<1>1. /\ history' = saved
      /\ upc = "save" /\ upc' = "unlock"
      /\ UNCHANGED <<isSaveHistory, app, frame, sent, raced>>
  BY DEF UpdateSave, runVars
<1>2. /\ frame \in Nat \ {0} /\ history \in Seq(Nat)
      /\ Len(sent) \in Nat /\ saved = Append(history, frame)
  BY <1>1, LenProperties DEF TypeOK, Making
<1>3. /\ Len(history) \in Nat /\ Len(history') = Len(history) + 1
      /\ \A i \in 1 .. Len(history) : history'[i] = history[i]
      /\ history'[Len(history) + 1] = frame
  BY <1>1, <1>2, AppendProperties, LenProperties
<1>4. /\ ~raced /\ ~Window /\ ~Window' /\ Broadcast /\ Broadcast' /\ Len(sent) = frame
      /\ Saving /\ ~Saving'
      /\ \A i \in 1 .. Len(sent) :
            sent[i].frame = i /\ sent[i].cmds \subseteq (i - GiveUp) .. i
  BY <1>1 DEF Numbered, Broadcast, Saving, Window
<1>5. ASSUME isSaveHistory
      PROVE  Len(history') = frame /\ \A i \in 1 .. Len(history') : history'[i] = i
  <2>1. Len(history) = frame - 1 /\ \A i \in 1 .. Len(history) : history[i] = i
    BY <1>4, <1>5 DEF Numbered
  <2> QED
    BY <1>2, <1>3, <2>1
<1> QED
  BY <1>1, <1>4, <1>5 DEF Numbered

\* How the frames are numbered.
LEMMA NumberedStep ==
    TypeOK /\ Started /\ Making /\ Numbered /\ [Next]_vars => Numbered'
<1> SUFFICES ASSUME TypeOK, Started, Making, Numbered, [Next]_vars PROVE Numbered'
  OBVIOUS
<1>1. CASE StartFrame
  <2> SUFFICES ASSUME ~raced' PROVE Numbered'
    BY DEF Numbered
  <2>1. /\ upc = "idle" /\ frame' = 1 /\ ~raced
        /\ UNCHANGED <<isSaveHistory, upc, sent, history>>
        /\ Window'
    BY <1>1 DEF StartFrame, pipVars, Window
  <2> QED
    BY <2>1 DEF Numbered, Saving
<1>2. CASE StartCmds
  <2>1. /\ UNCHANGED <<isSaveHistory, upc, frame, sent, history, raced>>
        /\ Window /\ Window'
    BY <1>2 DEF StartCmds, pipVars, Window
  <2> QED
    BY <2>1 DEF Numbered, Saving
<1>3. CASE StartHistory
  <2> SUFFICES ASSUME ~raced' PROVE Numbered'
    BY DEF Numbered
  <2>1. /\ Window /\ ~Window' /\ ~raced
        /\ Len(sent') = 0 /\ Len(history') = 0
        /\ UNCHANGED <<frame, upc>>
    BY <1>3 DEF StartHistory, pipVars, Window
  <2>2. frame' = 1 /\ ~Broadcast' /\ ~Saving'
    BY <2>1 DEF Numbered, Broadcast, Saving
  <2> QED
    BY <2>1, <2>2 DEF Numbered
<1>4. CASE UpdateBroadcast
  BY <1>4, BroadcastStep
<1>5. CASE UpdateSave
  BY <1>5, SaveStep
<1>6. CASE UpdateAdvance
  <2> SUFFICES ASSUME ~raced' PROVE Numbered'
    BY DEF Numbered
  <2>1. /\ upc = "advance" /\ upc' = "renew" /\ frame' = local + 1 /\ ~raced
        /\ UNCHANGED <<isSaveHistory, app, sent, history>>
    BY <1>6 DEF UpdateAdvance, runVars
  <2>2. frame \in Nat /\ frame' - 1 = frame
    BY <2>1 DEF TypeOK, Making
  <2>3. Broadcast /\ ~Broadcast' /\ ~Saving /\ ~Saving' /\ ~Window /\ ~Window'
    BY <2>1 DEF Broadcast, Saving, Window, Numbered
  <2> QED
    BY <2>1, <2>2, <2>3 DEF Numbered
<1>7. ASSUME UNCHANGED <<isSaveHistory, frame, sent, history>>, raced => raced',
             Broadcast' <=> Broadcast, Saving' <=> Saving,
             Window' <=> Window, Window => raced \/ upc' \in {"idle", "input"}
      PROVE  Numbered'
  BY <1>7 DEF Numbered
<1>8. CASE UpdateBegin
  <2> SUFFICES ASSUME ~raced' PROVE Numbered'
    BY DEF Numbered
  <2>1. /\ UNCHANGED <<isSaveHistory, app, frame, sent, history>>
        /\ raced => raced'
        /\ Window => upc' = "idle"
    BY <1>8 DEF UpdateBegin, Window, runVars, frameVars
  <2>2. /\ Broadcast' <=> Broadcast
        /\ Saving' <=> Saving
    BY <1>8 DEF UpdateBegin, Pop, Broadcast, Saving
  <2> QED
    BY <1>7, <2>1, <2>2 DEF Window
<1>9. CASE \/ ExecInput \/ InputAppend \/ UpdateNumber \/ UpdateLock \/ UpdateUnlock
           \/ UpdateRenew
  <2>1. UNCHANGED <<isSaveHistory, app, frame, sent, history, raced>>
    BY <1>9 DEF ExecInput, InputAppend, UpdateNumber, UpdateLock, UpdateUnlock, UpdateRenew,
                Break, runVars, frameVars
  <2>2. /\ Broadcast' <=> Broadcast
        /\ Saving' <=> Saving
    BY <1>9 DEF ExecInput, InputAppend, UpdateNumber, UpdateLock, UpdateUnlock, UpdateRenew,
                Break, Pop, pipVars, Broadcast, Saving
  <2>3. Window => raced \/ upc' \in {"idle", "input"}
    <3> SUFFICES ASSUME Window, ~raced PROVE upc' \in {"idle", "input"}
      OBVIOUS
    <3>1. upc \in {"idle", "input"}
      BY DEF Numbered
    <3> QED
      BY <1>9, <3>1 DEF ExecInput, InputAppend, UpdateNumber, UpdateLock, UpdateUnlock,
                        UpdateRenew, Break, pipVars
  <2> QED
    BY <1>7, <2>1, <2>2, <2>3 DEF Window
<1>10. CASE \/ StartFlag \/ StartTicker
            \/ \E release \in BOOLEAN : StopOrRelease(release)
            \/ \E k \in Tickers : TickFire(k) \/ TickCall(k) \/ TickStop(k)
            \/ \E c \in Cmds : Input(c)
            \/ PipClose \/ HistoryLock \/ HistoryUnlock \/ HistoryPanic \/ UNCHANGED vars
  <2>1. /\ UNCHANGED <<isSaveHistory, frame, sent, history, raced, upc>>
        /\ Window' <=> Window
    BY <1>10 DEF StartFlag, StartTicker, StopOrRelease, TickFire, TickCall, TickStop, Input,
                 PipClose, HistoryLock, HistoryUnlock, HistoryPanic, Break, vars, runVars,
                 frameVars, pipVars, Window
  <2>2. Window => raced \/ upc \in {"idle", "input"}
    BY DEF Numbered
  <2> QED
    BY <1>7, <2>1, <2>2 DEF Broadcast, Saving
<1> QED
  BY <1>1, <1>2, <1>3, <1>4, <1>5, <1>6, <1>8, <1>9, <1>10 DEF Next

-----------------------------------------------------------------------------
\* The invariant holds before the first Start.
LEMMA InitInv == Init => IInv
<1> SUFFICES ASSUME Init PROVE IInv
  OBVIOUS
<1>1. TypeOK
  <2>1. /\ <<>> \in Seq(Nat) /\ <<>> \in Seq(Messages) /\ <<>> \in Seq(Frames)
    BY EmptySeq
  <2>2. 0 \in 0 .. MaxStarts /\ 0 \in 0 .. MaxTicks
    BY FrameAssumption
  <2>3. frame \in Nat \ {0} /\ f \in Frames \cup {Nil} /\ local \in Nat
    BY DEF Init
  <2> QED
    BY <2>1, <2>2, <2>3 DEF Init, TypeOK
<1>2. Locking /\ Released /\ Making /\ BrokenOnlyBy
  BY DEF Init, Locking, Released, Making, Broadcast, BrokenOnlyBy
<1>3. Started
  BY EmptySeq DEF Init, Started, Early
<1>4. Numbered
  <2>1. Len(sent) = 0 /\ Len(history) = 0 /\ frame = 1 /\ ~Broadcast /\ ~Saving /\ ~Window
    BY DEF Init, Broadcast, Saving, Window
  <2> QED
    BY <2>1 DEF Numbered
<1> QED
  BY <1>1, <1>2, <1>3, <1>4 DEF IInv

\* The inductive invariant holds: each of the conjuncts is kept by every step.
THEOREM Invariance == Spec => []IInv
<1>1. IInv /\ [Next]_vars => IInv'
  BY TypeStep, LockingStep, StartedStep, MakingStep, NumberedStep, BrokenStep DEF IInv
<1> QED
  BY InitInv, <1>1, PTL DEF Spec

\* The variables have their types.
THEOREM Types == Spec => []TypeOK
<1>1. IInv => TypeOK
  BY DEF IInv
<1> QED
  BY Invariance, <1>1, PTL

\* The process dies only of what BrokenOnlyBy lists.
THEOREM Deaths == Spec => []BrokenOnlyBy
<1>1. IInv => BrokenOnlyBy
  BY DEF IInv
<1> QED
  BY Invariance, <1>1, PTL

\* What HistoryFrames returns of a history that has every frame at its place: the
\* frames from the one asked for.
LEMMA FromTheOneAskedFor ==
    ASSUME history \in Seq(Nat), \A i \in 1 .. Len(history) : history[i] = i
    PROVE  \A n \in 1 .. Len(history) : \A i \in DOMAIN HistoryFrames(n) :
               HistoryFrames(n)[i] = n + i - 1
<1> SUFFICES ASSUME NEW n \in 1 .. Len(history), NEW i \in DOMAIN HistoryFrames(n)
             PROVE  HistoryFrames(n)[i] = n + i - 1
  OBVIOUS
<1>1. Len(history) \in Nat
  BY LenProperties
<1>2. HistoryFrames(n) = SubSeq(history, n, Len(history) - 1)
  BY <1>1 DEF HistoryFrames
<1>3. i \in 1 .. Len(history) - n /\ HistoryFrames(n)[i] = history[n + i - 1]
  BY <1>1, <1>2
<1>4. n + i - 1 \in 1 .. Len(history)
  BY <1>1, <1>3
<1> QED
  BY <1>3, <1>4

\* Unless an update or an input was under way between the assignments of a Start, the
\* frames broadcast since Start are numbered in their order, carry commands no more
\* than GiveUp frames late, and are in the history at their places.
THEOREM Order == Spec => []FramesInOrder
<1>1. IInv => FramesInOrder
  <2> SUFFICES ASSUME TypeOK, Numbered, ~raced PROVE FramesInOrder
    BY DEF IInv, FramesInOrder
  <2>1. /\ DOMAIN sent = 1 .. Len(sent) /\ Len(sent) \in Nat
        /\ history \in Seq(Nat) /\ Len(history) \in Nat
    BY LenProperties DEF TypeOK
  <2>2. ASSUME isSaveHistory
        PROVE  /\ \/ Len(history) = Len(sent)
                  \/ upc \in {"lock", "save"} /\ Len(history) + 1 = Len(sent)
               /\ \A n \in 1 .. Len(history) : \A i \in DOMAIN HistoryFrames(n) :
                     HistoryFrames(n)[i] = n + i - 1
    <3>1. /\ Len(history) = IF Saving THEN Len(sent) - 1 ELSE Len(sent)
          /\ \A i \in 1 .. Len(history) : history[i] = i
      BY <2>2 DEF Numbered
    <3>2. \/ Len(history) = Len(sent)
          \/ upc \in {"lock", "save"} /\ Len(history) + 1 = Len(sent)
      <4>1. CASE Saving
        <5>1. Len(history) = Len(sent) - 1
          BY <3>1, <4>1
        <5>2. Len(history) + 1 = Len(sent)
          BY <2>1, <5>1
        <5> QED
          BY <4>1, <5>2 DEF Saving
      <4>2. CASE ~Saving
        BY <3>1, <4>2
      <4> QED
        BY <4>1, <4>2
    <3> QED
      BY <2>1, <3>1, <3>2, FromTheOneAskedFor
  <2> QED
    BY <2>1, <2>2 DEF Numbered, FramesInOrder
<1> QED
  BY Invariance, <1>1, PTL
=============================================================================
