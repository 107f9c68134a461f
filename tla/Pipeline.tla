------------------------------ MODULE Pipeline ------------------------------
(***************************************************************************)
(* util/pipeline/pipeline.go: one goroutine (Run) executes messages that   *)
(* other goroutines hand it through two bounded channels.  Go never waits: *)
(* it queues its message or fails.  Call queues a message and waits for    *)
(* the handler's answer.  Stop asks Run to drain both channels and waits   *)
(* until it has; Run then closes the channels, so that a later Go or Call  *)
(* panics, and so does the second of two Stops that both find isClosed     *)
(* false.                                                                  *)
(***************************************************************************)
EXTENDS Naturals, Sequences

CONSTANTS Stoppers,     \* Stop calls, each made once, at any time
          Callers,      \* Call calls, each made once, at any time
          Registered,   \* those whose message has a handler (RegisterCall)
          GoLen,        \* capacity of goCh (NewPipeline's goLen)
          MaxGo         \* bound: messages Go queues in a behaviour

ASSUME PipelineAssumption ==
    /\ Registered \subseteq Callers
    /\ GoLen \in Nat \ {0}
    /\ MaxGo \in Nat

VARIABLES
    stopCh,      \* tokens in stopCh, capacity 1
    isStopCh,    \* tokens in isStopCh, capacity 1
    isStopClosed,\* close(isStopCh) has happened
    isClosed,    \* Pipeline.isClosed, read and written without a lock
    goCh, callCh,\* the two queues
    goClosed, callClosed,
    run,         \* where the Run goroutine is
    spc,         \* where each Stop is
    call,        \* what has become of each Call
    panic,       \* the process has panicked: in Go, in Call or in Stop
    accepted,    \* history: the messages Go queued
    executed,    \* history: the messages Run executed
    goBefore,    \* history: how many were accepted when each Stop began
    callsBefore, \* history: which calls were waiting when each Stop began
    overlapped   \* history: a Stop has found isClosed false between the test
                 \* and the assignment of another

stopVars == <<stopCh, isStopCh, isStopClosed, isClosed, spc, goBefore,
              callsBefore, overlapped>>
goVars   == <<goCh, goClosed, accepted, executed>>
callVars == <<callCh, callClosed, call>>
vars     == <<stopVars, goVars, callVars, run, panic>>

Init ==
    /\ stopCh = 0
    /\ isStopCh = 0
    /\ isStopClosed = FALSE
    /\ isClosed = FALSE
    /\ goCh = <<>>
    /\ callCh = <<>>
    /\ goClosed = FALSE
    /\ callClosed = FALSE
    /\ run = "off"
    /\ spc = [s \in Stoppers |-> "idle"]
    /\ call = [c \in Callers |-> "idle"]
    /\ panic = "no"
    /\ accepted = <<>>
    /\ executed = <<>>
    /\ goBefore = [s \in Stoppers |-> 0]
    /\ callsBefore = [s \in Stoppers |-> {}]
    /\ overlapped = FALSE

Alive == panic = "no"

Waiting == {c \in Callers : call[c] = "waiting"}

-----------------------------------------------------------------------------
\* Broken form of Go: the send does not look at the channel's capacity.
GoUnbounded ==
    /\ Alive
    /\ Len(accepted) < MaxGo
    /\ goCh' = Append(goCh, Len(accepted) + 1)
    /\ accepted' = Append(accepted, Len(accepted) + 1)
    /\ UNCHANGED <<stopVars, callVars, goClosed, executed, run, panic>>

\* Go: a non-blocking send.  On a full channel it returns ErrorChanFull and
\* nothing changes; on a closed one it panics.  A message is its place in the
\* order of acceptance.
Go ==
    /\ Alive
    /\ \/ /\ goClosed
          /\ panic' = "go"
          /\ UNCHANGED <<goCh, accepted>>
       \/ /\ ~goClosed
          /\ Len(goCh) < GoLen
          /\ Len(accepted) < MaxGo
          /\ goCh' = Append(goCh, Len(accepted) + 1)
          /\ accepted' = Append(accepted, Len(accepted) + 1)
          /\ UNCHANGED panic
    /\ UNCHANGED <<stopVars, callVars, goClosed, executed, run>>

\* Call: the same with callCh, of capacity 1; a queued caller waits on the
\* message's own channel.
Call(c) ==
    /\ Alive
    /\ call[c] = "idle"
    /\ \/ /\ callClosed
          /\ panic' = "call"
          /\ UNCHANGED <<callCh, call>>
       \/ /\ ~callClosed
          /\ IF Len(callCh) < 1
             THEN /\ callCh' = Append(callCh, c)
                  /\ call' = [call EXCEPT ![c] = "waiting"]
             ELSE /\ call' = [call EXCEPT ![c] = "refused"]
                  /\ UNCHANGED callCh
          /\ UNCHANGED panic
    /\ UNCHANGED <<stopVars, goVars, callClosed, run>>

-----------------------------------------------------------------------------
\* Run is started by its owner ("go p.Run()"), perhaps after a Stop.
RunBegin ==
    /\ Alive
    /\ run = "off"
    /\ run' = "serve"
    /\ UNCHANGED <<stopVars, goVars, callVars, panic>>

\* Broken form of RunStop: no drain loop; the channels are closed with what they
\* hold.
RunStopNoDrain ==
    /\ Alive
    /\ run = "serve"
    /\ stopCh > 0
    /\ stopCh' = stopCh - 1
    /\ run' = "closeGo"
    /\ UNCHANGED <<isStopCh, isStopClosed, isClosed, spc, goBefore, callsBefore,
                   overlapped, goVars, callVars, panic>>

\* The first loop: a token in stopCh ends it, even when messages are waiting.
RunStop ==
    /\ Alive
    /\ run = "serve"
    /\ stopCh > 0
    /\ stopCh' = stopCh - 1
    /\ run' = "drain"
    /\ UNCHANGED <<isStopCh, isStopClosed, isClosed, spc, goBefore, callsBefore,
                   overlapped, goVars, callVars, panic>>

\* Both loops execute whatever is ready, in the order of each channel.
ExecGo ==
    /\ Alive
    /\ run \in {"serve", "drain"}
    /\ goCh # <<>>
    /\ executed' = Append(executed, Head(goCh))
    /\ goCh' = Tail(goCh)
    /\ UNCHANGED <<stopVars, callVars, goClosed, accepted, run, panic>>

\* Broken form of ExecCall: the handler's result is not sent back.
ExecCallMute ==
    /\ Alive
    /\ run \in {"serve", "drain"}
    /\ callCh # <<>>
    /\ callCh' = Tail(callCh)
    /\ UNCHANGED <<stopVars, goVars, callClosed, call, run, panic>>

\* A call without a registered handler goes to the default handler or is
\* logged: in both cases nobody answers it and its caller waits for ever.
ExecCall ==
    /\ Alive
    /\ run \in {"serve", "drain"}
    /\ callCh # <<>>
    /\ callCh' = Tail(callCh)
    /\ call' = [call EXCEPT ![Head(callCh)] =
                   IF Head(callCh) \in Registered THEN "answered" ELSE "ignored"]
    /\ UNCHANGED <<stopVars, goVars, callClosed, run, panic>>

\* Broken form of DrainEnd: only goCh has to be empty.
DrainEndEarly ==
    /\ Alive
    /\ run = "drain"
    /\ goCh = <<>>
    /\ run' = "signal"
    /\ UNCHANGED <<stopVars, goVars, callVars, panic>>

\* The drain loop ends when it finds both channels empty.
DrainEnd ==
    /\ Alive
    /\ run = "drain"
    /\ goCh = <<>>
    /\ callCh = <<>>
    /\ run' = "signal"
    /\ UNCHANGED <<stopVars, goVars, callVars, panic>>

\* Run tells the Stop that waits, and only then closes the channels: what Go
\* and Call queue from here on is never executed.
Signal ==
    /\ Alive
    /\ run = "signal"
    /\ isStopCh < 1
    /\ isStopCh' = isStopCh + 1
    /\ run' = "closeGo"
    /\ UNCHANGED <<stopCh, isStopClosed, isClosed, spc, goBefore, callsBefore,
                   overlapped, goVars, callVars, panic>>

CloseGo ==
    /\ Alive
    /\ run = "closeGo"
    /\ goClosed' = TRUE
    /\ run' = "closeCall"
    /\ UNCHANGED <<stopVars, callVars, goCh, accepted, executed, panic>>

CloseCall ==
    /\ Alive
    /\ run = "closeCall"
    /\ callClosed' = TRUE
    /\ run' = "done"
    /\ UNCHANGED <<stopVars, goVars, callCh, call, panic>>

-----------------------------------------------------------------------------
\* Stop returns at once if isClosed is set ...
StopCheck(s) ==
    /\ Alive
    /\ spc[s] = "idle"
    /\ IF isClosed
       THEN /\ spc' = [spc EXCEPT ![s] = "early"]
            /\ UNCHANGED <<goBefore, callsBefore, overlapped>>
       ELSE /\ spc' = [spc EXCEPT ![s] = "mark"]
            /\ goBefore' = [goBefore EXCEPT ![s] = Len(accepted)]
            /\ callsBefore' = [callsBefore EXCEPT ![s] = Waiting]
            /\ overlapped' = (overlapped \/ \E t \in Stoppers : spc[t] = "mark")
    /\ UNCHANGED <<stopCh, isStopCh, isStopClosed, isClosed, goVars, callVars,
                   run, panic>>

\* Broken form of StopMark: the flag is forgotten.
StopMarkMissing(s) ==
    /\ Alive
    /\ spc[s] = "mark"
    /\ spc' = [spc EXCEPT ![s] = "send"]
    /\ UNCHANGED <<stopCh, isStopCh, isStopClosed, isClosed, goBefore, callsBefore,
                   overlapped, goVars, callVars, run, panic>>

\* ... sets it otherwise ...
StopMark(s) ==
    /\ Alive
    /\ spc[s] = "mark"
    /\ isClosed' = TRUE
    /\ spc' = [spc EXCEPT ![s] = "send"]
    /\ UNCHANGED <<stopCh, isStopCh, isStopClosed, goBefore, callsBefore,
                   overlapped, goVars, callVars, run, panic>>

\* ... leaves a token in stopCh unless there is one ...
StopSend(s) ==
    /\ Alive
    /\ spc[s] = "send"
    /\ stopCh' = 1
    /\ spc' = [spc EXCEPT ![s] = "wait"]
    /\ UNCHANGED <<isStopCh, isStopClosed, isClosed, goBefore, callsBefore,
                   overlapped, goVars, callVars, run, panic>>

\* ... waits for Run's token, or finds isStopCh closed ...
StopWait(s) ==
    /\ Alive
    /\ spc[s] = "wait"
    /\ \/ /\ isStopCh > 0
          /\ isStopCh' = isStopCh - 1
       \/ /\ isStopCh = 0
          /\ isStopClosed
          /\ UNCHANGED isStopCh
    /\ spc' = [spc EXCEPT ![s] = "close"]
    /\ UNCHANGED <<stopCh, isStopClosed, isClosed, goBefore, callsBefore,
                   overlapped, goVars, callVars, run, panic>>

\* ... and closes isStopCh, which panics if it is closed.
StopClose(s) ==
    /\ Alive
    /\ spc[s] = "close"
    /\ IF isStopClosed
       THEN /\ panic' = "stop"
            /\ UNCHANGED <<isStopClosed, spc>>
       ELSE /\ isStopClosed' = TRUE
            /\ spc' = [spc EXCEPT ![s] = "returned"]
            /\ UNCHANGED panic
    /\ UNCHANGED <<stopCh, isStopCh, isClosed, goBefore, callsBefore, overlapped,
                   goVars, callVars, run>>

-----------------------------------------------------------------------------
RunStep ==
    \/ RunBegin
    \/ RunStop
    \/ ExecGo
    \/ ExecCall
    \/ DrainEnd
    \/ Signal
    \/ CloseGo
    \/ CloseCall

StopStep(s) == StopMark(s) \/ StopSend(s) \/ StopWait(s) \/ StopClose(s)

Next ==
    \/ Go
    \/ \E c \in Callers : Call(c)
    \/ RunStep
    \/ \E s \in Stoppers : StopCheck(s) \/ StopStep(s)

Spec == Init /\ [][Next]_vars

\* The owner starts Run and Go schedules every goroutine; select picks among
\* the ready cases at random, so that none is passed over for ever: strong
\* fairness of each case.
Fairness ==
    /\ WF_vars(RunStep)
    /\ SF_vars(RunStop)
    /\ SF_vars(ExecCall)
    /\ \A s \in Stoppers : SF_vars(StopStep(s))

FairSpec == Spec /\ Fairness

-----------------------------------------------------------------------------
TypeOK ==
    /\ stopCh \in 0 .. 1
    /\ isStopCh \in 0 .. 1
    /\ isStopClosed \in BOOLEAN
    /\ isClosed \in BOOLEAN
    /\ goCh \in Seq(Nat) /\ Len(goCh) <= GoLen
    /\ callCh \in Seq(Callers) /\ Len(callCh) <= 1
    /\ goClosed \in BOOLEAN
    /\ callClosed \in BOOLEAN
    /\ run \in {"off", "serve", "drain", "signal", "closeGo", "closeCall", "done"}
    /\ spc \in [Stoppers -> {"idle", "mark", "send", "wait", "close", "returned",
                             "early"}]
    /\ call \in [Callers -> {"idle", "waiting", "refused", "answered", "ignored"}]
    /\ panic \in {"no", "go", "call", "stop"}
    /\ accepted \in Seq(Nat)
    /\ executed \in Seq(Nat)
    /\ goBefore \in [Stoppers -> Nat]
    /\ callsBefore \in [Stoppers -> SUBSET Callers]
    /\ overlapped \in BOOLEAN

\* Messages are executed once and in the order Go queued them, and a Stop that
\* has waited returns when everything queued before it was called is done: the
\* messages are executed and no registered call is left without its answer,
\* whatever other goroutines queue meanwhile.  (A Stop that finds isClosed set
\* promises nothing: it returns while the first one is still draining.)
Drained ==
    /\ accepted = executed \o goCh
    /\ \A s \in Stoppers :
          spc[s] = "returned" =>
              /\ goBefore[s] <= Len(executed)
              /\ \A c \in callsBefore[s] : call[c] # "waiting"

\* Go and Call panic only once the pipeline has been asked to stop and has
\* executed everything queued before the first request: a producer that stops
\* producing before it (or anybody) calls Stop never crashes the process.
PanicIsLate ==
    panic \in {"go", "call"} =>
        /\ isClosed
        /\ \E s \in Stoppers :
              /\ spc[s] \notin {"idle", "early"}
              /\ goBefore[s] <= Len(executed)

\* Stop may be called any number of times: it panics only when two calls both
\* test isClosed before either sets it.
StopPanicNeedsRace == panic = "stop" => overlapped

\* A registered call that is queued while Run serves or drains is answered.
CallsAnswered ==
    \A c \in Registered :
        (call[c] = "waiting" /\ run \in {"off", "serve", "drain"})
            ~> (call[c] = "answered" \/ ~Alive)

\* Every Stop returns, or the process panics.
StopReturns ==
    \A s \in Stoppers :
        spc[s] # "idle" ~> (spc[s] \in {"returned", "early"} \/ ~Alive)
=============================================================================
