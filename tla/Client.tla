------------------------------- MODULE Client -------------------------------
(***************************************************************************)
(* A client that reconnects: client.go of network/tcp, network/kcp and      *)
(* network/ws, three copies of one text but for the call that dials.        *)
(*                                                                         *)
(* Start tests closeFlag, dials with the mutex held, runs the session and  *)
(* begins again when it has ended; it gives up after MaxReconnectNum        *)
(* retries in a row.  Stop takes the mutex, sets closeFlag, closes conn    *)
(* and sets it to nil.  The socket of an ended session is closed by the    *)
(* writer goroutine that co.Close wakes, some time later (see Conn.tla,    *)
(* which also says when co.Close never returns).                           *)
(***************************************************************************)
EXTENDS Naturals

CONSTANTS MaxReconnectNum,  \* ClientOptions.MaxReconnectNum
          MaxConns,         \* bound: the dials that succeed
          Stops,            \* the goroutines that call Stop, once each
          Starter           \* the goroutine in Start

ASSUME ClientAssumption ==
    /\ MaxReconnectNum \in Nat
    /\ MaxConns \in Nat
    /\ Starter \notin Stops

Free == 0   \* nobody holds the mutex
Nil == 0    \* no connection

ASSUME FreeAssumption == Free \notin Stops \cup {Starter}

Conns == 1 .. MaxConns

VARIABLES
    spc,       \* where Start is
    reCount,
    lock,      \* who holds the mutex
    closeFlag,
    conn,      \* cli.conn, the number of the dial it came from
    dialled,   \* successful dials so far
    open,      \* the sockets not closed
    fails,     \* failed dials since the last successful one
    stop,      \* where each Stop is
    late,      \* successful dials after a Stop has returned
    panicked

startVars == <<spc, reCount, fails>>
vars == <<startVars, lock, closeFlag, conn, dialled, open, stop, late, panicked>>

Init ==
    /\ spc = "check"
    /\ reCount = 0
    /\ lock = Free
    /\ closeFlag = FALSE
    /\ conn = Nil
    /\ dialled = 0
    /\ open = {}
    /\ fails = 0
    /\ stop = [p \in Stops |-> "idle"]
    /\ late = 0
    /\ panicked = FALSE

Stopped == \E p \in Stops : stop[p] = "returned"

Goto(from, to) == ~panicked /\ spc = from /\ spc' = to

-----------------------------------------------------------------------------
\* Start: return if closeFlag is set, read without the mutex ...
Check ==
    /\ Goto("check", IF closeFlag THEN "returned" ELSE "lock")
    /\ UNCHANGED <<reCount, fails, lock, closeFlag, conn, dialled, open, stop, late,
                   panicked>>

\* ... take the mutex, which is held while dialling ...
Lock ==
    /\ Goto("lock", "dial")
    /\ lock = Free
    /\ lock' = Starter
    /\ UNCHANGED <<reCount, fails, closeFlag, conn, dialled, open, stop, late, panicked>>

\* ... a dial fails: give up or sleep ...
DialFails ==
    /\ Goto("dial", IF reCount >= MaxReconnectNum THEN "failed" ELSE "sleep")
    /\ fails' = fails + 1
    /\ lock' = Free
    /\ UNCHANGED <<reCount, closeFlag, conn, dialled, open, stop, late, panicked>>

\* ... and try again ...
Sleep ==
    /\ Goto("sleep", "check")
    /\ reCount' = reCount + 1
    /\ UNCHANGED <<fails, lock, closeFlag, conn, dialled, open, stop, late, panicked>>

\* Broken form of Dial: reCount keeps the retries of earlier outages.
DialKeepsCount ==
    /\ Goto("dial", "connect")
    /\ dialled < MaxConns
    /\ dialled' = dialled + 1
    /\ conn' = dialled + 1
    /\ open' = open \cup {dialled + 1}
    /\ fails' = 0
    /\ lock' = Free
    /\ late' = IF Stopped THEN late + 1 ELSE late
    /\ UNCHANGED <<reCount, closeFlag, stop, panicked>>

\* ... a dial succeeds: conn and session are set and the mutex is released ...
Dial ==
    /\ Goto("dial", "connect")
    /\ dialled < MaxConns
    /\ dialled' = dialled + 1
    /\ conn' = dialled + 1
    /\ open' = open \cup {dialled + 1}
    /\ reCount' = 0
    /\ fails' = 0
    /\ lock' = Free
    /\ late' = IF Stopped THEN late + 1 ELSE late
    /\ UNCHANGED <<closeFlag, stop, panicked>>

\* ... the handler's OnConnect ...
OnConnect ==
    /\ Goto("connect", "run")
    /\ UNCHANGED <<reCount, fails, lock, closeFlag, conn, dialled, open, stop, late,
                   panicked>>

\* ... session.Run, until the socket is closed or the peer or a message ends it ...
RunEnds ==
    /\ Goto("run", "close")
    /\ UNCHANGED <<reCount, fails, lock, closeFlag, conn, dialled, open, stop, late,
                   panicked>>

\* ... co.Close, which may never return ...
CoClose ==
    /\ \/ Goto("close", "onclose")
       \/ Goto("close", "hung")
    /\ UNCHANGED <<reCount, fails, lock, closeFlag, conn, dialled, open, stop, late,
                   panicked>>

\* ... the handler's OnClose, and from the beginning.
OnClose ==
    /\ Goto("onclose", "check")
    /\ UNCHANGED <<reCount, fails, lock, closeFlag, conn, dialled, open, stop, late,
                   panicked>>

\* The writer goroutine of an ended session closes its socket.
WriterShuts(c) ==
    /\ ~panicked
    /\ c \in open
    /\ c < dialled \/ spc \notin {"connect", "run"}
    /\ open' = open \ {c}
    /\ UNCHANGED <<startVars, lock, closeFlag, conn, dialled, stop, late, panicked>>

-----------------------------------------------------------------------------
\* Broken form of StopLock: closeFlag is not set.
StopLockNoFlag(p) ==
    /\ ~panicked
    /\ stop[p] = "idle"
    /\ lock = Free
    /\ lock' = p
    /\ stop' = [stop EXCEPT ![p] = "close"]
    /\ UNCHANGED <<startVars, closeFlag, conn, dialled, open, late, panicked>>

\* Stop takes the mutex and sets closeFlag ...
StopLock(p) ==
    /\ ~panicked
    /\ stop[p] = "idle"
    /\ lock = Free
    /\ lock' = p
    /\ closeFlag' = TRUE
    /\ stop' = [stop EXCEPT ![p] = "close"]
    /\ UNCHANGED <<startVars, conn, dialled, open, late, panicked>>

\* Broken form of StopClose: the socket is left to the session.
StopCloseLeaves(p) ==
    /\ ~panicked
    /\ stop[p] = "close"
    /\ conn # Nil
    /\ conn' = Nil
    /\ lock' = Free
    /\ stop' = [stop EXCEPT ![p] = "returned"]
    /\ UNCHANGED <<startVars, closeFlag, dialled, open, late, panicked>>

\* ... closes conn, which must not be nil, forgets it and releases the mutex.
StopClose(p) ==
    /\ ~panicked
    /\ stop[p] = "close"
    /\ IF conn = Nil
       THEN /\ panicked' = TRUE
            /\ UNCHANGED <<conn, open, lock, stop>>
       ELSE /\ open' = open \ {conn}
            /\ conn' = Nil
            /\ lock' = Free
            /\ stop' = [stop EXCEPT ![p] = "returned"]
            /\ UNCHANGED panicked
    /\ UNCHANGED <<startVars, closeFlag, dialled, late>>

-----------------------------------------------------------------------------
StartStep == Check \/ Lock \/ DialFails \/ Dial \/ Sleep \/ OnConnect \/ CoClose \/ OnClose

Next ==
    \/ StartStep \/ RunEnds
    \/ \E c \in Conns : WriterShuts(c)
    \/ \E p \in Stops : StopLock(p) \/ StopClose(p)

Spec == Init /\ [][Next]_vars

\* Start's goroutine runs, a dial ends one way or the other, a session whose
\* socket is closed ends (Read returns an error, which kcp's Conn turns into an
\* empty message that the codec has to refuse), and a Stop in the mutex goes on.
Fairness ==
    /\ WF_vars(StartStep)
    /\ SF_vars(Lock)
    /\ WF_vars(RunEnds /\ dialled \notin open)
    /\ \A p \in Stops : WF_vars(StopClose(p))

FairSpec == Spec /\ Fairness

-----------------------------------------------------------------------------
TypeOK ==
    /\ spc \in {"check", "lock", "dial", "sleep", "connect", "run", "close", "hung",
                "onclose", "returned", "failed"}
    /\ reCount \in 0 .. MaxReconnectNum
    /\ lock \in Stops \cup {Starter, Free}
    /\ closeFlag \in BOOLEAN /\ panicked \in BOOLEAN
    /\ dialled \in 0 .. MaxConns /\ conn \in 0 .. dialled
    /\ open \subseteq 1 .. dialled
    /\ fails \in Nat /\ late \in Nat
    /\ stop \in [Stops -> {"idle", "close", "returned"}]

\* Once there has been a connection the first Stop does not panic, not even while
\* the client is reconnecting (a Stop before that does, and so does a second one
\* unless a dial came in between).
PanicNeedsNil == panicked => dialled = 0 \/ Stopped

\* After a Stop at most one more connection is made, by a Start that had already
\* tested closeFlag, and it is the only one Stop leaves open.
OneLateDial ==
    /\ late <= 1
    /\ late = 0 /\ Stopped /\ spc \in {"connect", "run"} => dialled \notin open

\* What the caller of Stop can count on: the two above.
StopOutcome == PanicNeedsNil /\ OneLateDial

\* Start gives up after MaxReconnectNum + 1 failed dials in a row, neither sooner
\* because of an earlier outage nor later.
GivesUp ==
    fails <= MaxReconnectNum + 1 /\ (spc = "failed" <=> fails = MaxReconnectNum + 1)

\* After a Stop, Start returns, unless the Close of a connection hangs or the
\* connection of the late dial is kept open by its peer.
StartReturns ==
    Stopped ~> (spc \in {"returned", "failed", "hung"} \/ panicked \/ (late = 1 /\ dialled \in open))
=============================================================================
