----------------------------- MODULE UdpSession -----------------------------
(***************************************************************************)
(* The blocking calls of a kcp session: network/kcp/udp.go.                *)
(*                                                                         *)
(* Read waits in a select for chReadEvent, WriteBuffers for chWriteEvent,   *)
(* each a channel of one token that is dropped when one is pending; both    *)
(* also for the deadline they saw before they slept, an error of the        *)
(* socket, and die.  Tokens are left by whatever arrives, by the timed      *)
(* update and by SetDeadline.  Of the protocol below (Kcp.tla) this module  *)
(* keeps how many messages are ready, how many segments wait to be          *)
(* acknowledged, and the two windows these are compared with.               *)
(***************************************************************************)
EXTENDS Naturals, FiniteSets

CONSTANTS Readers, Writers,  \* the goroutines that call Read and Write
          IKcpWndSnd,        \* the own window of a new session
          IKcpWndRcv,        \* what a new session takes the peer's window to be
          MaxSnd,            \* bound: the windows SetWindowSize is called with
          MaxRmt,            \* bound: the windows of datagrams (2^16 - 1 in the code)
          MaxSegs,           \* bound: the segments of one WriteBuffers
          MaxData,           \* bound: messages that are ready
          MaxDeadlines       \* bound: deadlines set

ASSUME SessionAssumption ==
    /\ Readers # {} /\ Writers # {}
    /\ MaxSnd \in Nat \ {0} /\ IKcpWndSnd \in 1 .. MaxSnd
    /\ MaxRmt \in Nat /\ IKcpWndRcv \in 0 .. MaxRmt
    /\ MaxSegs \in Nat \ {0}
    /\ MaxData \in Nat /\ MaxDeadlines \in Nat

NoDeadline == 0
Deadlines == 1 .. MaxDeadlines

VARIABLES
    ready,     \* messages PeekSize sees
    bufptr,    \* the rest of a message is left in bufptr
    waitsnd,   \* kcp.WaitSnd()
    sndWnd, rmtWnd,          \* kcp.SndWnd, and kcp.RmtWnd of the last datagram
    widened,   \* history: SetWindowSize made room, and no write event has come since
    readEvent, writeEvent,   \* the tokens
    rpc, wpc,  \* where each caller is
    rtimer, wtimer,  \* the deadline each sleeper's timer is set to
    rd, wd,    \* the session's deadlines, by the order they were set
    passed,    \* the deadlines that have passed
    readError, writeError,   \* the socket's errors have been notified
    die,
    released,  \* Close has flushed and dropped the send queues
    set        \* how many deadlines have been set

readVars == <<rpc, rtimer>>
writeVars == <<wpc, wtimer>>
deadVars == <<rd, wd, passed, set>>
endVars == <<readError, writeError, die, released>>
wndVars == <<sndWnd, rmtWnd, widened>>
callVars == <<ready, bufptr, waitsnd, wndVars, readEvent, writeEvent, readVars, writeVars,
              deadVars, endVars>>

CallInit ==
    /\ ready = 0 /\ bufptr = FALSE /\ waitsnd = 0
    /\ sndWnd = IKcpWndSnd /\ rmtWnd = IKcpWndRcv /\ widened = FALSE
    /\ readEvent = FALSE /\ writeEvent = FALSE
    /\ rpc = [r \in Readers |-> "idle"]
    /\ rtimer = [r \in Readers |-> NoDeadline]
    /\ wpc = [w \in Writers |-> "idle"]
    /\ wtimer = [w \in Writers |-> NoDeadline]
    /\ rd = NoDeadline /\ wd = NoDeadline /\ passed = {} /\ set = 0
    /\ readError = FALSE /\ writeError = FALSE /\ die = FALSE /\ released = FALSE

\* WriteBuffers may go on: as many segments wait as neither window forbids.
Room == waitsnd < sndWnd /\ waitsnd < rmtWnd

\* Leave a token, if the condition holds; one that finds another is dropped.
NotifyReadEvent(condition) == readEvent' = (readEvent \/ condition)
NotifyWriteEvent(condition) ==
    /\ writeEvent' = (writeEvent \/ condition)
    /\ widened' = (widened /\ ~condition)

-----------------------------------------------------------------------------
ReadTo(r, to, timer) ==
    /\ rpc' = [rpc EXCEPT ![r] = to]
    /\ rtimer' = [rtimer EXCEPT ![r] = timer]

\* Read is called or woken.  With mu: take what is left of a message, or a message, of
\* which a rest is left if the caller's buffer is small ...
ReadData(r) ==
    /\ rpc[r] # "wait"
    /\ bufptr \/ ready > 0
    /\ ready' = IF bufptr THEN ready ELSE ready - 1
    /\ bufptr' \in BOOLEAN
    /\ ReadTo(r, "idle", NoDeadline)
    /\ UNCHANGED <<waitsnd, wndVars, readEvent, writeEvent, writeVars, deadVars, endVars>>

\* ... or return because the deadline has passed, or sleep.
ReadSleep(r) ==
    /\ rpc[r] # "wait"
    /\ ~bufptr /\ ready = 0
    /\ IF rd \in passed THEN ReadTo(r, "idle", NoDeadline) ELSE ReadTo(r, "wait", rd)
    /\ UNCHANGED <<ready, bufptr, waitsnd, wndVars, readEvent, writeEvent, writeVars,
                   deadVars, endVars>>

ReadWake(r) ==
    /\ rpc[r] = "wait"
    /\ readEvent
    /\ readEvent' = FALSE
    /\ ReadTo(r, "woken", NoDeadline)
    /\ UNCHANGED <<ready, bufptr, waitsnd, wndVars, writeEvent, writeVars, deadVars,
                   endVars>>

\* Broken form of ReadFails: the select does not listen to die.
ReadFailsDeaf(r) ==
    /\ rpc[r] = "wait"
    /\ rtimer[r] \in passed \/ readError
    /\ ReadTo(r, "idle", NoDeadline)
    /\ UNCHANGED <<ready, bufptr, waitsnd, wndVars, readEvent, writeEvent, writeVars,
                   deadVars, endVars>>

\* The timer, the socket's error or die ends the call.
ReadFails(r) ==
    /\ rpc[r] = "wait"
    /\ rtimer[r] \in passed \/ readError \/ die
    /\ ReadTo(r, "idle", NoDeadline)
    /\ UNCHANGED <<ready, bufptr, waitsnd, wndVars, readEvent, writeEvent, writeVars,
                   deadVars, endVars>>

-----------------------------------------------------------------------------
WriteTo(w, to, timer) ==
    /\ wpc' = [wpc EXCEPT ![w] = to]
    /\ wtimer' = [wtimer EXCEPT ![w] = timer]

\* What uncork sends may fail, which is notified once.
NotifyWriteError == writeError' = TRUE
Uncork == writeError' = writeError \/ NotifyWriteError

\* WriteBuffers is called or goes round its loop: an error or die ends it ...
WriteTest(w) ==
    /\ wpc[w] \in {"idle", "woken"}
    /\ WriteTo(w, IF writeError \/ die THEN "idle" ELSE "check", NoDeadline)
    /\ UNCHANGED <<ready, bufptr, waitsnd, wndVars, readEvent, writeEvent, readVars,
                   deadVars, endVars>>

\* ... with mu: if there is room, send all of the buffers, the segments that no longer
\* fit included, flush and uncork (die may be set by now) ...
WriteData(w) ==
    /\ wpc[w] = "check"
    /\ Room
    /\ \E segs \in 0 .. MaxSegs : waitsnd' = waitsnd + segs
    /\ Uncork
    /\ WriteTo(w, "idle", NoDeadline)
    /\ UNCHANGED <<ready, bufptr, wndVars, readEvent, writeEvent, readVars, deadVars,
                   readError, die, released>>

\* ... or return because the deadline has passed, or sleep.
WriteSleep(w) ==
    /\ wpc[w] = "check"
    /\ ~Room
    /\ IF wd \in passed THEN WriteTo(w, "idle", NoDeadline) ELSE WriteTo(w, "wait", wd)
    /\ UNCHANGED <<ready, bufptr, waitsnd, wndVars, readEvent, writeEvent, readVars,
                   deadVars, endVars>>

WriteWake(w) ==
    /\ wpc[w] = "wait"
    /\ writeEvent
    /\ writeEvent' = FALSE
    /\ WriteTo(w, "woken", NoDeadline)
    /\ UNCHANGED <<ready, bufptr, waitsnd, wndVars, readEvent, readVars, deadVars,
                   endVars>>

WriteFails(w) ==
    /\ wpc[w] = "wait"
    /\ wtimer[w] \in passed \/ writeError \/ die
    /\ WriteTo(w, "idle", NoDeadline)
    /\ UNCHANGED <<ready, bufptr, waitsnd, wndVars, readEvent, writeEvent, readVars,
                   deadVars, endVars>>

-----------------------------------------------------------------------------
\* kcpInput, with mu: messages get ready, segments are acknowledged and the peer's
\* window is what the last segment says, and each side is notified of what it now finds.
KcpInput(data, acked, wnd) ==
    /\ ready + data <= MaxData
    /\ acked <= waitsnd
    /\ ready' = ready + data
    /\ waitsnd' = waitsnd - acked
    /\ rmtWnd' = wnd
    /\ NotifyReadEvent(ready' > 0)
    /\ NotifyWriteEvent(waitsnd' < sndWnd /\ waitsnd' < wnd)
    /\ Uncork
    /\ UNCHANGED <<bufptr, sndWnd, readVars, writeVars, deadVars, readError, die,
                   released>>

\* SetWindowSize, which notifies nobody.
SetWindowSize(sndwnd) ==
    /\ sndWnd' = sndwnd
    /\ UNCHANGED <<ready, bufptr, waitsnd, rmtWnd, readEvent, writeEvent, readVars,
                   writeVars, deadVars, endVars>>
    /\ widened' = (widened \/ (~Room /\ Room'))

\* Broken form of Update: it does not notify the writers.
UpdateSilent ==
    /\ ~die
    /\ Uncork
    /\ UNCHANGED <<ready, bufptr, waitsnd, wndVars, readEvent, writeEvent, readVars,
                   writeVars, deadVars, readError, die, released>>

\* The timed update; it is put again until the session is closed.
Update ==
    /\ ~die
    /\ NotifyWriteEvent(Room)
    /\ Uncork
    /\ UNCHANGED <<ready, bufptr, waitsnd, sndWnd, rmtWnd, readEvent, readVars, writeVars,
                   deadVars, readError, die, released>>

\* readLoop, or the listener's monitor, gets an error of the socket.
NotifyReadError ==
    /\ ~readError
    /\ readError' = TRUE
    /\ UNCHANGED <<ready, bufptr, waitsnd, wndVars, readEvent, writeEvent, readVars,
                   writeVars, deadVars, writeError, die, released>>

\* Broken form of SetDeadline: the sleepers are not notified.
SetDeadlineSilent(sides) ==
    /\ set < MaxDeadlines
    /\ set' = set + 1
    /\ rd' = IF "read" \in sides THEN set + 1 ELSE rd
    /\ wd' = IF "write" \in sides THEN set + 1 ELSE wd
    /\ UNCHANGED <<ready, bufptr, waitsnd, wndVars, readEvent, writeEvent, readVars,
                   writeVars, passed, endVars>>

\* SetDeadline, SetReadDeadline and SetWriteDeadline.
SetDeadline(sides) ==
    /\ set < MaxDeadlines
    /\ set' = set + 1
    /\ rd' = IF "read" \in sides THEN set + 1 ELSE rd
    /\ wd' = IF "write" \in sides THEN set + 1 ELSE wd
    /\ NotifyReadEvent("read" \in sides)
    /\ NotifyWriteEvent("write" \in sides)
    /\ UNCHANGED <<ready, bufptr, waitsnd, sndWnd, rmtWnd, readVars, writeVars, passed,
                   endVars>>

Pass(d) ==
    /\ d <= set /\ d \notin passed
    /\ passed' = passed \cup {d}
    /\ UNCHANGED <<ready, bufptr, waitsnd, wndVars, readEvent, writeEvent, readVars,
                   writeVars, rd, wd, set, endVars>>

\* Close: die ...
Die ==
    /\ ~die
    /\ die' = TRUE
    /\ UNCHANGED <<ready, bufptr, waitsnd, wndVars, readEvent, writeEvent, readVars,
                   writeVars, deadVars, readError, writeError, released>>

\* kcp.ReleaseTX drops the send queues.
ReleaseTX == waitsnd' = 0

\* ... then with mu flush and release, without a notification.
CloseRelease ==
    /\ die /\ ~released
    /\ released' = TRUE
    /\ ReleaseTX
    /\ Uncork
    /\ UNCHANGED <<ready, bufptr, wndVars, readEvent, writeEvent, readVars, writeVars,
                   deadVars, readError, die>>

-----------------------------------------------------------------------------
ReadStep(r) == ReadData(r) \/ ReadSleep(r) \/ ReadWake(r) \/ ReadFails(r)
WriteStep(w) ==
    \/ WriteTest(w) /\ wpc[w] = "woken"
    \/ WriteData(w) \/ WriteSleep(w) \/ WriteWake(w) \/ WriteFails(w)

\* A Write that has room for one segment may add several.
MaxWaitSnd == MaxSnd - 1 + MaxSegs

Sides == {{"read", "write"}, {"read"}, {"write"}}

CallNext ==
    \/ \E r \in Readers : ReadStep(r)
    \/ \E w \in Writers : WriteTest(w) \/ WriteStep(w)
    \/ \E data \in 0 .. MaxData, acked \in 0 .. MaxWaitSnd, wnd \in 0 .. MaxRmt :
          KcpInput(data, acked, wnd)
    \/ \E sndwnd \in 1 .. MaxSnd : SetWindowSize(sndwnd)
    \/ Update \/ NotifyReadError \/ Die \/ CloseRelease
    \/ \E sides \in Sides : SetDeadline(sides)
    \/ \E d \in Deadlines : Pass(d)

CallSpec == CallInit /\ [][CallNext]_callVars

\* Callers run; one of several sleepers is not passed over for ever by the
\* tokens (a Go channel serves its receivers in order); the timed update is
\* executed (TimedSched.tla), and no error of the socket helps.
Fairness ==
    /\ \A r \in Readers : WF_callVars(ReadStep(r) /\ rpc[r] # "idle")
    /\ \A w \in Writers : WF_callVars(WriteStep(w)) /\ SF_callVars(WriteWake(w))
    /\ WF_callVars(Update /\ writeError' = writeError)

FairSpec == CallSpec /\ Fairness

-----------------------------------------------------------------------------
CallTypeOK ==
    /\ ready \in 0 .. MaxData /\ waitsnd \in 0 .. MaxWaitSnd
    /\ sndWnd \in 1 .. MaxSnd /\ rmtWnd \in 0 .. MaxRmt
    /\ set \in 0 .. MaxDeadlines /\ rd \in 0 .. set /\ wd \in 0 .. set
    /\ passed \subseteq 1 .. set
    /\ \A b \in {bufptr, readEvent, writeEvent, readError, writeError, die, released,
             widened} : b \in BOOLEAN
    /\ rpc \in [Readers -> {"idle", "wait", "woken"}]
    /\ wpc \in [Writers -> {"idle", "check", "wait", "woken"}]
    /\ rtimer \in [Readers -> 0 .. set] /\ wtimer \in [Writers -> 0 .. set]

\* The readers do not all sleep while there is something to read, nor on an old
\* deadline: the one token is enough because whoever takes it looks at both.
\* (One of two may: it sleeps on until the other comes back.)
ReadersAwake ==
    (\A r \in Readers : rpc[r] = "wait") /\ ~readEvent =>
        ready = 0 /\ ~bufptr /\ (\E r \in Readers : rtimer[r] = rd)

\* The writers do not all sleep on an old deadline, nor while there is room, however
\* the windows and the queues have changed: only room that SetWindowSize has made, or
\* the Close that drops the queues, is announced by nobody.
WritersAwake ==
    (\A w \in Writers : wpc[w] = "wait") /\ ~writeEvent =>
        (Room => released \/ widened) /\ (\E w \in Writers : wtimer[w] = wd)

\* No wake-up is lost although a token that finds one pending is dropped.
NoLostWakeup == ReadersAwake /\ WritersAwake

\* What a caller may not stay in: a Write asleep on room, a Write after a failed send, a
\* Read after an error of the socket, either after Close.
WriteHeld(w) == (wpc[w] = "wait" /\ Room) \/ (wpc[w] # "idle" /\ (die \/ writeError))
ReadHeld(r) == rpc[r] # "idle" /\ (die \/ readError)

\* No Write sleeps on for ever while there is room: the timed update repeats a
\* notification that another writer has used up and makes up for the one SetWindowSize
\* leaves out, whether or not the peer is heard of again.  Once the session is closed or
\* its socket broken, every Read and Write under way returns, also one that has been
\* woken for nothing and goes round its loop.
CallsReturn ==
    /\ \A w \in Writers : []<>~WriteHeld(w)
    /\ \A r \in Readers : []<>~ReadHeld(r)
=============================================================================
