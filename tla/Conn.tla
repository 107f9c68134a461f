-------------------------------- MODULE Conn --------------------------------
(***************************************************************************)
(* The write side of a connection: network/tcp/conn.go, network/kcp/conn.go*)
(* and network/ws/conn.go, three copies of one design.                     *)
(*                                                                         *)
(* Goroutines call Write; a message goes through the bounded channel wCh   *)
(* to one writer goroutine, which writes it to the socket.  Close sends a  *)
(* nil message through the same channel: the writer leaves its loop on it  *)
(* (or on a write error), closes the socket, takes the mutex and sets      *)
(* isClose.  The session's own goroutine (Owner) calls Close when its read *)
(* loop ends; every other Close comes from a Write that finds wCh full.    *)
(*                                                                         *)
(* The three copies differ in one statement: Close of tcp and kcp sets     *)
(* isClose after the send, Close of ws does not.                           *)
(***************************************************************************)
EXTENDS Naturals, Sequences

CONSTANTS Procs,     \* goroutines that hold the session
          Owner,     \* the one that runs session.Run and then co.Close
          NoProc,    \* the mutex is free
          Cap,       \* capacity of wCh
          MaxMsgs,   \* bound: calls of Write in a behaviour
          Kinds      \* which of the three copies are considered

ASSUME ConnAssumption ==
    /\ Owner \in Procs
    /\ NoProc \notin Procs
    /\ Cap \in Nat \ {0}
    /\ MaxMsgs \in Nat
    /\ Kinds \subseteq {"tcp", "kcp", "ws"}

Nil == 0             \* the sentinel; a message is the number of its Write call

VARIABLES
    kind,       \* the copy of the code this behaviour is about, fixed in Init
    wCh,        \* the write channel
    isClose,    \* Conn.isClose
    lock,       \* holder of the embedded mutex
    pc,         \* where each goroutine is in Write or Close
    msg,        \* the message each goroutine is writing
    next,       \* number of Write calls so far
    ended,      \* the owner has called Close
    wpc,        \* where the writer goroutine is
    hand,       \* what the writer received last and has not written
    sock,       \* the socket: open, broken (peer or server closed it) or closed
    werr,       \* a write to the socket has failed
    accepted,   \* history: everything ever sent to wCh
    written     \* history: everything written to the socket

vars == <<kind, wCh, isClose, lock, pc, msg, next, ended,
          wpc, hand, sock, werr, accepted, written>>

callVars == <<pc, msg, next, ended>>
writerVars == <<wpc, hand, werr, written>>

Init ==
    /\ kind \in Kinds
    /\ wCh = <<>>
    /\ isClose = FALSE
    /\ lock = NoProc
    /\ pc = [p \in Procs |-> "idle"]
    /\ msg = [p \in Procs |-> Nil]
    /\ next = 0
    /\ ended = FALSE
    /\ wpc = "recv"
    /\ hand = <<>>
    /\ sock = "open"
    /\ werr = FALSE
    /\ accepted = <<>>
    /\ written = <<>>

-----------------------------------------------------------------------------
Goto(p, l) == pc' = [pc EXCEPT ![p] = l]

\* The call returns; its message is garbage from here on.
Return(p) ==
    /\ Goto(p, "idle")
    /\ msg' = [msg EXCEPT ![p] = Nil]

\* Broken form of Push: the channel is not bounded.
UnboundedPush(m) ==
    /\ wCh' = Append(wCh, m)
    /\ accepted' = Append(accepted, m)

\* A send on wCh: blocks while the channel is full.
Push(m) ==
    /\ Len(wCh) < Cap
    /\ wCh' = Append(wCh, m)
    /\ accepted' = Append(accepted, m)

\* Write reads isClose without the mutex: on a closed connection the message
\* is dropped and the call returns nil.
WriteCheck(p) ==
    /\ pc[p] = "idle"
    /\ next < MaxMsgs
    /\ next' = next + 1
    /\ IF isClose
       THEN UNCHANGED <<pc, msg>>
       ELSE /\ msg' = [msg EXCEPT ![p] = next + 1]
            /\ Goto(p, "len")
    /\ UNCHANGED <<kind, wCh, isClose, lock, ended, sock, accepted, writerVars>>

\* Then it compares len(wCh) and cap(wCh), still without the mutex: a full
\* channel turns the Write into a Close.
WriteLen(p) ==
    /\ pc[p] = "len"
    /\ IF Len(wCh) = Cap
       THEN /\ Goto(p, "close")
            /\ msg' = [msg EXCEPT ![p] = Nil]
       ELSE /\ Goto(p, "send")
            /\ UNCHANGED msg
    /\ UNCHANGED <<kind, wCh, isClose, lock, next, ended, sock, accepted,
                   writerVars>>

\* Then it sends, and blocks if the channel has filled up in between.
WriteSend(p) ==
    /\ pc[p] = "send"
    /\ Push(msg[p])
    /\ Return(p)
    /\ UNCHANGED <<kind, isClose, lock, next, ended, sock, writerVars>>

\* The session's read loop ends, for any of its reasons: co.Close().
OwnerClose ==
    /\ pc[Owner] = "idle"
    /\ ~ended
    /\ ended' = TRUE
    /\ Goto(Owner, "close")
    /\ UNCHANGED <<kind, wCh, isClose, lock, msg, next, sock, accepted,
                   writerVars>>

\* Broken forms of CloseLock: the early return forgets the mutex; isClose is not
\* looked at; isClose is set before the sentinel is sent.
CloseLockLeaking(p) ==
    /\ pc[p] = "close"
    /\ lock = NoProc
    /\ lock' = p
    /\ Goto(p, IF isClose THEN "idle" ELSE "push")
    /\ UNCHANGED <<kind, wCh, isClose, msg, next, ended, sock, accepted,
                   writerVars>>

CloseLockUnchecked(p) ==
    /\ pc[p] = "close"
    /\ lock = NoProc
    /\ lock' = p
    /\ Goto(p, "push")
    /\ UNCHANGED <<kind, wCh, isClose, msg, next, ended, sock, accepted,
                   writerVars>>

CloseLockMarking(p) ==
    /\ pc[p] = "close"
    /\ lock = NoProc
    /\ isClose' = TRUE
    /\ IF isClose
       THEN /\ Goto(p, "idle")
            /\ UNCHANGED lock
       ELSE /\ Goto(p, "push")
            /\ lock' = p
    /\ UNCHANGED <<kind, wCh, msg, next, ended, sock, accepted, writerVars>>

\* Close takes the mutex and returns if isClose is set ...
CloseLock(p) ==
    /\ pc[p] = "close"
    /\ lock = NoProc
    /\ IF isClose
       THEN /\ Goto(p, "idle")
            /\ UNCHANGED lock
       ELSE /\ Goto(p, "push")
            /\ lock' = p
    /\ UNCHANGED <<kind, wCh, isClose, msg, next, ended, sock, accepted,
                   writerVars>>

\* Broken form of ClosePush: a non-blocking send, given up when wCh is full.
ClosePushOrSkip(p) ==
    /\ pc[p] = "push"
    /\ IF Len(wCh) < Cap THEN Push(Nil) ELSE UNCHANGED <<wCh, accepted>>
    /\ IF kind = "ws"
       THEN /\ Goto(p, "idle")
            /\ lock' = NoProc
       ELSE /\ Goto(p, "mark")
            /\ UNCHANGED lock
    /\ UNCHANGED <<kind, isClose, msg, next, ended, sock, writerVars>>

\* ... sends the sentinel with the mutex held, blocking while wCh is full; the
\* ws copy ends here ...
ClosePush(p) ==
    /\ pc[p] = "push"
    /\ Push(Nil)
    /\ IF kind = "ws"
       THEN /\ Goto(p, "idle")
            /\ lock' = NoProc
       ELSE /\ Goto(p, "mark")
            /\ UNCHANGED lock
    /\ UNCHANGED <<kind, isClose, msg, next, ended, sock, writerVars>>

\* Broken form of CloseMark: tcp and kcp without the assignment, as in ws.
CloseMarkMissing(p) ==
    /\ pc[p] = "mark"
    /\ lock' = NoProc
    /\ Goto(p, "idle")
    /\ UNCHANGED <<kind, wCh, isClose, msg, next, ended, sock, accepted,
                   writerVars>>

\* ... and sets isClose.
CloseMark(p) ==
    /\ pc[p] = "mark"
    /\ isClose' = TRUE
    /\ lock' = NoProc
    /\ Goto(p, "idle")
    /\ UNCHANGED <<kind, wCh, msg, next, ended, sock, accepted, writerVars>>

-----------------------------------------------------------------------------
\* The writer goroutine: range over wCh, break on nil ...
WriterRecv ==
    /\ wpc = "recv"
    /\ wCh # <<>>
    /\ hand' = <<Head(wCh)>>
    /\ wCh' = Tail(wCh)
    /\ wpc' = IF Head(wCh) = Nil THEN "shut" ELSE "write"
    /\ UNCHANGED <<kind, isClose, lock, sock, werr, accepted, written, callVars>>

\* Broken form of WriterWrite: a failed message is dropped and the loop goes on.
WriterWriteKeepsOn ==
    /\ wpc = "write"
    /\ written' = IF sock = "open" THEN written \o hand ELSE written
    /\ werr' = (werr \/ sock # "open")
    /\ hand' = <<>>
    /\ wpc' = "recv"
    /\ UNCHANGED <<kind, wCh, isClose, lock, sock, accepted, callVars>>

\* ... write, break on an error ...
WriterWrite ==
    /\ wpc = "write"
    /\ IF sock = "open"
       THEN /\ written' = written \o hand
            /\ hand' = <<>>
            /\ wpc' = "recv"
            /\ UNCHANGED werr
       ELSE /\ werr' = TRUE
            /\ wpc' = "shut"
            /\ UNCHANGED <<hand, written>>
    /\ UNCHANGED <<kind, wCh, isClose, lock, sock, accepted, callVars>>

\* ... close the socket ...
WriterShut ==
    /\ wpc = "shut"
    /\ sock' = "closed"
    /\ wpc' = "lock"
    /\ UNCHANGED <<kind, wCh, isClose, lock, accepted, hand, werr, written,
                   callVars>>

\* ... and set isClose with the mutex held.
WriterMark ==
    /\ wpc = "lock"
    /\ lock = NoProc
    /\ isClose' = TRUE
    /\ wpc' = "done"
    /\ UNCHANGED <<kind, wCh, lock, sock, accepted, hand, werr, written,
                   callVars>>

\* The peer resets the connection, or Stop closes the socket under the Conn.
SockBreak ==
    /\ sock = "open"
    /\ sock' = "broken"
    /\ UNCHANGED <<kind, wCh, isClose, lock, accepted, callVars, writerVars>>

-----------------------------------------------------------------------------
WriterStep == WriterRecv \/ WriterWrite \/ WriterShut \/ WriterMark

CallStep(p) ==
    WriteLen(p) \/ WriteSend(p) \/ CloseLock(p) \/ ClosePush(p) \/ CloseMark(p)

Next ==
    \/ \E p \in Procs : WriteCheck(p) \/ CallStep(p)
    \/ OwnerClose
    \/ WriterStep
    \/ SockBreak

Spec == Init /\ [][Next]_vars

\* Goroutines that can run do; a mutex and a channel serve their waiters in
\* turn (Go's mutex hands over to a waiter it has starved, blocked senders
\* queue), hence strong fairness: a step that waits for one is taken if it is
\* possible again and again.  That a write to the socket returns is an
\* assumption on the peer: it reads, or the connection breaks.
Fairness ==
    /\ SF_vars(WriterStep)
    /\ \A p \in Procs : SF_vars(CallStep(p))

FairSpec == Spec /\ Fairness

-----------------------------------------------------------------------------
TypeOK ==
    /\ kind \in {"tcp", "kcp", "ws"}
    /\ wCh \in Seq(Nat)
    /\ Len(wCh) <= Cap
    /\ isClose \in BOOLEAN
    /\ lock \in Procs \cup {NoProc}
    /\ pc \in [Procs -> {"idle", "len", "send", "close", "push", "mark"}]
    /\ msg \in [Procs -> Nat]
    /\ next \in Nat
    /\ ended \in BOOLEAN
    /\ wpc \in {"recv", "write", "shut", "lock", "done"}
    /\ hand \in Seq(Nat)
    /\ sock \in {"open", "broken", "closed"}
    /\ werr \in BOOLEAN
    /\ accepted \in Seq(Nat)
    /\ written \in Seq(Nat)

\* The writer has left its loop.
WriterGone == wpc \in {"shut", "lock", "done"}

\* s holds a sentinel.
HasNil(s) == \E i \in 1 .. Len(s) : s[i] = Nil

\* Nothing is lost, reordered or repeated between the send on wCh and the
\* socket: what was accepted is what was written, then what the writer holds,
\* then what is queued; and a writer that has gone without a write error holds
\* the sentinel, so everything accepted before the (first) Close was written.
Flushed ==
    /\ accepted = written \o hand \o wCh
    /\ ~HasNil(written)
    /\ WriterGone /\ ~werr => hand = <<Nil>>

\* Two Closes never both send the sentinel (tcp, kcp), although Write tests
\* isClose and the channel's length outside the mutex.  The ws copy does not
\* promise it: its Close does not set isClose.
OneSentinel ==
    kind # "ws" =>
        \A i, j \in 1 .. Len(accepted) :
            accepted[i] = Nil /\ accepted[j] = Nil => i = j

\* A goroutine waits in Close, with the mutex, for room in a channel nobody
\* receives from any more: it, every later Close and the writer's last step
\* wait for ever.
Wedged(p) == pc[p] = "push" /\ WriterGone /\ Len(wCh) = Cap

\* In the tcp and kcp copies that takes a failed write: a writer that went
\* because of a Close has received the only sentinel there will be, and no
\* other goroutine is sending one.
WedgeNeedsWriteError ==
    kind # "ws" => \A p \in Procs : Wedged(p) => werr

\* A connection that calls itself closed is going down: the writer has gone or
\* will find the sentinel, so Write never starts dropping messages silently on
\* a connection whose socket nobody is going to close.
ClosedIsEnding ==
    isClose => WriterGone \/ HasNil(wCh)

\* When the session ends, its socket is closed, whatever the other goroutines
\* are doing and also when Close itself never returns.
CloseShuts == ended ~> sock = "closed"

\* Every Write and every Close returns, unless the channel is full and the
\* writer has gone.
CallsReturn ==
    \A p \in Procs :
        pc[p] # "idle" ~> pc[p] = "idle" \/ (WriterGone /\ Len(wCh) = Cap)
=============================================================================
