------------------------------- MODULE Server -------------------------------
(***************************************************************************)
(* The life of a server and its connections: network/tcp/server.go,        *)
(* network/kcp/server.go and network/ws/server.go.                         *)
(*                                                                         *)
(* The application calls Start in a goroutine, which panics if Start       *)
(* returns an error (app.go, Run), and may call Stop at any time, before   *)
(* Start has got anywhere too (app.go, doClose).                           *)
(*                                                                         *)
(* tcp and kcp accept in one goroutine (run), which checks MaxConnNum,     *)
(* registers the connection in svr.conns and starts a goroutine for its    *)
(* session; ws accepts in Start itself, and runs each connection in the    *)
(* goroutine net/http gives it.  Stop closes the listener, waits for wgLn, *)
(* closes every registered connection, sets svr.conns to nil and waits for *)
(* wgConns.                                                                *)
(*                                                                         *)
(*            acceptor in wgLn   sessions in wgConns   Accept after Stop   *)
(*     tcp         yes                 yes             run returns         *)
(*     kcp         no                  yes             run panics, or goes *)
(*                                                     on accepting        *)
(*     ws          no                  no              Serve returns, and  *)
(*                                                     Start its error     *)
(*                                                                         *)
(* A session's co.Close may wait for ever: Conn.tla says when.             *)
(***************************************************************************)
EXTENDS Naturals, FiniteSets

CONSTANTS Conns,        \* the connections peers try to open
          MaxConnNum,   \* ServerOptions.MaxConnNum
          Kinds         \* which servers are considered

ASSUME ServerAssumption ==
    /\ IsFiniteSet(Conns)
    /\ MaxConnNum \in Nat
    /\ Kinds \subseteq {"tcp", "kcp", "ws"}

VARIABLES
    kind,      \* the server of this behaviour, fixed in Init
    start,     \* how far Start is
    lnOpen,    \* the listener is open
    acc,       \* where the accepting goroutine is
    conns,     \* the keys of svr.conns
    connsNil,  \* svr.conns is nil
    wgLn,      \* the counters of the two WaitGroups
    wgConns,
    cst,       \* where each connection is
    shut,      \* the connections whose socket the server has closed
    stop,      \* where Stop is
    panicked   \* the process has panicked

connVars == <<conns, connsNil, cst, shut>>
vars == <<kind, start, lnOpen, acc, connVars, wgLn, wgConns, stop, panicked>>

Init ==
    /\ kind \in Kinds
    /\ start = "off"
    /\ lnOpen = FALSE
    /\ acc = "off"
    /\ conns = {}
    /\ connsNil = TRUE
    /\ wgLn = 0
    /\ wgConns = 0
    /\ cst = [c \in Conns |-> "none"]
    /\ shut = {}
    /\ stop = "idle"
    /\ panicked = FALSE

Alive == ~panicked

\* Connection c moves to a state.
Move(c, to) == cst' = [cst EXCEPT ![c] = to]

Panic ==
    /\ panicked' = TRUE
    /\ UNCHANGED <<kind, start, lnOpen, acc, connVars, wgLn, wgConns, stop>>

-----------------------------------------------------------------------------
\* Start: listen; if that fails Start returns the error and its goroutine panics.
Listen ==
    /\ Alive
    /\ start = "off"
    /\ \/ /\ start' = "listening"
          /\ lnOpen' = TRUE
          /\ UNCHANGED <<kind, acc, connVars, wgLn, wgConns, stop, panicked>>
       \/ Panic

\* svr.ln = ln, without a lock ...
AssignLn ==
    /\ Alive
    /\ start = "listening"
    /\ start' = "assigned"
    /\ UNCHANGED <<kind, lnOpen, acc, connVars, wgLn, wgConns, stop, panicked>>

\* ... and the map, which may come after a Stop has dropped the one that was not
\* yet there.
MakeConns ==
    /\ Alive
    /\ start = "assigned"
    /\ start' = "made"
    /\ conns' = {}
    /\ connsNil' = FALSE
    /\ UNCHANGED <<kind, lnOpen, acc, cst, shut, wgLn, wgConns, stop, panicked>>

\* A peer connects: the connection waits in the listener's queue.
Arrive(c) ==
    /\ Alive
    /\ lnOpen
    /\ cst[c] = "none"
    /\ Move(c, "queued")
    /\ UNCHANGED <<kind, start, lnOpen, acc, conns, connsNil, shut, wgLn, wgConns, stop,
                   panicked>>

\* The accepting goroutine starts (tcp, kcp), or Start calls Serve (ws); tcp's adds
\* itself to wgLn only here, which may be after Stop has waited for wgLn.
RunBegin ==
    /\ Alive
    /\ start = "made"
    /\ acc = "off"
    /\ acc' = "accept"
    /\ wgLn' = IF kind = "tcp" THEN wgLn + 1 ELSE wgLn
    /\ UNCHANGED <<kind, start, lnOpen, connVars, wgConns, stop, panicked>>

\* Accept returns a connection.  AcceptKCP selects between the queue of
\* sessions and the listener's end, so that kcp may do so after Stop.  In ws the
\* accepting goroutine hands it over (the upgrade) and goes on.
Accept(c) ==
    /\ Alive
    /\ acc = "accept"
    /\ cst[c] = "queued"
    /\ lnOpen \/ kind = "kcp"
    /\ Move(c, "accepted")
    /\ acc' = IF kind = "ws" THEN "accept" ELSE "admit"
    /\ UNCHANGED <<kind, start, lnOpen, conns, connsNil, shut, wgLn, wgConns, stop, panicked>>

\* Broken form of AcceptError: run returns without wgLn.Done().
AcceptErrorNoDone ==
    /\ Alive
    /\ acc = "accept"
    /\ kind = "ws" => ~lnOpen
    /\ IF kind = "kcp"
       THEN Panic
       ELSE /\ acc' = "exit"
            /\ UNCHANGED <<kind, start, lnOpen, connVars, wgLn, wgConns, stop, panicked>>

\* Accept fails, because the listener is closed or for a reason of the system's
\* (no more file descriptors, say), which net/http waits out: run returns (tcp),
\* panics (kcp), and Serve returns its error to Start (ws).
AcceptError ==
    /\ Alive
    /\ acc = "accept"
    /\ kind = "ws" => ~lnOpen
    /\ IF kind = "kcp"
       THEN Panic
       ELSE /\ acc' = "exit"
            /\ wgLn' = IF kind = "tcp" THEN wgLn - 1 ELSE wgLn
            /\ UNCHANGED <<kind, start, lnOpen, connVars, wgConns, stop, panicked>>

\* ws: Start returns Serve's error, and the goroutine that called it panics.
StartError ==
    /\ Alive
    /\ kind = "ws"
    /\ acc = "exit"
    /\ Panic

\* Broken form of Admit: the limit is off by one.
AdmitOneMore(c) ==
    /\ Alive
    /\ cst[c] = "accepted"
    /\ acc' = IF kind = "ws" THEN acc ELSE "spawn"
    /\ Cardinality(conns) <= MaxConnNum
    /\ conns' = conns \cup {c}
    /\ Move(c, IF kind = "ws" THEN "running" ELSE "admitted")
    /\ UNCHANGED <<kind, start, lnOpen, connsNil, shut, wgLn, wgConns, stop, panicked>>

\* With mutexConns held: refuse (ws after Stop, or too many), or register; a
\* registration in the nil map panics.
Admit(c) ==
    /\ Alive
    /\ cst[c] = "accepted"
    /\ \/ /\ Cardinality(conns) >= MaxConnNum \/ (kind = "ws" /\ connsNil)
          /\ Move(c, "refused")
          /\ shut' = shut \cup {c}
          /\ acc' = IF kind = "ws" THEN acc ELSE "accept"
          /\ UNCHANGED <<kind, start, lnOpen, conns, connsNil, wgLn, wgConns, stop, panicked>>
       \/ /\ Cardinality(conns) < MaxConnNum
          /\ ~connsNil
          /\ conns' = conns \cup {c}
          /\ Move(c, IF kind = "ws" THEN "running" ELSE "admitted")
          /\ acc' = IF kind = "ws" THEN acc ELSE "spawn"
          /\ UNCHANGED <<kind, start, lnOpen, connsNil, shut, wgLn, wgConns, stop, panicked>>
       \/ /\ Cardinality(conns) < MaxConnNum
          /\ kind # "ws"
          /\ connsNil
          /\ Panic

\* Broken form of Spawn: no wgConns.Add(1).
SpawnNoAdd(c) ==
    /\ Alive
    /\ acc = "spawn"
    /\ cst[c] = "admitted"
    /\ Move(c, "running")
    /\ acc' = "accept"
    /\ UNCHANGED <<kind, start, lnOpen, conns, connsNil, shut, wgLn, wgConns, stop, panicked>>

\* tcp and kcp: wgConns.Add(1), outside the mutex, and the session's goroutine.
Spawn(c) ==
    /\ Alive
    /\ acc = "spawn"
    /\ cst[c] = "admitted"
    /\ Move(c, "running")
    /\ wgConns' = wgConns + 1
    /\ acc' = "accept"
    /\ UNCHANGED <<kind, start, lnOpen, conns, connsNil, shut, wgLn, stop, panicked>>

-----------------------------------------------------------------------------
\* session.Run returns: the peer has gone, a message cannot be read, or this
\* side has closed the socket.
SessionEnd(c) ==
    /\ Alive
    /\ cst[c] = "running"
    /\ Move(c, "closing")
    /\ UNCHANGED <<kind, start, lnOpen, acc, conns, connsNil, shut, wgLn, wgConns, stop,
                   panicked>>

\* co.Close returns (the connection's writer closes the socket, see Conn.tla) ...
CoClose(c) ==
    /\ Alive
    /\ cst[c] = "closing"
    /\ Move(c, "closed")
    /\ UNCHANGED <<kind, start, lnOpen, acc, conns, connsNil, shut, wgLn, wgConns, stop,
                   panicked>>

\* ... or not.
CoCloseHangs(c) ==
    /\ Alive
    /\ cst[c] = "closing"
    /\ Move(c, "hung")
    /\ UNCHANGED <<kind, start, lnOpen, acc, conns, connsNil, shut, wgLn, wgConns, stop,
                   panicked>>

\* delete(svr.conns, conn), harmless on a nil map.
Delete(c) ==
    /\ Alive
    /\ cst[c] = "closed"
    /\ conns' = conns \ {c}
    /\ Move(c, "deleted")
    /\ UNCHANGED <<kind, start, lnOpen, acc, connsNil, shut, wgLn, wgConns, stop, panicked>>

\* Broken form of OnClose: wgConns.Done() before the handler's OnClose.
DoneBeforeOnClose(c) ==
    /\ Alive
    /\ \/ /\ cst[c] = "deleted"
          /\ kind # "ws"
          /\ Move(c, "signalled")
          /\ wgConns' = wgConns - 1
       \/ /\ cst[c] = "signalled" \/ (cst[c] = "deleted" /\ kind = "ws")
          /\ Move(c, "done")
          /\ UNCHANGED wgConns
    /\ UNCHANGED <<kind, start, lnOpen, acc, conns, connsNil, shut, wgLn, stop, panicked>>

\* The handler's OnClose, then wgConns.Done() in tcp and kcp.
OnClose(c) ==
    /\ Alive
    /\ cst[c] = "deleted"
    /\ Move(c, "done")
    /\ wgConns' = IF kind = "ws" THEN wgConns ELSE wgConns - 1
    /\ UNCHANGED <<kind, start, lnOpen, acc, conns, connsNil, shut, wgLn, stop, panicked>>

-----------------------------------------------------------------------------
\* Stop: close the listener.  Before svr.ln is assigned that is a method of nil,
\* which panics.  The interface value of tcp and ws has two words: a Stop that runs
\* into the assignment may find its type and no pointer, of which Close returns an
\* error that Stop ignores, and the listener stays open.
StopListen ==
    /\ Alive
    /\ stop = "idle"
    /\ \/ /\ start \in {"off", "listening"}
          /\ Panic
       \/ /\ start = "listening"
          /\ kind # "kcp"
          /\ stop' = "waitLn"
          /\ UNCHANGED <<kind, start, lnOpen, acc, connVars, wgLn, wgConns, panicked>>
       \/ /\ start \in {"assigned", "made"}
          /\ lnOpen' = FALSE
          /\ stop' = "waitLn"
          /\ UNCHANGED <<kind, start, acc, connVars, wgLn, wgConns, panicked>>

\* Broken form of StopWaitLn: Stop does not wait for the accepting goroutine.
StopNoWaitLn ==
    /\ Alive
    /\ stop = "waitLn"
    /\ stop' = "closeConns"
    /\ UNCHANGED <<kind, start, lnOpen, acc, connVars, wgLn, wgConns, panicked>>

\* ... wait for wgLn ...
StopWaitLn ==
    /\ Alive
    /\ stop = "waitLn"
    /\ wgLn = 0
    /\ stop' = "closeConns"
    /\ UNCHANGED <<kind, start, lnOpen, acc, connVars, wgLn, wgConns, panicked>>

\* Broken form of StopConns: the sockets are left to their sessions.
StopConnsOpen ==
    /\ Alive
    /\ stop = "closeConns"
    /\ conns' = {}
    /\ connsNil' = TRUE
    /\ stop' = "waitConns"
    /\ UNCHANGED <<kind, start, lnOpen, acc, cst, shut, wgLn, wgConns, panicked>>

\* ... close every registered connection and drop the map, with mutexConns ...
StopConns ==
    /\ Alive
    /\ stop = "closeConns"
    /\ shut' = shut \cup conns
    /\ conns' = {}
    /\ connsNil' = TRUE
    /\ stop' = "waitConns"
    /\ UNCHANGED <<kind, start, lnOpen, acc, cst, wgLn, wgConns, panicked>>

\* ... and wait for wgConns.
StopWaitConns ==
    /\ Alive
    /\ stop = "waitConns"
    /\ wgConns = 0
    /\ stop' = "returned"
    /\ UNCHANGED <<kind, start, lnOpen, acc, connVars, wgLn, wgConns, panicked>>

-----------------------------------------------------------------------------
AcceptorStep ==
    \/ AssignLn
    \/ MakeConns
    \/ RunBegin
    \/ AcceptError
    \/ StartError
    \/ \E c \in Conns : Accept(c) \/ Spawn(c)

SessionStep(c) == Admit(c) \/ CoClose(c) \/ Delete(c) \/ OnClose(c)

StopStep == StopWaitLn \/ StopConns \/ StopWaitConns

Next ==
    \/ Listen
    \/ AcceptorStep
    \/ \E c \in Conns :
          Arrive(c) \/ SessionEnd(c) \/ SessionStep(c) \/ CoCloseHangs(c)
    \/ StopListen
    \/ StopStep

Spec == Init /\ [][Next]_vars

\* Goroutines that can run do, handlers return, and a session whose socket is
\* closed notices it.  Peers and the caller of Stop owe nothing, and a co.Close
\* that can return may still hang.
Fairness ==
    /\ WF_vars(AcceptorStep)
    /\ WF_vars(StopStep)
    /\ \A c \in Conns :
          /\ WF_vars(SessionStep(c))
          /\ WF_vars(SessionEnd(c) /\ c \in shut)

FairSpec == Spec /\ Fairness

-----------------------------------------------------------------------------
TypeOK ==
    /\ kind \in {"tcp", "kcp", "ws"}
    /\ start \in {"off", "listening", "assigned", "made"}
    /\ lnOpen \in BOOLEAN
    /\ acc \in {"off", "accept", "admit", "spawn", "exit"}
    /\ conns \subseteq Conns
    /\ connsNil \in BOOLEAN
    /\ wgLn \in 0 .. 1
    /\ wgConns \in 0 .. Cardinality(Conns)
    /\ cst \in [Conns -> {"none", "queued", "accepted", "refused", "admitted",
                          "running", "closing", "hung", "closed", "deleted", "done"}]
    /\ shut \subseteq Conns
    /\ stop \in {"idle", "waitLn", "closeConns", "waitConns", "returned"}
    /\ panicked \in BOOLEAN

\* The connections that count as open: registered and not yet deleted.
Live == {c \in Conns : cst[c] \in {"admitted", "running", "closing", "hung", "closed"}}

\* Stop met svr.ln half assigned, and has left the listener open.
Torn == lnOpen /\ stop # "idle"

\* While there is a map svr.conns holds exactly the live connections, and there are
\* never more than MaxConnNum of them, however connections that arrive and
\* connections that end interleave (the limit is tested and the map changed in
\* one critical section; a connection leaves the map after its Close).
Limit ==
    /\ Cardinality(Live) <= MaxConnNum
    /\ ~connsNil => conns = Live

\* After Stop has gone through the map no session runs on an open socket: a
\* connection accepted before Stop is registered in time to be closed, or is
\* closed by whoever accepted it.  A Stop in the middle of Start is the exception:
\* if Start makes the map after Stop has dropped it, a kcp server goes on to accept
\* what is queued, and a torn tcp or ws server whatever comes.
NoSessionSurvives ==
    Alive /\ stop \in {"waitConns", "returned"} /\ (connsNil \/ (kind # "kcp" /\ ~Torn)) =>
        \A c \in Conns : cst[c] \in {"admitted", "running"} => c \in shut

\* When Stop of a tcp server that closed the listener returns, nothing of it is left:
\* no session, no pending OnClose, no accepted connection, also if Start is not over.
\* (ws Stop does not wait for its sessions, and a kcp one can miss a connection being
\* accepted.)
QuietAfterStop ==
    kind = "tcp" /\ stop = "returned" /\ ~Torn =>
        \A c \in Conns : cst[c] \in {"none", "queued", "refused", "done"}

\* Once svr.ln is assigned no tcp server panics, wherever Stop finds it: its accepting
\* goroutine never meets the nil map although it may start after Stop has waited for
\* it.  A ws server panics only because Serve returns, which it does after a Stop, and
\* a kcp one on every error of its listener and in the nil map.  (Before the
\* assignment Stop panics, and so does a Start that cannot listen.)
PanicOnlyBy ==
    panicked /\ start \in {"assigned", "made"} /\ ~Torn =>
        \/ kind = "kcp"
        \/ kind = "ws" /\ acc = "exit" /\ stop # "idle"

\* Stop of a tcp or ws server that closed the listener returns, unless the Close of one
\* of the connections hangs; in ws the panic of Start's goroutine may come first.
StopReturns ==
    (kind # "kcp" /\ stop # "idle" /\ ~Torn)
        ~> \/ stop = "returned"
           \/ \E c \in Conns : cst[c] = "hung"
           \/ kind = "ws" /\ panicked
=============================================================================
