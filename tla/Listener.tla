------------------------------ MODULE Listener ------------------------------
(***************************************************************************)
(* The kcp listener and its table of sessions: network/kcp/ln.go, with the *)
(* monitor of readloop.go and Close of udp.go.                             *)
(*                                                                         *)
(* One goroutine, the monitor, reads every datagram of the socket and       *)
(* gives it to the session its source address has in the table.  Without    *)
(* one, or when a first datagram (sn = 0) of another conversation comes     *)
(* from that address, it makes a session, puts it in the table and queues   *)
(* it for AcceptKCP.  The application closes the sessions it accepted;      *)
(* Close removes from the table whatever the address has there by then.     *)
(***************************************************************************)
EXTENDS Naturals, Sequences, FiniteSets

CONSTANTS Addrs,     \* the addresses of peers
          Convs,     \* the conversations they have one after the other
          Garbage,   \* what a parity datagram has where lsess reads conv
          Backlog,   \* acceptBacklog
          MaxSess    \* bound: sessions made

ASSUME ListenerAssumption ==
    /\ Addrs # {} /\ Garbage \notin Convs
    /\ Backlog \in Nat /\ MaxSess \in Nat

Ids == 1 .. MaxSess
None == 0

\* A datagram may be late, lost, or come twice: any may come at any time.  first
\* says that lsess reads sn = 0 in it; that a parity datagram has that is left out.
Datagrams ==
    [addr : Addrs, conv : Convs, first : BOOLEAN]
        \cup [addr : Addrs, conv : {Garbage}, first : {FALSE}]

NoData == [addr |-> CHOOSE a \in Addrs : TRUE, conv |-> Garbage, first |-> FALSE]

VARIABLES
    table,     \* l.sessions
    made,      \* how many sessions have been made
    conv, addr,   \* their conversation and address
    st,        \* none, live, dying (die is closed, the entry not yet deleted), dead
    accepts,   \* chAccepts
    accepted,  \* the sessions AcceptKCP has returned
    mpc, data, found,   \* the monitor: where it is, its datagram, the session looked up
    lnDie,     \* Listener.Close was called
    told,      \* the sessions that know of the socket's read error
    raced      \* history: the addresses where a session was put in the table while
               \* an earlier one was dying

sessVars == <<made, conv, addr>>
vars == <<table, sessVars, st, accepts, accepted, mpc, data, found, lnDie, told, raced>>

Init ==
    /\ table = [a \in Addrs |-> None]
    /\ made = 0
    /\ conv = [s \in Ids |-> Garbage]
    /\ addr = [s \in Ids |-> CHOOSE a \in Addrs : TRUE]
    /\ st = [s \in Ids |-> "none"]
    /\ accepts = <<>>
    /\ accepted = {}
    /\ mpc = "read"
    /\ data = NoData
    /\ found = None
    /\ lnDie = FALSE
    /\ told = {}
    /\ raced = {}

Become(s, state) == st' = [st EXCEPT ![s] = state]

-----------------------------------------------------------------------------
\* The monitor reads a datagram and looks its address up with sessionLock.
Read(d) ==
    /\ mpc = "read"
    /\ data' = d
    /\ found' = table[d.addr]
    /\ mpc' = "dispatch"
    /\ UNCHANGED <<table, sessVars, st, accepts, accepted, lnDie, told, raced>>

\* What the monitor holds goes out of scope.
Forget == data' = NoData /\ found' = None

\* lsess: the datagram is for the session found, or for none, and dropped ...
Feed ==
    /\ mpc = "dispatch"
    /\ found # None
    /\ data.conv = conv[found] \/ ~data.first
    /\ mpc' = "read"
    /\ Forget
    /\ UNCHANGED <<table, sessVars, st, accepts, accepted, lnDie, told, raced>>

\* ... or begins another conversation, for which the session is closed, unless
\* somebody else has begun to ...
Replace ==
    /\ mpc = "dispatch"
    /\ found # None
    /\ data.first /\ data.conv # conv[found]
    /\ mpc' = "create"
    /\ IF st[found] = "live"
       THEN /\ Become(found, "dead")
            /\ table' = [table EXCEPT ![data.addr] = None]
       ELSE UNCHANGED <<st, table>>
    /\ UNCHANGED <<sessVars, accepts, accepted, data, found, lnDie, told, raced>>

NotFound ==
    /\ mpc = "dispatch"
    /\ found = None
    /\ mpc' = "create"
    /\ UNCHANGED <<table, sessVars, st, accepts, accepted, data, found, lnDie, told, raced>>

\* Broken form of Create: the accept queue is not looked at.
CreateAlways ==
    /\ mpc = "create"
    /\ made < MaxSess
    /\ made' = made + 1
    /\ conv' = [conv EXCEPT ![made + 1] = data.conv]
    /\ addr' = [addr EXCEPT ![made + 1] = data.addr]
    /\ Become(made + 1, "live")
    /\ mpc' = "install"
    /\ UNCHANGED <<table, accepts, accepted, data, found, lnDie, told, raced>>

\* ... make a session, if the accept queue has room, and feed it ...
Create ==
    /\ mpc = "create"
    /\ \/ /\ Len(accepts) >= Backlog
          /\ mpc' = "read"
          /\ Forget
          /\ UNCHANGED <<sessVars, st>>
       \/ /\ Len(accepts) < Backlog
          /\ made < MaxSess
          /\ made' = made + 1
          /\ conv' = [conv EXCEPT ![made + 1] = data.conv]
          /\ addr' = [addr EXCEPT ![made + 1] = data.addr]
          /\ Become(made + 1, "live")
          /\ mpc' = "install"
          /\ UNCHANGED <<data, found>>
    /\ UNCHANGED <<table, accepts, accepted, lnDie, told, raced>>

\* ... put it in the table ...
Install ==
    /\ mpc = "install"
    /\ table' = [table EXCEPT ![data.addr] = made]
    /\ raced' = IF \E p \in Ids : st[p] = "dying" /\ addr[p] = data.addr
                THEN raced \cup {data.addr} ELSE raced
    /\ mpc' = "offer"
    /\ UNCHANGED <<sessVars, st, accepts, accepted, data, found, lnDie, told>>

\* ... and queue it for AcceptKCP (blocks while the queue is full).
Offer ==
    /\ mpc = "offer"
    /\ Len(accepts) < Backlog
    /\ accepts' = Append(accepts, made)
    /\ mpc' = "read"
    /\ Forget
    /\ UNCHANGED <<table, sessVars, st, accepted, lnDie, told, raced>>

\* Reading fails, for good once the listener is closed: every session in the table
\* is told, and the monitor leaves.
ReadError ==
    /\ mpc = "read"
    /\ mpc' = "gone"
    /\ told' = {table[a] : a \in Addrs} \ {None}
    /\ UNCHANGED <<table, sessVars, st, accepts, accepted, data, found, lnDie, raced>>

-----------------------------------------------------------------------------
\* AcceptKCP returns a session; with an error, a deadline or a closed listener it
\* may return those instead, which changes nothing.
AcceptKCP ==
    /\ accepts # <<>>
    /\ accepted' = accepted \cup {Head(accepts)}
    /\ accepts' = Tail(accepts)
    /\ UNCHANGED <<table, sessVars, st, mpc, data, found, lnDie, told, raced>>

\* UDPSession.Close of the application: die, and flush ...
CloseDie(s) ==
    /\ s \in accepted
    /\ st[s] = "live"
    /\ Become(s, "dying")
    /\ UNCHANGED <<table, sessVars, accepts, accepted, mpc, data, found, lnDie, told, raced>>

\* Broken form of CloseSession: two Closes of a session both get here.
CloseSessionTwice(s) ==
    /\ s \in accepted
    /\ st[s] \in {"dying", "dead"}
    /\ Become(s, "dead")
    /\ table' = [table EXCEPT ![addr[s]] = None]
    /\ UNCHANGED <<sessVars, accepts, accepted, mpc, data, found, lnDie, told, raced>>

\* ... then closeSession, by address.
CloseSession(s) ==
    /\ st[s] = "dying"
    /\ Become(s, "dead")
    /\ table' = [table EXCEPT ![addr[s]] = None]
    /\ UNCHANGED <<sessVars, accepts, accepted, mpc, data, found, lnDie, told, raced>>

\* Listener.Close closes die and the socket.
Close ==
    /\ ~lnDie
    /\ lnDie' = TRUE
    /\ UNCHANGED <<table, sessVars, st, accepts, accepted, mpc, data, found, told, raced>>

-----------------------------------------------------------------------------
MonitorStep == Feed \/ Replace \/ NotFound \/ Create \/ Install \/ Offer

Next ==
    \/ MonitorStep \/ AcceptKCP \/ Close
    \/ ReadError
    \/ \E d \in Datagrams : ~lnDie /\ Read(d)
    \/ \E s \in Ids : CloseDie(s) \/ CloseSession(s)

Spec == Init /\ [][Next]_vars

-----------------------------------------------------------------------------
TypeOK ==
    /\ table \in [Addrs -> {None} \cup 1 .. made]
    /\ made \in 0 .. MaxSess
    /\ conv \in [Ids -> Convs \cup {Garbage}] /\ addr \in [Ids -> Addrs]
    /\ st \in [Ids -> {"none", "live", "dying", "dead"}]
    /\ accepts \in Seq(1 .. made) /\ accepted \subseteq 1 .. made
    /\ mpc \in {"read", "dispatch", "create", "install", "offer", "gone"}
    /\ data \in Datagrams /\ found \in {None} \cup 1 .. made
    /\ lnDie \in BOOLEAN /\ told \subseteq 1 .. made
    /\ raced \subseteq Addrs

\* A live session that has been put in the table and is no longer there: nothing
\* the peer sends will reach it.
Orphan(s) ==
    /\ st[s] = "live"
    /\ table[addr[s]] # s
    /\ ~(s = made /\ mpc = "install")

\* No address has orphans before a session was put in its table while the Close of
\* an earlier one, begun by the application, had not yet come to closeSession: then
\* closeSession, which goes by the address, deletes the successor.  (From there on
\* the Close of the orphan may in turn delete its own successor.)
OrphanNeedsRace == \A s \in Ids : Orphan(s) => addr[s] \in raced

\* The monitor, which alone reads for all sessions, is never held up by the accept
\* queue although it looks at its length before it makes the session.
OfferFits == mpc = "offer" => Len(accepts) < Backlog

\* When the monitor has left, every live session knows that its socket is gone,
\* but for orphans: their Read waits for ever.
ErrorReaches ==
    mpc = "gone" => \A s \in Ids : st[s] = "live" /\ ~Orphan(s) => s \in told

\* What the sessions can count on from the monitor: the two above.
MonitorServes == OfferFits /\ ErrorReaches
=============================================================================
