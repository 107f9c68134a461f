--------------------------- MODULE SessionProofs ----------------------------
(***************************************************************************)
(* What a kcp session and its listener promise.                            *)
(*                                                                         *)
(* Listener.tla, for any peers, conversations, backlog and number of       *)
(* sessions: no live session drops out of the table unless an earlier one  *)
(* was closed too slowly, the monitor is never held up by the accept       *)
(* queue, and the sessions in the table learn of the socket's end.  What   *)
(* the monitor has looked up is old when it acts on it.  IInv says what is *)
(* still true of it: only Close has changed the table meanwhile.           *)
(*                                                                         *)
(* UdpSession.tla, for any number of callers, any window and deadlines: no *)
(* wake-up of a Read or a WriteBuffers is lost.  That is inductive as soon *)
(* as the types are known.                                                 *)
(*                                                                         *)
(* Fec.tla, for any shard counts, limit, samples and as many datagrams as  *)
(* the numbers can tell apart: the decoder keeps the numbers in order,     *)
(* recovers what it can and nothing else, and tunes to the encoder's       *)
(* counts.  FecIInv puts every datagram at its batch and place: what the   *)
(* decoder reads off a number is what the encoder meant.                   *)
(***************************************************************************)
EXTENDS Listener, UdpSession, Fec, SequenceTheorems, FunctionTheorems, FiniteSetTheorems,
        WellFoundedInduction, TLAPS

\* The table has a session under the address it was made for.
AtAddress == \A a \in Addrs : table[a] # None => addr[table[a]] = a

\* A session that is being closed by the application has lost its entry to a later
\* one only where that was put in the table meanwhile.
SlowClose ==
    \A p \in Ids : st[p] = "dying" /\ table[addr[p]] \notin {None, p} => addr[p] \in raced

\* The entry the monitor has looked up is there or deleted, and its place is free
\* of live sessions when the monitor makes a new one.
LookedUp ==
    /\ mpc = "dispatch" =>
          /\ table[data.addr] \in {None, found}
          /\ found # None => addr[found] = data.addr
    /\ mpc \in {"create", "install"} =>
          table[data.addr] = None \/ st[table[data.addr]] # "live"

\* The application does not know of the session the monitor is making, and the
\* queue keeps its place.
InTheMaking ==
    /\ mpc = "install" => addr[made] = data.addr
    /\ mpc \in {"install", "offer"} =>
          /\ made \in Ids
          /\ made \notin accepted
          /\ \A i \in 1 .. Len(accepts) : accepts[i] # made
          /\ Len(accepts) < Backlog

IInv ==
    /\ TypeOK /\ AtAddress /\ SlowClose /\ LookedUp /\ InTheMaking
    /\ OrphanNeedsRace /\ ErrorReaches

-----------------------------------------------------------------------------
\* A datagram has an address of a peer and a conversation.
LEMMA DatagramType ==
    /\ NoData \in Datagrams
    /\ \A d \in Datagrams : d.addr \in Addrs /\ d.conv \in Convs \cup {Garbage}
<1>1. (CHOOSE a \in Addrs : TRUE) \in Addrs
  BY ListenerAssumption
<1> QED
  BY <1>1 DEF Datagrams, NoData

\* The types.
LEMMA TypeStep == TypeOK /\ InTheMaking /\ [Next]_vars => TypeOK'
<1> SUFFICES ASSUME TypeOK, InTheMaking, [Next]_vars PROVE TypeOK'
  OBVIOUS
<1>1. ASSUME NEW d \in Datagrams, Read(d) PROVE TypeOK'
  <2>1. found' \in {None} \cup 1 .. made
    BY <1>1, DatagramType DEF Read, TypeOK
  <2> QED
    BY <1>1, <2>1 DEF Read, TypeOK, sessVars
<1>2. CASE Feed
  <2>1. data' \in Datagrams /\ found' = None
    BY <1>2, DatagramType DEF Feed, Forget
  <2> QED
    BY <1>2, <2>1 DEF Feed, TypeOK, sessVars
<1>3. CASE Replace
  <2>1. st' \in [Ids -> {"none", "live", "dying", "dead"}]
    BY <1>3 DEF Replace, Become, TypeOK
  <2>2. table' \in [Addrs -> {None} \cup 1 .. made]
    BY <1>3 DEF Replace, TypeOK
  <2> QED
    BY <1>3, <2>1, <2>2 DEF Replace, TypeOK, sessVars
<1>4. CASE NotFound
  BY <1>4 DEF NotFound, TypeOK, sessVars
<1>5. CASE Create
  <2>1. CASE UNCHANGED <<sessVars, st>> /\ mpc' = "read" /\ Forget
    <3>1. data' \in Datagrams /\ found' = None
      BY <2>1, DatagramType DEF Forget
    <3> QED
      BY <1>5, <2>1, <3>1 DEF Create, TypeOK, sessVars
  <2>2. CASE /\ made < MaxSess /\ made' = made + 1
             /\ conv' = [conv EXCEPT ![made + 1] = data.conv]
             /\ addr' = [addr EXCEPT ![made + 1] = data.addr]
             /\ Become(made + 1, "live") /\ mpc' = "install"
             /\ UNCHANGED <<data, found>>
    <3>1. made \in Nat /\ made' \in 0 .. MaxSess /\ 1 .. made \subseteq 1 .. made'
      BY <2>2, ListenerAssumption DEF TypeOK
    <3>2. /\ conv' \in [Ids -> Convs \cup {Garbage}] /\ addr' \in [Ids -> Addrs]
          /\ st' \in [Ids -> {"none", "live", "dying", "dead"}]
      BY <2>2, DatagramType DEF Become, TypeOK
    <3>3. accepts' \in Seq(1 .. made')
      <4>1. accepts \in Seq(1 .. made) /\ accepts' = accepts
        BY <1>5 DEF Create, TypeOK
      <4> QED
        BY <3>1, <4>1, SeqMonotonic
    <3>4. /\ table' \in [Addrs -> {None} \cup 1 .. made']
          /\ accepted' \subseteq 1 .. made' /\ told' \subseteq 1 .. made'
          /\ found' \in {None} \cup 1 .. made'
      BY <1>5, <2>2, <3>1 DEF Create, TypeOK
    <3> QED
      BY <1>5, <2>2, <3>1, <3>2, <3>3, <3>4 DEF Create, TypeOK
  <2> QED
    BY <1>5, <2>1, <2>2 DEF Create
<1>6. CASE Install
  <2>1. made \in 1 .. made
    BY <1>6, ListenerAssumption DEF Install, InTheMaking, TypeOK, Ids
  <2>2. table' \in [Addrs -> {None} \cup 1 .. made] /\ raced' \subseteq Addrs
    BY <1>6, <2>1, DatagramType DEF Install, TypeOK
  <2> QED
    BY <1>6, <2>2 DEF Install, TypeOK, sessVars
<1>7. CASE Offer
  <2>1. made \in 1 .. made
    BY <1>7, ListenerAssumption DEF Offer, InTheMaking, TypeOK, Ids
  <2>2. accepts' \in Seq(1 .. made)
    BY <1>7, <2>1, AppendProperties DEF Offer, TypeOK
  <2>3. data' \in Datagrams /\ found' = None
    BY <1>7, DatagramType DEF Offer, Forget
  <2> QED
    BY <1>7, <2>2, <2>3 DEF Offer, TypeOK, sessVars
<1>8. CASE ReadError
  <2>1. told' \subseteq 1 .. made
    BY <1>8 DEF ReadError, TypeOK
  <2> QED
    BY <1>8, <2>1 DEF ReadError, TypeOK, sessVars
<1>9. CASE AcceptKCP
  <2>1. Head(accepts) \in 1 .. made /\ accepts' \in Seq(1 .. made)
    BY <1>9, HeadTailProperties DEF AcceptKCP, TypeOK
  <2> QED
    BY <1>9, <2>1 DEF AcceptKCP, TypeOK, sessVars
<1>10. ASSUME NEW s \in Ids, CloseDie(s) \/ CloseSession(s) PROVE TypeOK'
  <2>1. st' \in [Ids -> {"none", "live", "dying", "dead"}]
    BY <1>10 DEF CloseDie, CloseSession, Become, TypeOK
  <2>2. table' \in [Addrs -> {None} \cup 1 .. made]
    BY <1>10 DEF CloseDie, CloseSession, TypeOK
  <2>3. UNCHANGED <<sessVars, accepts, accepted, mpc, data, found, lnDie, told, raced>>
    BY <1>10 DEF CloseDie, CloseSession
  <2> QED
    BY <2>1, <2>2, <2>3 DEF TypeOK, sessVars
<1>11. CASE Close
  BY <1>11 DEF Close, TypeOK, sessVars
<1>12. CASE UNCHANGED vars
  BY <1>12 DEF TypeOK, vars, sessVars
<1> QED
  BY <1>1, <1>2, <1>3, <1>4, <1>5, <1>6, <1>7, <1>8, <1>9, <1>10, <1>11, <1>12
     DEF Next, MonitorStep

-----------------------------------------------------------------------------
\* What Create does when it makes a session.
Made ==
    /\ mpc = "create" /\ mpc' = "install"
    /\ made' = made + 1
    /\ addr' = [addr EXCEPT ![made + 1] = data.addr]
    /\ st' = [st EXCEPT ![made + 1] = "live"]
    /\ Len(accepts) < Backlog
    /\ UNCHANGED <<table, accepts, accepted, data, found, lnDie, told, raced>>

\* The steps that leave the sessions and the table alone, and that do not take the
\* monitor into the making of a session or out of it.
Quiet ==
    /\ UNCHANGED <<table, made, addr, st, raced>>
    /\ mpc' = "install" <=> mpc = "install"

\* Each step is quiet, or one of the five that are not.
LEMMA Steps ==
    ASSUME [Next]_vars
    PROVE  \/ Quiet \/ Replace \/ Made \/ Install
           \/ \E s \in Ids : CloseDie(s) \/ CloseSession(s)
<1>1. ASSUME Create PROVE Quiet \/ Made
  BY <1>1 DEF Create, Quiet, Made, Become, sessVars
<1>2. CASE \/ Feed \/ NotFound \/ Offer \/ AcceptKCP \/ Close \/ ReadError \/ UNCHANGED vars
           \/ \E d \in Datagrams : Read(d)
  BY <1>2 DEF Feed, NotFound, Offer, AcceptKCP, Close, ReadError, Read, Quiet, vars, sessVars
<1> QED
  BY <1>1, <1>2 DEF Next, MonitorStep

\* A session made has a number of its own.
LEMMA NewNumber ==
    ASSUME TypeOK, TypeOK', Made
    PROVE  /\ made + 1 \in Ids
           /\ \A a \in Addrs : table[a] # made + 1
           /\ addr'[made + 1] = data.addr /\ data.addr \in Addrs
           /\ \A s \in Ids : s # made + 1 => addr'[s] = addr[s] /\ st'[s] = st[s]
           /\ st'[made + 1] = "live"
<1>1. made \in Nat /\ made + 1 \in Ids
  BY ListenerAssumption DEF TypeOK, Made, Ids
<1>2. \A a \in Addrs : table[a] # made + 1
  BY <1>1 DEF TypeOK, None
<1> QED
  BY <1>1, <1>2, DatagramType DEF TypeOK, Made

\* The table has a session under its own address.
LEMMA AtAddressStep ==
    TypeOK /\ TypeOK' /\ AtAddress /\ InTheMaking /\ [Next]_vars => AtAddress'
<1> SUFFICES ASSUME TypeOK, TypeOK', AtAddress, InTheMaking, [Next]_vars PROVE AtAddress'
  OBVIOUS
<1> SUFFICES ASSUME NEW a \in Addrs, table'[a] # None PROVE addr'[table'[a]] = a
  BY DEF AtAddress
<1>0. \A b \in Addrs : table[b] \in {None} \cup Ids
  BY ListenerAssumption DEF TypeOK, Ids
<1>1. CASE Quiet
  BY <1>1 DEF Quiet, AtAddress
<1>2. ASSUME table'[a] = table[a], addr' = addr PROVE addr'[table'[a]] = a
  BY <1>2 DEF AtAddress
<1>3. CASE Replace
  BY <1>2, <1>3 DEF Replace, TypeOK, sessVars
<1>4. CASE Made
  <2>1. table'[a] = table[a] /\ table[a] \in Ids /\ table[a] # made + 1
    BY <1>0, <1>4, NewNumber DEF Made
  <2> QED
    BY <1>4, <2>1, NewNumber DEF AtAddress
<1>5. CASE Install
  <2>1. addr[made] = data.addr /\ addr' = addr /\ table' = [table EXCEPT ![data.addr] = made]
    BY <1>5 DEF Install, InTheMaking, sessVars
  <2>2. a = data.addr => table'[a] = made
    BY <2>1 DEF TypeOK
  <2>3. a # data.addr => table'[a] = table[a]
    BY <2>1 DEF TypeOK
  <2> QED
    BY <1>2, <2>1, <2>2, <2>3
<1>6. ASSUME NEW s \in Ids, CloseDie(s) \/ CloseSession(s) PROVE addr'[table'[a]] = a
  BY <1>2, <1>6 DEF CloseDie, CloseSession, TypeOK, sessVars
<1> QED
  BY <1>1, <1>3, <1>4, <1>5, <1>6, Steps

\* What a slow Close has lost.
LEMMA SlowCloseStep ==
    TypeOK /\ TypeOK' /\ SlowClose /\ OrphanNeedsRace /\ InTheMaking /\ [Next]_vars
        => SlowClose'
<1> SUFFICES ASSUME TypeOK, TypeOK', SlowClose, OrphanNeedsRace, InTheMaking, [Next]_vars,
                    NEW p \in Ids, st'[p] = "dying", table'[addr'[p]] \notin {None, p}
             PROVE  addr'[p] \in raced'
  BY DEF SlowClose
<1>1. CASE Quiet
  BY <1>1 DEF Quiet, SlowClose
<1>2. ASSUME st[p] = "dying", table'[addr[p]] \in {None, table[addr[p]]}, addr'[p] = addr[p],
             raced' = raced
      PROVE  addr'[p] \in raced'
  BY <1>2 DEF SlowClose
<1>3. CASE Replace
  <2>1. st[p] = "dying" /\ addr' = addr /\ raced' = raced
    BY <1>3 DEF Replace, Become, TypeOK, sessVars
  <2>2. table'[addr[p]] \in {None, table[addr[p]]}
    BY <1>3 DEF Replace, TypeOK
  <2> QED
    BY <1>2, <2>1, <2>2
<1>4. CASE Made
  <2>1. p # made + 1
    BY <1>4, NewNumber
  <2> QED
    BY <1>2, <1>4, <2>1, NewNumber DEF Made
<1>5. CASE Install
  <2>1. /\ st[p] = "dying" /\ addr' = addr
        /\ table' = [table EXCEPT ![data.addr] = made]
        /\ raced \subseteq raced'
    BY <1>5 DEF Install, sessVars
  <2>2. CASE addr[p] = data.addr
    BY <1>5, <2>1, <2>2 DEF Install
  <2>3. CASE addr[p] # data.addr
    <3>1. table'[addr[p]] = table[addr[p]]
      BY <2>1, <2>3 DEF TypeOK
    <3> QED
      BY <2>1, <3>1 DEF SlowClose
  <2> QED
    BY <2>2, <2>3
<1>6. ASSUME NEW s \in Ids, CloseDie(s) PROVE addr'[p] \in raced'
  <2>1. UNCHANGED <<table, addr, made, mpc, raced>> /\ s \in accepted /\ st[s] = "live"
    BY <1>6 DEF CloseDie, sessVars
  <2>2. CASE p = s
    <3>1. ~(s = made /\ mpc = "install")
      BY <2>1 DEF InTheMaking
    <3>2. Orphan(s)
      BY <2>1, <2>2, <3>1 DEF Orphan
    <3> QED
      BY <2>1, <2>2, <3>2 DEF OrphanNeedsRace
  <2>3. CASE p # s
    BY <1>2, <1>6, <2>1, <2>3 DEF CloseDie, Become, TypeOK
  <2> QED
    BY <2>2, <2>3
<1>7. ASSUME NEW s \in Ids, CloseSession(s) PROVE addr'[p] \in raced'
  <2>1. st[p] = "dying" /\ addr' = addr /\ raced' = raced
    BY <1>7 DEF CloseSession, Become, TypeOK, sessVars
  <2>2. table'[addr[p]] \in {None, table[addr[p]]}
    BY <1>7 DEF CloseSession, TypeOK
  <2> QED
    BY <1>2, <2>1, <2>2
<1> QED
  BY <1>1, <1>3, <1>4, <1>5, <1>6, <1>7, Steps

\* What the monitor has looked up.
LEMMA LookedUpStep ==
    TypeOK /\ TypeOK' /\ AtAddress /\ LookedUp /\ [Next]_vars => LookedUp'
<1> SUFFICES ASSUME TypeOK, TypeOK', AtAddress, LookedUp, [Next]_vars PROVE LookedUp'
  OBVIOUS
<1>0. /\ data.addr \in Addrs /\ data'.addr \in Addrs
      /\ \A b \in Addrs : table[b] \in {None} \cup Ids
  BY ListenerAssumption, DatagramType DEF TypeOK, Ids
<1>1. ASSUME NEW d \in Datagrams, Read(d) PROVE LookedUp'
  <2>1. /\ data' = d /\ found' = table[d.addr] /\ mpc' = "dispatch"
        /\ UNCHANGED <<table, addr>>
    BY <1>1 DEF Read, sessVars
  <2>2. d.addr \in Addrs
    BY <1>0, <2>1
  <2> QED
    BY <2>1, <2>2 DEF LookedUp, AtAddress
<1>2. CASE Feed \/ Offer \/ ReadError
  <2>1. mpc' \in {"read", "gone"}
    BY <1>2 DEF Feed, Offer, ReadError
  <2> QED
    BY <2>1 DEF LookedUp
<1>3. CASE NotFound
  BY <1>3 DEF NotFound, LookedUp, sessVars
<1>4. CASE Replace
  <2>1. /\ mpc = "dispatch" /\ mpc' = "create" /\ data' = data
        /\ table[data.addr] \in {None, found}
    BY <1>4 DEF Replace, LookedUp
  <2>2. table'[data.addr] = None \/ st'[table'[data.addr]] # "live"
    <3>1. CASE st[found] = "live"
      BY <1>0, <1>4, <3>1 DEF Replace, TypeOK
    <3>2. CASE st[found] # "live"
      BY <1>4, <2>1, <3>2 DEF Replace
    <3> QED
      BY <3>1, <3>2
  <2> QED
    BY <2>1, <2>2 DEF LookedUp
<1>5. CASE Made
  <2>1. /\ mpc = "create" /\ mpc' = "install" /\ data' = data /\ table' = table
        /\ table[data.addr] = None \/ st[table[data.addr]] # "live"
    BY <1>5 DEF Made, LookedUp
  <2>2. table[data.addr] # None => st'[table[data.addr]] = st[table[data.addr]]
    BY <1>0, <1>5, NewNumber
  <2> QED
    BY <2>1, <2>2 DEF LookedUp
<1>6. CASE Create /\ ~Made
  <2>1. mpc' = "read"
    BY <1>6 DEF Create, Made, Become, sessVars
  <2> QED
    BY <2>1 DEF LookedUp
<1>7. CASE Install
  <2>1. mpc' = "offer"
    BY <1>7 DEF Install
  <2> QED
    BY <2>1 DEF LookedUp
<1>8. ASSUME NEW s \in Ids, CloseDie(s) \/ CloseSession(s) PROVE LookedUp'
  <2>1. UNCHANGED <<addr, mpc, data, found>>
    BY <1>8 DEF CloseDie, CloseSession, sessVars
  <2>2. table'[data.addr] \in {None, table[data.addr]}
    BY <1>0, <1>8 DEF CloseDie, CloseSession, TypeOK
  <2>3. \A t \in Ids : st'[t] = "live" => st[t] = "live"
    BY <1>8 DEF CloseDie, CloseSession, Become, TypeOK
  <2> QED
    BY <1>0, <2>1, <2>2, <2>3 DEF LookedUp
<1>9. CASE AcceptKCP \/ Close \/ UNCHANGED vars
  BY <1>9 DEF AcceptKCP, Close, LookedUp, vars, sessVars
<1> QED
  BY <1>1, <1>2, <1>3, <1>4, <1>5, <1>6, <1>7, <1>8, <1>9 DEF Next, MonitorStep

\* What nobody knows of the session in the making.
LEMMA InTheMakingStep ==
    TypeOK /\ TypeOK' /\ InTheMaking /\ [Next]_vars => InTheMaking'
<1> SUFFICES ASSUME TypeOK, TypeOK', InTheMaking, [Next]_vars PROVE InTheMaking'
  OBVIOUS
<1>0. accepts \in Seq(1 .. made) /\ Len(accepts) \in Nat /\ made \in Nat
  BY LenProperties DEF TypeOK
<1>1. CASE \/ Feed \/ Offer \/ ReadError \/ NotFound \/ Replace
           \/ Create /\ ~Made
           \/ \E d \in Datagrams : Read(d)
  <2>1. mpc' \notin {"install", "offer"}
    BY <1>1 DEF Feed, Offer, ReadError, NotFound, Replace, Create, Made, Become, sessVars, Read
  <2> QED
    BY <2>1 DEF InTheMaking
<1>2. CASE Made
  <2>1. /\ made' = made + 1 /\ made + 1 \in Ids /\ addr'[made + 1] = data.addr
        /\ Len(accepts) < Backlog
        /\ UNCHANGED <<data, accepts, accepted>>
    BY <1>2, NewNumber DEF Made
  <2>2. \A i \in 1 .. Len(accepts) : accepts[i] \in 1 .. made
    BY <1>0, ElementOfSeq
  <2>3. made + 1 \notin 1 .. made
    BY <1>0
  <2>4. accepted \subseteq 1 .. made
    BY DEF TypeOK
  <2> QED
    BY <2>1, <2>2, <2>3, <2>4 DEF InTheMaking
<1>3. CASE Install
  BY <1>3 DEF Install, InTheMaking, sessVars
<1>4. CASE AcceptKCP
  <2>1. /\ accepts # <<>> /\ accepts' = Tail(accepts)
        /\ accepted' = accepted \cup {Head(accepts)}
        /\ UNCHANGED <<made, addr, mpc, data>>
    BY <1>4 DEF AcceptKCP, sessVars
  <2>2. /\ Len(accepts') = Len(accepts) - 1 /\ Head(accepts) = accepts[1]
        /\ 1 \in 1 .. Len(accepts)
        /\ \A i \in 1 .. Len(accepts') :
              i + 1 \in 1 .. Len(accepts) /\ accepts'[i] = accepts[i + 1]
    BY <1>0, <2>1
  <2>3. Len(accepts) < Backlog => Len(accepts') < Backlog
    BY <1>0, <2>2, ListenerAssumption
  <2> QED
    BY <2>1, <2>2, <2>3 DEF InTheMaking
<1>5. CASE (\E s \in Ids : CloseDie(s) \/ CloseSession(s)) \/ Close \/ UNCHANGED vars
  BY <1>5 DEF CloseDie, CloseSession, Close, InTheMaking, vars, sessVars
<1> QED
  BY <1>1, <1>2, <1>3, <1>4, <1>5 DEF Next, MonitorStep

\* Where orphans come from.
LEMMA OrphanStep ==
    /\ TypeOK /\ TypeOK' /\ AtAddress /\ SlowClose /\ LookedUp /\ InTheMaking
    /\ OrphanNeedsRace /\ [Next]_vars
    => OrphanNeedsRace'
<1> SUFFICES ASSUME TypeOK, TypeOK', AtAddress, SlowClose, LookedUp, InTheMaking,
                    OrphanNeedsRace, [Next]_vars,
                    NEW s \in Ids, Orphan(s)'
             PROVE  addr'[s] \in raced'
  BY DEF OrphanNeedsRace
<1>0. /\ st'[s] = "live" /\ table'[addr'[s]] # s
      /\ ~(s = made' /\ mpc' = "install")
      /\ addr[s] \in Addrs /\ data.addr \in Addrs
  BY DatagramType DEF Orphan, TypeOK
<1>1. ASSUME Orphan(s), addr'[s] = addr[s], raced \subseteq raced' PROVE addr'[s] \in raced'
  BY <1>1 DEF OrphanNeedsRace
<1>2. CASE Quiet
  <2>1. Orphan(s)
    BY <1>0, <1>2 DEF Quiet, Orphan
  <2> QED
    BY <1>1, <1>2, <2>1 DEF Quiet
<1>3. CASE Replace
  <2>1. mpc = "dispatch" /\ addr' = addr /\ raced' = raced /\ st[s] = "live"
    BY <1>0, <1>3 DEF Replace, Become, TypeOK, sessVars
  <2>2. table[addr[s]] # s
    <3>1. CASE st[found] = "live"
      <4>1. s # found
        BY <1>0, <1>3, <3>1 DEF Replace, Become, TypeOK
      <4>2. table' = [table EXCEPT ![data.addr] = None] /\ table[data.addr] \in {None, found}
        BY <1>3, <2>1, <3>1 DEF Replace, LookedUp
      <4>3. s # None
        BY DEF Ids, None
      <4> QED
        BY <1>0, <2>1, <4>1, <4>2, <4>3 DEF TypeOK
    <3>2. CASE st[found] # "live"
      BY <1>0, <1>3, <2>1, <3>2 DEF Replace
    <3> QED
      BY <3>1, <3>2
  <2>3. Orphan(s)
    BY <2>1, <2>2 DEF Orphan
  <2> QED
    BY <1>1, <2>1, <2>3
<1>4. CASE Made
  <2>1. s # made + 1
    BY <1>0, <1>4 DEF Made
  <2>2. addr'[s] = addr[s] /\ st'[s] = st[s]
    BY <1>4, <2>1, NewNumber
  <2>3. Orphan(s)
    BY <1>0, <1>4, <2>2 DEF Made, Orphan
  <2> QED
    BY <1>1, <1>4, <2>2, <2>3 DEF Made
<1>5. CASE Install
  <2>1. /\ mpc = "install" /\ addr' = addr /\ st' = st
        /\ table' = [table EXCEPT ![data.addr] = made]
        /\ raced \subseteq raced'
        /\ addr[made] = data.addr
    BY <1>5 DEF Install, InTheMaking, sessVars
  <2>2. s # made
    BY <1>0, <2>1 DEF TypeOK
  <2>3. table[addr[s]] # s
    <3>1. CASE addr[s] = data.addr
      <4>1. table[data.addr] = None \/ st[table[data.addr]] # "live"
        BY <2>1 DEF LookedUp
      <4> QED
        BY <1>0, <2>1, <3>1, <4>1 DEF Ids, None
    <3>2. CASE addr[s] # data.addr
      BY <1>0, <2>1, <3>2 DEF TypeOK
    <3> QED
      BY <3>1, <3>2
  <2> QED
    BY <1>0, <1>1, <2>1, <2>2, <2>3 DEF Orphan
<1>6. ASSUME NEW c \in Ids, CloseDie(c) PROVE addr'[s] \in raced'
  <2>1. UNCHANGED <<table, addr, made, mpc, raced>> /\ st[s] = "live"
    BY <1>0, <1>6 DEF CloseDie, Become, TypeOK, sessVars
  <2> QED
    BY <1>0, <1>1, <2>1 DEF Orphan
<1>7. ASSUME NEW c \in Ids, CloseSession(c) PROVE addr'[s] \in raced'
  <2>1. /\ UNCHANGED <<addr, made, mpc, raced>> /\ st[c] = "dying"
        /\ st[s] = "live" /\ s # c
        /\ table' = [table EXCEPT ![addr[c]] = None]
    BY <1>0, <1>7 DEF CloseSession, Become, TypeOK, sessVars
  <2>2. CASE table[addr[s]] # s
    BY <1>0, <1>1, <2>1, <2>2 DEF Orphan
  <2>3. CASE table[addr[s]] = s
    <3>1. addr[c] = addr[s]
      BY <1>0, <2>1, <2>3 DEF TypeOK
    <3>2. table[addr[c]] \notin {None, c}
      BY <2>1, <2>3, <3>1 DEF Ids, None
    <3> QED
      BY <2>1, <3>1, <3>2 DEF SlowClose
  <2> QED
    BY <2>2, <2>3
<1> QED
  BY <1>2, <1>3, <1>4, <1>5, <1>6, <1>7, Steps

\* Who is told of the socket's end.
LEMMA ErrorStep ==
    TypeOK /\ TypeOK' /\ ErrorReaches /\ [Next]_vars => ErrorReaches'
<1> SUFFICES ASSUME TypeOK, TypeOK', ErrorReaches, [Next]_vars, mpc' = "gone",
                    NEW s \in Ids, st'[s] = "live", ~Orphan(s)'
             PROVE  s \in told'
  BY DEF ErrorReaches
<1>0. table'[addr'[s]] = s /\ addr'[s] \in Addrs /\ s # None
  <2>1. table'[addr'[s]] = s
    BY DEF Orphan
  <2>2. addr'[s] \in Addrs
    BY DEF TypeOK
  <2> QED
    BY <2>1, <2>2 DEF Ids, None
<1>1. CASE ReadError
  <2>1. told' = {table[a] : a \in Addrs} \ {None} /\ table' = table
    BY <1>1 DEF ReadError
  <2> QED
    BY <1>0, <2>1
<1>2. ASSUME mpc = "gone", st[s] = "live", table[addr[s]] = s, told' = told
      PROVE  s \in told'
  BY <1>2 DEF ErrorReaches, Orphan
<1>3. CASE AcceptKCP \/ Close \/ UNCHANGED vars
  BY <1>0, <1>2, <1>3 DEF AcceptKCP, Close, vars, sessVars
<1>4. ASSUME NEW c \in Ids, CloseDie(c) \/ CloseSession(c) PROVE s \in told'
  <2>1. mpc = "gone" /\ told' = told /\ addr' = addr /\ st[s] = "live"
    BY <1>4 DEF CloseDie, CloseSession, Become, TypeOK, sessVars
  <2>2. table[addr[s]] = s
    BY <1>0, <1>4, <2>1 DEF CloseDie, CloseSession, TypeOK
  <2> QED
    BY <1>2, <2>1, <2>2
<1>5. ASSUME \/ Feed \/ Replace \/ NotFound \/ Create \/ Install \/ Offer
             \/ \E d \in Datagrams : Read(d)
      PROVE  FALSE
  BY <1>5 DEF Feed, Replace, NotFound, Create, Install, Offer, Read
<1> QED
  BY <1>1, <1>3, <1>4, <1>5 DEF Next, MonitorStep

-----------------------------------------------------------------------------
\* There is no session at the start.
LEMMA InitInv == Init => IInv
<1> SUFFICES ASSUME Init PROVE IInv
  OBVIOUS
<1>1. TypeOK
  <2>1. (CHOOSE a \in Addrs : TRUE) \in Addrs
    BY ListenerAssumption
  <2>2. accepts \in Seq(1 .. made) /\ made \in 0 .. MaxSess
    BY EmptySeq, ListenerAssumption DEF Init
  <2>3. data \in Datagrams
    BY DatagramType DEF Init
  <2>4. addr \in [Ids -> Addrs] /\ table \in [Addrs -> {None} \cup 1 .. made]
    BY <2>1 DEF Init
  <2> QED
    BY <2>2, <2>3, <2>4 DEF Init, TypeOK
<1>2. AtAddress /\ LookedUp /\ InTheMaking /\ ErrorReaches
  BY DEF Init, AtAddress, LookedUp, InTheMaking, ErrorReaches
<1>3. SlowClose /\ OrphanNeedsRace
  BY DEF Init, SlowClose, OrphanNeedsRace, Orphan
<1> QED
  BY <1>1, <1>2, <1>3 DEF IInv

\* The inductive invariant holds: each of its conjuncts is kept by every step.
THEOREM Invariance == Spec => []IInv
<1>1. IInv /\ [Next]_vars => IInv'
  BY TypeStep, AtAddressStep, SlowCloseStep, LookedUpStep, InTheMakingStep, OrphanStep,
     ErrorStep DEF IInv
<1> QED
  BY InitInv, <1>1, PTL DEF Spec

\* The variables have their types.
THEOREM Types == Spec => []TypeOK
<1>1. IInv => TypeOK
  BY DEF IInv
<1> QED
  BY Invariance, <1>1, PTL

\* A live session loses its entry in the table only at an address where a session
\* was put in the table while the Close of an earlier one was under way.
THEOREM Orphans == Spec => []OrphanNeedsRace
<1>1. IInv => OrphanNeedsRace
  BY DEF IInv
<1> QED
  BY Invariance, <1>1, PTL

\* The monitor is never held up by the accept queue, and when it leaves, the
\* sessions in the table know of the socket's end.
THEOREM Monitor == Spec => []MonitorServes
<1>1. IInv => MonitorServes
  BY DEF IInv, MonitorServes, OfferFits, InTheMaking
<1> QED
  BY Invariance, <1>1, PTL
-----------------------------------------------------------------------------
\* The blocking calls: the variables of UdpSession are typed in the beginning, and
\* nobody sleeps.
LEMMA CallInitInv == CallInit => CallTypeOK /\ NoLostWakeup
<1> SUFFICES ASSUME CallInit PROVE CallTypeOK /\ NoLostWakeup
  OBVIOUS
<1>1. CallTypeOK
  <2>1. /\ ready \in 0 .. MaxData /\ waitsnd \in 0 .. MaxWaitSnd
        /\ sndWnd \in 1 .. MaxSnd /\ rmtWnd \in 0 .. MaxRmt
        /\ set \in 0 .. MaxDeadlines /\ rd \in 0 .. set /\ wd \in 0 .. set
    BY SessionAssumption DEF CallInit, NoDeadline, MaxWaitSnd
  <2>2. /\ rpc \in [Readers -> {"idle", "wait", "woken"}] /\ rtimer \in [Readers -> 0 .. set]
        /\ wpc \in [Writers -> {"idle", "check", "wait", "woken"}]
        /\ wtimer \in [Writers -> 0 .. set]
    BY DEF CallInit, NoDeadline
  <2>3. \A b \in {bufptr, readEvent, writeEvent, readError, writeError, die, released,
                 widened} : b \in BOOLEAN
    BY DEF CallInit
  <2> QED
    BY <2>1, <2>2, <2>3 DEF CallInit, CallTypeOK
<1>2. ReadersAwake
  BY SessionAssumption DEF CallInit, ReadersAwake
<1>3. WritersAwake
  BY SessionAssumption DEF CallInit, WritersAwake
<1> QED
  BY <1>1, <1>2, <1>3 DEF NoLostWakeup

\* A caller goes to a place it has, with a deadline that was set.
LEMMA Callers ==
    ASSUME CallTypeOK, NEW d \in 0 .. set
    PROVE  /\ \A r \in Readers, to \in {"idle", "wait", "woken"} : ReadTo(r, to, d) =>
                 /\ rpc' \in [Readers -> {"idle", "wait", "woken"}]
                 /\ rtimer' \in [Readers -> 0 .. set]
           /\ \A w \in Writers, to \in {"idle", "check", "wait", "woken"} : WriteTo(w, to, d) =>
                 /\ wpc' \in [Writers -> {"idle", "check", "wait", "woken"}]
                 /\ wtimer' \in [Writers -> 0 .. set]
  BY DEF CallTypeOK, ReadTo, WriteTo

\* Each step keeps the types.
LEMMA CallTypeStep == CallTypeOK /\ [CallNext]_callVars => CallTypeOK'
<1> SUFFICES ASSUME CallTypeOK, [CallNext]_callVars PROVE CallTypeOK'
  OBVIOUS
<1> USE DEF readVars, writeVars, wndVars, deadVars, endVars
<1>0. set \in Nat /\ 0 \in 0 .. set /\ rd \in 0 .. set /\ wd \in 0 .. set
  BY SessionAssumption DEF CallTypeOK
<1>1. ASSUME NEW r \in Readers, ReadStep(r) PROVE CallTypeOK'
  <2>1. /\ rpc' \in [Readers -> {"idle", "wait", "woken"}] /\ rtimer' \in [Readers -> 0 .. set]
        /\ UNCHANGED <<waitsnd, wndVars, writeEvent, writeVars, deadVars, endVars>>
    BY <1>0, <1>1, Callers DEF ReadStep, ReadData, ReadSleep, ReadWake, ReadFails, NoDeadline
  <2>2. bufptr' \in BOOLEAN /\ readEvent' \in BOOLEAN
    BY <1>1 DEF CallTypeOK, ReadStep, ReadData, ReadSleep, ReadWake, ReadFails
  <2>3. ready' \in 0 .. MaxData
    <3>1. ready' = ready \/ (ready > 0 /\ ready' = ready - 1)
      BY <1>1 DEF ReadStep, ReadData, ReadSleep, ReadWake, ReadFails
    <3> QED
      BY <3>1, SessionAssumption DEF CallTypeOK
  <2> QED
    BY <2>1, <2>2, <2>3 DEF CallTypeOK
<1>2. ASSUME NEW w \in Writers, WriteTest(w) \/ WriteStep(w) PROVE CallTypeOK'
  <2>1. /\ wpc' \in [Writers -> {"idle", "check", "wait", "woken"}]
        /\ wtimer' \in [Writers -> 0 .. set]
        /\ UNCHANGED <<ready, bufptr, wndVars, readEvent, readVars, deadVars, readError, die,
                       released>>
    BY <1>0, <1>2, Callers
       DEF WriteStep, WriteTest, WriteData, WriteSleep, WriteWake, WriteFails, NoDeadline
  <2>2. waitsnd' \in 0 .. MaxWaitSnd
    <3>1. CASE waitsnd' = waitsnd
      BY <3>1 DEF CallTypeOK
    <3>2. CASE WriteData(w)
      <4>1. PICK segs \in 0 .. MaxSegs : waitsnd' = waitsnd + segs
        BY <3>2 DEF WriteData
      <4>2. waitsnd \in Nat /\ sndWnd \in 1 .. MaxSnd /\ waitsnd < sndWnd
        BY <3>2, SessionAssumption DEF WriteData, Room, CallTypeOK, MaxWaitSnd
      <4> QED
        BY <4>1, <4>2, SessionAssumption DEF MaxWaitSnd
    <3> QED
      BY <1>2, <3>1, <3>2 DEF WriteStep, WriteTest, WriteSleep, WriteWake, WriteFails
  <2>3. writeEvent' \in BOOLEAN /\ writeError' \in BOOLEAN
    BY <1>2 DEF CallTypeOK, WriteStep, WriteTest, WriteData, WriteSleep, WriteWake, WriteFails,
                Uncork, NotifyWriteError
  <2> QED
    BY <2>1, <2>2, <2>3 DEF CallTypeOK
<1>3. ASSUME NEW input \in 0 .. MaxData, NEW acked \in 0 .. MaxWaitSnd,
             NEW wnd \in 0 .. MaxRmt, KcpInput(input, acked, wnd)
      PROVE  CallTypeOK'
  <2>1. ready' \in 0 .. MaxData /\ waitsnd' \in 0 .. MaxWaitSnd /\ rmtWnd' \in 0 .. MaxRmt
    BY <1>3, SessionAssumption DEF KcpInput, CallTypeOK, MaxWaitSnd
  <2>2. /\ readEvent' \in BOOLEAN /\ writeEvent' \in BOOLEAN
        /\ writeError' \in BOOLEAN /\ widened' \in BOOLEAN
    BY <1>3 DEF KcpInput, CallTypeOK, NotifyReadEvent, NotifyWriteEvent, Uncork, NotifyWriteError
  <2> QED
    BY <1>3, <2>1, <2>2 DEF KcpInput, CallTypeOK
<1>4. CASE Update
  <2>1. writeEvent' \in BOOLEAN /\ writeError' \in BOOLEAN /\ widened' \in BOOLEAN
    BY <1>4 DEF Update, CallTypeOK, NotifyWriteEvent, Uncork, NotifyWriteError
  <2> QED
    BY <1>4, <2>1 DEF Update, CallTypeOK
<1>5. CASE NotifyReadError \/ Die
  BY <1>5 DEF NotifyReadError, Die, CallTypeOK
<1>6. CASE CloseRelease
  <2>1. waitsnd' \in 0 .. MaxWaitSnd /\ writeError' \in BOOLEAN
    <3>1. writeError' \in BOOLEAN
      BY <1>6 DEF CloseRelease, CallTypeOK, Uncork, NotifyWriteError
    <3>2. waitsnd' = 0
      BY <1>6 DEF CloseRelease, ReleaseTX
    <3> QED
      BY <3>1, <3>2, SessionAssumption DEF MaxWaitSnd
  <2> QED
    BY <1>6, <2>1 DEF CloseRelease, CallTypeOK
<1>7. ASSUME NEW sides \in Sides, SetDeadline(sides) PROVE CallTypeOK'
  <2>1. set' \in 0 .. MaxDeadlines /\ 0 .. set \subseteq 0 .. set' /\ 1 .. set \subseteq 1 .. set'
    BY <1>7, SessionAssumption DEF SetDeadline, CallTypeOK
  <2>2. rd' \in 0 .. set' /\ wd' \in 0 .. set'
    BY <1>0, <1>7, <2>1 DEF SetDeadline
  <2>3. readEvent' \in BOOLEAN /\ writeEvent' \in BOOLEAN /\ widened' \in BOOLEAN
    BY <1>7 DEF SetDeadline, CallTypeOK, NotifyReadEvent, NotifyWriteEvent
  <2>4. rtimer' \in [Readers -> 0 .. set'] /\ wtimer' \in [Writers -> 0 .. set']
    BY <1>7, <2>1 DEF SetDeadline, CallTypeOK
  <2> QED
    BY <1>7, <2>1, <2>2, <2>3, <2>4 DEF SetDeadline, CallTypeOK
<1>8. ASSUME NEW d \in Deadlines, Pass(d) PROVE CallTypeOK'
  BY <1>0, <1>8, SessionAssumption DEF Pass, Deadlines, CallTypeOK
<1>9. ASSUME NEW sndwnd \in 1 .. MaxSnd, SetWindowSize(sndwnd) PROVE CallTypeOK'
  <2>1. widened' \in BOOLEAN
    BY <1>9 DEF SetWindowSize, CallTypeOK
  <2> QED
    BY <1>9, <2>1 DEF SetWindowSize, CallTypeOK
<1>10. CASE UNCHANGED callVars
  BY <1>10 DEF callVars, CallTypeOK
<1> QED
  BY <1>1, <1>2, <1>3, <1>4, <1>5, <1>6, <1>7, <1>8, <1>9, <1>10 DEF CallNext

\* A token that is not there after a step, and was not taken by a caller, was not
\* there before: what it would have announced has not come.
LEMMA ReadersStep == CallTypeOK /\ ReadersAwake /\ [CallNext]_callVars => ReadersAwake'
<1> SUFFICES ASSUME CallTypeOK, ReadersAwake, [CallNext]_callVars,
                    \A r \in Readers : rpc'[r] = "wait", ~readEvent'
             PROVE  ready' = 0 /\ ~bufptr' /\ \E r \in Readers : rtimer'[r] = rd'
  BY DEF ReadersAwake
<1> USE DEF readVars, writeVars, deadVars, endVars
<1>1. ASSUME NEW r \in Readers, ReadStep(r)
      PROVE  ready' = 0 /\ ~bufptr' /\ rtimer'[r] = rd'
  <2>1. rpc'[r] = "wait"
    OBVIOUS
  <2>2. ReadSleep(r) /\ rpc' = [rpc EXCEPT ![r] = "wait"] /\ rtimer' = [rtimer EXCEPT ![r] = rd]
    BY <1>1, <2>1 DEF ReadStep, ReadData, ReadSleep, ReadWake, ReadFails, ReadTo, CallTypeOK
  <2> QED
    BY <2>2 DEF ReadSleep, CallTypeOK
<1>2. ASSUME UNCHANGED <<ready, bufptr, readEvent, readVars, rd>>
      PROVE  ready' = 0 /\ ~bufptr' /\ \E r \in Readers : rtimer'[r] = rd'
  BY <1>2 DEF ReadersAwake
<1>3. ASSUME NEW w \in Writers, WriteTest(w) \/ WriteStep(w)
      PROVE  UNCHANGED <<ready, bufptr, readEvent, readVars, rd>>
  BY <1>3 DEF WriteStep, WriteTest, WriteData, WriteSleep, WriteWake, WriteFails
<1>4. ASSUME NEW input \in 0 .. MaxData, NEW acked \in 0 .. MaxWaitSnd,
             NEW wnd \in 0 .. MaxRmt, KcpInput(input, acked, wnd)
      PROVE  UNCHANGED <<ready, bufptr, readEvent, readVars, rd>>
  <2>1. /\ ready' = ready + input /\ ~(ready' > 0)
        /\ readEvent' = readEvent
    BY <1>4 DEF KcpInput, NotifyReadEvent, CallTypeOK
  <2>2. ready' = ready
    BY <2>1, SessionAssumption DEF CallTypeOK
  <2>3. UNCHANGED <<bufptr, readVars, rd>>
    BY <1>4 DEF KcpInput
  <2> QED
    BY <2>1, <2>2, <2>3
<1>5. CASE Update \/ NotifyReadError \/ Die \/ CloseRelease \/ UNCHANGED callVars
  BY <1>2, <1>5 DEF Update, NotifyReadError, Die, CloseRelease, callVars
<1>6. ASSUME NEW sides \in Sides, SetDeadline(sides)
      PROVE  UNCHANGED <<ready, bufptr, readEvent, readVars, rd>>
  BY <1>6 DEF SetDeadline, NotifyReadEvent, CallTypeOK
<1>7. ASSUME NEW d \in Deadlines, Pass(d)
      PROVE  UNCHANGED <<ready, bufptr, readEvent, readVars, rd>>
  BY <1>7 DEF Pass
<1>8. ASSUME NEW sndwnd \in 1 .. MaxSnd, SetWindowSize(sndwnd)
      PROVE  UNCHANGED <<ready, bufptr, readEvent, readVars, rd>>
  BY <1>8 DEF SetWindowSize
<1> QED
  BY <1>1, <1>2, <1>3, <1>4, <1>5, <1>6, <1>7, <1>8 DEF CallNext

\* Likewise of the writers, whose room may also come from the close of the session or
\* from SetWindowSize.
LEMMA WritersStep == CallTypeOK /\ WritersAwake /\ [CallNext]_callVars => WritersAwake'
<1> SUFFICES ASSUME CallTypeOK, WritersAwake, [CallNext]_callVars,
                    \A w \in Writers : wpc'[w] = "wait", ~writeEvent'
             PROVE  (Room' => released' \/ widened') /\ \E w \in Writers : wtimer'[w] = wd'
  BY DEF WritersAwake
<1> USE DEF readVars, writeVars, wndVars, deadVars, endVars
<1>1. ASSUME NEW w \in Writers, WriteTest(w) \/ WriteStep(w)
      PROVE  (Room' => released' \/ widened') /\ wtimer'[w] = wd'
  <2>1. wpc'[w] = "wait"
    OBVIOUS
  <2>2. /\ WriteSleep(w)
        /\ wpc' = [wpc EXCEPT ![w] = "wait"] /\ wtimer' = [wtimer EXCEPT ![w] = wd]
    BY <1>1, <2>1 DEF WriteStep, WriteTest, WriteData, WriteSleep, WriteWake, WriteFails, WriteTo,
                      CallTypeOK
  <2> QED
    BY <2>2 DEF WriteSleep, Room, CallTypeOK
<1>2. ASSUME UNCHANGED <<writeEvent, writeVars, wd>>, Room' => released' \/ widened' \/ Room,
             released => released', widened => widened'
      PROVE  (Room' => released' \/ widened') /\ \E w \in Writers : wtimer'[w] = wd'
  BY <1>2 DEF WritersAwake
<1>3. ASSUME NEW r \in Readers, ReadStep(r)
      PROVE  UNCHANGED <<waitsnd, wndVars, writeEvent, writeVars, wd, released>>
  BY <1>3 DEF ReadStep, ReadData, ReadSleep, ReadWake, ReadFails
<1>4. ASSUME NEW input \in 0 .. MaxData, NEW acked \in 0 .. MaxWaitSnd,
             NEW wnd \in 0 .. MaxRmt, KcpInput(input, acked, wnd)
      PROVE  /\ UNCHANGED <<writeEvent, writeVars, wd, released>>
             /\ ~Room' /\ ~writeEvent
  BY <1>4 DEF KcpInput, NotifyWriteEvent, Room, CallTypeOK
<1>5. CASE Update
  BY <1>2, <1>5 DEF Update, NotifyWriteEvent, Room, CallTypeOK
<1>6. CASE NotifyReadError \/ Die \/ UNCHANGED callVars
  BY <1>2, <1>6 DEF NotifyReadError, Die, callVars, Room
<1>7. CASE CloseRelease
  BY <1>2, <1>7 DEF CloseRelease
<1>8. ASSUME NEW sides \in Sides, SetDeadline(sides)
      PROVE  UNCHANGED <<waitsnd, wndVars, writeEvent, writeVars, wd, released>>
  BY <1>8 DEF SetDeadline, NotifyWriteEvent, CallTypeOK
<1>9. ASSUME NEW d \in Deadlines, Pass(d)
      PROVE  UNCHANGED <<waitsnd, wndVars, writeEvent, writeVars, wd, released>>
  BY <1>9 DEF Pass
<1>10. ASSUME NEW sndwnd \in 1 .. MaxSnd, SetWindowSize(sndwnd)
       PROVE  /\ UNCHANGED <<writeEvent, writeVars, wd, released>>
              /\ Room' => Room \/ widened'
              /\ widened => widened'
  BY <1>10 DEF SetWindowSize
<1>11. CASE \/ \E r \in Readers : ReadStep(r)
           \/ \E sides \in Sides : SetDeadline(sides)
           \/ \E d \in Deadlines : Pass(d)
  <2>1. UNCHANGED <<waitsnd, wndVars, writeEvent, writeVars, wd, released>>
    BY <1>3, <1>8, <1>9, <1>11
  <2> QED
    BY <1>2, <2>1 DEF Room
<1>12. CASE \E sndwnd \in 1 .. MaxSnd : SetWindowSize(sndwnd)
  BY <1>2, <1>10, <1>12
<1>13. CASE \E input \in 0 .. MaxData, acked \in 0 .. MaxWaitSnd, wnd \in 0 .. MaxRmt :
               KcpInput(input, acked, wnd)
  <2>1. UNCHANGED <<writeEvent, writeVars, wd, released>> /\ ~Room'
    BY <1>4, <1>13
  <2> QED
    BY <2>1 DEF WritersAwake
<1>14. CASE \E w \in Writers : WriteTest(w) \/ WriteStep(w)
  BY <1>1, <1>14
<1> QED
  BY <1>5, <1>6, <1>7, <1>11, <1>12, <1>13, <1>14 DEF CallNext, Sides

\* The variables of UdpSession have their types.
THEOREM CallTypes == CallSpec => []CallTypeOK
  BY CallInitInv, CallTypeStep, PTL DEF CallSpec

\* Readers, or writers, do not all sleep without a token on what they could take, nor
\* all on a deadline that has been replaced, although a token that finds one pending
\* is dropped, each caller looks before it sleeps, and the window is now one side's and
\* now the other's.  Only room made by SetWindowSize, until the next write event, and
\* by Close is excepted.
THEOREM Wakeups == CallSpec => []NoLostWakeup
<1>1. CallTypeOK /\ NoLostWakeup /\ [CallNext]_callVars => CallTypeOK' /\ NoLostWakeup'
  BY CallTypeStep, ReadersStep, WritersStep DEF NoLostWakeup
<1> QED
  BY CallInitInv, <1>1, PTL DEF CallSpec

-----------------------------------------------------------------------------
\* A set of naturals has a least element.
LEMMA NatMin ==
    ASSUME NEW T \in SUBSET Nat, T # {}
    PROVE  \E x \in T : \A y \in T : x <= y
<1>1. PICK x \in T : \A y \in T : <<y, x>> \notin OpToRel(<, Nat)
  BY NatLessThanWellFounded, WFMin
<1>2. \A y \in T : ~(y < x)
  BY <1>1 DEF OpToRel
<1> QED
  BY <1>2

\* What Min of the community modules gives for a set of naturals.
LEMMA MinOf ==
    ASSUME NEW T \in SUBSET Nat, T # {}
    PROVE  Min(T) \in T /\ \A y \in T : Min(T) <= y
<1>1. PICK x \in T : \A y \in T : x <= y
  BY NatMin
<1> QED
  BY <1>1 DEF Min

\* What Max gives for them, if they have a bound.
LEMMA MaxOf ==
    ASSUME NEW m \in Nat, NEW T \in SUBSET (0 .. m), T # {}
    PROVE  Max(T) \in T /\ \A y \in T : y <= Max(T)
<1> DEFINE R == {m - x : x \in T}
<1>1. R \in SUBSET Nat /\ R # {}
  <2>1. \A x \in T : m - x \in Nat
    OBVIOUS
  <2> QED
    BY <2>1
<1>2. PICK x \in R : \A z \in R : x <= z
  BY <1>1, NatMin
<1>3. PICK y \in T : x = m - y
  BY <1>2
<1>4. \A z \in T : y >= z
  <2> TAKE z \in T
  <2>1. x <= m - z
    BY <1>2
  <2> QED
    BY <1>3, <2>1
<1>5. Max(T) \in T /\ \A z \in T : Max(T) >= z
  BY <1>4 DEF Max
<1> QED
  BY <1>5

-----------------------------------------------------------------------------
\* The size of the encoder's batches, how many fit in before the numbers wrap, and the
\* last batch.
Width == DataShards + ParityShards
Rounds == (Modulus - 1) \div Width
Last == (MaxEncodes + DataShards - 1) \div DataShards

\* Quotient and remainder, of a product the solver does not see through.
LEMMA Division ==
    ASSUME NEW x \in Nat, NEW w \in Nat \ {0}
    PROVE  /\ x \div w \in Nat /\ x % w \in 0 .. w - 1
           /\ x = (x \div w) * w + (x % w)
<1>1. x = w * (x \div w) + (x % w)
  BY SMTT(30)
<1>2. x \div w \in Int /\ x % w \in 0 .. w - 1
  OBVIOUS
<1>3. \A q \in Int : q * w = w * q
  OBVIOUS
<1>4. x \div w >= 0
  <2> SUFFICES ASSUME x \div w < 0 PROVE FALSE
    BY <1>2
  <2> DEFINE q == x \div w
             r == x % w
  <2>1. q \in Int /\ r \in 0 .. w - 1 /\ x = w * q + r /\ q <= -1
    BY <1>1, <1>2
  <2> HIDE DEF q, r
  <2>2. w * q <= -w
    BY <2>1, SMTT(30)
  <2> QED
    BY <2>1, <2>2
<1> QED
  BY <1>1, <1>2, <1>3, <1>4

\* A quotient and a remainder are what they are put together from.
LEMMA Remains ==
    ASSUME NEW w \in Nat \ {0}, NEW q \in Nat, NEW r \in 0 .. w - 1
    PROVE  (q * w + r) % w = r /\ q * w + r \in Nat
<1> DEFINE x == q * w + r
           p == x \div w
           s == x % w
<1>1. q * w \in Nat
  OBVIOUS
<1>2. x \in Nat
  BY <1>1
<1>3. p \in Nat /\ s \in 0 .. w - 1 /\ x = p * w + s
  BY <1>2, Division
<1>4. (p - q) * w = p * w - q * w
  BY <1>3
<1> DEFINE a == p * w
           b == q * w
           c == (p - q) * w
<1>5. a \in Int /\ b \in Int /\ c = a - b /\ x = a + s /\ x = b + r
  BY <1>1, <1>3, <1>4
<1>6. r - s = c
  <2> HIDE DEF a, b, c, x, s
  <2> QED
    BY <1>3, <1>5
<1>7. \A t \in Int : \A u, v \in 0 .. w - 1 : u - v = t * w => u = v
  OBVIOUS
<1>8. p - q \in Int
  BY <1>3
<1> HIDE DEF p
<1> QED
  BY <1>2, <1>3, <1>6, <1>7, <1>8

\* The constants, and the size of a batch.
LEMMA FecConstants ==
    /\ DataShards \in Nat \ {0} /\ ParityShards \in Nat \ {0} /\ Width \in Nat \ {0}
    /\ Width = DataShards + ParityShards /\ Size(Enc) = Width
    /\ Modulus \in Nat \ {0} /\ MaxEncodes \in Nat /\ Multi \in Nat \ {0}
    /\ Samples \in Nat \ {0, 1}
  BY FecAssumption DEF Width, Size, Enc

\* How far the numbers go, and where they wrap.
LEMMA Far ==
    /\ Rounds \in Nat /\ Last \in Nat /\ Paws = Rounds * Width
    /\ Paws \in Nat /\ Paws < Modulus
    /\ (Last + 1) * Width \in Nat
    /\ 2 * ((Last + 1) * Width + Modulus - Paws) <= Modulus
    /\ \A b \in Nat : b * DataShards <= MaxEncodes + DataShards - 1 => b <= Last
<1>1. Modulus - 1 \in Nat /\ MaxEncodes + DataShards - 1 \in Nat
  BY FecConstants
<1>2. Rounds \in Nat /\ Modulus - 1 = Rounds * Width + ((Modulus - 1) % Width)
      /\ (Modulus - 1) % Width \in 0 .. Width - 1
  BY <1>1, FecConstants, Division DEF Rounds
<1>3. Paws = Rounds * Width
  BY FecConstants DEF Paws, Rounds
<1>4. Paws \in Nat /\ Paws < Modulus
  <2> DEFINE z == Rounds * Width
  <2>1. z \in Nat
    BY <1>2, FecConstants
  <2> HIDE DEF z
  <2>2. z < Modulus
    BY <1>2, <2>1, FecConstants DEF z
  <2> QED
    BY <1>3, <2>1, <2>2 DEF z
<1>5. Last \in Nat /\ MaxEncodes + DataShards - 1 =
           Last * DataShards + ((MaxEncodes + DataShards - 1) % DataShards)
      /\ (MaxEncodes + DataShards - 1) % DataShards \in 0 .. DataShards - 1
  BY <1>1, FecConstants, Division DEF Last
<1>6. ASSUME NEW b \in Nat, b * DataShards <= MaxEncodes + DataShards - 1 PROVE b <= Last
  <2> SUFFICES ASSUME b >= Last + 1 PROVE FALSE
    BY <1>5
  <2>1. b * DataShards >= (Last + 1) * DataShards
    BY <1>5, FecConstants, SMTT(30)
  <2>2. (Last + 1) * DataShards = Last * DataShards + DataShards
    BY <1>5, FecConstants
  <2> DEFINE x == b * DataShards
             y == Last * DataShards
             r == (MaxEncodes + DataShards - 1) % DataShards
  <2>3. x \in Nat /\ y \in Nat
    BY <1>5, FecConstants
  <2>4. r \in 0 .. DataShards - 1 /\ x >= y + DataShards /\ x <= y + r
    BY <1>5, <1>6, <2>1, <2>2
  <2> HIDE DEF x, y, r
  <2> QED
    BY <2>3, <2>4, FecConstants
<1>7. (Last + 1) * Width \in Nat
  BY <1>5, FecConstants
<1>8. 2 * ((Last + 1) * Width + Modulus - Paws) <= Modulus
  BY FecAssumption, FecConstants DEF Span, Last
<1> QED
  BY <1>2, <1>3, <1>4, <1>5, <1>6, <1>7, <1>8

-----------------------------------------------------------------------------
\* The numbers of the b-th batch since the decoder was made, at block k of the encoder.
Blk(k, b) == IF k + b < Rounds THEN k + b ELSE k + b - Rounds
Number(k, b, p) == Blk(k, b) * Width + p

\* The place of a datagram among all of them.
Ord(b, p) == b * Width + p

\* A number below the modulus is its own remainder.
LEMMA Below ==
    ASSUME NEW w \in Nat \ {0}, NEW x \in 0 .. w - 1
    PROVE  x % w = x /\ w % w = 0
<1>1. (0 * w + x) % w = x /\ (1 * w + 0) % w = 0
  BY Remains
<1>2. 0 * w + x = x /\ 1 * w + 0 = w
  OBVIOUS
<1> QED
  BY <1>1, <1>2

\* Blocks are used once.
LEMMA Blocks ==
    /\ Last + 1 < Rounds
    /\ \A k \in 0 .. Rounds - 1, b \in 0 .. Last + 1 : Blk(k, b) \in 0 .. Rounds - 1
<1>1. (Last + 1) * Width < Rounds * Width
  <2> DEFINE x == (Last + 1) * Width
  <2> HIDE DEF x
  <2>1. x \in Nat /\ Paws \in Nat /\ Paws < Modulus /\ 2 * (x + Modulus - Paws) <= Modulus
    BY Far DEF x
  <2>2. x < Paws
    BY <2>1, FecConstants
  <2> QED
    BY <2>2, Far DEF x
<1>2. Last + 1 < Rounds
  <2> SUFFICES ASSUME Last + 1 >= Rounds PROVE FALSE
    BY Far
  <2>1. (Last + 1) * Width >= Rounds * Width
    BY Far, FecConstants, SMTT(30)
  <2> DEFINE x == (Last + 1) * Width
             y == Rounds * Width
  <2>2. x \in Nat /\ y \in Nat /\ x < y /\ x >= y
    BY <1>1, <2>1, Far
  <2> HIDE DEF x, y
  <2> QED
    BY <2>2
<1> QED
  BY <1>2, Far DEF Blk

\* What a number says of its datagram, and which the next is.
LEMMA NumberOf ==
    ASSUME NEW k \in 0 .. Rounds - 1, NEW b \in 0 .. Last, NEW p \in 0 .. Width - 1
    PROVE  /\ Number(k, b, p) \in 0 .. Paws - 1
           /\ Number(k, b, p) % Width = p
           /\ Number(k, b, p) - p = Number(k, b, 0)
           /\ \A i \in 0 .. Width - 1 - p : Number(k, b, p) + i = Number(k, b, p + i)
           /\ (Number(k, b, p) + (Width - p)) % Paws = Number(k, b + 1, 0)
<1> DEFINE m == Blk(k, b)
           z == m * Width
<1>1. m \in 0 .. Rounds - 1 /\ m \in Nat
  BY Blocks, Far
<1>2. z + Width <= Paws /\ z \in Nat
  <2>1. (m + 1) * Width <= Rounds * Width
    BY <1>1, Far, FecConstants, SMTT(30)
  <2>2. (m + 1) * Width = z + Width /\ z \in Nat
    BY <1>1, FecConstants
  <2> QED
    BY <2>1, <2>2, Far
<1>3. Number(k, b, p) = z + p /\ (z + p) % Width = p
  BY <1>1, FecConstants, Remains DEF Number
<1>4. \A i \in 0 .. Width - 1 : Number(k, b, i) = z + i
  BY DEF Number
<1>5. (z + Width) % Paws = Number(k, b + 1, 0)
  <2>1. CASE m + 1 < Rounds
    <3>1. Blk(k, b + 1) = m + 1
      BY <1>1, <2>1, Far DEF Blk
    <3>2. (m + 1) * Width = z + Width /\ (m + 1) * Width < Paws
      <4>1. (m + 2) * Width <= Rounds * Width
        BY <1>1, <2>1, Far, FecConstants, SMTT(30)
      <4>2. (m + 2) * Width = z + Width + Width /\ (m + 1) * Width = z + Width
        BY <1>1, FecConstants
      <4> HIDE DEF z
      <4> QED
        BY <1>2, <4>1, <4>2, Far, FecConstants
    <3> HIDE DEF z, m
    <3>3. Number(k, b + 1, 0) = z + Width
      BY <1>2, <3>1, <3>2, FecConstants DEF Number
    <3>4. Paws \in Nat \ {0} /\ z + Width \in 0 .. Paws - 1
      BY <1>2, <3>2, Far, FecConstants
    <3> QED
      BY <3>3, <3>4, Below
  <2>2. CASE m + 1 = Rounds
    <3>1. Blk(k, b + 1) = 0
      BY <1>1, <2>2, Far, Blocks DEF Blk
    <3>2. (m + 1) * Width = z + Width
      BY <1>1, FecConstants
    <3>3. Number(k, b + 1, 0) = 0
      BY <3>1, FecConstants DEF Number
    <3>4. z + Width = Paws /\ Paws \in Nat \ {0}
      BY <1>2, <2>2, <3>2, Far, FecConstants
    <3>5. 0 \in 0 .. Paws - 1
      BY <3>4
    <3> HIDE DEF z, m
    <3> QED
      BY <3>3, <3>4, <3>5, Below
  <2> QED
    BY <1>1, <2>1, <2>2, Far
<1> HIDE DEF z, m
<1>6. /\ z + p \in 0 .. Paws - 1
      /\ \A i \in 0 .. Width - 1 - p : p + i \in 0 .. Width - 1 /\ (z + p) + i = z + (p + i)
      /\ (z + p) + (Width - p) = z + Width /\ (z + p) - p = z + 0 /\ 0 \in 0 .. Width - 1
  BY <1>2, Far, FecConstants
<1> QED
  BY <1>3, <1>4, <1>5, <1>6

\* Places are ordered by batch, then within it.
LEMMA Places ==
    ASSUME NEW b \in Nat, NEW c \in Nat, NEW p \in 0 .. Width - 1, NEW q \in 0 .. Width - 1
    PROVE  /\ Ord(b, p) \in Nat
           /\ b <= Last => Ord(b, p) < (Last + 1) * Width
           /\ b < c => Ord(b, p) < Ord(c, q)
           /\ b = c => Ord(b, p) - Ord(c, q) = p - q
<1>1. \A m, n \in Nat : m < n => m * Width + Width <= n * Width
  <2> TAKE m, n \in Nat
  <2> HAVE m < n
  <2>1. (m + 1) * Width <= n * Width
    BY FecConstants, SMTT(30)
  <2>2. (m + 1) * Width = m * Width + Width
    BY FecConstants
  <2> QED
    BY <2>1, <2>2
<1>2. \A n \in Nat : n * Width \in Nat
  BY FecConstants
<1>3. Ord(b, p) \in Nat
  BY <1>2, FecConstants DEF Ord
<1>4. ASSUME b <= Last PROVE Ord(b, p) < (Last + 1) * Width
  <2>1. b * Width + Width <= (Last + 1) * Width
    BY <1>1, <1>4, Far
  <2> DEFINE x == b * Width
             y == (Last + 1) * Width
  <2>2. x \in Nat /\ y \in Nat /\ x + Width <= y
    BY <1>2, <2>1, Far
  <2> HIDE DEF x, y
  <2>3. x + p < y
    BY <2>2, FecConstants
  <2> QED
    BY <2>3 DEF Ord, x, y
<1>5. ASSUME b < c PROVE Ord(b, p) < Ord(c, q)
  <2> DEFINE x == b * Width
             y == c * Width
  <2>1. x \in Nat /\ y \in Nat /\ x + Width <= y
    BY <1>1, <1>2, <1>5
  <2> HIDE DEF x, y
  <2>2. x + p < y + q
    BY <2>1, FecConstants
  <2> QED
    BY <2>2 DEF Ord, x, y
<1>6. ASSUME b = c PROVE Ord(b, p) - Ord(c, q) = p - q
  <2> DEFINE x == b * Width
  <2>1. x \in Nat
    BY <1>2
  <2> HIDE DEF x
  <2>2. (x + p) - (x + q) = p - q
    BY <2>1, FecConstants
  <2> QED
    BY <1>6, <2>2 DEF Ord, x
<1> QED
  BY <1>3, <1>4, <1>5, <1>6

\* The signed distance of two numbers tells which is first, also where they wrap.
LEMMA Apart ==
    ASSUME NEW k \in 0 .. Rounds - 1, NEW b \in 0 .. Last, NEW c \in 0 .. Last,
           NEW p \in 0 .. Width - 1, NEW q \in 0 .. Width - 1
    PROVE  LET d == Diff(Number(k, b, p), Number(k, c, q))
           IN  /\ d >= 0 <=> Ord(b, p) >= Ord(c, q)
               /\ d <= 0 <=> Ord(b, p) <= Ord(c, q)
               /\ d > 0 <=> Ord(b, p) > Ord(c, q)
               /\ Number(k, b, p) = Number(k, c, q) => Ord(b, p) = Ord(c, q)
<1> DEFINE x == Number(k, b, p)
           y == Number(k, c, q)
           u == Ord(b, p)
           v == Ord(c, q)
           z == k * Width
           w == (Last + 1) * Width
<1>1. ASSUME NEW n \in 0 .. Last, NEW i \in 0 .. Width - 1
      PROVE  Number(k, n, i) = z + Ord(n, i) \/ Number(k, n, i) = z + Ord(n, i) - Paws
  <2>1. /\ (k + n) * Width = z + n * Width
        /\ (k + n - Rounds) * Width = z + n * Width - Rounds * Width
    BY Far, FecConstants
  <2>2. z \in Int /\ n * Width \in Int /\ Rounds * Width \in Int
    BY Far, FecConstants
  <2> DEFINE f == n * Width
             g == Rounds * Width
  <2>3. Number(k, n, i) = (z + f) + i \/ Number(k, n, i) = (z + f - g) + i
    BY <2>1 DEF Number, Blk
  <2>4. Ord(n, i) = f + i /\ Paws = g
    BY Far DEF Ord
  <2> HIDE DEF f, g, z
  <2> QED
    BY <2>2, <2>3, <2>4, FecConstants DEF f, g
<1>2. x \in 0 .. Paws - 1 /\ y \in 0 .. Paws - 1
  BY NumberOf
<1>3. u \in Nat /\ v \in Nat /\ u < w /\ v < w
  <2>1. b \in Nat /\ c \in Nat /\ b <= Last /\ c <= Last
    BY Far
  <2>2. Ord(b, p) \in Nat /\ Ord(b, p) < w
    BY <2>1, Places
  <2>3. Ord(c, q) \in Nat /\ Ord(c, q) < w
    BY <2>1, Places
  <2> QED
    BY <2>2, <2>3
<1>4. /\ x = z + u \/ x = z + u - Paws
      /\ y = z + v \/ y = z + v - Paws
  BY <1>1
<1>5. /\ z \in Nat /\ Paws \in Nat /\ Paws < Modulus /\ w \in Nat
      /\ 2 * (w + Modulus - Paws) <= Modulus /\ Modulus \in Nat \ {0}
  BY Far, FecConstants
<1>6. Diff(x, y) = LET d == IF x >= y THEN x - y ELSE x - y + Modulus
                   IN  IF d < Modulus \div 2 THEN d ELSE d - Modulus
  <2> HIDE DEF x, y
  <2>1. CASE x >= y
    <3>1. x - y \in 0 .. Modulus - 1 /\ x - y + Modulus = 1 * Modulus + (x - y)
      BY <1>2, <1>5, <2>1
    <3>2. (x - y + Modulus) % Modulus = x - y
      BY <1>5, <3>1, Remains
    <3> QED
      BY <2>1, <3>2 DEF Diff
  <2>2. CASE ~(x >= y)
    <3>1. x - y + Modulus \in 0 .. Modulus - 1
      BY <1>2, <1>5, <2>2
    <3>2. (x - y + Modulus) % Modulus = x - y + Modulus
      BY <1>5, <3>1, Below
    <3> QED
      BY <2>2, <3>2 DEF Diff
  <2> QED
    BY <2>1, <2>2
<1> DEFINE h == Modulus \div 2
<1>7. h \in Nat /\ 2 * h <= Modulus /\ Modulus <= 2 * h + 1
  BY <1>5
<1> HIDE DEF x, y, u, v, z, w, h
<1>8. CASE u >= v
  <2>1. \/ x >= y /\ x - y = u - v
        \/ ~(x >= y) /\ x - y + Modulus = u - v + (Modulus - Paws)
    BY <1>2, <1>3, <1>4, <1>5, <1>8
  <2>2. u - v < h /\ u - v + (Modulus - Paws) < h
    BY <1>3, <1>5, <1>7
  <2>3. Diff(x, y) >= 0 /\ (Diff(x, y) > 0 <=> u > v) /\ (x = y => u = v)
    BY <1>2, <1>3, <1>5, <1>6, <1>8, <2>1, <2>2 DEF h
  <2>4. Diff(x, y) \in Int
    BY <1>2, <1>5, <1>6
  <2> QED
    BY <1>3, <1>8, <2>3, <2>4 DEF x, y, u, v
<1>9. CASE u < v
  <2>1. \/ ~(x >= y) /\ x - y = u - v
        \/ x > y /\ x - y = u - v + Paws
    BY <1>2, <1>3, <1>4, <1>5, <1>9
  <2>2. v - u < h /\ v - u + (Modulus - Paws) < h
    BY <1>3, <1>5, <1>7
  <2>3. Diff(x, y) < 0 /\ x # y
    BY <1>2, <1>3, <1>5, <1>6, <1>7, <1>9, <2>1, <2>2 DEF h
  <2>4. Diff(x, y) \in Int
    BY <1>2, <1>5, <1>6
  <2> QED
    BY <1>3, <1>9, <2>3, <2>4 DEF x, y, u, v
<1> QED
  BY <1>3, <1>8, <1>9

-----------------------------------------------------------------------------
Shards == [seq : Nat, data : BOOLEAN, batch : Nat, pos : Nat]
Elements == [shard : Shards, old : BOOLEAN]

\* A datagram of the encoder, and its place.
Sent(k, t) ==
    /\ t \in Shards
    /\ t.batch \in 0 .. Last /\ t.pos \in 0 .. Width - 1
    /\ t.seq = Number(k, t.batch, t.pos)
    /\ t.data <=> t.pos < DataShards

At(t) == Ord(t.batch, t.pos)

\* The numbers of datagrams are in the order of their places.
LEMMA Compared ==
    ASSUME NEW k \in 0 .. Rounds - 1, NEW t, NEW u, Sent(k, t), Sent(k, u)
    PROVE  /\ At(t) \in Nat /\ At(u) \in Nat
           /\ Diff(t.seq, u.seq) >= 0 <=> At(t) >= At(u)
           /\ Diff(t.seq, u.seq) <= 0 <=> At(t) <= At(u)
           /\ Diff(t.seq, u.seq) > 0 <=> At(t) > At(u)
           /\ t.seq = u.seq => t = u
           /\ At(t) = At(u) => t = u
           /\ t.batch = u.batch => At(t) - At(u) = t.pos - u.pos
           /\ t.batch < u.batch => At(t) < At(u)
<1>1. /\ t.batch \in 0 .. Last /\ u.batch \in 0 .. Last
      /\ t.pos \in 0 .. Width - 1 /\ u.pos \in 0 .. Width - 1
      /\ t.seq = Number(k, t.batch, t.pos) /\ u.seq = Number(k, u.batch, u.pos)
  BY DEF Sent
<1>2. t.batch \in Nat /\ u.batch \in Nat
  BY <1>1, Far
<1>3. /\ Diff(t.seq, u.seq) >= 0 <=> At(t) >= At(u)
      /\ Diff(t.seq, u.seq) <= 0 <=> At(t) <= At(u)
      /\ Diff(t.seq, u.seq) > 0 <=> At(t) > At(u)
      /\ t.seq = u.seq => At(t) = At(u)
  BY <1>1, Apart DEF At
<1>4. /\ At(t) \in Nat /\ At(u) \in Nat
      /\ t.batch = u.batch => At(t) - At(u) = t.pos - u.pos
      /\ t.batch < u.batch => At(t) < At(u)
      /\ u.batch < t.batch => At(u) < At(t)
  BY <1>1, <1>2, Places DEF At
<1>5. ASSUME At(t) = At(u) PROVE t = u
  <2>1. t.batch = u.batch
    BY <1>2, <1>4, <1>5
  <2>2. t.pos = u.pos
    BY <1>1, <1>4, <1>5, <2>1, FecConstants
  <2>3. t.seq = u.seq /\ t.data = u.data
    BY <1>1, <2>1, <2>2 DEF Sent, Shards
  <2> QED
    BY <2>1, <2>2, <2>3 DEF Sent, Shards
<1> QED
  BY <1>3, <1>4, <1>5

\* A queue of datagrams, in order.
Lined(k, q) ==
    /\ q \in Seq(Elements)
    /\ \A i \in 1 .. Len(q) : Sent(k, q[i].shard)
    /\ \A i, j \in 1 .. Len(q) : i < j => At(q[i].shard) < At(q[j].shard)

\* Where decode puts a datagram, and when it is there already.
LEMMA PlaceOf ==
    ASSUME NEW k \in 0 .. Rounds - 1, Lined(k, rx), NEW s, Sent(k, s)
    PROVE  /\ Place(s) \in 0 .. Len(rx)
           /\ \A i \in 1 .. Len(rx) : i <= Place(s) <=> At(rx[i].shard) <= At(s)
           /\ IsDuplicate(s) <=> s \in ShardsOf(rx)
<1> DEFINE before == {i \in 1 .. Len(rx) : Diff(s.seq, rx[i].shard.seq) >= 0}
           S == {0} \cup before
           n == Len(rx)
<1>1. n \in Nat
  BY LenProperties DEF Lined
<1>2. S \in SUBSET (0 .. n) /\ S # {}
  BY <1>1
<1>3. Max(S) \in S /\ \A y \in S : y <= Max(S)
  BY <1>1, <1>2, MaxOf
<1>4. \A i \in 1 .. n : i \in before <=> At(rx[i].shard) <= At(s)
  BY Compared DEF Lined
<1>5. Place(s) = Max(S)
  BY DEF Place
<1> DEFINE p == Place(s)
<1>6. p \in S /\ p \in 0 .. n /\ \A y \in S : y <= p
  BY <1>2, <1>3, <1>5
<1>7. ASSUME NEW i \in 1 .. n PROVE i <= p <=> At(rx[i].shard) <= At(s)
  <2>1. ASSUME i <= p PROVE At(rx[i].shard) <= At(s)
    <3>1. p \in before
      BY <1>1, <1>6, <2>1
    <3>2. p \in 1 .. n /\ At(rx[p].shard) <= At(s)
      BY <1>4, <3>1
    <3>3. i = p \/ At(rx[i].shard) < At(rx[p].shard)
      BY <1>1, <1>6, <2>1, <3>2 DEF Lined
    <3>4. Sent(k, rx[i].shard) /\ Sent(k, rx[p].shard)
      BY <3>2 DEF Lined
    <3>5. At(rx[i].shard) \in Nat /\ At(rx[p].shard) \in Nat /\ At(s) \in Nat
      BY <3>4, Compared
    <3> HIDE DEF p
    <3> QED
      BY <3>2, <3>3, <3>5
  <2>2. ASSUME At(rx[i].shard) <= At(s) PROVE i <= p
    BY <1>4, <1>6, <2>2
  <2> QED
    BY <2>1, <2>2
<1>8. ASSUME IsDuplicate(s) PROVE s \in ShardsOf(rx)
  <2>1. p \in 1 .. n /\ rx[p].shard.seq = s.seq
    BY <1>1, <1>6, <1>8 DEF IsDuplicate
  <2>2. rx[p].shard = s
    BY <2>1, Compared DEF Lined
  <2> QED
    BY <2>1, <2>2 DEF ShardsOf
<1>9. ASSUME s \in ShardsOf(rx) PROVE IsDuplicate(s)
  <2>1. PICK i \in 1 .. n : rx[i].shard = s
    BY <1>9 DEF ShardsOf
  <2>2. At(s) \in Nat
    BY Compared
  <2>3. i <= p
    BY <1>7, <2>1, <2>2
  <2>4. p \in 1 .. n /\ At(rx[p].shard) <= At(s)
    <3>1. p \in 1 .. n
      BY <1>1, <1>6, <2>3
    <3> QED
      BY <1>6, <1>7, <3>1
  <2>5. i = p
    <3> SUFFICES ASSUME i < p PROVE FALSE
      BY <1>1, <2>3, <2>4
    <3>1. At(rx[i].shard) < At(rx[p].shard) /\ Sent(k, rx[p].shard)
      BY <2>4 DEF Lined
    <3>2. At(rx[p].shard) \in Nat
      BY <3>1, Compared
    <3> HIDE DEF p
    <3> QED
      BY <2>1, <2>2, <2>4, <3>1, <3>2
  <2> QED
    BY <2>1, <2>4, <2>5 DEF IsDuplicate
<1> QED
  BY <1>6, <1>7, <1>8, <1>9

\* A sequence with an element put in, one with a part cut out, and one's end.
Spliced(s, n, x) == SubSeq(s, 1, n) \o <<x>> \o SubSeq(s, n + 1, Len(s))
Cut(q, a, b) == SubSeq(q, 1, a) \o SubSeq(q, b + 1, Len(q))
From(q, m) == SubSeq(q, m, Len(q))

\* A sequence with an element put in.
LEMMA Inserted ==
    ASSUME NEW T, NEW s \in Seq(T), NEW n \in 0 .. Len(s), NEW x \in T
    PROVE  /\ Spliced(s, n, x) \in Seq(T) /\ Len(Spliced(s, n, x)) = Len(s) + 1
           /\ \A i \in 1 .. Len(s) + 1 :
                 Spliced(s, n, x)[i] =
                    IF i <= n THEN s[i] ELSE IF i = n + 1 THEN x ELSE s[i - 1]
<1> DEFINE a == SubSeq(s, 1, n)
           b == SubSeq(s, n + 1, Len(s))
<1>1. Len(s) \in Nat /\ n \in Nat /\ \A i \in 1 .. Len(s) : s[i] \in T
  BY LenProperties, ElementOfSeq
<1>2. a \in Seq(T) /\ Len(a) = n /\ \A i \in 1 .. n : a[i] = s[i]
  BY <1>1, SubSeqProperties
<1>3. /\ b \in Seq(T) /\ Len(b) = Len(s) - n
      /\ \A i \in 1 .. Len(s) - n : b[i] = s[n + i]
  BY <1>1, SubSeqProperties
<1> HIDE DEF a, b
<1> DEFINE c == a \o <<x>>
<1>4. c \in Seq(T) /\ Len(c) = n + 1 /\ (\A i \in 1 .. n : c[i] = s[i]) /\ c[n + 1] = x
  BY <1>1, <1>2
<1> HIDE DEF c
<1> DEFINE q == c \o b
<1>5. /\ q \in Seq(T) /\ Len(q) = Len(s) + 1
      /\ \A i \in 1 .. n + 1 : q[i] = c[i]
      /\ \A i \in n + 2 .. Len(s) + 1 : q[i] = b[i - (n + 1)]
  BY <1>1, <1>3, <1>4
<1> HIDE DEF q
<1>6. ASSUME NEW i \in 1 .. Len(s) + 1
      PROVE  q[i] = IF i <= n THEN s[i] ELSE IF i = n + 1 THEN x ELSE s[i - 1]
  <2>1. CASE i <= n
    BY <1>1, <1>4, <1>5, <2>1
  <2>2. CASE i = n + 1
    BY <1>1, <1>4, <1>5, <2>2
  <2>3. CASE i > n + 1
    <3>1. i \in n + 2 .. Len(s) + 1 /\ i - (n + 1) \in 1 .. Len(s) - n /\ n + (i - (n + 1)) = i - 1
      BY <1>1, <2>3
    <3>2. q[i] = s[i - 1]
      BY <1>3, <1>5, <3>1
    <3> QED
      BY <1>1, <2>3, <3>2
  <2> QED
    BY <1>1, <2>1, <2>2, <2>3
<1> QED
  <2>1. Spliced(s, n, x) = q
    BY DEF Spliced, a, b, c, q
  <2> QED
    BY <1>5, <1>6, <2>1

\* What is left of a queue, whose element i was element f[i], is in order.
Picks(q, r, f) ==
    /\ r \in Seq(Elements) /\ f \in [1 .. Len(r) -> 1 .. Len(q)]
    /\ \A i \in 1 .. Len(r) : r[i] = q[f[i]]
    /\ \A i, j \in 1 .. Len(r) : i < j => f[i] < f[j]

\* Such a selection is itself a queue, of the shards selected.
LEMMA Picked ==
    ASSUME NEW k, NEW q, NEW r, NEW f, Lined(k, q), Picks(q, r, f)
    PROVE  /\ Lined(k, r)
           /\ \A t : t \in ShardsOf(r) <=> \E i \in 1 .. Len(r) : t = q[f[i]].shard
<1>1. \A i \in 1 .. Len(r) : Sent(k, r[i].shard)
  BY DEF Lined, Picks
<1>2. \A i, j \in 1 .. Len(r) : i < j => At(r[i].shard) < At(r[j].shard)
  BY DEF Lined, Picks
<1>3. \A t : t \in ShardsOf(r) <=> \E i \in 1 .. Len(r) : t = q[f[i]].shard
  BY DEF ShardsOf, Picks
<1> QED
  BY <1>1, <1>2, <1>3 DEF Lined, Picks

\* A queue with some of its elements cut out.
LEMMA CutOut ==
    ASSUME NEW k, NEW q, Lined(k, q),
           NEW a \in 0 .. Len(q), NEW b \in a .. Len(q)
    PROVE  /\ Lined(k, Cut(q, a, b)) /\ Len(Cut(q, a, b)) = Len(q) - (b - a)
           /\ \A t : t \in ShardsOf(Cut(q, a, b)) <=>
                        \E i \in 1 .. a \cup b + 1 .. Len(q) : t = q[i].shard
<1> DEFINE n == Len(q)
           x == SubSeq(q, 1, a)
           y == SubSeq(q, b + 1, Len(q))
           r == x \o y
<1>1. q \in Seq(Elements) /\ n \in Nat /\ \A i \in 1 .. n : q[i] \in Elements
  BY LenProperties, ElementOfSeq DEF Lined
<1>2. x \in Seq(Elements) /\ Len(x) = a /\ \A i \in 1 .. a : x[i] = q[i]
  BY <1>1, SubSeqProperties
<1>3. /\ y \in Seq(Elements) /\ Len(y) = n - b
      /\ \A i \in 1 .. n - b : y[i] = q[b + i]
  BY <1>1, SubSeqProperties
<1> HIDE DEF x, y
<1>4. /\ r \in Seq(Elements) /\ Len(r) = n - (b - a)
      /\ \A i \in 1 .. a : r[i] = x[i]
      /\ \A i \in a + 1 .. n - (b - a) : r[i] = y[i - a]
  <2>1. /\ r \in Seq(Elements) /\ Len(r) = Len(x) + Len(y)
        /\ \A i \in 1 .. Len(x) + Len(y) : r[i] = IF i <= Len(x) THEN x[i] ELSE y[i - Len(x)]
    BY <1>2, <1>3, ConcatProperties
  <2> HIDE DEF r
  <2>2. Len(x) = a /\ Len(y) = n - b /\ a \in Nat /\ b \in Nat /\ n \in Nat /\ a <= b /\ b <= n
    BY <1>1, <1>2, <1>3
  <2>3. Len(r) = n - (b - a)
    BY <2>1, <2>2
  <2>4. \A i \in 1 .. a : i \in 1 .. Len(x) + Len(y) /\ i <= Len(x)
    BY <2>2
  <2>5. \A i \in a + 1 .. n - (b - a) : i \in 1 .. Len(x) + Len(y) /\ ~(i <= Len(x))
    BY <2>2
  <2> QED
    BY <2>1, <2>2, <2>3, <2>4, <2>5
<1> HIDE DEF r
<1> DEFINE f == [i \in 1 .. Len(r) |-> IF i <= a THEN i ELSE i + (b - a)]
<1>5. /\ f \in [1 .. Len(r) -> 1 .. n]
      /\ \A i, j \in 1 .. Len(r) : i < j => f[i] < f[j]
  BY <1>1, <1>4
<1>6. \A i \in 1 .. Len(r) : r[i] = q[f[i]]
  <2> TAKE i \in 1 .. Len(r)
  <2>1. CASE i <= a
    BY <1>1, <1>2, <1>4, <2>1
  <2>2. CASE i > a
    <3>1. i \in a + 1 .. n - (b - a) /\ i - a \in 1 .. n - b /\ b + (i - a) = i + (b - a)
      BY <1>1, <1>4, <2>2
    <3>2. r[i] = q[i + (b - a)]
      BY <1>3, <1>4, <3>1
    <3> QED
      BY <1>1, <2>2, <3>2
  <2> QED
    BY <1>1, <2>1, <2>2
<1>7. \A j \in 1 .. a \cup b + 1 .. n : \E i \in 1 .. Len(r) : f[i] = j
  <2> TAKE j \in 1 .. a \cup b + 1 .. n
  <2>1. CASE j \in 1 .. a
    <3>1. j \in 1 .. Len(r) /\ f[j] = j
      BY <1>1, <1>4, <2>1
    <3> QED
      BY <3>1
  <2>2. CASE j \in b + 1 .. n
    <3>1. j - (b - a) \in 1 .. Len(r) /\ f[j - (b - a)] = j
      BY <1>1, <1>4, <2>2
    <3> QED
      BY <3>1
  <2> QED
    BY <2>1, <2>2
<1>8. \A i \in 1 .. Len(r) : f[i] \in 1 .. a \cup b + 1 .. n
  BY <1>1, <1>4
<1> HIDE DEF f
<1>9. /\ Lined(k, r)
      /\ \A t : t \in ShardsOf(r) <=> \E i \in 1 .. Len(r) : t = q[f[i]].shard
  <2>1. Picks(q, r, f)
    BY <1>4, <1>5, <1>6 DEF Picks
  <2>2. Lined(k, r) /\ \A t : t \in ShardsOf(r) <=> \E i \in 1 .. Len(r) : t = q[f[i]].shard
    BY <2>1, Picked
  <2> QED
    BY <2>2
<1>10. \A t : t \in ShardsOf(r) <=> \E i \in 1 .. a \cup b + 1 .. n : t = q[i].shard
  BY <1>7, <1>8, <1>9
<1> QED
  <2>1. Cut(q, a, b) = r
    BY DEF Cut, r, x, y
  <2> QED
    BY <1>4, <1>9, <1>10, <2>1

\* A queue without its first elements.
LEMMA Suffix ==
    ASSUME NEW k, NEW q, Lined(k, q), NEW m \in 1 .. Len(q) + 1
    PROVE  /\ Lined(k, From(q, m)) /\ Len(From(q, m)) = Len(q) - m + 1
           /\ ShardsOf(From(q, m)) \subseteq ShardsOf(q)
<1> DEFINE n == Len(q)
           r == From(q, m)
<1>1. q \in Seq(Elements) /\ n \in Nat /\ \A i \in 1 .. n : q[i] \in Elements
  BY LenProperties, ElementOfSeq DEF Lined
<1>2. /\ r \in Seq(Elements) /\ Len(r) = n - m + 1
      /\ \A i \in 1 .. n - m + 1 : r[i] = q[m + i - 1]
  BY <1>1, SubSeqProperties DEF From
<1> HIDE DEF r
<1> DEFINE f == [i \in 1 .. Len(r) |-> m + i - 1]
<1>3. /\ f \in [1 .. Len(r) -> 1 .. n]
      /\ \A i, j \in 1 .. Len(r) : i < j => f[i] < f[j]
      /\ \A i \in 1 .. Len(r) : r[i] = q[f[i]]
  BY <1>1, <1>2
<1> HIDE DEF f
<1>4. /\ Lined(k, r)
      /\ \A t : t \in ShardsOf(r) <=> \E i \in 1 .. Len(r) : t = q[f[i]].shard
  <2>1. Picks(q, r, f)
    BY <1>2, <1>3 DEF Picks
  <2>2. Lined(k, r) /\ \A t : t \in ShardsOf(r) <=> \E i \in 1 .. Len(r) : t = q[f[i]].shard
    BY <2>1, Picked
  <2> QED
    BY <2>2
<1>5. ShardsOf(r) \subseteq ShardsOf(q)
  BY <1>3, <1>4 DEF ShardsOf
<1> QED
  BY <1>2, <1>4, <1>5 DEF r

\* decode's queue with the new datagram.
LEMMA InsertDone ==
    ASSUME NEW k \in 0 .. Rounds - 1, Lined(k, rx), NEW s, Sent(k, s), ~IsDuplicate(s)
    PROVE  /\ Lined(k, Insert(s)) /\ Len(Insert(s)) = Len(rx) + 1
           /\ Place(s) + 1 \in 1 .. Len(rx) + 1 /\ Insert(s)[Place(s) + 1].shard = s
           /\ ShardsOf(Insert(s)) = ShardsOf(rx) \cup {s}
<1> DEFINE n == Len(rx)
           p == Place(s)
           x == [shard |-> s, old |-> FALSE]
           q == Insert(s)
<1>1. rx \in Seq(Elements) /\ n \in Nat /\ \A i \in 1 .. n : rx[i] \in Elements
  BY LenProperties, ElementOfSeq DEF Lined
<1>2. /\ p \in 0 .. n
      /\ \A i \in 1 .. n : i <= p <=> At(rx[i].shard) <= At(s)
      /\ s \notin ShardsOf(rx)
  BY PlaceOf
<1>3. x \in Elements /\ x.shard = s
  BY DEF Sent, Elements
<1> HIDE DEF p, q, x
<1>4. /\ q \in Seq(Elements) /\ Len(q) = n + 1
      /\ \A i \in 1 .. n + 1 :
            q[i] = IF i <= p THEN rx[i] ELSE IF i = p + 1 THEN x ELSE rx[i - 1]
  <2>1. q = Spliced(rx, p, x)
    BY DEF Insert, Spliced, q, p, x
  <2> QED
    <3>1. rx \in Seq(Elements) /\ p \in 0 .. Len(rx) /\ x \in Elements
      BY <1>1, <1>2, <1>3
    <3>2. /\ Spliced(rx, p, x) \in Seq(Elements) /\ Len(Spliced(rx, p, x)) = Len(rx) + 1
          /\ \A i \in 1 .. Len(rx) + 1 :
                Spliced(rx, p, x)[i] =
                   IF i <= p THEN rx[i] ELSE IF i = p + 1 THEN x ELSE rx[i - 1]
      BY <3>1, Inserted
    <3> QED
      BY <2>1, <3>2
<1>5. \A i \in 1 .. n + 1 :
         /\ i <= p => i \in 1 .. n /\ q[i] = rx[i]
         /\ i = p + 1 => q[i] = x
         /\ i > p + 1 => i - 1 \in 1 .. n /\ i - 1 > p /\ q[i] = rx[i - 1]
         /\ i <= p \/ i = p + 1 \/ i > p + 1
  BY <1>1, <1>2, <1>4
<1>6. \A i \in 1 .. n : Sent(k, rx[i].shard) /\ At(rx[i].shard) \in Nat
  BY Compared DEF Lined
<1>7. \A i \in 1 .. n : (i <= p => At(rx[i].shard) < At(s)) /\ (i > p => At(s) < At(rx[i].shard))
  <2> TAKE i \in 1 .. n
  <2>1. rx[i].shard # s
    BY <1>2 DEF ShardsOf
  <2>2. At(rx[i].shard) # At(s) /\ At(s) \in Nat
    BY <1>6, <2>1, Compared
  <2> QED
    BY <1>1, <1>2, <1>6, <2>2
<1>8. \A i \in 1 .. n + 1 : Sent(k, q[i].shard)
  BY <1>3, <1>5, <1>6
<1>9. ASSUME NEW i \in 1 .. n + 1, NEW j \in 1 .. n + 1, i < j
      PROVE  At(q[i].shard) < At(q[j].shard)
  <2>1. CASE j <= p
    BY <1>1, <1>2, <1>5, <1>9, <2>1 DEF Lined
  <2>2. CASE i > p + 1
    <3>1. i - 1 \in 1 .. n /\ j - 1 \in 1 .. n /\ i - 1 < j - 1 /\ j > p + 1
      BY <1>1, <1>2, <1>5, <1>9, <2>2
    <3> QED
      BY <1>5, <2>2, <3>1 DEF Lined
  <2>3. CASE i <= p /\ j = p + 1
    <3>1. i \in 1 .. n /\ q[i] = rx[i] /\ q[j] = x
      BY <1>5, <2>3
    <3> QED
      <4>1. At(rx[i].shard) < At(s)
        BY <1>7, <2>3, <3>1
      <4>2. q[i].shard = rx[i].shard /\ q[j].shard = s
        BY <1>3, <3>1
      <4> QED
        BY <4>1, <4>2
  <2>4. CASE i = p + 1 /\ j > p + 1
    <3>1. j - 1 \in 1 .. n /\ j - 1 > p /\ q[j] = rx[j - 1] /\ q[i] = x
      BY <1>5, <2>4
    <3> QED
      <4>1. At(s) < At(rx[j - 1].shard)
        BY <1>7, <3>1
      <4>2. q[i].shard = s /\ q[j].shard = rx[j - 1].shard
        BY <1>3, <3>1
      <4> QED
        BY <4>1, <4>2
  <2>5. CASE i <= p /\ j > p + 1
    <3>1. i \in 1 .. n /\ j - 1 \in 1 .. n /\ i < j - 1
      BY <1>1, <1>2, <1>5, <1>9, <2>5
    <3> QED
      BY <1>5, <2>5, <3>1 DEF Lined
  <2> QED
    BY <1>1, <1>2, <1>9, <2>1, <2>2, <2>3, <2>4, <2>5
<1>10. p + 1 \in 1 .. n + 1 /\ q[p + 1] = x
  BY <1>1, <1>2, <1>5
<1>11. ShardsOf(q) \subseteq ShardsOf(rx) \cup {s}
  BY <1>3, <1>4, <1>5 DEF ShardsOf
<1>12. ASSUME NEW i \in 1 .. n PROVE rx[i].shard \in ShardsOf(q)
  <2>1. CASE i <= p
    <3>1. i \in 1 .. n + 1 /\ q[i] = rx[i]
      BY <1>1, <1>5, <2>1
    <3> QED
      BY <1>4, <3>1 DEF ShardsOf
  <2>2. CASE i > p
    <3>1. i + 1 \in 1 .. n + 1 /\ i + 1 > p + 1 /\ (i + 1) - 1 = i
      BY <1>1, <1>2, <2>2
    <3>2. q[i + 1] = rx[i]
      BY <1>5, <3>1
    <3> QED
      BY <1>4, <3>1, <3>2 DEF ShardsOf
  <2> QED
    BY <1>1, <1>2, <2>1, <2>2
<1>13. s \in ShardsOf(q)
  BY <1>3, <1>4, <1>10 DEF ShardsOf
<1>14. ShardsOf(q) = ShardsOf(rx) \cup {s}
  BY <1>11, <1>12, <1>13 DEF ShardsOf
<1> QED
  BY <1>3, <1>4, <1>8, <1>9, <1>10, <1>14 DEF Lined, p, q

-----------------------------------------------------------------------------
Counts == (Nat \ {0}) \X (Nat \ {0})

\* The larger and the smaller of two.
LEMMA Larger ==
    ASSUME NEW x \in Int, NEW y \in Int
    PROVE  /\ Max({x, y}) \in {x, y} /\ Max({x, y}) >= x /\ Max({x, y}) >= y
           /\ Min({x, y}) \in {x, y} /\ Min({x, y}) <= x /\ Min({x, y}) <= y
<1> DEFINE T == {x, y}
<1>1. \E m \in T : \A z \in T : m >= z
  <2>1. CASE x >= y
    BY <2>1
  <2>2. CASE y >= x
    BY <2>2
  <2> QED
    BY <2>1, <2>2
<1>2. \E m \in T : \A z \in T : m <= z
  <2>1. CASE x >= y
    BY <2>1
  <2>2. CASE y >= x
    BY <2>2
  <2> QED
    BY <2>1, <2>2
<1>3. Max(T) \in T /\ \A z \in T : Max(T) >= z
  BY <1>1 DEF Max
<1>4. Min(T) \in T /\ \A z \in T : Min(T) <= z
  BY <1>2 DEF Min
<1> QED
  BY <1>3, <1>4

\* Where decode searches is within its queue.
LEMMA Around ==
    ASSUME NEW q, Len(q) \in Nat, NEW s, s.seq \in Nat, Place(s) \in Nat, NEW sh \in Counts
    PROVE  LET b == SearchBegin(s, sh)
               e == SearchEnd(q, s, sh)
               m == Place(s) + 1 - (s.seq % Size(sh))
           IN  /\ b \in Nat /\ b >= 1 /\ b >= m /\ b \in {1, m}
               /\ e \in Int /\ e <= Len(q) /\ e \in {b + Size(sh) - 1, Len(q)}
<1>1. Size(sh) \in Nat \ {0}
  BY DEF Size, Counts
<1> DEFINE m == Place(s) + 1 - (s.seq % Size(sh))
           b == SearchBegin(s, sh)
           e == SearchEnd(q, s, sh)
<1>2. m \in Int
  BY <1>1
<1>3. b = Max({1, m})
  BY DEF SearchBegin
<1>4. e = Min({b + Size(sh) - 1, Len(q)})
  BY DEF SearchEnd
<1> HIDE DEF m, b, e
<1>5. b \in {1, m} /\ b >= 1 /\ b >= m
  <2>1. 1 \in Int /\ m \in Int
    BY <1>2
  <2>2. Max({1, m}) \in {1, m} /\ Max({1, m}) >= 1 /\ Max({1, m}) >= m
    BY <2>1, Larger
  <2> QED
    BY <1>3, <2>2
<1>6. b + Size(sh) - 1 \in Int
  BY <1>1, <1>2, <1>5
<1>7. e \in {b + Size(sh) - 1, Len(q)} /\ e <= Len(q)
  <2> DEFINE x == b + Size(sh) - 1
             n == Len(q)
  <2> HIDE DEF x, n
  <2>1. x \in Int /\ n \in Int
    BY <1>6 DEF x, n
  <2>2. Min({x, n}) \in {x, n} /\ Min({x, n}) <= x /\ Min({x, n}) <= n
    BY <2>1, Larger
  <2>3. e = Min({x, n})
    BY <1>4 DEF x, n
  <2> QED
    BY <2>2, <2>3 DEF x, n
<1> QED
  BY <1>2, <1>5, <1>6, <1>7 DEF m, b, e

\* What decode finds is in its queue.
LEMMA GroupIn ==
    ASSUME NEW q, Len(q) \in Nat, NEW s, s.seq \in Nat, Place(s) \in Nat, NEW sh \in Counts
    PROVE  Group(q, s, sh) \subseteq 1 .. Len(q)
<1>1. SearchBegin(s, sh) .. SearchEnd(q, s, sh) \subseteq 1 .. Len(q)
  BY Around
<1>2. Group(q, s, sh) \subseteq SearchBegin(s, sh) .. SearchEnd(q, s, sh)
  BY DEF Group
<1> QED
  BY <1>1, <1>2

\* A complete group has an element.
LEMMA CompleteIsSome ==
    ASSUME NEW q, NEW n \in Nat, NEW g \in SUBSET (1 .. n), NEW sh \in Counts, Complete(q, g, sh)
    PROVE  g # {}
<1> SUFFICES ASSUME g = {} PROVE FALSE
  OBVIOUS
<1>1. Cardinality(g) = 0
  BY FS_EmptySet
<1> QED
  BY <1>1 DEF Complete, Counts

\* What freeRange leaves.
LEMMA FreeRangeDone ==
    ASSUME NEW k, NEW q, Lined(k, q), NEW g \in SUBSET (1 .. Len(q)), NEW sh \in Counts
    PROVE  LET r == FreeRange(q, g, sh)
           IN  /\ Lined(k, r) /\ Len(r) <= Len(q) /\ ShardsOf(r) \subseteq ShardsOf(q)
               /\ Complete(q, g, sh) => /\ Min(g) \in g /\ Max(g) \in g
                                        /\ \A i \in 1 .. Len(q) :
                                              \/ q[i].shard \in ShardsOf(r)
                                              \/ Min(g) <= i /\ i <= Max(g)
<1> DEFINE n == Len(q)
           r == FreeRange(q, g, sh)
<1>1. n \in Nat
  BY LenProperties DEF Lined
<1>2. CASE ~Complete(q, g, sh)
  BY <1>1, <1>2 DEF FreeRange
<1>3. CASE Complete(q, g, sh)
  <2>1. g # {}
    BY <1>1, <1>3, CompleteIsSome
  <2>2. g \in SUBSET Nat /\ g \in SUBSET (0 .. n)
    BY <1>1
  <2>3. Min(g) \in g /\ (\A y \in g : Min(g) <= y) /\ Max(g) \in g /\ \A y \in g : y <= Max(g)
    BY <1>1, <2>1, <2>2, MinOf, MaxOf
  <2>4. Min(g) \in 1 .. n /\ Max(g) \in 1 .. n /\ Min(g) <= Max(g)
    BY <2>3
  <2>5. r = Cut(q, Min(g) - 1, Max(g))
    BY <1>3 DEF FreeRange, Cut
  <2> DEFINE a == Min(g) - 1
             b == Max(g)
  <2>6. a \in 0 .. Len(q) /\ b \in a .. Len(q) /\ a \in Nat /\ b \in Nat
    BY <1>1, <2>4
  <2> HIDE DEF r
  <2>7. r = Cut(q, a, b)
    BY <2>5
  <2> HIDE DEF a, b
  <2>8. /\ Lined(k, Cut(q, a, b)) /\ Len(Cut(q, a, b)) = Len(q) - (b - a)
        /\ \A t : t \in ShardsOf(Cut(q, a, b)) <=>
                     \E i \in 1 .. a \cup b + 1 .. Len(q) : t = q[i].shard
    BY <2>6, CutOut
  <2>9. ShardsOf(r) \subseteq ShardsOf(q)
    <3>1. 1 .. a \cup b + 1 .. Len(q) \subseteq 1 .. Len(q)
      BY <1>1, <2>6
    <3> QED
      BY <2>7, <2>8, <3>1 DEF ShardsOf
  <2>10. ASSUME NEW i \in 1 .. n PROVE q[i].shard \in ShardsOf(r) \/ (Min(g) <= i /\ i <= Max(g))
    <3>1. i \in 1 .. a \cup b + 1 .. Len(q) \/ (Min(g) <= i /\ i <= Max(g))
      BY <1>1, <2>4 DEF a, b
    <3> QED
      BY <2>7, <2>8, <3>1
  <2>11. Lined(k, r) /\ Len(r) <= n
    BY <1>1, <2>6, <2>7, <2>8
  <2> QED
    BY <2>3, <2>9, <2>10, <2>11 DEF r
<1> QED
  BY <1>2, <1>3

\* What the limit and the age leave.
LEMMA LimitedDone ==
    ASSUME NEW k, NEW q, Lined(k, q), NEW sh \in Counts
    PROVE  LET r == Young(Limited(q, sh))
           IN  /\ Lined(k, r) /\ Len(r) <= Len(q) /\ ShardsOf(r) \subseteq ShardsOf(q)
               /\ Len(q) > Multi * Size(sh) => Len(r) <= Len(q) - 1
<1> DEFINE z == Limited(q, sh)
           m == Min({i \in 1 .. Len(z) : ~z[i].old} \cup {Len(z) + 1})
           r == Young(z)
<1>1. Len(q) \in Nat /\ q \in Seq(Elements)
  BY LenProperties DEF Lined
<1>2. Multi * Size(sh) \in Nat
  BY FecConstants DEF Counts, Size
<1>3. /\ Lined(k, z) /\ Len(z) <= Len(q) /\ ShardsOf(z) \subseteq ShardsOf(q)
      /\ Len(q) > Multi * Size(sh) => Len(z) <= Len(q) - 1
  <2>1. CASE Len(q) > Multi * Size(sh)
    <3>1. 2 \in 1 .. Len(q) + 1 /\ Len(q) # 0
      BY <1>1, <1>2, <2>1
    <3>2. z = From(q, 2)
      BY <1>1, <2>1, <3>1, TailIsSubSeq DEF Limited, From
    <3>3. /\ Lined(k, From(q, 2)) /\ Len(From(q, 2)) = Len(q) - 2 + 1
          /\ ShardsOf(From(q, 2)) \subseteq ShardsOf(q)
      BY <3>1, Suffix
    <3> HIDE DEF z
    <3> QED
      BY <1>1, <3>2, <3>3
  <2>2. CASE ~(Len(q) > Multi * Size(sh))
    BY <1>1, <2>2 DEF Limited
  <2> QED
    BY <2>1, <2>2
<1> HIDE DEF z
<1>4. Len(z) \in Nat
  BY <1>3, LenProperties DEF Lined
<1>5. m \in 1 .. Len(z) + 1
  <2> DEFINE T == {i \in 1 .. Len(z) : ~z[i].old} \cup {Len(z) + 1}
  <2>1. T \in SUBSET Nat /\ T # {} /\ T \subseteq 1 .. Len(z) + 1
    BY <1>4
  <2>2. Min(T) \in T
    BY <2>1, MinOf
  <2> QED
    BY <2>1, <2>2
<1>6. r = From(z, m)
  BY DEF Young, From
<1> HIDE DEF m, r
<1>7. /\ Lined(k, From(z, m)) /\ Len(From(z, m)) = Len(z) - m + 1
      /\ ShardsOf(From(z, m)) \subseteq ShardsOf(z)
  BY <1>3, <1>5, Suffix
<1>8. Lined(k, r) /\ Len(r) <= Len(z) /\ ShardsOf(r) \subseteq ShardsOf(z) /\ Len(r) \in Int
  BY <1>4, <1>5, <1>6, <1>7
<1> QED
  BY <1>1, <1>3, <1>4, <1>8 DEF r, z

-----------------------------------------------------------------------------
\* What the slots of the tuner hold: nothing, or the sample of a datagram.
Sampled(ps) ==
    /\ ps \in [0 .. Samples - 1 -> [bit : BOOLEAN, seq : Nat]]
    /\ \A i \in 0 .. Samples - 1 :
          \/ ps[i] = NoPulse
          \/ /\ ps[i].seq \in 0 .. Paws - 1 /\ ps[i].seq % Samples = i
             /\ ps[i].bit <=> ps[i].seq % Width < DataShards

Follows(ps, i) == (ps[i - 1].seq + 1) % Modulus = ps[i].seq

\* A slot that follows its predecessor has a sample, and so has that, unless it is slot 0.
LEMMA FollowsIs ==
    ASSUME NEW ps, Sampled(ps), NEW i \in 1 .. Samples - 1, Follows(ps, i)
    PROVE  /\ ps[i - 1].seq \in Nat /\ ps[i].seq = ps[i - 1].seq + 1
           /\ ps[i].seq \in 0 .. Paws - 1
           /\ ps[i].bit <=> ps[i].seq % Width < DataShards
           /\ \/ i = 1 /\ ps[0] = NoPulse
              \/ ps[i - 1].bit <=> ps[i - 1].seq % Width < DataShards
<1> DEFINE a == ps[i - 1].seq
           b == ps[i].seq
<1>1. i - 1 \in 0 .. Samples - 1 /\ i \in 0 .. Samples - 1 /\ Samples \in Nat \ {0, 1}
  BY FecConstants
<1>2. a \in Nat /\ b \in Nat
  BY <1>1 DEF Sampled
<1>3. Paws \in Nat /\ Modulus \in Nat \ {0} /\ Paws < Modulus /\ Paws > 0
  <2>1. Number(0, 0, 0) \in 0 .. Paws - 1
    BY NumberOf, Blocks, Far, FecConstants
  <2> QED
    BY <2>1, Far, FecConstants
<1>4. a < Paws
  <2>1. ps[i - 1] = NoPulse \/ ps[i - 1].seq \in 0 .. Paws - 1
    BY <1>1 DEF Sampled
  <2>2. CASE ps[i - 1] = NoPulse
    <3>1. a = 0
      BY <2>2 DEF NoPulse
    <3> QED
      BY <1>3, <3>1
  <2>3. CASE ps[i - 1].seq \in 0 .. Paws - 1
    BY <1>3, <2>3
  <2> QED
    BY <2>1, <2>2, <2>3
<1>5. (a + 1) % Modulus = a + 1
  <2>1. a + 1 \in 0 .. Modulus - 1
    BY <1>2, <1>3, <1>4
  <2> QED
    BY <1>3, <2>1, Below
<1>6. b = a + 1
  BY <1>5 DEF Follows
<1>7. ps[i] # NoPulse
  BY <1>2, <1>6 DEF NoPulse
<1>8. /\ b \in 0 .. Paws - 1 /\ b % Samples = i
      /\ ps[i].bit <=> b % Width < DataShards
  BY <1>1, <1>7 DEF Sampled
<1>9. ASSUME ps[i - 1] = NoPulse PROVE i = 1
  <2>1. b = 1
    BY <1>6, <1>9 DEF NoPulse
  <2>2. 1 % Samples = 1
    <3>1. 1 \in 0 .. Samples - 1
      BY <1>1
    <3> QED
      BY <1>1, <3>1, Below
  <2> QED
    BY <1>8, <2>1, <2>2
<1>10. CASE ps[i - 1] = NoPulse
  BY <1>2, <1>6, <1>8, <1>9, <1>10
<1>11. CASE ps[i - 1] # NoPulse
  <2>1. ps[i - 1].bit <=> a % Width < DataShards
    BY <1>1, <1>11 DEF Sampled
  <2> QED
    BY <1>2, <1>6, <1>8, <2>1
<1> QED
  BY <1>10, <1>11

\* Numbers of slots that follow each other.
LEMMA Stretch ==
    ASSUME NEW ps, Sampled(ps), NEW l \in 0 .. Samples - 1, NEW m \in l .. Samples - 1,
           \A i \in l + 1 .. m : Follows(ps, i)
    PROVE  \A i \in l .. m : ps[i].seq = ps[l].seq + (i - l)
<1> DEFINE T == {i \in l .. m : ps[i].seq # ps[l].seq + (i - l)}
<1>1. Samples \in Nat
  BY FecConstants
<1> SUFFICES ASSUME T # {} PROVE FALSE
  OBVIOUS
<1>2. T \in SUBSET Nat
  BY <1>1
<1>3. PICK i \in T : \A j \in T : i <= j
  BY <1>2, NatMin
<1>4. ps[l].seq \in Nat
  BY <1>1 DEF Sampled
<1>5. i # l
  BY <1>1, <1>3, <1>4
<1>6. i \in l + 1 .. m /\ i - 1 \in l .. m /\ i \in 1 .. Samples - 1
  BY <1>1, <1>3, <1>5
<1>7. ps[i - 1].seq = ps[l].seq + (i - 1 - l)
  BY <1>1, <1>3, <1>6
<1>8. ps[i].seq = ps[i - 1].seq + 1
  BY <1>6, FollowsIs
<1>9. ps[i].seq = ps[l].seq + (i - l)
  BY <1>1, <1>4, <1>6, <1>7, <1>8
<1> QED
  BY <1>3, <1>9

\* The edges of a period that is found.
LEMMA Edges ==
    ASSUME NEW ps, Sampled(ps), NEW bit \in BOOLEAN, FindPeriod(ps, bit) > 0,
           NEW i \in 1 .. Samples - 1, ps[i - 1].bit # bit, ps[i].bit = bit, Follows(ps, i)
    PROVE  \E l \in 1 .. Samples - 1, m \in 1 .. Samples - 1 :
              /\ l < m /\ FindPeriod(ps, bit) = m - l
              /\ Follows(ps, l) /\ ps[l - 1].bit # bit
              /\ \A j \in l + 1 .. m : Follows(ps, j)
              /\ \A j \in l .. m - 1 : ps[j].bit = bit
              /\ ps[m].bit # bit
<1> DEFINE lefts == {j \in 1 .. Samples - 1 :
                        ps[j - 1].bit # bit /\ ps[j].bit = bit /\ Follows(ps, j)}
           left == IF lefts = {} THEN 0 ELSE Min(lefts)
           stops == {j \in left + 1 .. Samples - 1 :
                        ~Follows(ps, j) \/ (ps[j - 1].bit = bit /\ ps[j].bit # bit)}
<1>1. FindPeriod(ps, bit) =
         CASE stops = {} -> 0 - left
           [] stops # {} /\ Follows(ps, Min(stops)) -> Min(stops) - left
           [] OTHER -> -1
  BY DEF FindPeriod, Follows
<1>2. Samples \in Nat
  BY FecConstants
<1>3. lefts \in SUBSET Nat /\ lefts # {}
  BY <1>2
<1>4. left \in lefts
  BY <1>3, MinOf
<1>5. /\ left \in 1 .. Samples - 1 /\ left \in Nat
      /\ ps[left - 1].bit # bit /\ ps[left].bit = bit /\ Follows(ps, left)
  BY <1>2, <1>4
<1> HIDE DEF left, lefts
<1>6. stops \in SUBSET Nat
  BY <1>2, <1>5
<1>7. stops # {} /\ Follows(ps, Min(stops)) /\ FindPeriod(ps, bit) = Min(stops) - left
  <2>1. stops # {}
    BY <1>1, <1>5
  <2>2. Follows(ps, Min(stops))
    BY <1>1, <2>1
  <2> QED
    BY <1>1, <2>1, <2>2
<1> DEFINE m == Min(stops)
<1>8. m \in stops /\ \A j \in stops : m <= j
  BY <1>6, <1>7, MinOf
<1>9. m \in left + 1 .. Samples - 1 /\ ps[m - 1].bit = bit /\ ps[m].bit # bit
  BY <1>7, <1>8
<1>10. FindPeriod(ps, bit) = m - left /\ Follows(ps, m)
  BY <1>7
<1> HIDE DEF m
<1>11. \A j \in left + 1 .. m - 1 :
          Follows(ps, j) /\ ~(ps[j - 1].bit = bit /\ ps[j].bit # bit)
  <2> TAKE j \in left + 1 .. m - 1
  <2>1. j \in left + 1 .. Samples - 1 /\ j < m
    BY <1>2, <1>5, <1>9
  <2>2. j \notin stops
    BY <1>2, <1>5, <1>8, <1>9, <2>1
  <2> QED
    BY <2>1, <2>2
<1> HIDE DEF stops
<1>12. \A j \in left + 1 .. m : Follows(ps, j)
  BY <1>2, <1>5, <1>9, <1>10, <1>11
<1>13. \A j \in left .. m - 1 : ps[j].bit = bit
  <2> DEFINE T == {j \in left .. m - 1 : ps[j].bit # bit}
  <2> SUFFICES ASSUME T # {} PROVE FALSE
    OBVIOUS
  <2>1. T \in SUBSET Nat
    BY <1>2, <1>5, <1>9
  <2>2. PICK j \in T : \A h \in T : j <= h
    BY <2>1, NatMin
  <2>3. j \in left + 1 .. m - 1 /\ j - 1 \in left .. m - 1
    BY <1>2, <1>5, <1>9, <2>2
  <2>4. ps[j - 1].bit = bit
    BY <1>2, <1>5, <1>9, <2>2, <2>3
  <2> QED
    BY <1>11, <2>2, <2>3, <2>4
<1>14. m \in 1 .. Samples - 1 /\ left < m
  BY <1>2, <1>5, <1>9
<1> QED
  BY <1>5, <1>9, <1>10, <1>12, <1>13, <1>14

\* The number of slots found is an integer.
LEMMA PeriodIsInt ==
    ASSUME NEW ps, NEW bit \in BOOLEAN
    PROVE  FindPeriod(ps, bit) \in Int
<1> DEFINE lefts == {j \in 1 .. Samples - 1 :
                        ps[j - 1].bit # bit /\ ps[j].bit = bit /\ Follows(ps, j)}
           left == IF lefts = {} THEN 0 ELSE Min(lefts)
           stops == {j \in left + 1 .. Samples - 1 :
                        ~Follows(ps, j) \/ (ps[j - 1].bit = bit /\ ps[j].bit # bit)}
<1>1. FindPeriod(ps, bit) =
         CASE stops = {} -> 0 - left
           [] stops # {} /\ Follows(ps, Min(stops)) -> Min(stops) - left
           [] OTHER -> -1
  BY DEF FindPeriod, Follows
<1>2. Samples \in Nat
  BY FecConstants
<1>3. left \in Nat
  <2>1. CASE lefts = {}
    BY <2>1
  <2>2. CASE lefts # {}
    <3>1. lefts \in SUBSET Nat
      BY <1>2
    <3> QED
      BY <2>2, <3>1, MinOf
  <2> QED
    BY <2>1, <2>2
<1> HIDE DEF left, lefts
<1>4. stops # {} => Min(stops) \in Nat
  <2> HAVE stops # {}
  <2>1. stops \in SUBSET Nat
    BY <1>2, <1>3
  <2>2. Min(stops) \in stops
    BY <2>1, MinOf
  <2> QED
    BY <2>1, <2>2
<1> HIDE DEF stops
<1> QED
  BY <1>1, <1>3, <1>4

\* A period that is found ends at an edge, where one of the other kind begins.
LEMMA EdgeAfter ==
    ASSUME NEW ps, Sampled(ps), NEW bit \in BOOLEAN, FindPeriod(ps, bit) > 0
    PROVE  \E i \in 1 .. Samples - 1 :
              ps[i - 1].bit = bit /\ ps[i].bit = ~bit /\ Follows(ps, i)
<1> DEFINE lefts == {j \in 1 .. Samples - 1 :
                        ps[j - 1].bit # bit /\ ps[j].bit = bit /\ Follows(ps, j)}
           left == IF lefts = {} THEN 0 ELSE Min(lefts)
           stops == {j \in left + 1 .. Samples - 1 :
                        ~Follows(ps, j) \/ (ps[j - 1].bit = bit /\ ps[j].bit # bit)}
<1>1. FindPeriod(ps, bit) =
         CASE stops = {} -> 0 - left
           [] stops # {} /\ Follows(ps, Min(stops)) -> Min(stops) - left
           [] OTHER -> -1
  BY DEF FindPeriod, Follows
<1>2. Samples \in Nat
  BY FecConstants
<1>3. left \in Nat
  <2>1. CASE lefts = {}
    BY <2>1
  <2>2. CASE lefts # {}
    <3>1. lefts \in SUBSET Nat
      BY <1>2
    <3> QED
      BY <2>2, <3>1, MinOf
  <2> QED
    BY <2>1, <2>2
<1> HIDE DEF left, lefts
<1>4. stops \in SUBSET Nat
  BY <1>2, <1>3
<1>5. stops # {} /\ Follows(ps, Min(stops))
  <2>1. stops # {}
    BY <1>1, <1>3
  <2>2. Follows(ps, Min(stops))
    BY <1>1, <2>1
  <2> QED
    BY <2>1, <2>2
<1> DEFINE m == Min(stops)
<1>6. m \in stops
  BY <1>4, <1>5, MinOf
<1>7. m \in 1 .. Samples - 1 /\ ps[m - 1].bit = bit /\ ps[m].bit # bit /\ Follows(ps, m)
  BY <1>2, <1>3, <1>5, <1>6
<1>8. ps[m].bit \in BOOLEAN
  <2>1. m \in 0 .. Samples - 1
    BY <1>2, <1>7
  <2> HIDE DEF m
  <2> QED
    BY <2>1 DEF Sampled
<1> HIDE DEF m
<1>9. ps[m].bit = ~bit
  BY <1>7, <1>8
<1> QED
  BY <1>7, <1>9

\* How long a run of numbers is of one kind, from where the kind changes.
LEMMA RunOf ==
    ASSUME NEW x \in Nat, NEW n \in Nat \ {0}, NEW lo \in 0 .. Width - 1,
           NEW hi \in 1 .. Width, lo < hi, x % Width = lo,
           \A i \in 0 .. n - 1 : (x + i) % Width \in lo .. hi - 1,
           (x + n) % Width \notin lo .. hi - 1
    PROVE  n = hi - lo
<1> DEFINE y == x \div Width
<1>0. y \in Nat /\ x = y * Width + lo
  BY FecConstants, Division
<1> HIDE DEF y
<1>1. \A i \in 0 .. Width - 1 - lo : (x + i) % Width = lo + i
  <2> TAKE i \in 0 .. Width - 1 - lo
  <2>2. lo + i \in 0 .. Width - 1
    BY FecConstants
  <2>3. (y * Width + (lo + i)) % Width = lo + i
    BY <1>0, <2>2, FecConstants, Remains
  <2> DEFINE z == y * Width
  <2>4. z \in Nat
    BY <1>0, FecConstants
  <2> HIDE DEF z
  <2>5. x + i = z + (lo + i)
    BY <1>0, <2>4 DEF z
  <2> QED
    BY <2>3, <2>5 DEF z
<1>2. Width \in Nat
  BY FecConstants
<1>3. ~(n < hi - lo)
  <2> SUFFICES ASSUME n < hi - lo PROVE FALSE
    OBVIOUS
  <2>1. n \in 0 .. Width - 1 - lo /\ lo + n \in lo .. hi - 1
    BY <1>2
  <2> QED
    BY <1>1, <2>1
<1>4. ~(n > hi - lo)
  <2> SUFFICES ASSUME n > hi - lo PROVE FALSE
    OBVIOUS
  <2> DEFINE d == hi - lo
  <2>1. d \in 0 .. n - 1 /\ d \in 1 .. Width /\ lo + d = hi
    BY <1>2
  <2>2. (x + d) % Width \in lo .. hi - 1
    BY <2>1
  <2>3. CASE hi < Width
    <3>1. d \in 0 .. Width - 1 - lo
      BY <1>2, <2>1, <2>3
    <3>2. (x + d) % Width = hi
      BY <1>1, <2>1, <3>1
    <3> QED
      BY <1>2, <2>2, <3>2
  <2>4. CASE hi = Width /\ lo > 0
    <3>1. 0 \in 0 .. Width - 1 /\ y + 1 \in Nat
      BY <1>0, FecConstants
    <3>2. ((y + 1) * Width + 0) % Width = 0
      BY <3>1, FecConstants, Remains
    <3>3. (y + 1) * Width + 0 = y * Width + Width
      BY <1>0, FecConstants
    <3> DEFINE z == y * Width
    <3>4. z \in Nat
      BY <1>0, FecConstants
    <3> HIDE DEF z
    <3>5. x + d = z + Width
      BY <1>0, <1>2, <2>1, <2>4, <3>4 DEF z
    <3>6. (x + d) % Width = 0
      BY <3>2, <3>3, <3>5 DEF z
    <3> QED
      BY <2>2, <2>4, <3>6
  <2>5. CASE hi = Width /\ lo = 0
    BY <1>2, <2>5
  <2> QED
    BY <1>2, <2>3, <2>4, <2>5
<1> QED
  BY <1>2, <1>3, <1>4

\* The remainder of the next number.
LEMMA NextOf ==
    ASSUME NEW x \in Nat
    PROVE  /\ x % Width \in 0 .. Width - 1 /\ (x + 1) % Width \in 0 .. Width - 1
           /\ x % Width < Width - 1 => (x + 1) % Width = (x % Width) + 1
           /\ x % Width = Width - 1 => (x + 1) % Width = 0
<1> DEFINE y == x \div Width
           r == x % Width
           z == y * Width
<1>1. y \in Nat /\ r \in 0 .. Width - 1 /\ x = z + r /\ z \in Nat /\ Width \in Nat \ {0}
  <2>1. y \in Nat /\ r \in 0 .. Width - 1 /\ x = y * Width + r /\ Width \in Nat \ {0}
    BY FecConstants, Division
  <2> HIDE DEF y, r
  <2> QED
    BY <2>1
<1>2. (x + 1) % Width \in 0 .. Width - 1
  BY FecConstants
<1>3. ASSUME r < Width - 1 PROVE (x + 1) % Width = r + 1
  <2>1. r + 1 \in 0 .. Width - 1
    BY <1>1, <1>3
  <2> HIDE DEF y, r
  <2>2. (y * Width + (r + 1)) % Width = r + 1
    BY <1>1, <2>1, FecConstants, Remains
  <2> HIDE DEF z
  <2>3. x + 1 = z + (r + 1)
    BY <1>1
  <2> QED
    BY <2>2, <2>3 DEF z
<1>4. ASSUME r = Width - 1 PROVE (x + 1) % Width = 0
  <2>1. y + 1 \in Nat /\ 0 \in 0 .. Width - 1
    BY <1>1
  <2> HIDE DEF y, r
  <2>2. ((y + 1) * Width + 0) % Width = 0
    BY <2>1, FecConstants, Remains
  <2>3. (y + 1) * Width + 0 = z + Width
    BY <1>1
  <2> HIDE DEF z
  <2>4. x + 1 = z + Width
    BY <1>1, <1>4
  <2> QED
    BY <2>2, <2>3, <2>4
<1> QED
  BY <1>1, <1>2, <1>3, <1>4

\* What the tuner finds.
LEMMA TunerFinds ==
    ASSUME NEW ps, Sampled(ps), FindPeriod(ps, TRUE) > 0, FindPeriod(ps, FALSE) > 0
    PROVE  /\ FindPeriod(ps, FALSE) = ParityShards
           /\ \/ FindPeriod(ps, TRUE) = DataShards
              \/ ps[0] = NoPulse /\ FindPeriod(ps, TRUE) = DataShards - 1
<1>1. PICK v \in 1 .. Samples - 1 : ps[v - 1].bit = TRUE /\ ps[v].bit = FALSE /\ Follows(ps, v)
  BY EdgeAfter
<1>2. PICK j \in 1 .. Samples - 1 : ps[j - 1].bit = FALSE /\ ps[j].bit = TRUE /\ Follows(ps, j)
  BY EdgeAfter
<1>3. \A h \in 1 .. Samples - 1 :
         Follows(ps, h) =>
            /\ ps[h - 1].seq \in Nat /\ ps[h].seq = ps[h - 1].seq + 1
            /\ ps[h].seq \in 0 .. Paws - 1
            /\ ps[h].bit <=> ps[h].seq % Width < DataShards
            /\ \/ h = 1 /\ ps[0] = NoPulse
               \/ ps[h - 1].bit <=> ps[h - 1].seq % Width < DataShards
  BY FollowsIs
<1>4. \A x \in Nat : x % Width \in 0 .. Width - 1
  BY FecConstants
<1>5. FindPeriod(ps, FALSE) = ParityShards
  <2>1. PICK l \in 1 .. Samples - 1, m \in 1 .. Samples - 1 :
              /\ l < m /\ FindPeriod(ps, FALSE) = m - l
              /\ Follows(ps, l) /\ ps[l - 1].bit # FALSE
              /\ \A h \in l + 1 .. m : Follows(ps, h)
              /\ \A h \in l .. m - 1 : ps[h].bit = FALSE
              /\ ps[m].bit # FALSE
    BY <1>1, Edges
  <2>2. ps \in [0 .. Samples - 1 -> [bit : BOOLEAN, seq : Nat]] /\ Samples \in Nat \ {0, 1}
    BY FecConstants DEF Sampled
  <2> DEFINE x == ps[l].seq
             n == m - l
  <2>3. n \in Nat \ {0} /\ l \in 0 .. Samples - 1 /\ m \in l .. Samples - 1
    BY <2>1, <2>2
  <2>4. \A h \in l .. m : ps[h].seq = x + (h - l)
    BY <2>1, <2>3, Stretch
  <2>5. \A h \in l .. m : Follows(ps, h) /\ h \in 1 .. Samples - 1
    BY <2>1, <2>2
  <2>6. x \in Nat /\ \A h \in l .. m : ps[h].bit <=> (x + (h - l)) % Width < DataShards
    <3>1. x \in Nat
      BY <2>2, <2>3
    <3> QED
      BY <1>3, <2>4, <2>5, <3>1
  <2>7. \A i \in 0 .. n : l + i \in l .. m /\ (l + i) - l = i
    BY <2>2
  <2>8. \A i \in 0 .. n : ps[l + i].bit <=> (x + i) % Width < DataShards
    BY <2>6, <2>7
  <2>9. \A i \in 0 .. n : x + i \in Nat /\ (x + i) % Width \in 0 .. Width - 1
    BY <1>4, <2>6
  <2>10. \A i \in 0 .. n - 1 : l + i \in l .. m - 1 /\ i \in 0 .. n
    BY <2>2
  <2>11. \A i \in 0 .. n - 1 : (x + i) % Width \in DataShards .. Width - 1
    BY <2>1, <2>8, <2>9, <2>10, FecConstants
  <2>12. ps[m].bit /\ l + n = m /\ n \in 0 .. n
    <3>1. ps[m].bit \in BOOLEAN
      BY <2>2, <2>3
    <3>2. ps[m].bit
      BY <2>1, <3>1
    <3> QED
      BY <2>3, <3>2
  <2>13. (x + n) % Width \notin DataShards .. Width - 1
    BY <2>8, <2>12, FecConstants
  <2>14. x % Width = DataShards
    <3>1. ps[l - 1].bit
      <4>1. ps[l - 1].bit \in BOOLEAN
        BY <2>2, <2>3
      <4> QED
        BY <2>1, <4>1
    <3>2. ~(l = 1 /\ ps[0] = NoPulse)
      BY <3>1 DEF NoPulse
    <3> DEFINE y == ps[l - 1].seq
    <3>3. y \in Nat /\ x = y + 1 /\ y % Width < DataShards
      BY <1>3, <2>1, <3>1, <3>2
    <3>4. x % Width \in DataShards .. Width - 1
      <4>1. x + 0 = x /\ 0 \in 0 .. n - 1
        BY <2>3, <2>6
      <4> QED
        BY <2>11, <4>1
    <3> HIDE DEF x, y
    <3>5. /\ y % Width \in 0 .. Width - 1
          /\ y % Width < Width - 1 => (y + 1) % Width = (y % Width) + 1
          /\ y % Width = Width - 1 => (y + 1) % Width = 0
      BY <3>3, NextOf
    <3> QED
      BY <3>3, <3>4, <3>5, FecConstants
  <2> HIDE DEF x, n
  <2>15. DataShards \in 0 .. Width - 1 /\ Width \in 1 .. Width /\ DataShards < Width
    BY FecConstants
  <2>16. n = Width - DataShards
    BY <2>3, <2>6, <2>11, <2>13, <2>14, <2>15, RunOf
  <2>17. FindPeriod(ps, FALSE) = n
    BY <2>1 DEF n
  <2>18. n = ParityShards
    BY <2>16, FecConstants
  <2> QED
    BY <2>17, <2>18
<1>6. \/ FindPeriod(ps, TRUE) = DataShards
      \/ ps[0] = NoPulse /\ FindPeriod(ps, TRUE) = DataShards - 1
  <2>1. PICK l \in 1 .. Samples - 1, m \in 1 .. Samples - 1 :
              /\ l < m /\ FindPeriod(ps, TRUE) = m - l
              /\ Follows(ps, l) /\ ps[l - 1].bit # TRUE
              /\ \A h \in l + 1 .. m : Follows(ps, h)
              /\ \A h \in l .. m - 1 : ps[h].bit = TRUE
              /\ ps[m].bit # TRUE
    BY <1>2, Edges
  <2>2. ps \in [0 .. Samples - 1 -> [bit : BOOLEAN, seq : Nat]] /\ Samples \in Nat \ {0, 1}
    BY FecConstants DEF Sampled
  <2> DEFINE x == ps[l].seq
             n == m - l
  <2>3. n \in Nat \ {0} /\ l \in 0 .. Samples - 1 /\ m \in l .. Samples - 1
    BY <2>1, <2>2
  <2>4. \A h \in l .. m : ps[h].seq = x + (h - l)
    BY <2>1, <2>3, Stretch
  <2>5. \A h \in l .. m : Follows(ps, h) /\ h \in 1 .. Samples - 1
    BY <2>1, <2>2
  <2>6. x \in Nat /\ \A h \in l .. m : ps[h].bit <=> (x + (h - l)) % Width < DataShards
    <3>1. x \in Nat
      BY <2>2, <2>3
    <3> QED
      BY <1>3, <2>4, <2>5, <3>1
  <2>7. \A i \in 0 .. n : l + i \in l .. m /\ (l + i) - l = i
    BY <2>2
  <2>8. \A i \in 0 .. n : ps[l + i].bit <=> (x + i) % Width < DataShards
    BY <2>6, <2>7
  <2>9. \A i \in 0 .. n : x + i \in Nat /\ (x + i) % Width \in 0 .. Width - 1
    BY <1>4, <2>6
  <2>10. \A i \in 0 .. n - 1 : l + i \in l .. m - 1 /\ i \in 0 .. n
    BY <2>2
  <2>11. \A i \in 0 .. n - 1 : (x + i) % Width \in 0 .. DataShards - 1
    BY <2>1, <2>8, <2>9, <2>10, FecConstants
  <2>12. ~ps[m].bit /\ l + n = m /\ n \in 0 .. n
    <3>1. ps[m].bit \in BOOLEAN
      BY <2>2, <2>3
    <3>2. ~ps[m].bit
      BY <2>1, <3>1
    <3> QED
      BY <2>3, <3>2
  <2>13. (x + n) % Width \notin 0 .. DataShards - 1
    BY <2>8, <2>12, FecConstants
  <2>14. 0 \in 0 .. Width - 1 /\ DataShards \in 1 .. Width /\ 0 < DataShards
    BY FecConstants
  <2>15. x = ps[l - 1].seq + 1 /\ ps[l - 1].seq \in Nat
    BY <1>3, <2>1
  <2>16. CASE l = 1 /\ ps[0] = NoPulse
    <3>1. x = 1
      BY <2>15, <2>16 DEF NoPulse
    <3> HIDE DEF x, n
    <3>2. 0 % Width = 0
      BY FecConstants, Below
    <3>3. \A i \in 0 .. (n + 1) - 1 : (0 + i) % Width \in 0 .. DataShards - 1
      <4> TAKE i \in 0 .. (n + 1) - 1
      <4>1. CASE i = 0
        BY <2>14, <3>2, <4>1
      <4>2. CASE i # 0
        <5>1. i - 1 \in 0 .. n - 1 /\ x + (i - 1) = 0 + i
          BY <2>3, <3>1, <4>2
        <5> QED
          BY <2>11, <5>1
      <4> QED
        BY <4>1, <4>2
    <3>4. (0 + (n + 1)) % Width \notin 0 .. DataShards - 1
      <4>1. 0 + (n + 1) = x + n
        BY <2>3, <3>1
      <4> QED
        BY <2>13, <4>1
    <3>5. n + 1 \in Nat \ {0} /\ 0 \in Nat
      BY <2>3
    <3>6. n + 1 = DataShards - 0
      BY <2>14, <3>2, <3>3, <3>4, <3>5, RunOf
    <3>7. FindPeriod(ps, TRUE) = n
      BY <2>1 DEF n
    <3>8. n = DataShards - 1
      BY <2>3, <3>6, FecConstants
    <3> QED
      BY <2>16, <3>7, <3>8
  <2>17. CASE ~(l = 1 /\ ps[0] = NoPulse)
    <3>1. ~ps[l - 1].bit
      BY <2>1, <2>2
    <3> DEFINE y == ps[l - 1].seq
    <3>2. ~(y % Width < DataShards)
      BY <1>3, <2>1, <2>17, <3>1
    <3>3. x % Width \in 0 .. DataShards - 1
      <4>1. x + 0 = x /\ 0 \in 0 .. n - 1
        BY <2>3, <2>6
      <4> QED
        BY <2>11, <4>1
    <3>4. x % Width = 0
      <4> HIDE DEF x, y
      <4>1. y \in Nat /\ x = y + 1
        BY <2>15 DEF x, y
      <4>2. /\ y % Width \in 0 .. Width - 1
            /\ y % Width < Width - 1 => (y + 1) % Width = (y % Width) + 1
            /\ y % Width = Width - 1 => (y + 1) % Width = 0
        BY <4>1, NextOf
      <4> QED
        BY <3>2, <3>3, <4>1, <4>2, FecConstants
    <3> HIDE DEF x, n
    <3>5. n = DataShards - 0
      BY <2>3, <2>6, <2>11, <2>13, <2>14, <3>4, RunOf
    <3>6. FindPeriod(ps, TRUE) = n
      BY <2>1 DEF n
    <3>7. n = DataShards
      BY <3>5, FecConstants
    <3> QED
      BY <3>6, <3>7
  <2> QED
    BY <2>16, <2>17
<1> QED
  BY <1>5, <1>6

-----------------------------------------------------------------------------
\* Elements of a queue are at least as far apart as their indices.
LEMMA Steep ==
    ASSUME NEW k \in 0 .. Rounds - 1, NEW q, Lined(k, q),
           NEW i \in 1 .. Len(q), NEW j \in i .. Len(q)
    PROVE  At(q[j].shard) - At(q[i].shard) >= j - i
<1>1. Len(q) \in Nat
  BY LenProperties DEF Lined
<1>2. \A h \in 1 .. Len(q) : At(q[h].shard) \in Nat
  BY Compared DEF Lined
<1> DEFINE T == {h \in i .. Len(q) : ~(At(q[h].shard) - At(q[i].shard) >= h - i)}
<1> SUFFICES ASSUME T # {} PROVE FALSE
  BY <1>1
<1>3. T \in SUBSET Nat
  BY <1>1
<1>4. PICK h \in T : \A g \in T : h <= g
  BY <1>3, NatMin
<1>5. h # i
  BY <1>1, <1>2, <1>4
<1>6. h \in 1 .. Len(q) /\ h - 1 \in i .. Len(q) /\ h - 1 \in 1 .. Len(q) /\ h - 1 < h
  BY <1>1, <1>4, <1>5
<1>7. At(q[h - 1].shard) - At(q[i].shard) >= (h - 1) - i
  BY <1>1, <1>4, <1>6
<1>8. At(q[h - 1].shard) < At(q[h].shard)
  BY <1>6 DEF Lined
<1> DEFINE a == At(q[i].shard)
           b == At(q[h - 1].shard)
           c == At(q[h].shard)
<1>9. c - a >= h - i
  <2>1. a \in Nat /\ b \in Nat /\ c \in Nat /\ b - a >= (h - 1) - i /\ b < c
    BY <1>2, <1>6, <1>7, <1>8
  <2> HIDE DEF a, b, c
  <2> QED
    BY <1>1, <1>6, <2>1
<1> QED
  BY <1>4, <1>9

\* The elements of a batch, and the numbers between which decode looks for them.
OfBatch(q, b) == {i \in 1 .. Len(q) : q[i].shard.batch = b}

\* The numbers that bound a batch.
LEMMA Bounds ==
    ASSUME NEW k \in 0 .. Rounds - 1, NEW s, Sent(k, s)
    PROVE  LET first == s.seq - (s.seq % Size(Enc))
               last == (first + Size(Enc) - 1) % Modulus
           IN  /\ s.seq % Size(Enc) = s.pos
               /\ \A t : Sent(k, t) => (Diff(t.seq, last) <= 0 /\ Diff(t.seq, first) >= 0
                                           <=> t.batch = s.batch)
<1>1. /\ s.batch \in 0 .. Last /\ s.pos \in 0 .. Width - 1
      /\ s.seq = Number(k, s.batch, s.pos)
  BY DEF Sent
<1> DEFINE x == Number(k, s.batch, 0)
           y == Number(k, s.batch, Width - 1)
           w == Width - 1
<1>2. s.seq % Width = s.pos /\ s.seq - s.pos = x
  BY <1>1, NumberOf
<1>3. 0 \in 0 .. w /\ w \in 0 .. w /\ w \in 0 .. Width - 1 - 0 /\ 0 + w = w /\ w \in Nat
  BY FecConstants
<1>4. x + w = y /\ x \in 0 .. Paws - 1 /\ y \in 0 .. Paws - 1
  <2>1. x \in 0 .. Paws - 1 /\ \A i \in 0 .. Width - 1 - 0 : x + i = Number(k, s.batch, 0 + i)
    BY <1>1, <1>3, NumberOf
  <2>2. y \in 0 .. Paws - 1
    BY <1>1, <1>3, NumberOf
  <2> QED
    BY <1>3, <2>1, <2>2
<1>5. (x + Width - 1) % Modulus = y
  <2>1. y \in 0 .. Modulus - 1
    BY <1>4, Far, FecConstants
  <2>2. x + Width - 1 = x + w
    BY <1>4, FecConstants
  <2>3. y % Modulus = y
    BY <2>1, FecConstants, Below
  <2> QED
    BY <1>4, <2>2, <2>3
<1>6. ASSUME NEW t, Sent(k, t)
      PROVE  Diff(t.seq, y) <= 0 /\ Diff(t.seq, x) >= 0 <=> t.batch = s.batch
  <2>1. /\ t.batch \in 0 .. Last /\ t.pos \in 0 .. Width - 1
        /\ t.seq = Number(k, t.batch, t.pos)
    BY <1>6 DEF Sent
  <2>2. /\ Diff(t.seq, y) <= 0 <=> Ord(t.batch, t.pos) <= Ord(s.batch, w)
        /\ Diff(t.seq, x) >= 0 <=> Ord(t.batch, t.pos) >= Ord(s.batch, 0)
    BY <1>1, <1>3, <2>1, Apart
  <2>3. t.batch \in Nat /\ s.batch \in Nat
    BY <1>1, <2>1, Far
  <2>4. /\ Ord(t.batch, t.pos) \in Nat /\ Ord(s.batch, w) \in Nat /\ Ord(s.batch, 0) \in Nat
        /\ t.batch < s.batch => Ord(t.batch, t.pos) < Ord(s.batch, 0)
        /\ s.batch < t.batch => Ord(s.batch, w) < Ord(t.batch, t.pos)
        /\ t.batch = s.batch => /\ Ord(t.batch, t.pos) - Ord(s.batch, w) = t.pos - w
                                /\ Ord(t.batch, t.pos) - Ord(s.batch, 0) = t.pos - 0
    <3>0. 0 \in 0 .. Width - 1 /\ w \in 0 .. Width - 1 /\ t.pos \in 0 .. Width - 1
      BY <1>3, <2>1
    <3> HIDE DEF w
    <3>1. /\ Ord(t.batch, t.pos) \in Nat
          /\ t.batch < s.batch => Ord(t.batch, t.pos) < Ord(s.batch, 0)
          /\ t.batch = s.batch => Ord(t.batch, t.pos) - Ord(s.batch, 0) = t.pos - 0
      BY <2>3, <3>0, Places
    <3>2. s.batch < t.batch => Ord(s.batch, w) < Ord(t.batch, t.pos)
      BY <2>3, <3>0, Places
    <3>3. t.batch = s.batch => Ord(t.batch, t.pos) - Ord(s.batch, w) = t.pos - w
      BY <2>3, <3>0, Places
    <3>4. Ord(s.batch, 0) \in Nat
      BY <2>3, <3>0, Places
    <3>5. Ord(s.batch, w) \in Nat
      BY <2>3, <3>0, Places
    <3> QED
      BY <3>1, <3>2, <3>3, <3>4, <3>5
  <2> DEFINE a == Ord(t.batch, t.pos)
             c == Ord(s.batch, w)
             d == Ord(s.batch, 0)
             i == t.pos
             f == t.batch
             h == s.batch
  <2>5. /\ a \in Nat /\ c \in Nat /\ d \in Nat /\ f \in Nat /\ h \in Nat /\ i \in 0 .. w
        /\ Diff(t.seq, y) <= 0 <=> a <= c
        /\ Diff(t.seq, x) >= 0 <=> a >= d
        /\ f < h => a < d
        /\ h < f => c < a
        /\ f = h => a - c = i - w /\ a - d = i - 0
    BY <2>1, <2>2, <2>3, <2>4
  <2> HIDE DEF a, c, d, i, f, h, w
  <2>6. a <= c /\ a >= d <=> f = h
    BY <1>3, <2>5
  <2> QED
    BY <2>5, <2>6 DEF f, h
<1> QED
  BY <1>2, <1>5, <1>6, FecConstants

\* With the shape of the encoder decode finds the batch of a datagram, if it looks for it.
LEMMA GroupIs ==
    ASSUME NEW k \in 0 .. Rounds - 1, NEW q, Lined(k, q), NEW s, Sent(k, s),
           Place(s) \in Nat, Place(s) + 1 \in 1 .. Len(q), q[Place(s) + 1].shard = s
    PROVE  /\ OfBatch(q, s.batch) \in SUBSET (1 .. Len(q)) /\ IsFiniteSet(OfBatch(q, s.batch))
           /\ \/ Group(q, s, Enc) = OfBatch(q, s.batch)
              \/ Group(q, s, Enc) = {} /\ Cardinality(OfBatch(q, s.batch)) < DataShards
<1> DEFINE n == Len(q)
           p == Place(s) + 1
           b == SearchBegin(s, Enc)
           e == SearchEnd(q, s, Enc)
           m == Place(s) + 1 - (s.seq % Size(Enc))
           g == OfBatch(q, s.batch)
<1>1. n \in Nat
  BY LenProperties DEF Lined
<1>2. \A i \in 1 .. n : Sent(k, q[i].shard)
  BY DEF Lined
<1>3. Place(s) \in Nat /\ s.seq \in Nat /\ Enc \in Counts /\ s.pos \in 0 .. Width - 1
  BY FecConstants DEF Sent, Shards, Counts, Enc
<1>4. /\ s.seq % Size(Enc) = s.pos /\ m = p - s.pos
  <2>1. s.seq % Size(Enc) = s.pos
    BY Bounds
  <2>2. m = Place(s) + 1 - s.pos
    BY <2>1
  <2> DEFINE u == Place(s)
             v == s.pos
  <2>3. u \in Nat /\ v \in Int /\ p = u + 1 /\ m = u + 1 - v
    BY <1>3, <2>2, FecConstants
  <2> HIDE DEF m, p, u, v
  <2>4. m = p - v
    BY <2>3
  <2> QED
    BY <2>1, <2>4 DEF v
<1>5. /\ b \in Nat /\ b >= 1 /\ b >= p - s.pos /\ b \in {1, p - s.pos}
      /\ e \in Int /\ e <= n /\ e \in {b + Width - 1, n}
  <2>1. /\ b \in Nat /\ b >= 1 /\ b >= m /\ b \in {1, m}
        /\ e \in Int /\ e <= n /\ e \in {b + Size(Enc) - 1, n}
    <3>1. Enc \in Counts /\ Len(q) \in Nat
      BY <1>1, <1>3
    <3> QED
      BY <1>3, <3>1, Around
  <2> HIDE DEF b, e, m
  <2> QED
    BY <1>4, <2>1, FecConstants
<1>6. p \in 1 .. n /\ q[p].shard = s
  OBVIOUS
<1> HIDE DEF p, b, e
<1>7. ASSUME NEW i \in g PROVE i \in b .. e
  <2>1. i \in 1 .. n /\ q[i].shard.batch = s.batch
    BY DEF OfBatch
  <2> DEFINE t == q[i].shard
  <2>2. Sent(k, t) /\ t.pos \in 0 .. Width - 1
    BY <1>2, <2>1 DEF Sent
  <2>3. At(t) \in Nat /\ At(s) \in Nat /\ At(t) - At(s) = t.pos - s.pos
    BY <2>1, <2>2, Compared
  <2>4. i >= p => At(t) - At(s) >= i - p
    <3> HAVE i >= p
    <3>1. i \in p .. Len(q)
      BY <1>1, <1>6, <2>1
    <3> QED
      BY <1>6, <3>1, Steep
  <2>5. i <= p => At(s) - At(t) >= p - i
    <3> HAVE i <= p
    <3>1. p \in i .. Len(q)
      BY <1>1, <1>6, <2>1
    <3> QED
      BY <1>6, <2>1, <3>1, Steep
  <2> DEFINE a == At(t)
             c == At(s)
             x == t.pos
             y == s.pos
  <2>6. i >= p - y /\ i <= p - y + Width - 1
    <3>1. /\ a \in Nat /\ c \in Nat /\ a - c = x - y /\ x \in 0 .. Width - 1 /\ y \in 0 .. Width - 1
          /\ i >= p => a - c >= i - p
          /\ i <= p => c - a >= p - i
      BY <1>3, <2>2, <2>3, <2>4, <2>5
    <3> HIDE DEF a, c, x, y
    <3> QED
      BY <1>1, <1>6, <2>1, <3>1, FecConstants
  <2> HIDE DEF t
  <2> QED
    BY <1>1, <1>3, <1>5, <1>6, <2>1, <2>6, FecConstants
<1>8. b .. e \subseteq 1 .. n
  BY <1>1, <1>5
<1>9. g \in SUBSET (1 .. n) /\ g \in SUBSET (b .. e)
  BY <1>7 DEF OfBatch
<1>10. IsFiniteSet(b .. e)
  <2>1. b \in Int /\ e \in Int
    BY <1>5
  <2> QED
    BY <2>1, FS_Interval
<1>11. /\ IsFiniteSet(g) /\ Cardinality(g) <= Cardinality(b .. e)
       /\ Cardinality(g) \in Nat /\ Cardinality(b .. e) \in Nat
  BY <1>9, <1>10, FS_Subset, FS_CardinalityType
<1>12. CASE Cardinality(b .. e) < DataShards
  <2>1. Group(q, s, Enc) = {}
    BY <1>12 DEF Group, Enc, b, e
  <2> QED
    BY <1>9, <1>11, <1>12, <2>1, FecConstants
<1>13. CASE ~(Cardinality(b .. e) < DataShards)
  <2> DEFINE first == s.seq - (s.seq % Size(Enc))
             last == (first + Size(Enc) - 1) % Modulus
  <2>1. Group(q, s, Enc) =
           {i \in b .. e : Diff(q[i].shard.seq, last) <= 0 /\ Diff(q[i].shard.seq, first) >= 0}
    BY <1>13 DEF Group, Enc, b, e
  <2>2. \A t : Sent(k, t) => (Diff(t.seq, last) <= 0 /\ Diff(t.seq, first) >= 0
                                           <=> t.batch = s.batch)
    BY Bounds
  <2> HIDE DEF first, last
  <2>3. Group(q, s, Enc) = {i \in b .. e : q[i].shard.batch = s.batch}
    BY <1>2, <1>8, <2>1, <2>2
  <2>4. Group(q, s, Enc) = g
    BY <1>8, <1>9, <2>3 DEF OfBatch
  <2> QED
    BY <1>9, <1>11, <2>4
<1> QED
  BY <1>12, <1>13

\* How many elements of a queue are of a batch bounds how many datagrams are.
LEMMA FewOf ==
    ASSUME NEW q, Len(q) \in Nat, NEW g \in SUBSET (1 .. Len(q)), NEW X,
           \A t \in X : \E i \in g : q[i].shard = t
    PROVE  IsFiniteSet(X) /\ Cardinality(X) <= Cardinality(g) /\ Cardinality(X) \in Nat
<1> DEFINE S == {q[i].shard : i \in g}
           f == [i \in g |-> q[i].shard]
<1>1. f \in Surjection(g, S)
  BY DEF Surjection
<1>2. IsFiniteSet(1 .. Len(q))
  <2>1. 1 \in Int /\ Len(q) \in Int
    OBVIOUS
  <2> QED
    BY <2>1, FS_Interval
<1>3. IsFiniteSet(g)
  BY <1>2, FS_Subset
<1>4. IsFiniteSet(S) /\ Cardinality(S) <= Cardinality(g)
  BY <1>1, <1>3, FS_Surjection
<1>5. X \in SUBSET S
  OBVIOUS
<1>6. IsFiniteSet(X) /\ Cardinality(X) <= Cardinality(S)
  BY <1>4, <1>5, FS_Subset
<1>7. Cardinality(X) \in Nat /\ Cardinality(S) \in Nat /\ Cardinality(g) \in Nat
  BY <1>3, <1>4, <1>6, FS_CardinalityType
<1> HIDE DEF S
<1> QED
  BY <1>4, <1>6, <1>7

\* What is between two elements of a batch is of the batch.
LEMMA Between ==
    ASSUME NEW k \in 0 .. Rounds - 1, NEW q, Lined(k, q), NEW b,
           NEW i \in OfBatch(q, b), NEW j \in OfBatch(q, b), NEW m \in i .. j
    PROVE  m \in OfBatch(q, b)
<1>1. Len(q) \in Nat
  BY LenProperties DEF Lined
<1>2. i \in 1 .. Len(q) /\ j \in 1 .. Len(q) /\ m \in 1 .. Len(q) /\ i <= m /\ m <= j
  BY <1>1 DEF OfBatch
<1> DEFINE t == q[i].shard
           u == q[m].shard
           v == q[j].shard
<1>3. Sent(k, t) /\ Sent(k, u) /\ Sent(k, v) /\ t.batch = b /\ v.batch = b
  BY <1>2 DEF Lined, OfBatch
<1>4. i = m \/ At(t) < At(u)
  BY <1>1, <1>2 DEF Lined
<1>5. m = j \/ At(u) < At(v)
  BY <1>1, <1>2 DEF Lined
<1>6. t.batch \in Nat /\ u.batch \in Nat /\ v.batch \in Nat
  BY <1>3, Far DEF Sent
<1>7. At(t) \in Nat /\ At(u) \in Nat /\ At(v) \in Nat
  BY <1>3, Compared
<1>8. (u.batch < t.batch => At(u) < At(t)) /\ (v.batch < u.batch => At(v) < At(u))
  BY <1>3, Compared
<1>9. u.batch = b
  <2>1. CASE i = m \/ m = j
    BY <1>3, <2>1
  <2>2. CASE i # m /\ m # j
    <3> DEFINE a == At(t)
               c == At(u)
               d == At(v)
    <3>1. a \in Nat /\ c \in Nat /\ d \in Nat /\ a < c /\ c < d
      BY <1>4, <1>5, <1>7, <2>2
    <3>2. (u.batch < b => c < a) /\ (b < u.batch => d < c)
      BY <1>3, <1>8
    <3>3. u.batch \in Nat /\ b \in Nat
      BY <1>3, <1>6
    <3> HIDE DEF a, c, d, u
    <3> QED
      BY <3>1, <3>2, <3>3
  <2> QED
    BY <2>1, <2>2
<1> QED
  BY <1>2, <1>9 DEF OfBatch

\* When decode recovers a batch it gets all data shards that it lacks, and no others.
LEMMA RecoveredIs ==
    ASSUME NEW k \in 0 .. Rounds - 1, NEW q, Lined(k, q), NEW b \in Nat,
           Complete(q, OfBatch(q, b), Enc)
    PROVE  LET out == Recovered(q, OfBatch(q, b), Enc)
           IN  /\ Junk \notin out
               /\ \A pos \in 0 .. DataShards - 1 :
                     \/ <<b, pos>> \in out
                     \/ \E t \in ShardsOf(q) : t.data /\ t.batch = b /\ t.pos = pos
<1> DEFINE g == OfBatch(q, b)
           shards == {q[i].shard : i \in g}
           flagged == {t.seq % Size(Enc) : t \in shards}
           genuine == /\ Enc = Enc
                      /\ \A t, u \in shards : t.batch = u.batch
                      /\ \A t \in shards : t.pos = t.seq % Size(Enc)
           lack == 0 .. Enc[1] - 1 \ flagged
           datas == {t \in shards : t.data}
           out == Recovered(q, g, Enc)
<1>1. out = IF ~Complete(q, g, Enc) \/ Cardinality(datas) = Enc[1] THEN {}
            ELSE IF genuine THEN {<<(CHOOSE t \in shards : TRUE).batch, pos>> : pos \in lack}
            ELSE {Junk : pos \in lack}
  BY DEF Recovered
<1>2. Enc[1] = DataShards /\ Enc \in Counts /\ DataShards \in Nat \ {0}
  BY FecConstants DEF Enc, Counts
<1>3. Len(q) \in Nat /\ g \in SUBSET (1 .. Len(q))
  BY LenProperties DEF Lined, OfBatch
<1>4. g # {}
  BY <1>2, <1>3, CompleteIsSome
<1>5. \A t \in shards : /\ Sent(k, t) /\ t.batch = b /\ t \in ShardsOf(q)
                        /\ t.seq % Size(Enc) = t.pos /\ t.pos \in 0 .. Width - 1
                        /\ t.data <=> t.pos < DataShards
                        /\ t.data \in BOOLEAN
  <2> TAKE t \in shards
  <2>1. PICK i \in g : t = q[i].shard
    OBVIOUS
  <2>2. i \in 1 .. Len(q) /\ t.batch = b
    BY <2>1 DEF OfBatch
  <2>3. Sent(k, t) /\ t \in ShardsOf(q)
    BY <2>1, <2>2 DEF Lined, ShardsOf
  <2>4. t.seq % Size(Enc) = t.pos
    BY <2>3, Bounds
  <2> QED
    BY <2>2, <2>3, <2>4 DEF Sent, Shards
<1>6. genuine
  BY <1>5
<1>7. (CHOOSE t \in shards : TRUE).batch = b
  <2>1. shards # {}
    BY <1>4
  <2>2. (CHOOSE t \in shards : TRUE) \in shards
    BY <2>1
  <2> QED
    BY <1>5, <2>2
<1>8. IsFiniteSet(datas)
  <2>1. \A t \in datas : \E i \in g : q[i].shard = t
    OBVIOUS
  <2> QED
    BY <1>3, <2>1, FewOf
<1>9. CASE Cardinality(datas) = DataShards
  <2>1. out = {}
    BY <1>1, <1>2, <1>9
  <2> DEFINE f == [t \in datas |-> t.pos]
             T == 0 .. DataShards - 1
  <2>2. f \in Injection(datas, T)
    <3>1. \A t \in datas : t.pos \in T
      BY <1>2, <1>5, FecConstants
    <3>2. \A t, u \in datas : t.pos = u.pos => t = u
      <4> TAKE t, u \in datas
      <4> HAVE t.pos = u.pos
      <4>1. Sent(k, t) /\ Sent(k, u) /\ t.batch = u.batch
        BY <1>5
      <4>2. At(t) = At(u)
        BY <1>5 DEF At
      <4> QED
        BY <4>1, <4>2, Compared
    <3>3. f \in [datas -> T] /\ \A t, u \in datas : f[t] = f[u] => t = u
      BY <3>1, <3>2
    <3> HIDE DEF f, datas, T
    <3> QED
      BY <3>3, Fun_IsInj
  <2>3. IsFiniteSet(T) /\ Cardinality(T) = DataShards
    <3>1. 0 \in Int /\ DataShards - 1 \in Int
      BY <1>2
    <3>2. /\ IsFiniteSet(T)
          /\ Cardinality(T) = IF 0 > DataShards - 1 THEN 0 ELSE DataShards - 1 - 0 + 1
      BY <3>1, FS_Interval
    <3> QED
      BY <1>2, <3>2
  <2>4. f \in Surjection(datas, T)
    BY <1>9, <2>2, <2>3, FS_Injection
  <2>5. \A pos \in T : \E t \in datas : t.pos = pos
    BY <2>4 DEF Surjection
  <2>6. \A pos \in T : \E t \in ShardsOf(q) : t.data /\ t.batch = b /\ t.pos = pos
    BY <1>5, <2>5
  <2> QED
    BY <2>1, <2>6
<1>10. CASE Cardinality(datas) # DataShards
  <2>1. out = {<<b, pos>> : pos \in lack}
    BY <1>1, <1>2, <1>6, <1>7, <1>10
  <2>2. Junk \notin out
    BY <2>1 DEF Junk
  <2>3. ASSUME NEW pos \in 0 .. DataShards - 1, pos \notin lack
        PROVE  \E t \in ShardsOf(q) : t.data /\ t.batch = b /\ t.pos = pos
    <3>1. pos \in flagged
      BY <1>2, <2>3
    <3>2. PICK t \in shards : t.seq % Size(Enc) = pos
      BY <3>1
    <3>3. t.pos = pos /\ t.data /\ t.batch = b /\ t \in ShardsOf(q)
      BY <1>2, <1>5, <2>3, <3>2
    <3> QED
      BY <3>3
  <2>4. \A pos \in lack : <<b, pos>> \in out
    BY <2>1
  <2> QED
    BY <2>2, <2>3, <2>4
<1> QED
  BY <1>9, <1>10

-----------------------------------------------------------------------------
\* The datagrams of a batch that came and were not dropped, and all its data handed on.
Coming(b) == {t \in seen \ dropped : t.batch = b}

Whole(b) == \A pos \in 0 .. DataShards - 1 : <<b, pos>> \in got

\* The shape the tuner finds while slot 0 is empty.
Short == <<DataShards - 1, ParityShards>>

Encoding(k) ==
    /\ next = Number(k, batch, count) /\ count \in 0 .. DataShards - 1
    /\ batch \in Nat /\ encodes \in 0 .. MaxEncodes /\ batch <= encodes
    /\ batch * DataShards + count <= DataShards - 1 + encodes
    /\ \A t \in net : Sent(k, t)

Decoding(k) ==
    /\ Sampled(pulses) /\ Lined(k, rx)
    /\ begin \in Shapes /\ shape \in {begin, Enc, Short} /\ shape \in Counts
    /\ begin = Enc => shape = Enc
    /\ Len(rx) <= Multi * Size(shape) \/ Len(rx) <= Multi * Size(begin)
    /\ Enc \notin junk /\ periods \subseteq {Enc}

\* What came is in rx, or dropped, or of a batch that is whole.
Keeping ==
    /\ seen \subseteq net /\ ShardsOf(rx) \subseteq seen /\ dropped \subseteq seen
    /\ ShardsOf(rx) \cap dropped = {}
    /\ \A t \in seen : t.data => <<t.batch, t.pos>> \in got
    /\ begin = Enc =>
          \A b \in 0 .. Last :
             \/ Whole(b)
             \/ Coming(b) \subseteq ShardsOf(rx) /\ Cardinality(Coming(b)) < DataShards

FecIInv == \E k \in 0 .. Rounds - 1 : Encoding(k) /\ Decoding(k) /\ Keeping

\* A new decoder, at any number of the encoder.
LEMMA FecInitInv == FecInit => FecIInv
<1> SUFFICES ASSUME FecInit PROVE FecIInv
  OBVIOUS
<1> DEFINE k == next \div Width
<1>1. next \in 0 .. Paws - 1 /\ next % Width < DataShards /\ count = next % Width
  BY FecAssumption, FecConstants DEF FecInit
<1>2. k \in 0 .. Rounds - 1 /\ next = k * Width + count /\ count \in Nat
  <2>0. next \in Nat
    BY <1>1, Far
  <2>1. /\ next \in Nat /\ k \in Nat /\ next = k * Width + (next % Width)
        /\ next % Width \in 0 .. Width - 1
    BY <2>0, FecConstants, Division
  <2> HIDE DEF k
  <2> SUFFICES ASSUME k >= Rounds PROVE FALSE
    BY <1>1, <2>1, Far
  <2>2. k * Width >= Rounds * Width
    BY <2>1, Far, FecConstants, SMTT(30)
  <2> DEFINE z == k * Width
  <2>3. z \in Nat /\ z >= Paws /\ next = z + (next % Width)
    BY <2>1, <2>2, Far, FecConstants
  <2> HIDE DEF z
  <2> QED
    BY <1>1, <2>1, <2>3, Far
<1>3. Encoding(k)
  <2>1. Blk(k, 0) = k
    BY <1>2, Far DEF Blk
  <2> HIDE DEF k
  <2>3. next = Number(k, 0, count)
    BY <1>2, <2>1 DEF Number
  <2>4. batch = 0 /\ encodes = 0 /\ net = {}
    BY DEF FecInit
  <2>5. 0 * DataShards = 0
    BY FecConstants
  <2> QED
    BY <1>1, <1>2, <2>3, <2>4, <2>5, FecConstants DEF Encoding
<1> HIDE DEF k
<1>4. /\ rx = <<>> /\ begin = shape /\ seen = {} /\ dropped = {} /\ got = {} /\ junk = {}
      /\ periods = {} /\ shape \in Shapes /\ pulses = [i \in 0 .. Samples - 1 |-> NoPulse]
  BY DEF FecInit
<1>5. Len(rx) = 0 /\ ShardsOf(rx) = {}
  BY <1>4 DEF ShardsOf
<1>6. Decoding(k)
  <2>1. Sampled(pulses)
    BY <1>4 DEF Sampled, NoPulse
  <2>2. Lined(k, rx)
    BY <1>4 DEF Lined
  <2>3. shape \in Counts
    BY <1>4, FecAssumption DEF Counts
  <2>4. Multi * Size(shape) \in Nat
    BY <2>3, FecConstants DEF Counts, Size
  <2> QED
    BY <1>4, <1>5, <2>1, <2>2, <2>3, <2>4 DEF Decoding
<1>7. Keeping
  <2>1. \A b : Coming(b) = {}
    BY <1>4 DEF Coming
  <2>2. Cardinality({}) = 0 /\ 0 < DataShards
    BY FS_EmptySet, FecConstants
  <2>3. \A b : Coming(b) \subseteq ShardsOf(rx) /\ Cardinality(Coming(b)) < DataShards
    BY <2>1, <2>2
  <2> QED
    BY <1>4, <1>5, <2>3 DEF Keeping
<1> QED
  BY <1>2, <1>3, <1>6, <1>7 DEF FecIInv

\* The encoder numbers by batch and place.
LEMMA EncodeInv ==
    ASSUME NEW k \in 0 .. Rounds - 1, Encoding(k), Encode
    PROVE  Encoding(k)'
<1>1. /\ next = Number(k, batch, count) /\ count \in 0 .. DataShards - 1
      /\ batch \in Nat /\ encodes \in 0 .. MaxEncodes /\ batch <= encodes
      /\ batch * DataShards + count <= DataShards - 1 + encodes
      /\ \A t \in net : Sent(k, t)
  BY DEF Encoding
<1>2. encodes < MaxEncodes /\ encodes' = encodes + 1
  BY DEF Encode
<1> DEFINE z == batch * DataShards
<1>3. z \in Nat
  BY <1>1, FecConstants
<1>4. batch \in 0 .. Last
  <2>1. z <= MaxEncodes + DataShards - 1
    <3> HIDE DEF z
    <3> QED
      BY <1>1, <1>2, <1>3, FecConstants DEF z
  <2> QED
    BY <1>1, <2>1, Far
<1>5. count \in 0 .. Width - 1
  BY <1>1, FecConstants
<1>6. /\ next \in 0 .. Paws - 1 /\ next % Width = count
      /\ \A i \in 0 .. Width - 1 - count : next + i = Number(k, batch, count + i)
      /\ (next + (Width - count)) % Paws = Number(k, batch + 1, 0)
  BY <1>1, <1>4, <1>5, NumberOf
<1>7. (next + 1) % Modulus = next + 1
  <2>1. next + 1 \in 0 .. Modulus - 1
    BY <1>6, Far, FecConstants
  <2> QED
    BY <2>1, FecConstants, Below
<1>8. Sent(k, MarkData)
  <2>1. MarkData = [seq |-> next, data |-> TRUE, batch |-> batch, pos |-> count]
    BY DEF MarkData, Shard
  <2>2. next \in Nat /\ count \in Nat /\ count < DataShards
    BY <1>1, <1>6, Far, FecConstants
  <2>3. MarkData \in Shards
    BY <1>1, <2>1, <2>2 DEF Shards
  <2> QED
    BY <1>1, <1>4, <1>5, <2>1, <2>2, <2>3 DEF Sent
<1>9. CASE count + 1 < DataShards
  <2>1. /\ net' = net \cup {MarkData} /\ next' = next + 1 /\ count' = count + 1
        /\ batch' = batch
    BY <1>7, <1>9 DEF Encode
  <2>2. next + 1 = Number(k, batch, count + 1)
    <3>1. 1 \in 0 .. Width - 1 - count
      BY <1>1, <1>9, FecConstants
    <3> QED
      BY <1>6, <3>1
  <2>3. \A t \in net' : Sent(k, t)
    BY <1>1, <1>8, <2>1
  <2>4. z + (count + 1) <= DataShards - 1 + encodes'
    <3> HIDE DEF z
    <3> QED
      BY <1>1, <1>2, <1>3, FecConstants DEF z
  <2>5. batch' * DataShards + count' <= DataShards - 1 + encodes'
    BY <2>1, <2>4
  <2>6. count' \in 0 .. DataShards - 1 /\ batch' \in Nat /\ encodes' \in 0 .. MaxEncodes
        /\ batch' <= encodes'
    BY <1>1, <1>2, <1>9, <2>1, FecConstants
  <2> QED
    BY <2>1, <2>2, <2>3, <2>5, <2>6 DEF Encoding
<1>10. CASE ~(count + 1 < DataShards)
  <2>1. count = DataShards - 1
    BY <1>1, <1>10, FecConstants
  <2>2. /\ net' = net \cup {MarkData} \cup
              {Shard(MarkParity(i), FALSE, DataShards + i) : i \in 0 .. ParityShards - 1}
        /\ next' = MarkParity(ParityShards) /\ count' = 0 /\ batch' = batch + 1
    BY <1>10 DEF Encode
  <2>3. \A i \in 0 .. ParityShards :
           MarkParity(i) = IF i = 0 THEN next + 1 ELSE (next + (1 + i)) % Paws
    <3> TAKE i \in 0 .. ParityShards
    <3>1. (next + 1) + i = next + (1 + i)
      BY <1>6, Far
    <3> QED
      BY <1>7, <3>1 DEF MarkParity
  <2>4. \A i \in 0 .. ParityShards - 1 : MarkParity(i) = Number(k, batch, DataShards + i)
    <3> TAKE i \in 0 .. ParityShards - 1
    <3>1. 1 + i \in 0 .. Width - 1 - count /\ count + (1 + i) = DataShards + i
          /\ DataShards + i \in 0 .. Width - 1 /\ i \in 0 .. ParityShards
      BY <2>1, FecConstants
    <3>2. next + (1 + i) = Number(k, batch, DataShards + i)
      BY <1>6, <3>1
    <3>3. Number(k, batch, DataShards + i) \in 0 .. Paws - 1
      BY <1>4, <3>1, NumberOf
    <3>4. (next + (1 + i)) % Paws = next + (1 + i)
      <4>1. Paws \in Nat \ {0}
        BY <1>6, Far
      <4> QED
        BY <3>2, <3>3, <4>1, Below
    <3> QED
      BY <2>3, <3>1, <3>2, <3>4
  <2>5. next' = Number(k, batch + 1, 0)
    <3>1. Width - count = 1 + ParityShards /\ ParityShards \in 0 .. ParityShards /\ ParityShards # 0
      BY <2>1, FecConstants
    <3> QED
      BY <1>6, <2>2, <2>3, <3>1
  <2>6. \A i \in 0 .. ParityShards - 1 : Sent(k, Shard(MarkParity(i), FALSE, DataShards + i))
    <3> TAKE i \in 0 .. ParityShards - 1
    <3> DEFINE t == Shard(MarkParity(i), FALSE, DataShards + i)
               n == Number(k, batch, DataShards + i)
    <3>1. t = [seq |-> n, data |-> FALSE, batch |-> batch, pos |-> DataShards + i]
      BY <2>4 DEF Shard
    <3>2. /\ DataShards + i \in 0 .. Width - 1 /\ DataShards + i \in Nat
          /\ ~(DataShards + i < DataShards)
      BY FecConstants
    <3>3. n \in Nat
      <4>1. n \in 0 .. Paws - 1
        BY <1>4, <3>2, NumberOf
      <4> QED
        BY <4>1, Far
    <3> HIDE DEF n, t
    <3>4. t.seq = n /\ ~t.data /\ t.batch = batch /\ t.pos = DataShards + i
      BY <3>1
    <3>5. t \in Shards
      BY <1>1, <3>1, <3>2, <3>3 DEF Shards
    <3>6. Sent(k, t)
      BY <1>4, <3>2, <3>4, <3>5 DEF Sent, n
    <3> QED
      BY <3>6 DEF t
  <2>7. \A t \in net' : Sent(k, t)
    BY <1>1, <1>8, <2>2, <2>6
  <2>8. (batch + 1) * DataShards + 0 <= DataShards - 1 + encodes'
    <3>1. (batch + 1) * DataShards = z + DataShards
      BY <1>1, FecConstants
    <3> HIDE DEF z
    <3>2. z + DataShards <= DataShards - 1 + (encodes + 1)
      BY <1>1, <1>3, <2>1, FecConstants DEF z
    <3> QED
      BY <1>2, <1>3, <3>1, <3>2, FecConstants
  <2>9. count' \in 0 .. DataShards - 1 /\ batch' \in Nat /\ encodes' \in 0 .. MaxEncodes
        /\ batch' <= encodes'
    BY <1>1, <1>2, <2>2, FecConstants
  <2> QED
    BY <2>2, <2>5, <2>7, <2>8, <2>9 DEF Encoding
<1> QED
  BY <1>9, <1>10

\* What the tuner makes of a datagram.
LEMMA TunedIs ==
    ASSUME NEW k \in 0 .. Rounds - 1, Decoding(k), NEW s, Sent(k, s)
    PROVE  /\ Sampled(Sample(s))
           /\ shape = Enc => ~ShouldTune(s) /\ ~TuneFails(s) /\ Tuned(s) = Enc
           /\ ~TuneFails(s) => Tuned(s) \in {shape, Enc, Short} /\ Tuned(s) \in Counts
           /\ ShouldTune(s) /\ ~TuneFails(s) /\ Sample(s)[0] # NoPulse => Tuned(s) = Enc
<1>1. /\ s.batch \in 0 .. Last /\ s.pos \in 0 .. Width - 1
      /\ s.seq = Number(k, s.batch, s.pos) /\ s.seq \in Nat /\ s.data \in BOOLEAN
      /\ s.data <=> s.pos < DataShards
  BY DEF Sent, Shards
<1>2. s.seq \in 0 .. Paws - 1 /\ s.seq % Width = s.pos
  BY <1>1, NumberOf
<1>3. s.seq % Samples \in 0 .. Samples - 1
  BY <1>1, FecConstants
<1>4. Sampled(Sample(s))
  <2> DEFINE j == s.seq % Samples
             x == [bit |-> s.data, seq |-> s.seq]
  <2>1. Sample(s) = [pulses EXCEPT ![j] = x]
    BY DEF Sample
  <2>2. x \in [bit : BOOLEAN, seq : Nat] /\ x.seq = s.seq /\ (x.bit <=> s.pos < DataShards)
    BY <1>1
  <2>3. /\ pulses \in [0 .. Samples - 1 -> [bit : BOOLEAN, seq : Nat]]
        /\ \A i \in 0 .. Samples - 1 :
              \/ pulses[i] = NoPulse
              \/ /\ pulses[i].seq \in 0 .. Paws - 1 /\ pulses[i].seq % Samples = i
                 /\ pulses[i].bit <=> pulses[i].seq % Width < DataShards
    BY DEF Decoding, Sampled
  <2>4. j \in 0 .. Samples - 1 /\ x.seq % Samples = j
    BY <1>3, <2>2
  <2>5. x.seq \in 0 .. Paws - 1 /\ (x.bit <=> x.seq % Width < DataShards)
    BY <1>2, <2>2
  <2> HIDE DEF j, x
  <2>6. Sample(s) \in [0 .. Samples - 1 -> [bit : BOOLEAN, seq : Nat]]
    BY <2>1, <2>2, <2>3, <2>4
  <2>7. \A i \in 0 .. Samples - 1 : Sample(s)[i] = IF i = j THEN x ELSE pulses[i]
    BY <2>1, <2>3, <2>4
  <2>8. \A i \in 0 .. Samples - 1 :
              \/ Sample(s)[i] = NoPulse
              \/ /\ Sample(s)[i].seq \in 0 .. Paws - 1 /\ Sample(s)[i].seq % Samples = i
                 /\ Sample(s)[i].bit <=> Sample(s)[i].seq % Width < DataShards
    <3> TAKE i \in 0 .. Samples - 1
    <3>1. CASE i = j
      BY <2>4, <2>5, <2>7, <3>1
    <3>2. CASE i # j
      BY <2>3, <2>7, <3>2
    <3> QED
      BY <3>1, <3>2
  <2> QED
    BY <2>6, <2>8 DEF Sampled
<1>5. shape \in Counts /\ Enc \in Counts /\ Enc[1] = DataShards
  BY FecConstants DEF Decoding, Counts, Enc
<1>6. ASSUME shape = Enc PROVE ~ShouldTune(s) /\ ~TuneFails(s) /\ Tuned(s) = Enc
  <2>1. s.seq % Size(shape) = s.pos /\ shape[1] = DataShards
    BY <1>2, <1>5, <1>6, FecConstants
  <2>2. ~ShouldTune(s)
    BY <1>1, <2>1 DEF ShouldTune
  <2>3. Tuned(s) = Enc
    BY <1>6, <2>2 DEF Tuned
  <2> QED
    BY <2>2, <2>3, <1>5 DEF TuneFails, Counts
<1>7. CASE ~ShouldTune(s)
  <2>1. Tuned(s) = shape
    BY <1>7 DEF Tuned
  <2> QED
    BY <1>4, <1>5, <1>6, <1>7, <2>1
<1>8. CASE ShouldTune(s) /\ TuneFails(s)
  BY <1>4, <1>6, <1>8
<1>9. CASE ShouldTune(s) /\ ~TuneFails(s)
  <2> DEFINE x == FindPeriod(Sample(s), TRUE)
             y == FindPeriod(Sample(s), FALSE)
  <2>1. Tuned(s) = <<x, y>>
    BY <1>9 DEF Tuned
  <2> HIDE DEF x, y
  <2>2. ~(x <= 0) /\ ~(y <= 0)
    BY <1>9, <2>1 DEF TuneFails
  <2>3. x \in Int /\ y \in Int
    BY <1>4, PeriodIsInt DEF x, y
  <2>4. x > 0 /\ y > 0
    BY <2>2, <2>3
  <2>5. y = ParityShards /\ (x = DataShards \/ (Sample(s)[0] = NoPulse /\ x = DataShards - 1))
    BY <1>4, <2>4, TunerFinds DEF x, y
  <2>6. Tuned(s) = Enc \/ (Sample(s)[0] = NoPulse /\ Tuned(s) = Short)
    BY <2>1, <2>5 DEF Enc, Short
  <2>7. Tuned(s) \in Counts
    BY <2>1, <2>3, <2>4 DEF Counts
  <2> QED
    BY <1>4, <1>6, <1>9, <2>6, <2>7
<1> QED
  BY <1>7, <1>8, <1>9

\* The queue stays as long as one of the two shapes allows.
LEMMA LimitKept ==
    ASSUME NEW k, Decoding(k), NEW sh \in {shape, Enc, Short}, sh \in Counts,
           shape = Enc => sh = Enc,
           NEW n \in Nat, n <= Multi * Size(sh) \/ n <= Len(rx)
    PROVE  n <= Multi * Size(sh) \/ n <= Multi * Size(begin)
<1>1. /\ begin \in Shapes /\ shape \in {begin, Enc, Short} /\ shape \in Counts
      /\ Len(rx) <= Multi * Size(shape) \/ Len(rx) <= Multi * Size(begin)
      /\ Len(rx) \in Nat
  BY LenProperties DEF Decoding, Lined
<1>2. begin \in Counts
  BY <1>1, FecAssumption DEF Counts
<1> DEFINE x == Size(shape)
           y == Size(sh)
           z == Size(begin)
<1>3. x \in Nat /\ y \in Nat /\ z \in Nat
  BY <1>1, <1>2 DEF Size, Counts
<1>4. shape = begin \/ x <= y
  <2>1. Size(Enc) = Width /\ Size(Short) = Width - 1
    BY FecConstants DEF Size, Short
  <2>2. CASE shape = Enc
    BY <1>3, <2>2
  <2>3. CASE shape = Short /\ shape # Enc
    <3>1. sh = Short \/ sh = Enc
      BY <2>3
    <3> QED
      BY <1>3, <2>1, <2>3, <3>1, FecConstants
  <2> QED
    BY <1>1, <2>2, <2>3
<1> HIDE DEF x, y, z
<1>5. x <= y => Multi * x <= Multi * y
  BY <1>3, FecConstants, SMTT(30)
<1>6. Multi * x \in Nat /\ Multi * y \in Nat /\ Multi * z \in Nat
  BY <1>3, FecConstants
<1> DEFINE a == Multi * x
           b == Multi * y
           c == Multi * z
<1>7. /\ a \in Nat /\ b \in Nat /\ c \in Nat /\ (a = c \/ a <= b)
      /\ Len(rx) <= a \/ Len(rx) <= c
      /\ n <= b \/ n <= Len(rx)
  <2>1. a = c \/ a <= b
    BY <1>4, <1>5 DEF x, z
  <2> QED
    BY <1>1, <1>6, <2>1 DEF x, y, z
<1> HIDE DEF a, b, c
<1>8. n <= b \/ n <= c
  BY <1>1, <1>7
<1> QED
  BY <1>8 DEF b, c, y, z

\* fecExpire passes: the queue is the same but for the ages.
LEMMA AgeInv ==
    ASSUME NEW k \in 0 .. Rounds - 1, Decoding(k), Keeping, Age
    PROVE  Decoding(k)' /\ Keeping'
<1> DEFINE n == Len(rx)
<1>1. /\ rx' = [i \in 1 .. n |-> [rx[i] EXCEPT !.old = TRUE]]
      /\ UNCHANGED <<encVars, shape, pulses, histVars>>
  BY DEF Age
<1>2. rx \in Seq(Elements) /\ n \in Nat /\ \A i \in 1 .. n : rx[i] \in Elements
  BY LenProperties, ElementOfSeq DEF Decoding, Lined
<1>3. \A i \in 1 .. n : [rx[i] EXCEPT !.old = TRUE] \in Elements
                        /\ [rx[i] EXCEPT !.old = TRUE].shard = rx[i].shard
  BY <1>2 DEF Elements
<1>4. rx' \in Seq(Elements) /\ Len(rx') = n /\ \A i \in 1 .. n : rx'[i].shard = rx[i].shard
  <2> DEFINE r == [i \in 1 .. n |-> [rx[i] EXCEPT !.old = TRUE]]
  <2>1. r \in [1 .. n -> Elements]
    BY <1>3
  <2>2. \A i \in 1 .. n : r[i].shard = rx[i].shard
    BY <1>3
  <2>3. rx' = r
    BY <1>1
  <2> HIDE DEF r, n
  <2>4. r \in Seq(Elements) /\ Len(r) = n
    BY <1>2, <2>1
  <2> QED
    BY <2>2, <2>3, <2>4
<1>5. Lined(k, rx')
  BY <1>4 DEF Decoding, Lined
<1>6. ShardsOf(rx') = ShardsOf(rx)
  BY <1>4 DEF ShardsOf
<1>7. Decoding(k)'
  BY <1>1, <1>4, <1>5 DEF Decoding, histVars
<1>8. Keeping'
  BY <1>1, <1>6 DEF Keeping, Whole, Coming, encVars, histVars
<1> QED
  BY <1>7, <1>8

\* release: what was in the queue is dropped.
LEMMA ReleaseInv ==
    ASSUME NEW k \in 0 .. Rounds - 1, Decoding(k), Keeping, Release
    PROVE  Decoding(k)' /\ Keeping'
<1>1. /\ rx' = <<>> /\ dropped' = dropped \cup ShardsOf(rx)
      /\ UNCHANGED <<encVars, shape, pulses, begin, seen, got, junk, periods>>
  BY DEF Release
<1>2. Len(rx') = 0 /\ ShardsOf(rx') = {} /\ Lined(k, rx')
  BY <1>1 DEF ShardsOf, Lined
<1>3. Multi * Size(shape) \in Nat
  BY FecConstants DEF Decoding, Counts, Size
<1>4. Decoding(k)'
  BY <1>1, <1>2, <1>3 DEF Decoding
<1>5. \A b \in 0 .. Last :
         Coming(b) \subseteq ShardsOf(rx) => Coming(b)' = {}
  BY <1>1 DEF Coming
<1>6. Cardinality({}) < DataShards
  BY FS_EmptySet, FecConstants
<1>7. Keeping'
  BY <1>1, <1>2, <1>5, <1>6 DEF Keeping, Whole, encVars
<1> QED
  BY <1>4, <1>7

\* decode returns early: a repetition is nothing new, a tuning that fails keeps the shape.
LEMMA IgnoresInv ==
    ASSUME NEW k \in 0 .. Rounds - 1, Encoding(k), Decoding(k), Keeping,
           NEW s \in net, DecodeIgnores(s)
    PROVE  Decoding(k)' /\ Keeping'
<1>1. /\ pulses' = Sample(s) /\ seen' = seen \cup {s} /\ got' = got \cup Direct(s)
      /\ \/ TuneFails(s) /\ shape' = shape
         \/ ~TuneFails(s) /\ IsDuplicate(s) /\ shape' = Tuned(s)
      /\ Tunes(s)
      /\ UNCHANGED <<encVars, rx, begin, dropped, junk>>
  BY DEF DecodeIgnores
<1>2. Sent(k, s)
  BY DEF Encoding
<1>3. /\ Sampled(Sample(s))
      /\ shape = Enc => ~ShouldTune(s) /\ ~TuneFails(s) /\ Tuned(s) = Enc
      /\ ~TuneFails(s) => Tuned(s) \in {shape, Enc, Short} /\ Tuned(s) \in Counts
      /\ ShouldTune(s) /\ ~TuneFails(s) /\ Sample(s)[0] # NoPulse => Tuned(s) = Enc
  BY <1>2, TunedIs
<1>4. /\ shape' \in {shape, Enc, Short} /\ shape' \in Counts /\ (shape = Enc => shape' = Enc)
  BY <1>1, <1>3 DEF Decoding
<1>5. periods' \subseteq {Enc}
  BY <1>1, <1>3 DEF Tunes, Decoding
<1>6. Len(rx) \in Nat
  BY LenProperties DEF Decoding, Lined
<1>7. Len(rx) <= Multi * Size(shape') \/ Len(rx) <= Multi * Size(begin)
  <2>1. Len(rx) <= Len(rx)
    BY <1>6
  <2> QED
    BY <1>4, <1>6, <2>1, LimitKept
<1>8. Decoding(k)'
  BY <1>1, <1>3, <1>4, <1>5, <1>7 DEF Decoding
<1>9. \A t \in seen' : t.data => <<t.batch, t.pos>> \in got'
  BY <1>1 DEF Keeping, Direct
<1>10. ASSUME begin = Enc PROVE s \in ShardsOf(rx)
  <2>1. IsDuplicate(s)
    BY <1>1, <1>3, <1>10 DEF Decoding
  <2>2. Lined(k, rx)
    BY DEF Decoding
  <2> QED
    BY <1>2, <2>1, <2>2, PlaceOf
<1>11. begin = Enc => seen' = seen
  BY <1>1, <1>10 DEF Keeping
<1>12. begin = Enc => \A b \in 0 .. Last : Coming(b)' = Coming(b) /\ (Whole(b) => Whole(b)')
  BY <1>1, <1>11 DEF Coming, Whole
<1>13. Keeping'
  <2>1. /\ seen' \subseteq net' /\ ShardsOf(rx') \subseteq seen' /\ dropped' \subseteq seen'
        /\ ShardsOf(rx') \cap dropped' = {}
    BY <1>1 DEF Keeping, encVars
  <2>2. begin' = Enc =>
          \A b \in 0 .. Last :
             \/ Whole(b)'
             \/ Coming(b)' \subseteq ShardsOf(rx') /\ Cardinality(Coming(b)') < DataShards
    BY <1>1, <1>12 DEF Keeping
  <2> QED
    BY <1>9, <2>1, <2>2 DEF Keeping
<1> QED
  BY <1>8, <1>13

\* Fewer of a batch that is not whole are still too few.
LEMMA FewComing ==
    ASSUME NEW k, Lined(k, rx), NEW X \in SUBSET ShardsOf(rx), Cardinality(X) < DataShards,
           NEW Y \in SUBSET X
    PROVE  Cardinality(Y) < DataShards
<1>1. Len(rx) \in Nat
  BY LenProperties DEF Lined
<1>2. \A t \in X : \E i \in 1 .. Len(rx) : rx[i].shard = t
  BY DEF ShardsOf
<1>3. IsFiniteSet(X)
  BY <1>1, <1>2, FewOf
<1>4. IsFiniteSet(Y) /\ Cardinality(Y) <= Cardinality(X)
  BY <1>3, FS_Subset
<1>5. Cardinality(X) \in Nat /\ Cardinality(Y) \in Nat
  BY <1>3, <1>4, FS_CardinalityType
<1> QED
  BY <1>4, <1>5, FecConstants

\* decode: only shards of the batch of the new one are freed, when that is whole.
LEMMA DecodeInv ==
    ASSUME NEW k \in 0 .. Rounds - 1, Encoding(k), Decoding(k), Keeping,
           NEW s \in net, Decode(s)
    PROVE  Decoding(k)' /\ Keeping'
<1> DEFINE sh == Tuned(s)
           q == Insert(s)
           g == Group(q, s, sh)
           rest == FreeRange(q, g, sh)
           out == Recovered(q, g, sh)
           c == s.batch
           G == OfBatch(q, c)
<1>1. /\ ~TuneFails(s) /\ ~IsDuplicate(s)
      /\ pulses' = Sample(s) /\ shape' = sh /\ Tunes(s)
      /\ rx' = Young(Limited(rest, sh))
      /\ seen' = seen \cup {s}
      /\ dropped' = (dropped \ {s}) \cup (ShardsOf(rest) \ ShardsOf(rx'))
      /\ got' = got \cup Direct(s) \cup (out \ {Junk})
      /\ junk' = IF Junk \in out THEN junk \cup {sh} ELSE junk
      /\ UNCHANGED <<encVars, begin>>
  BY DEF Decode
<1>2. Sent(k, s) /\ c \in 0 .. Last /\ c \in Nat /\ s.seq \in Nat
  BY Far DEF Encoding, Sent, Shards
<1>3. Lined(k, rx) /\ Len(rx) \in Nat
  BY LenProperties DEF Decoding, Lined
<1>4. /\ Sampled(Sample(s)) /\ sh \in {shape, Enc, Short} /\ sh \in Counts
      /\ shape = Enc => sh = Enc
      /\ ShouldTune(s) /\ Sample(s)[0] # NoPulse => sh = Enc
  BY <1>1, <1>2, TunedIs
<1>5. /\ Lined(k, q) /\ Len(q) = Len(rx) + 1 /\ Len(q) \in Nat
      /\ Place(s) + 1 \in 1 .. Len(q) /\ q[Place(s) + 1].shard = s
      /\ ShardsOf(q) = ShardsOf(rx) \cup {s}
  BY <1>1, <1>2, <1>3, InsertDone
<1>6. Place(s) \in Nat
  <2>1. Place(s) \in 0 .. Len(rx)
    BY <1>2, <1>3, PlaceOf
  <2> QED
    BY <1>3, <2>1
<1> HIDE DEF sh, q
<1>7. g \in SUBSET (1 .. Len(q))
  BY <1>2, <1>4, <1>5, <1>6, GroupIn
<1>8. sh = Enc =>
         /\ G \in SUBSET (1 .. Len(q)) /\ IsFiniteSet(G)
         /\ g = G \/ (g = {} /\ Cardinality(G) < DataShards)
  <2> HAVE sh = Enc
  <2>1. /\ OfBatch(q, s.batch) \in SUBSET (1 .. Len(q)) /\ IsFiniteSet(OfBatch(q, s.batch))
        /\ \/ Group(q, s, Enc) = OfBatch(q, s.batch)
           \/ Group(q, s, Enc) = {} /\ Cardinality(OfBatch(q, s.batch)) < DataShards
    BY <1>2, <1>5, <1>6, GroupIs
  <2>2. sh = Enc
    OBVIOUS
  <2> QED
    BY <2>1, <2>2
<1> HIDE DEF g
<1>9. /\ Lined(k, rest) /\ Len(rest) <= Len(q) /\ ShardsOf(rest) \subseteq ShardsOf(q)
      /\ Complete(q, g, sh) => /\ Min(g) \in g /\ Max(g) \in g
                               /\ \A i \in 1 .. Len(q) :
                                     \/ q[i].shard \in ShardsOf(rest)
                                     \/ Min(g) <= i /\ i <= Max(g)
  BY <1>4, <1>5, <1>7, FreeRangeDone
<1>10. ~Complete(q, g, sh) => rest = q /\ out = {}
  BY DEF FreeRange, Recovered
<1>11. sh = Enc /\ Complete(q, g, sh) =>
          /\ g = G /\ Junk \notin out
          /\ \A pos \in 0 .. DataShards - 1 :
                \/ <<c, pos>> \in out
                \/ \E t \in ShardsOf(q) : t.data /\ t.batch = c /\ t.pos = pos
  <2> HAVE sh = Enc /\ Complete(q, g, sh)
  <2>1. g # {}
    BY <1>4, <1>5, <1>7, CompleteIsSome
  <2>2. g = G /\ sh = Enc /\ Complete(q, OfBatch(q, c), Enc)
    BY <1>8, <2>1
  <2>3. LET o == Recovered(q, OfBatch(q, c), Enc)
        IN  /\ Junk \notin o
            /\ \A pos \in 0 .. DataShards - 1 :
                  \/ <<c, pos>> \in o
                  \/ \E t \in ShardsOf(q) : t.data /\ t.batch = c /\ t.pos = pos
    BY <1>2, <1>5, <2>2, RecoveredIs
  <2> QED
    BY <2>2, <2>3
<1> HIDE DEF rest, out
<1>12. /\ Lined(k, rx') /\ Len(rx') <= Len(rest) /\ ShardsOf(rx') \subseteq ShardsOf(rest)
       /\ Len(rest) > Multi * Size(sh) => Len(rx') <= Len(rest) - 1
  BY <1>1, <1>4, <1>9, LimitedDone
<1>13. Len(rx') <= Multi * Size(sh) \/ Len(rx') <= Multi * Size(begin)
  <2>1. Len(rest) \in Nat /\ Len(rx') \in Nat
    BY <1>9, <1>12, LenProperties DEF Lined
  <2>2. Multi * Size(sh) \in Nat
    BY <1>4, FecConstants DEF Counts, Size
  <2>3. Len(rx') <= Multi * Size(sh) \/ Len(rx') <= Len(rx)
    <3> DEFINE z == Multi * Size(sh)
    <3> HIDE DEF z
    <3>1. z \in Nat /\ (Len(rest) > z => Len(rx') <= Len(rest) - 1)
      BY <1>12, <2>2 DEF z
    <3>2. Len(rx') <= z \/ Len(rx') <= Len(rx)
      BY <1>3, <1>5, <1>9, <1>12, <2>1, <3>1
    <3> QED
      BY <3>2 DEF z
  <2> QED
    BY <1>4, <2>1, <2>3, LimitKept
<1>14. Enc \notin junk' /\ periods' \subseteq {Enc}
  <2>1. Enc \notin junk'
    BY <1>1, <1>10, <1>11 DEF Decoding
  <2>2. periods' \subseteq {Enc}
    BY <1>1, <1>4 DEF Tunes, Decoding, sh
  <2> QED
    BY <2>1, <2>2
<1>15. Decoding(k)'
  BY <1>1, <1>4, <1>12, <1>13, <1>14 DEF Decoding
<1>16. /\ seen' \subseteq net' /\ ShardsOf(rx') \subseteq seen' /\ dropped' \subseteq seen'
       /\ ShardsOf(rx') \cap dropped' = {}
  BY <1>1, <1>5, <1>9, <1>12 DEF Keeping, encVars
<1>17. \A t \in seen' : t.data => <<t.batch, t.pos>> \in got'
  <2> TAKE t \in seen'
  <2> HAVE t.data
  <2>1. CASE t = s
    BY <1>1, <2>1 DEF Direct
  <2>2. CASE t \in seen
    BY <1>1, <2>2 DEF Keeping
  <2> QED
    BY <1>1, <2>1, <2>2
<1>18. ASSUME begin' = Enc, NEW b \in 0 .. Last
       PROVE  \/ Whole(b)'
              \/ Coming(b)' \subseteq ShardsOf(rx') /\ Cardinality(Coming(b)') < DataShards
  <2>1. /\ sh = Enc
        /\ \/ Whole(b)
           \/ Coming(b) \subseteq ShardsOf(rx) /\ Cardinality(Coming(b)) < DataShards
    BY <1>1, <1>4, <1>18 DEF Decoding, Keeping
  <2>2. Whole(b) => Whole(b)'
    BY <1>1 DEF Whole
  <2>3. Coming(b)' \subseteq Coming(b) \cup {s} /\ (b # c => Coming(b)' \subseteq Coming(b))
    BY <1>1 DEF Coming
  <2>4. \A t \in Coming(b)' : t \in ShardsOf(rest) => t \in ShardsOf(rx')
    BY <1>1 DEF Coming
  <2>5. CASE Whole(b)
    BY <2>2, <2>5
  <2>6. CASE Complete(q, g, sh) /\ b = c
    <3>1. \A pos \in 0 .. DataShards - 1 : <<c, pos>> \in got'
      <4> TAKE pos \in 0 .. DataShards - 1
      <4>1. CASE <<c, pos>> \in out
        <5>1. <<c, pos>> # Junk
          BY <1>2 DEF Junk
        <5> QED
          BY <1>1, <4>1, <5>1
      <4>2. CASE \E t \in ShardsOf(q) : t.data /\ t.batch = c /\ t.pos = pos
        <5>1. PICK t \in ShardsOf(q) : t.data /\ t.batch = c /\ t.pos = pos
          BY <4>2
        <5>2. t \in seen'
          BY <1>1, <1>5, <5>1 DEF Keeping
        <5> QED
          BY <1>17, <5>1, <5>2
      <4> QED
        BY <1>11, <2>1, <2>6, <4>1, <4>2
    <3> QED
      BY <2>6, <3>1 DEF Whole
  <2>7. CASE Complete(q, g, sh) /\ b # c /\ ~Whole(b)
    <3>1. \A t \in Coming(b)' : t \in ShardsOf(rest)
      <4> TAKE t \in Coming(b)'
      <4>1. t \in ShardsOf(q) /\ t.batch = b
        BY <1>5, <2>1, <2>3, <2>7 DEF Coming
      <4>2. PICK i \in 1 .. Len(q) : q[i].shard = t
        BY <4>1 DEF ShardsOf
      <4>3. CASE Min(g) <= i /\ i <= Max(g)
        <5>1. g = G /\ Min(g) \in G /\ Max(g) \in G
          BY <1>9, <1>11, <2>1, <2>7
        <5>2. Min(g) \in Int /\ Max(g) \in Int
          <6>1. Min(g) \in g /\ Max(g) \in g
            BY <1>9, <2>7
          <6>2. \A x \in g : x \in 1 .. Len(q)
            BY <1>7
          <6> QED
            BY <6>1, <6>2
        <5>3. i \in Min(g) .. Max(g)
          BY <4>3, <5>2
        <5>4. i \in OfBatch(q, c)
          BY <1>5, <5>1, <5>3, Between
        <5> QED
          BY <2>7, <4>1, <4>2, <5>4 DEF OfBatch
      <4> QED
        BY <1>9, <2>7, <4>2, <4>3
    <3>2. Coming(b)' \subseteq ShardsOf(rx')
      BY <2>4, <3>1
    <3>3. Cardinality(Coming(b)') < DataShards
      <4> DEFINE X == Coming(b)
             Y == Coming(b)'
      <4>1. X \in SUBSET ShardsOf(rx) /\ Cardinality(X) < DataShards /\ Y \in SUBSET X
        BY <2>1, <2>3, <2>7
      <4> HIDE DEF X, Y
      <4>2. Cardinality(Y) < DataShards
        BY <1>3, <4>1, FewComing
      <4> QED
        BY <4>2 DEF Y
    <3> QED
      BY <3>2, <3>3
  <2>8. CASE ~Complete(q, g, sh) /\ ~Whole(b)
    <3>1. rest = q
      BY <1>10, <2>8
    <3>2. Coming(b)' \subseteq ShardsOf(q)
      BY <1>5, <2>1, <2>3, <2>8
    <3>3. Coming(b)' \subseteq ShardsOf(rx')
      BY <2>4, <3>1, <3>2
    <3>4. CASE b = c
      <4>1. Cardinality(G) < DataShards
        <5>1. sh = Enc /\ Enc[1] = DataShards
          BY <2>1 DEF Enc
        <5>2. ~(Cardinality(g) >= DataShards)
          BY <2>8, <5>1 DEF Complete
        <5>3. IsFiniteSet(G) /\ (g = G \/ Cardinality(G) < DataShards)
          BY <1>8, <5>1
        <5>4. Cardinality(G) \in Nat
          BY <5>3, FS_CardinalityType
        <5> HIDE DEF G
        <5> QED
          BY <5>2, <5>3, <5>4, FecConstants
      <4>2. \A t \in Coming(b)' : \E i \in G : q[i].shard = t
        <5> TAKE t \in Coming(b)'
        <5>1. t.batch = b
          BY DEF Coming
        <5>2. PICK i \in 1 .. Len(q) : q[i].shard = t
          BY <3>2 DEF ShardsOf
        <5> QED
          BY <3>4, <5>1, <5>2 DEF OfBatch
      <4> DEFINE X == Coming(b)'
      <4>3. Cardinality(X) <= Cardinality(G) /\ Cardinality(X) \in Nat
        <5> HIDE DEF X, G
        <5>1. \A t \in X : \E i \in G : q[i].shard = t
          BY <4>2 DEF X
        <5> QED
          BY <1>5, <1>8, <2>1, <5>1, FewOf
      <4>4. Cardinality(G) \in Nat
        BY <1>8, <2>1, FS_CardinalityType
      <4> HIDE DEF X, G
      <4>5. Cardinality(X) < DataShards
        BY <4>1, <4>3, <4>4, FecConstants
      <4> QED
        BY <3>3, <4>5 DEF X
    <3>5. CASE b # c
      <4>1. Cardinality(Coming(b)') < DataShards
        <5> DEFINE X == Coming(b)
               Y == Coming(b)'
        <5>1. X \in SUBSET ShardsOf(rx) /\ Cardinality(X) < DataShards /\ Y \in SUBSET X
          BY <2>1, <2>3, <2>8, <3>5
        <5> HIDE DEF X, Y
        <5>2. Cardinality(Y) < DataShards
          BY <1>3, <5>1, FewComing
        <5> QED
          BY <5>2 DEF Y
      <4> QED
        BY <3>3, <4>1
    <3> QED
      BY <3>4, <3>5
  <2> QED
    BY <2>5, <2>6, <2>7, <2>8
<1>19. Keeping'
  BY <1>16, <1>17, <1>18 DEF Keeping
<1> QED
  BY <1>15, <1>19

\* Every step keeps the invariant, at the block where the encoder began.
LEMMA FecStepInv ==
    ASSUME FecIInv, [FecNext]_fecVars
    PROVE  FecIInv'
<1>1. PICK k \in 0 .. Rounds - 1 : Encoding(k) /\ Decoding(k) /\ Keeping
  BY DEF FecIInv
<1>2. CASE Encode
  <2>1. Encoding(k)'
    BY <1>1, <1>2, EncodeInv
  <2>2. UNCHANGED <<decVars, histVars>> /\ net \subseteq net'
    BY <1>2 DEF Encode
  <2>3. Decoding(k)' /\ Keeping'
    BY <1>1, <2>2 DEF Decoding, Keeping, Whole, Coming, decVars, histVars
  <2> QED
    BY <2>1, <2>3 DEF FecIInv
<1>3. CASE Age
  <2>1. Decoding(k)' /\ Keeping'
    BY <1>1, <1>3, AgeInv
  <2>2. UNCHANGED encVars
    BY <1>3 DEF Age
  <2> QED
    BY <1>1, <2>1, <2>2 DEF FecIInv, Encoding, encVars
<1>4. CASE Release
  <2>1. Decoding(k)' /\ Keeping'
    BY <1>1, <1>4, ReleaseInv
  <2>2. UNCHANGED encVars
    BY <1>4 DEF Release
  <2> QED
    BY <1>1, <2>1, <2>2 DEF FecIInv, Encoding, encVars
<1>5. ASSUME NEW s \in net, DecodeIgnores(s) PROVE FecIInv'
  <2>1. Decoding(k)' /\ Keeping'
    BY <1>1, <1>5, IgnoresInv
  <2>2. UNCHANGED encVars
    BY <1>5 DEF DecodeIgnores
  <2> QED
    BY <1>1, <2>1, <2>2 DEF FecIInv, Encoding, encVars
<1>6. ASSUME NEW s \in net, Decode(s) PROVE FecIInv'
  <2>1. Decoding(k)' /\ Keeping'
    BY <1>1, <1>6, DecodeInv
  <2>2. UNCHANGED encVars
    BY <1>6 DEF Decode
  <2> QED
    BY <1>1, <2>1, <2>2 DEF FecIInv, Encoding, encVars
<1>7. CASE UNCHANGED fecVars
  BY <1>1, <1>7 DEF FecIInv, Encoding, Decoding, Keeping, Whole, Coming,
                    fecVars, encVars, decVars, histVars
<1> QED
  BY <1>2, <1>3, <1>4, <1>5, <1>6, <1>7 DEF FecNext

\* The invariant says more than the types, and than what the decoder promises.
LEMMA FecTypesHold == FecIInv => FecTypeOK
<1> SUFFICES ASSUME FecIInv PROVE FecTypeOK
  OBVIOUS
<1>1. PICK k \in 0 .. Rounds - 1 : Encoding(k) /\ Decoding(k) /\ Keeping
  BY DEF FecIInv
<1>2. /\ next = Number(k, batch, count) /\ count \in 0 .. DataShards - 1
      /\ batch \in Nat /\ encodes \in 0 .. MaxEncodes /\ batch <= encodes
      /\ batch * DataShards + count <= DataShards - 1 + encodes
  BY <1>1 DEF Encoding
<1>3. batch \in 0 .. Last /\ count \in 0 .. Width - 1
  <2> DEFINE z == batch * DataShards
  <2>1. z \in Nat /\ z + count <= DataShards - 1 + encodes
    BY <1>2, FecConstants
  <2> HIDE DEF z
  <2>2. z <= MaxEncodes + DataShards - 1
    BY <1>2, <2>1, FecConstants
  <2> QED
    BY <1>2, <2>2, Far, FecConstants DEF z
<1>4. next \in 0 .. Modulus - 1
  <2>1. next \in 0 .. Paws - 1
    BY <1>2, <1>3, NumberOf
  <2> QED
    BY <2>1, Far, FecConstants
<1>5. batch \in 0 .. MaxEncodes
  BY <1>2, FecConstants
<1>6. shape \in (Nat \ {0}) \X (Nat \ {0}) /\ begin \in Shapes
  BY <1>1 DEF Decoding, Counts
<1> QED
  BY <1>1, <1>2, <1>4, <1>5, <1>6 DEF FecTypeOK, Keeping

\* What came and is not whole is still there: the four parts.
LEMMA DecodesHold == FecIInv => DecodesRight
<1> SUFFICES ASSUME FecIInv PROVE DecodesRight
  OBVIOUS
<1>1. PICK k \in 0 .. Rounds - 1 : Encoding(k) /\ Decoding(k) /\ Keeping
  BY DEF FecIInv
<1>2. Lined(k, rx) /\ Len(rx) \in Nat
  BY <1>1, LenProperties DEF Decoding, Lined
<1>3. RxOrdered
  <2>1. ASSUME NEW i \in 1 .. Len(rx) - 1 PROVE Diff(rx[i + 1].shard.seq, rx[i].shard.seq) > 0
    <3>1. i \in 1 .. Len(rx) /\ i + 1 \in 1 .. Len(rx) /\ i < i + 1
      BY <1>2
    <3> DEFINE t == rx[i].shard
               u == rx[i + 1].shard
    <3>2. Sent(k, t) /\ Sent(k, u) /\ At(t) < At(u)
      BY <1>2, <3>1 DEF Lined
    <3> HIDE DEF t, u
    <3>3. At(t) \in Nat /\ At(u) \in Nat /\ (Diff(u.seq, t.seq) > 0 <=> At(u) > At(t))
      BY <3>2, Compared
    <3>4. Diff(u.seq, t.seq) > 0
      BY <3>2, <3>3
    <3> QED
      BY <3>4 DEF t, u
  <2>2. Len(rx) <= Multi * Size(shape) \/ Len(rx) <= Multi * Size(begin)
    BY <1>1 DEF Decoding
  <2> QED
    BY <2>1, <2>2 DEF RxOrdered
<1>4. Recovers
  <2> SUFFICES ASSUME begin = Enc, NEW u \in seen, NEW t \in net,
                      Cardinality(Coming(u.batch)) >= DataShards,
                      t.batch = u.batch, t.data
               PROVE  <<u.batch, t.pos>> \in got
    BY DEF Recovers, Coming
  <2> DEFINE b == u.batch
             X == Coming(b)
  <2>1. Sent(k, u) /\ Sent(k, t)
    BY <1>1 DEF Encoding, Keeping
  <2>2. b \in 0 .. Last /\ t.pos \in 0 .. DataShards - 1
    BY <2>1, FecConstants DEF Sent
  <2>3. Whole(b) \/ (X \subseteq ShardsOf(rx) /\ Cardinality(X) < DataShards)
    BY <1>1, <2>2 DEF Keeping
  <2>4. ~(X \subseteq ShardsOf(rx) /\ Cardinality(X) < DataShards)
    <3> SUFFICES ASSUME X \subseteq ShardsOf(rx), Cardinality(X) < DataShards PROVE FALSE
      OBVIOUS
    <3>1. Cardinality(X) >= DataShards
      OBVIOUS
    <3> HIDE DEF X
    <3>2. \A x \in X : \E i \in 1 .. Len(rx) : rx[i].shard = x
      BY DEF ShardsOf
    <3>3. Cardinality(X) \in Nat
      <4> DEFINE q == rx
                 g == 1 .. Len(q)
      <4>1. Len(q) \in Nat /\ g \in SUBSET (1 .. Len(q)) /\ \A x \in X : \E i \in g : q[i].shard = x
        BY <1>2, <3>2
      <4> HIDE DEF q, g
      <4> QED
        BY <4>1, FewOf
    <3> QED
      BY <3>1, <3>3, FecConstants
  <2> QED
    BY <2>2, <2>3, <2>4 DEF Whole
<1>5. Genuine /\ TunesRight
  BY <1>1 DEF Decoding, Genuine, TunesRight
<1> QED
  BY <1>3, <1>4, <1>5 DEF DecodesRight

\* The datagrams kept are in the order of the encoder's batches and places; those that came
\* and were not dropped are kept until their batch is whole; the samples are the encoder's.
THEOREM FecInvariance == FecSpec => []FecIInv
  BY FecInitInv, FecStepInv, PTL DEF FecSpec

\* The encoder's number, its place in a batch and what the decoder keeps are of their types.
THEOREM FecTypes == FecSpec => []FecTypeOK
  BY FecInvariance, FecTypesHold, PTL

\* The decoder keeps the numbers in order, also where they wrap, recovers every batch of
\* which enough came, with the encoder's shape nothing else, and finds no other shape.
THEOREM Decodes == FecSpec => []DecodesRight
  BY FecInvariance, DecodesHold, PTL
=============================================================================
