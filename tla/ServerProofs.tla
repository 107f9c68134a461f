---------------------------- MODULE ServerProofs ----------------------------
(***************************************************************************)
(* What Server.tla promises for every number of connections and every      *)
(* limit: the limit itself, that no session outlives Stop on an open       *)
(* socket, that a tcp server is quiet when its Stop returns, and of what a *)
(* server panics once its listener is assigned.                            *)
(*                                                                         *)
(* None of them is inductive.  What is missing is how the parties account  *)
(* for each other: wgLn for the accepting goroutine, wgConns for the       *)
(* sessions, acc for the one connection that is in that goroutine's hands, *)
(* start and stop for the listener and the map.  IInv says that.           *)
(***************************************************************************)
EXTENDS Server, FiniteSetTheorems, TLAPS

\* The connections wgConns counts in tcp and kcp: spawned, and not yet done.
Sessions == {c \in Conns : cst[c] \in {"running", "closing", "hung", "closed", "deleted"}}

\* Where tcp's accepting goroutine is counted by wgLn.
Accepting == acc \in {"accept", "admit", "spawn"}

\* The WaitGroups count what they are for.
Counted ==
    /\ wgLn = IF kind = "tcp" /\ Accepting THEN 1 ELSE 0
    /\ wgConns = IF kind = "ws" THEN 0 ELSE Cardinality(Sessions)

\* In tcp and kcp the accepting goroutine has one connection in its hands between
\* Accept and Spawn, and acc says how far it has come; in ws none is admitted
\* without running at once.  Nothing is accepted before the goroutine has begun.
InHand ==
    /\ start # "made" => acc = "off"
    /\ acc = "off" => \A c \in Conns : cst[c] \in {"none", "queued"}
    /\ \A c \in Conns :
          /\ cst[c] = "accepted" /\ kind # "ws" => acc = "admit"
          /\ cst[c] = "admitted" => kind # "ws" /\ acc = "spawn"
    /\ \A c, d \in Conns :
          /\ kind # "ws"
          /\ cst[c] \in {"accepted", "admitted"} /\ cst[d] \in {"accepted", "admitted"}
          => c = d

\* Where Start and Stop have left the listener and the map.  Until Stop the listener
\* is open; there is a map from the end of Start on, until Stop drops it, which it does
\* before it waits for wgConns and perhaps before Start makes it.  With the listener
\* closed, a tcp acceptor that starts after Stop has waited for wgLn gets no further
\* than Accept, and a map made after Stop stays empty but for kcp.
Stopping ==
    /\ start # "off" /\ stop = "idle" => lnOpen
    /\ start # "made" => connsNil
    /\ connsNil /\ start = "made" => stop \in {"waitConns", "returned"}
    /\ kind = "ws" /\ acc = "exit" => stop # "idle"
    /\ kind = "tcp" /\ ~lnOpen /\ stop \in {"closeConns", "waitConns", "returned"} =>
          acc \in {"off", "accept", "exit"}
    /\ stop \in {"waitConns", "returned"} =>
          /\ connsNil => Live \subseteq shut
          /\ ~connsNil /\ kind # "kcp" /\ ~lnOpen =>
                \A c \in Conns : cst[c] \in {"none", "queued"}

IInv ==
    TypeOK /\ Counted /\ InHand /\ Stopping /\ Limit /\ QuietAfterStop /\ PanicOnlyBy

-----------------------------------------------------------------------------
\* A set of connections is finite and no larger than Conns.
LEMMA ConnSets ==
    \A S \in SUBSET Conns :
        /\ IsFiniteSet(S)
        /\ Cardinality(S) \in 0 .. Cardinality(Conns)
<1> SUFFICES ASSUME NEW S \in SUBSET Conns
             PROVE  IsFiniteSet(S) /\ Cardinality(S) \in 0 .. Cardinality(Conns)
  OBVIOUS
<1>1. IsFiniteSet(Conns)
  BY ServerAssumption
<1>2. IsFiniteSet(S) /\ Cardinality(S) <= Cardinality(Conns)
  BY <1>1, FS_Subset
<1> QED
  BY <1>1, <1>2, FS_CardinalityType

\* A connection that joins a set of connections counts for one.
LEMMA OneMore ==
    \A S \in SUBSET Conns, c \in Conns :
        c \notin S => Cardinality(S \cup {c}) = Cardinality(S) + 1
  BY ConnSets, FS_AddElement

\* A connection that leaves a set of connections counts for one.
LEMMA OneLess ==
    \A S \in SUBSET Conns, c \in Conns :
        c \in S => Cardinality(S \ {c}) = Cardinality(S) - 1
  BY ConnSets, FS_RemoveElement

\* The invariant holds in the beginning.
LEMMA InitInv == Init => IInv
<1> SUFFICES ASSUME Init PROVE IInv
  OBVIOUS
<1>1. Live = {} /\ Sessions = {}
  BY DEF Init, Live, Sessions
<1>2. Cardinality(Conns) \in Nat /\ Cardinality({}) = 0
  BY ServerAssumption, FS_CardinalityType, FS_EmptySet
<1>3. TypeOK
  <2>1. kind \in {"tcp", "kcp", "ws"}
    BY ServerAssumption DEF Init
  <2>2. wgConns \in 0 .. Cardinality(Conns) /\ wgLn \in 0 .. 1
    BY <1>2 DEF Init
  <2>3. /\ lnOpen \in BOOLEAN /\ connsNil \in BOOLEAN /\ panicked \in BOOLEAN
        /\ conns \subseteq Conns /\ shut \subseteq Conns
        /\ start = "off" /\ acc = "off" /\ stop = "idle" /\ cst = [c \in Conns |-> "none"]
    BY DEF Init
  <2> QED
    BY <2>1, <2>2, <2>3 DEF TypeOK
<1>4. Counted /\ Limit
  BY <1>1, <1>2, ServerAssumption DEF Init, Counted, Accepting, Limit
<1>5. InHand /\ Stopping /\ QuietAfterStop /\ PanicOnlyBy
  BY <1>1 DEF Init, InHand, Stopping, QuietAfterStop, PanicOnlyBy
<1> QED
  BY <1>3, <1>4, <1>5 DEF IInv

\* acc says what the accepting goroutine has in its hands.
LEMMA HandStep == TypeOK /\ InHand /\ [Next]_vars => InHand'
<1> SUFFICES ASSUME TypeOK, InHand, [Next]_vars PROVE InHand'
  OBVIOUS
<1> USE DEF TypeOK, InHand, Move
<1>1. CASE RunBegin
  BY <1>1 DEF RunBegin, connVars
<1>2. CASE AcceptError
  BY <1>2 DEF AcceptError, Panic, connVars
<1>3. ASSUME NEW c \in Conns, Accept(c) PROVE InHand'
  BY <1>3 DEF Accept
<1>4. ASSUME NEW c \in Conns, Spawn(c) PROVE InHand'
  BY <1>4 DEF Spawn
<1>5. ASSUME NEW c \in Conns, Admit(c) PROVE InHand'
  BY <1>5 DEF Admit, Panic, connVars
<1>6. ASSUME NEW c \in Conns,
             \/ Arrive(c) \/ SessionEnd(c) \/ CoClose(c) \/ CoCloseHangs(c)
             \/ Delete(c) \/ OnClose(c)
      PROVE  InHand'
  BY <1>6 DEF Arrive, SessionEnd, CoClose, CoCloseHangs, Delete, OnClose
<1>7. CASE StopListen \/ StopStep \/ UNCHANGED vars
  BY <1>7 DEF StopListen, Panic, StopStep, StopWaitLn, StopConns, StopWaitConns, connVars,
              vars
<1>8. CASE Listen \/ AssignLn \/ MakeConns \/ StartError
  BY <1>8 DEF Listen, AssignLn, MakeConns, StartError, Panic, connVars
<1> QED
  BY <1>1, <1>2, <1>3, <1>4, <1>5, <1>6, <1>7, <1>8 DEF Next, AcceptorStep, SessionStep

\* What Stop has done so far, and what that leaves to tcp's accepting goroutine.
LEMMA StoppingStep ==
    TypeOK /\ Counted /\ InHand /\ Stopping /\ Limit /\ [Next]_vars => Stopping'
<1> SUFFICES ASSUME TypeOK, Counted, InHand, Stopping, Limit, [Next]_vars PROVE Stopping'
  OBVIOUS
<1> USE DEF TypeOK, Stopping, Live, Move
<1>1. CASE RunBegin
  BY <1>1 DEF RunBegin, connVars
<1>2. CASE AcceptError
  BY <1>2 DEF AcceptError, Panic, connVars, InHand
\* With the listener closed, tcp's Accept returns no connection ...
<1>3. ASSUME NEW c \in Conns, Accept(c) PROVE Stopping'
  BY <1>3 DEF Accept
\* ... so that Admit and Spawn are over when wgLn is zero.
<1>4. ASSUME NEW c \in Conns, Spawn(c) PROVE Stopping'
  BY <1>4 DEF Spawn
<1>5. ASSUME NEW c \in Conns, Admit(c) PROVE Stopping'
  BY <1>5 DEF Admit, Panic, connVars, InHand
<1>6. ASSUME NEW c \in Conns,
             \/ Arrive(c) \/ SessionEnd(c) \/ CoClose(c) \/ CoCloseHangs(c)
             \/ Delete(c) \/ OnClose(c)
      PROVE  Stopping'
  BY <1>6 DEF Arrive, SessionEnd, CoClose, CoCloseHangs, Delete, OnClose
<1>7. CASE StopListen \/ StopWaitConns \/ UNCHANGED vars
  BY <1>7 DEF StopListen, Panic, StopWaitConns, connVars, vars
\* wgLn is zero: tcp's accepting goroutine has not begun, or has gone.
<1>8. CASE StopWaitLn
  BY <1>8 DEF StopWaitLn, connVars, Counted, Accepting
\* Until then the map has had every live connection, and all are shut; without a map
\* there is none.
<1>9. CASE StopConns
  BY <1>9 DEF StopConns, Limit, InHand
\* Nothing has been accepted when Start makes the map.
<1>10. CASE Listen \/ AssignLn \/ MakeConns \/ StartError
  BY <1>10 DEF Listen, AssignLn, MakeConns, StartError, Panic, connVars, InHand
<1> QED
  BY <1>1, <1>2, <1>3, <1>4, <1>5, <1>6, <1>7, <1>8, <1>9, <1>10
     DEF Next, AcceptorStep, SessionStep, StopStep

\* A tcp acceptor never holds a connection once Stop has set the map to nil, and Serve
\* of ws returns only after Stop.
LEMMA PanicStep ==
    TypeOK /\ InHand /\ Stopping /\ PanicOnlyBy /\ [Next]_vars => PanicOnlyBy'
<1> SUFFICES ASSUME TypeOK, InHand, Stopping, PanicOnlyBy, [Next]_vars
             PROVE  PanicOnlyBy'
  OBVIOUS
<1> USE DEF PanicOnlyBy, Torn, Alive
<1>1. CASE AcceptError
  BY <1>1 DEF AcceptError, Panic
<1>2. ASSUME NEW c \in Conns, Admit(c) PROVE PanicOnlyBy'
  <2>1. CASE ~panicked'
    BY <2>1
  <2>2. CASE panicked'
    <3>1. /\ cst[c] = "accepted" /\ kind # "ws" /\ connsNil
          /\ UNCHANGED <<kind, start, lnOpen, acc, stop>>
      BY <1>2, <2>2 DEF Admit, Panic
    <3>2. acc = "admit" /\ start = "made"
      BY <3>1 DEF InHand
    <3>3. lnOpen \/ kind # "tcp"
      BY <3>1, <3>2 DEF Stopping
    <3>4. kind = "kcp" \/ (lnOpen /\ stop # "idle")
      BY <3>1, <3>2, <3>3 DEF Stopping, TypeOK
    <3> QED
      BY <3>1, <3>4
  <2> QED
    BY <2>1, <2>2
<1>3. CASE Listen \/ AssignLn \/ MakeConns \/ RunBegin \/ StopListen \/ StopStep
  BY <1>3 DEF Listen, AssignLn, MakeConns, RunBegin, Panic, StopListen, StopStep, StopWaitLn,
              StopConns, StopWaitConns
<1>4. ASSUME NEW c \in Conns,
             \/ Accept(c) \/ Spawn(c) \/ Arrive(c) \/ SessionEnd(c) \/ CoClose(c)
             \/ CoCloseHangs(c) \/ Delete(c) \/ OnClose(c)
      PROVE  PanicOnlyBy'
  BY <1>4 DEF Accept, Spawn, Arrive, SessionEnd, CoClose, CoCloseHangs, Delete, OnClose
<1>5. CASE StartError
  BY <1>5 DEF StartError, Panic, Stopping
<1>6. CASE UNCHANGED vars
  BY <1>6 DEF vars
<1> QED
  BY <1>1, <1>2, <1>3, <1>4, <1>5, <1>6 DEF Next, AcceptorStep, SessionStep

-----------------------------------------------------------------------------
\* A step that changes no session's place keeps the counts.
LEMMA SameCount ==
    ASSUME Counted, kind' = kind, wgConns' = wgConns, Sessions' = Sessions,
           wgLn' = IF kind = "tcp" /\ Accepting' THEN 1 ELSE 0
    PROVE  Counted'
  BY DEF Counted

\* wgLn and wgConns count, whatever the order of Add, Done and the map's changes.
LEMMA CountStep == TypeOK /\ Counted /\ InHand /\ [Next]_vars => Counted'
<1> SUFFICES ASSUME TypeOK, Counted, InHand, [Next]_vars PROVE Counted'
  OBVIOUS
<1> USE DEF TypeOK, Move
<1>1. CASE RunBegin
  <2>1. Sessions' = Sessions
    BY <1>1 DEF RunBegin, connVars, Sessions
  <2> QED
    BY <1>1, <2>1, SameCount DEF RunBegin, Counted, Accepting
<1>2. CASE AcceptError
  <2>1. Sessions' = Sessions
    BY <1>2 DEF AcceptError, Panic, connVars, Sessions
  <2> QED
    BY <1>2, <2>1, SameCount DEF AcceptError, Panic, Counted, Accepting
<1>3. ASSUME NEW c \in Conns, Accept(c) PROVE Counted'
  <2>1. Sessions' = Sessions
    BY <1>3 DEF Accept, Sessions
  <2> QED
    BY <1>3, <2>1, SameCount DEF Accept, Counted, Accepting
<1>4. ASSUME NEW c \in Conns, Spawn(c) PROVE Counted'
  <2>1. c \notin Sessions /\ Sessions' = Sessions \cup {c} /\ Sessions \in SUBSET Conns
    BY <1>4 DEF Spawn, Sessions
  <2>2. Cardinality(Sessions') = Cardinality(Sessions) + 1
    BY <2>1, OneMore
  <2> QED
    BY <1>4, <2>2 DEF Spawn, Counted, Accepting, InHand
<1>5. ASSUME NEW c \in Conns, Admit(c), kind # "ws" PROVE Counted'
  <2>1. Sessions' = Sessions
    BY <1>5 DEF Admit, Panic, connVars, Sessions
  <2>2. wgLn' = wgLn /\ (Accepting' <=> Accepting)
    BY <1>5 DEF Admit, Panic, Accepting, InHand
  <2> QED
    BY <1>5, <2>1, <2>2, SameCount DEF Admit, Panic, Counted
<1>6. ASSUME NEW c \in Conns, Admit(c), kind = "ws" PROVE Counted'
  BY <1>6 DEF Admit, Panic, Counted
<1>7. ASSUME NEW c \in Conns,
             Arrive(c) \/ SessionEnd(c) \/ CoClose(c) \/ CoCloseHangs(c) \/ Delete(c)
      PROVE  Counted'
  <2>1. Sessions' = Sessions
    BY <1>7 DEF Arrive, SessionEnd, CoClose, CoCloseHangs, Delete, Sessions
  <2> QED
    BY <1>7, <2>1, SameCount
       DEF Arrive, SessionEnd, CoClose, CoCloseHangs, Delete, Counted, Accepting
<1>8. ASSUME NEW c \in Conns, OnClose(c) PROVE Counted'
  <2>1. c \in Sessions /\ Sessions' = Sessions \ {c} /\ Sessions \in SUBSET Conns
    BY <1>8 DEF OnClose, Sessions
  <2>2. Cardinality(Sessions') = Cardinality(Sessions) - 1
    BY <2>1, OneLess
  <2> QED
    BY <1>8, <2>2 DEF OnClose, Counted, Accepting
<1>9. CASE \/ Listen \/ AssignLn \/ MakeConns \/ StartError \/ StopListen
           \/ StopStep \/ UNCHANGED vars
  <2>1. UNCHANGED <<kind, acc, cst, wgLn, wgConns>>
    BY <1>9 DEF Listen, AssignLn, MakeConns, StartError, Panic, StopListen, StopStep,
                StopWaitLn, StopConns, StopWaitConns, connVars, vars
  <2>2. Sessions' = Sessions
    BY <2>1 DEF Sessions
  <2> QED
    BY <2>1, <2>2, SameCount DEF Counted, Accepting
<1> QED
  BY <1>1, <1>2, <1>3, <1>4, <1>5, <1>6, <1>7, <1>8, <1>9 DEF Next, AcceptorStep, SessionStep

\* The types; the counters' follow from what they count.
LEMMA TypeStep == TypeOK /\ Counted' /\ [Next]_vars => TypeOK'
<1> SUFFICES ASSUME TypeOK, Counted', [Next]_vars PROVE TypeOK'
  OBVIOUS
<1> DEFINE Rest ==
        /\ kind \in {"tcp", "kcp", "ws"} /\ lnOpen \in BOOLEAN
        /\ start \in {"off", "listening", "assigned", "made"}
        /\ acc \in {"off", "accept", "admit", "spawn", "exit"}
        /\ conns \subseteq Conns /\ connsNil \in BOOLEAN
        /\ cst \in [Conns -> {"none", "queued", "accepted", "refused", "admitted",
                              "running", "closing", "hung", "closed", "deleted", "done"}]
        /\ shut \subseteq Conns
        /\ stop \in {"idle", "waitLn", "closeConns", "waitConns", "returned"}
        /\ panicked \in BOOLEAN
<1>1. Rest'
  <2> USE DEF TypeOK, Move
  <2>1. CASE AcceptorStep
    BY <2>1 DEF AcceptorStep, AssignLn, MakeConns, RunBegin, AcceptError, StartError, Accept,
                Spawn, Panic, connVars
  <2>2. ASSUME NEW c \in Conns, Admit(c) PROVE Rest'
    BY <2>2 DEF Admit, Panic, connVars
  <2>3. ASSUME NEW c \in Conns,
               \/ Arrive(c) \/ SessionEnd(c) \/ CoClose(c) \/ CoCloseHangs(c)
               \/ Delete(c) \/ OnClose(c)
        PROVE  Rest'
    BY <2>3 DEF Arrive, SessionEnd, CoClose, CoCloseHangs, Delete, OnClose
  <2>4. CASE Listen \/ StopListen \/ StopStep \/ UNCHANGED vars
    BY <2>4 DEF Listen, Panic, StopListen, StopStep, StopWaitLn, StopConns, StopWaitConns, connVars, vars
  <2> QED
    BY <2>1, <2>2, <2>3, <2>4 DEF Next, SessionStep
<1>2. wgLn' \in 0 .. 1
  BY DEF Counted
<1>3. wgConns' \in 0 .. Cardinality(Conns)
  <2>1. Cardinality(Conns) \in Nat
    BY ServerAssumption, FS_CardinalityType
  <2>2. Sessions' \in SUBSET Conns
    BY DEF Sessions
  <2>3. Cardinality(Sessions') \in 0 .. Cardinality(Conns)
    BY <2>2, ConnSets
  <2> QED
    BY <2>1, <2>3 DEF Counted
<1> QED
  BY <1>1, <1>2, <1>3 DEF TypeOK

-----------------------------------------------------------------------------
\* A step that keeps the live connections keeps the limit, as long as the map
\* follows it.
LEMMA SameLive ==
    ASSUME Limit, Live' = Live, ~connsNil' => ~connsNil /\ conns' = conns
    PROVE  Limit'
  BY DEF Limit

\* The limit is tested and the map changed at once, and the map is the live ones.
LEMMA LimitStep == TypeOK /\ Limit /\ InHand /\ [Next]_vars => Limit'
<1> SUFFICES ASSUME TypeOK, Limit, InHand, [Next]_vars PROVE Limit'
  OBVIOUS
<1> USE DEF TypeOK, Move
<1>0. MaxConnNum \in Nat /\ Live \in SUBSET Conns /\ Cardinality(Live) \in Nat
  BY ServerAssumption, ConnSets DEF Live
<1>1. CASE \/ Listen \/ AssignLn \/ RunBegin \/ AcceptError \/ StartError
           \/ StopListen \/ StopStep \/ UNCHANGED vars
  <2>1. Live' = Live
    BY <1>1 DEF Listen, AssignLn, RunBegin, AcceptError, StartError, Panic, StopListen,
                StopStep, StopWaitLn, StopConns, StopWaitConns, connVars, vars, Live
  <2>2. ~connsNil' => ~connsNil /\ conns' = conns
    BY <1>1 DEF Listen, AssignLn, RunBegin, AcceptError, StartError, Panic, StopListen,
                StopStep, StopWaitLn, StopConns, StopWaitConns, connVars, vars
  <2> QED
    BY <2>1, <2>2, SameLive
<1>2. ASSUME NEW c \in Conns,
             \/ Accept(c) \/ Spawn(c) \/ Arrive(c) \/ SessionEnd(c) \/ CoClose(c)
             \/ CoCloseHangs(c) \/ OnClose(c)
      PROVE  Limit'
  <2>1. Live' = Live
    BY <1>2 DEF Accept, Spawn, Arrive, SessionEnd, CoClose, CoCloseHangs, OnClose, Live
  <2>2. UNCHANGED <<conns, connsNil>>
    BY <1>2 DEF Accept, Spawn, Arrive, SessionEnd, CoClose, CoCloseHangs, OnClose
  <2> QED
    BY <2>1, <2>2, SameLive
<1>3. ASSUME NEW c \in Conns, Delete(c) PROVE Limit'
  <2>1. c \in Live /\ Live' = Live \ {c} /\ conns' = conns \ {c} /\ connsNil' = connsNil
    BY <1>3 DEF Delete, Live
  <2>2. Cardinality(Live') = Cardinality(Live) - 1
    BY <1>0, <2>1, OneLess
  <2> QED
    BY <1>0, <2>1, <2>2 DEF Limit
<1>4. ASSUME NEW c \in Conns, Admit(c) PROVE Limit'
  <2>1. CASE Cardinality(conns) < MaxConnNum /\ ~connsNil /\ conns' = conns \cup {c}
    <3>1. /\ c \notin Live /\ Live' = Live \cup {c} /\ conns = Live /\ connsNil' = connsNil
          /\ Cardinality(Live) < MaxConnNum
      BY <1>4, <2>1 DEF Admit, Panic, connVars, Live, Limit
    <3>2. Cardinality(Live') = Cardinality(Live) + 1
      BY <1>0, <3>1, OneMore
    <3> QED
      BY <1>0, <2>1, <3>1, <3>2 DEF Limit
  <2>2. CASE ~(Cardinality(conns) < MaxConnNum /\ ~connsNil /\ conns' = conns \cup {c})
    <3>1. Live' = Live /\ UNCHANGED <<conns, connsNil>>
      BY <1>4, <2>2 DEF Admit, Panic, connVars, Live
    <3> QED
      BY <3>1, SameLive
  <2> QED
    BY <2>1, <2>2
\* No connection is live when Start makes the map.
<1>5. CASE MakeConns
  <2>1. Live = {} /\ Live' = {} /\ conns' = {}
    BY <1>5 DEF MakeConns, InHand, Live
  <2> QED
    BY <1>0, <2>1 DEF Limit
<1> QED
  BY <1>1, <1>2, <1>3, <1>4, <1>5 DEF Next, AcceptorStep, SessionStep

\* When Stop of tcp passes wgConns nobody is left, and nobody comes any more.
LEMMA QuietStep ==
    TypeOK /\ Counted /\ InHand /\ Stopping /\ QuietAfterStop /\ [Next]_vars
        => QuietAfterStop'
<1> SUFFICES ASSUME TypeOK, Counted, InHand, Stopping, QuietAfterStop, [Next]_vars
             PROVE  QuietAfterStop'
  OBVIOUS
<1> USE DEF TypeOK, Move, QuietAfterStop, Torn
<1>1. CASE Listen \/ AssignLn \/ MakeConns \/ RunBegin \/ AcceptError \/ StartError
  BY <1>1 DEF Listen, AssignLn, MakeConns, RunBegin, AcceptError, StartError, Panic, connVars
<1>2. ASSUME NEW c \in Conns, Arrive(c) \/ Accept(c) PROVE QuietAfterStop'
  BY <1>2 DEF Arrive, Accept, Stopping
<1>3. ASSUME NEW c \in Conns,
             \/ Spawn(c) \/ Admit(c) \/ SessionEnd(c) \/ CoClose(c)
             \/ CoCloseHangs(c) \/ Delete(c) \/ OnClose(c)
      PROVE  QuietAfterStop'
  BY <1>3 DEF Spawn, Admit, Panic, connVars, SessionEnd, CoClose, CoCloseHangs, Delete,
              OnClose
<1>4. CASE StopListen \/ StopWaitLn \/ StopConns \/ UNCHANGED vars
  BY <1>4 DEF StopListen, Panic, StopWaitLn, StopConns, connVars, vars
<1>5. CASE StopWaitConns
  <2> SUFFICES ASSUME kind = "tcp", ~lnOpen, NEW c \in Conns
               PROVE  cst[c] \in {"none", "queued", "refused", "done"}
    BY <1>5 DEF StopWaitConns, connVars
  <2>1. Sessions = {}
    <3>1. Cardinality(Sessions) = 0
      BY <1>5 DEF StopWaitConns, Counted
    <3>2. IsFiniteSet(Sessions)
      BY ConnSets DEF Sessions
    <3> QED
      BY <3>1, <3>2, FS_EmptySet
  <2>2. cst[c] \notin {"accepted", "admitted"}
    BY <1>5 DEF StopWaitConns, InHand, Stopping
  <2> QED
    BY <2>1, <2>2 DEF Sessions
<1> QED
  BY <1>1, <1>2, <1>3, <1>4, <1>5 DEF Next, AcceptorStep, SessionStep, StopStep

-----------------------------------------------------------------------------
\* The invariant holds in every behaviour of a server.
THEOREM Invariance == Spec => []IInv
<1>1. IInv /\ [Next]_vars => IInv'
  <2> SUFFICES ASSUME IInv, [Next]_vars PROVE IInv'
    OBVIOUS
  <2>1. Counted'
    BY CountStep DEF IInv
  <2>2. TypeOK'
    BY <2>1, TypeStep DEF IInv
  <2>3. InHand' /\ Stopping'
    BY HandStep, StoppingStep DEF IInv
  <2>4. Limit' /\ QuietAfterStop' /\ PanicOnlyBy'
    BY LimitStep, QuietStep, PanicStep DEF IInv
  <2> QED
    BY <2>1, <2>2, <2>3, <2>4 DEF IInv
<1> QED
  BY InitInv, <1>1, PTL DEF Spec

\* Every variable keeps its type: the WaitGroups' counters never go below zero, which
\* would panic, nor above what can be counted.
THEOREM Types == Spec => []TypeOK
<1>1. IInv => TypeOK
  BY DEF IInv
<1> QED
  BY Invariance, <1>1, PTL

\* svr.conns is the set of live connections until Stop drops it, and there are never
\* more than MaxConnNum of them, for all connections that arrive and end.
THEOREM LimitHolds == Spec => []Limit
<1>1. IInv => Limit
  BY DEF IInv
<1> QED
  BY Invariance, <1>1, PTL

\* After Stop has gone through svr.conns no session runs on an open socket, for the
\* three servers although only tcp's Stop waits for the accepting goroutine, unless
\* Start makes the map later still (kcp) or has met Stop half way through svr.ln.
THEOREM SurvivorsShut == Spec => []NoSessionSurvives
<1>1. IInv => NoSessionSurvives
  BY DEF IInv, TypeOK, Stopping, NoSessionSurvives, Live, Torn
<1> QED
  BY Invariance, <1>1, PTL

\* When Stop of a tcp server returns nothing of it is left, although Add of wgConns
\* is done outside the mutex and Add of wgLn by the goroutine that is waited for.
THEOREM StopIsQuiet == Spec => []QuietAfterStop
<1>1. IInv => QuietAfterStop
  BY DEF IInv
<1> QED
  BY Invariance, <1>1, PTL

\* From the assignment of svr.ln on a tcp server never panics, the accepting goroutine
\* never meeting the map that Stop has set to nil wherever Stop finds Start, and a ws
\* server only through the error Serve returns after Stop.
THEOREM Panics == Spec => []PanicOnlyBy
<1>1. IInv => PanicOnlyBy
  BY DEF IInv
<1> QED
  BY Invariance, <1>1, PTL
=============================================================================
