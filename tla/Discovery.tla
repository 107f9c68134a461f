----------------------------- MODULE Discovery -----------------------------
(***************************************************************************)
(* An application that looks for one of the servers of Registry.tla:        *)
(* doClientStart, doRPCClientStart and doClientSetStart of app.go with the  *)
(* registries' ListServices and Watch.                                      *)
(*                                                                         *)
(* The client connects to the first address listed and stays with it; Watch *)
(* lists again, and its ticker's goroutine from time to time, to report     *)
(* what has come and gone.                                                  *)
(***************************************************************************)
EXTENDS Registry

CONSTANT Domain      \* the name of the client, which is that of a server
ASSUME DiscoveryAssumption == Domain \in Svrs

VARIABLES
    dpc,      \* where the application is: start, watch, run; over: it has no watcher
    service   \* the watcher's w.service

discVars == <<regVars, dpc, service>>

DiscInit ==
    /\ RegInit
    /\ dpc = "start"
    /\ service = {}

\* ListServices finds the server, and a client is started at one of its addresses.
Found == Listed(Domain) # {}

\* A client set: Run ends with an error if the list fails or is empty, or else panics,
\* since it sets the options of a client that is not in the set's map.
ClientSetStart ==
    /\ dpc = "start"
    /\ dpc' = "over"
    /\ UNCHANGED <<regVars, service>>

\* A network client: started, if it has an address; or Run ends with an error; or it
\* is started at the address found, and watched ...
ClientStart ==
    /\ dpc = "start"
    /\ \/ dpc' = "over"
       \/ Found /\ dpc' = "watch"
    /\ UNCHANGED <<regVars, service>>

\* An rpc client: if it has an address app.clis is asked, where it is not, and the nil
\* found panics; or as above ...
RPCClientStart ==
    /\ dpc = "start"
    /\ \/ dpc' = "over"
       \/ Found /\ dpc' = "watch"
    /\ UNCHANGED <<regVars, service>>

\* ... by Watch, which lists again, or fails.
Watch ==
    /\ dpc = "watch"
    /\ \/ dpc' = "run" /\ service' = Listed(Domain)
       \/ dpc' = "over" /\ UNCHANGED service
    /\ UNCHANGED regVars

\* Broken form of Poll: services that have gone stay in the list.
PollKeeps ==
    /\ dpc = "run"
    /\ service' = service \cup Listed(Domain)
    /\ UNCHANGED <<regVars, dpc>>

\* The watcher's tick: the events are the differences, then the list is replaced.  (A
\* list that fails, as zookeeper's does when a node goes while it is read, is none.)
Poll ==
    /\ dpc = "run"
    /\ service' = Listed(Domain)
    /\ UNCHANGED <<regVars, dpc>>

\* doClose: Release stops the watchers' tickers.
Release ==
    /\ dpc = "run"
    /\ dpc' = "over"
    /\ service' = {}
    /\ UNCHANGED regVars

DiscNext ==
    \/ RegNext /\ UNCHANGED <<dpc, service>>
    \/ ClientSetStart \/ ClientStart \/ RPCClientStart \/ Watch \/ Poll \/ Release

DiscSpec == DiscInit /\ [][DiscNext]_discVars

\* Time passes, rounds of register run and end, and the watcher polls.
DiscFairness ==
    /\ WF_discVars(Clock /\ UNCHANGED <<dpc, service>>)
    /\ \A p \in Procs : WF_discVars(RoundStep(p) /\ UNCHANGED <<dpc, service>>)
    /\ \A p \in Procs : WF_discVars(TickStop(p) /\ UNCHANGED <<dpc, service>>)
    /\ WF_discVars(Poll)

DiscFairSpec == DiscSpec /\ DiscFairness

-----------------------------------------------------------------------------
DiscTypeOK ==
    /\ RegTypeOK
    /\ dpc \in {"start", "watch", "run", "over"}
    /\ service \subseteq Procs

\* Nobody tells a watcher that a process has gone, crashed ones least of all: it
\* learns it all the same, in redis because the key expires, in zookeeper only if the
\* process deregistered and nothing of a round came after.
WatcherLearns ==
    \A p \in Procs :
        (/\ p \in service
         /\ pc[p] = "down"
         /\ kind = "zookeeper" => how[p] = "exit" /\ ~after[p] /\ Domain \notin kept[p])
        ~> (p \notin service \/ pc[p] # "down")
=============================================================================
