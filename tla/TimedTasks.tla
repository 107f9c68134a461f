----------------------------- MODULE TimedTasks -----------------------------
(***************************************************************************)
(* What TimedSched (network/kcp/timesched.go) promises: a function that was *)
(* Put is executed at most once, and only after its deadline.              *)
(***************************************************************************)
EXTENDS Naturals

CONSTANTS Tasks, MaxDue

VARIABLES clock, due, status

Init ==
    /\ clock = 0
    /\ due = [t \in Tasks |-> 0]
    /\ status = [t \in Tasks |-> "none"]

Tick == clock' = clock + 1 /\ UNCHANGED <<due, status>>

Put(t) ==
    /\ status[t] = "none"
    /\ \E d \in 0 .. MaxDue : due' = [due EXCEPT ![t] = d]
    /\ status' = [status EXCEPT ![t] = "pending"]
    /\ UNCHANGED clock

Execute(t) ==
    /\ status[t] = "pending"
    /\ clock > due[t]
    /\ status' = [status EXCEPT ![t] = "executed"]
    /\ UNCHANGED <<clock, due>>

Next == Tick \/ \E t \in Tasks : Put(t) \/ Execute(t)

Spec == Init /\ [][Next]_<<clock, due, status>>
=============================================================================
