------------------------------ MODULE KcpStream ------------------------------
(***************************************************************************)
(* What a kcp connection promises the applications: in each direction      *)
(* messages leave in the order they were written, each once, and only      *)
(* after they were written.  A write may hand over several messages.       *)
(***************************************************************************)
EXTENDS Naturals, Sequences

CONSTANTS Streams,       \* the directions in use
          Batch          \* most messages one write hands over, a positive number

VARIABLES sent, got      \* number of messages written; the messages read

Init ==
    /\ sent = [s \in Streams |-> 0]
    /\ got = [s \in Streams |-> <<>>]

Write(s) ==
    /\ \E n \in 1 .. Batch : sent' = [sent EXCEPT ![s] = @ + n]
    /\ UNCHANGED got

Read(s) ==
    /\ Len(got[s]) < sent[s]
    /\ got' = [got EXCEPT ![s] = Append(@, Len(@) + 1)]
    /\ UNCHANGED sent

Next == \E s \in Streams : Write(s) \/ Read(s)

Spec == Init /\ [][Next]_<<sent, got>>
=============================================================================
