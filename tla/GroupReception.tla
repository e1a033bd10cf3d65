---------------------------- MODULE GroupReception ----------------------------
(***************************************************************************)
(* What the consumer groups of chapters 03 to 06 and 10 promise of their   *)
(* partitions, without members, generations, assignments or lag checks:    *)
(* the records of a partition are received in the order of its log, each   *)
(* one any number of times but none before all that precede it, and what   *)
(* is committed has been received.  Commits may go back.                   *)
(***************************************************************************)
EXTENDS Integers

CONSTANT Partitions

VARIABLES
    end,         \* records of each partition
    received,    \* the records of each partition that somebody has received
    committed    \* committed offset of each partition

vars == <<end, received, committed>>

Init ==
    /\ end = [p \in Partitions |-> 0]
    /\ received = [p \in Partitions |-> {}]
    /\ committed = [p \in Partitions |-> 0]

Send(p) ==
    /\ end' = [end EXCEPT ![p] = @ + 1]
    /\ UNCHANGED <<received, committed>>

Receive(p, i) ==
    /\ i <= end[p]
    /\ 1..(i - 1) \subseteq received[p]
    /\ received' = [received EXCEPT ![p] = @ \cup {i}]
    /\ UNCHANGED <<end, committed>>

Commit ==
    /\ committed' \in [Partitions -> Nat]
    /\ \A p \in Partitions : 1..committed'[p] \subseteq received[p]
    /\ UNCHANGED <<end, received>>

Next ==
    \/ \E p \in Partitions : Send(p) \/ \E i \in 1..end[p] : Receive(p, i)
    \/ Commit

Spec == Init /\ [][Next]_vars

=============================================================================
