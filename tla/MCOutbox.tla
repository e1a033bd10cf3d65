------------------------------ MODULE MCOutbox ------------------------------
(* Small instances of Outbox for TLC. *)
EXTENDS Outbox, TLC

CONSTANTS o1, o2, o3, p1, p2, r1, r2

\* All orders in the same partition: their events share one log.
OnePartition == [o \in Orders |-> p1]

\* The first order alone in its partition.
TwoPartitions == [o \in Orders |-> IF o = o1 THEN p1 ELSE p2]

RelaySymmetry == Permutations(Relays)
OrderRelaySymmetry == Permutations(Orders) \cup Permutations(Relays)

=============================================================================
