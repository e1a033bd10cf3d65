--------------------------- MODULE MCConsumerGroup ---------------------------
(* The deployments of the chapters, one after the other, for TLC. *)
EXTENDS ConsumerGroup

CONSTANTS m1, m2, p1, p2

\* What m1 and m2 run.
Pair(first, second) == [m \in Members |-> IF m = m1 THEN first ELSE second]

EachChapter ==
    {Pair("03", "none"), Pair("04", "none"), Pair("05", "05"), Pair("06", "none"),
     Pair("10", "lag")}

=============================================================================
