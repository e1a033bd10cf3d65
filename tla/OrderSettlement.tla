---------------------------- MODULE OrderSettlement ----------------------------
(***************************************************************************)
(* What the saga of 09-saga-pattern-order-system promises, without         *)
(* services, topics and statuses: every order that is placed is either     *)
(* refused, or charged once and then delivered, refunded, or kept for      *)
(* manual work, exactly one of these.                                      *)
(***************************************************************************)
CONSTANT Orders

VARIABLES
    placed,      \* orders announced on order.created
    paid,        \* orders whose payment succeeded
    refused,     \* orders whose payment failed
    delivered,   \* orders whose goods are reserved
    returned,    \* orders whose money went back
    kept         \* orders whose refund failed

vars == <<placed, paid, refused, delivered, returned, kept>>

Init ==
    /\ placed = {} /\ paid = {} /\ refused = {}
    /\ delivered = {} /\ returned = {} /\ kept = {}

Closed == refused \cup delivered \cup returned \cup kept

Place(o) ==
    /\ placed' = placed \cup {o}
    /\ o \notin placed
    /\ UNCHANGED <<paid, refused, delivered, returned, kept>>

Pay(o) ==
    /\ o \in placed \ (paid \cup refused)
    /\ \/ paid' = paid \cup {o} /\ UNCHANGED refused
       \/ refused' = refused \cup {o} /\ UNCHANGED paid
    /\ UNCHANGED <<placed, delivered, returned, kept>>

Settle(o) ==
    /\ o \in paid \ Closed
    /\ \/ delivered' = delivered \cup {o} /\ UNCHANGED <<returned, kept>>
       \/ returned' = returned \cup {o} /\ UNCHANGED <<delivered, kept>>
       \/ kept' = kept \cup {o} /\ UNCHANGED <<delivered, returned>>
    /\ UNCHANGED <<placed, paid, refused>>

Next == \E o \in Orders : Place(o) \/ Pay(o) \/ Settle(o)

Spec == Init /\ [][Next]_vars

\* A placed order is brought to its end.
FairSpec == Spec /\ \A o \in Orders : WF_vars(Pay(o)) /\ WF_vars(Settle(o))

=============================================================================
