--------------------------- MODULE EventDelivery ----------------------------
(***************************************************************************)
(* What the outbox promises to the services around it, with no table, no   *)
(* relay and no offset in sight: an event exists for accepted orders only, *)
(* it reaches the topic at least once, it is confirmed only after that,    *)
(* and its business logic runs at most once, after the inbox received it.  *)
(***************************************************************************)
EXTENDS Naturals

CONSTANT Orders

VARIABLES
    accepted,    \* orders whose request has committed
    delivered,   \* orders whose event is on the topic
    confirmed,   \* orders whose event is known to be delivered
    received,    \* orders whose event is in the consumer's inbox
    runs         \* how often the business logic ran for each order

vars == <<accepted, delivered, confirmed, received, runs>>

Init ==
    /\ accepted = {} /\ delivered = {} /\ confirmed = {} /\ received = {}
    /\ runs = [o \in Orders |-> 0]

Accept(o) ==
    /\ accepted' = accepted \cup {o}
    /\ UNCHANGED <<delivered, confirmed, received, runs>>

Deliver(o) ==
    /\ o \in accepted
    /\ delivered' = delivered \cup {o}
    /\ UNCHANGED <<accepted, confirmed, received, runs>>

Confirm(S) ==
    /\ S \subseteq delivered
    /\ confirmed' = confirmed \cup S
    /\ UNCHANGED <<accepted, delivered, received, runs>>

Receive(o) ==
    /\ o \in delivered
    /\ received' = received \cup {o}
    /\ UNCHANGED <<accepted, delivered, confirmed, runs>>

Handle(o) ==
    /\ o \in received
    /\ runs[o] = 0
    /\ runs' = [runs EXCEPT ![o] = 1]
    /\ UNCHANGED <<accepted, delivered, confirmed, received>>

Next ==
    \/ \E o \in Orders : Accept(o) \/ Deliver(o) \/ Receive(o) \/ Handle(o)
    \/ \E S \in SUBSET Orders : Confirm(S)

Spec == Init /\ [][Next]_vars

\* Delivery and reception are owed to every accepted order; handling is not,
\* because a crash between the inbox and the business logic loses it.
FairSpec ==
    /\ Spec
    /\ \A o \in Orders : WF_vars(Deliver(o)) /\ WF_vars(Receive(o))

=============================================================================
