------------------------------- MODULE EventFeed -------------------------------
(***************************************************************************)
(* The three event topics of 11-multi-service-architecture as their        *)
(* readers see them, and the facts behind them: every order is announced   *)
(* once, it is charged and reserved after that, and results of both follow *)
(* in any number, but no good one without a charge or a reservation of its *)
(* own.  OrderFlow implements this feed, ReadModel relies on nothing else. *)
(***************************************************************************)
EXTENDS Integers, Sequences, FiniteSets

CONSTANT Orders      \* the orders clients may place

\* event_type of the records, with the topic that carries it
TopicOf ==
    [ORDER_CREATED      |-> "order.created",
     PAYMENT_COMPLETED  |-> "payment.result",
     PAYMENT_FAILED     |-> "payment.result",
     INVENTORY_RESERVED |-> "inventory.result",
     INVENTORY_FAILED   |-> "inventory.result"]

Events == DOMAIN TopicOf
Results == Events \ {"ORDER_CREATED"}
Topics == {TopicOf[e] : e \in Events}

\* The key of every record is its order_id; what Kafka promises for it is the
\* order of the records of one order in one topic.
VARIABLES
    log,         \* the records of each topic, per order
    charges,     \* successful payments (payment_records, as the customer sees them)
    reserved     \* successful reservations (reservation_records)

ledger == <<charges, reserved>>
feedVars == <<log, ledger>>

FeedInit ==
    /\ log = [t \in Topics |-> [o \in Orders |-> <<>>]]
    /\ charges = [o \in Orders |-> 0]
    /\ reserved = [o \in Orders |-> 0]

Logged(o, e) == [log EXCEPT ![TopicOf[e]][o] = Append(@, e)]

Published(o, e) == \E i \in 1 .. Len(log[TopicOf[e]][o]) : log[TopicOf[e]][o][i] = e

Occurrences(o, e) ==
    Cardinality({i \in 1 .. Len(log[TopicOf[e]][o]) : log[TopicOf[e]][o][i] = e})

\* The good results, and how often what one says has happened.
Good == {"PAYMENT_COMPLETED", "INVENTORY_RESERVED"}
Done(o, e) == IF e = "PAYMENT_COMPLETED" THEN charges[o] ELSE reserved[o]

Announce(o) ==
    /\ log["order.created"][o] = <<>>
    /\ log' = Logged(o, "ORDER_CREATED")
    /\ UNCHANGED ledger

Charge(o) ==
    /\ log["order.created"][o] # <<>>
    /\ charges' = [charges EXCEPT ![o] = @ + 1]
    /\ UNCHANGED <<log, reserved>>

SetAside(o) ==
    /\ log["order.created"][o] # <<>>
    /\ reserved' = [reserved EXCEPT ![o] = @ + 1]
    /\ UNCHANGED <<log, charges>>

Report(o, e) ==
    /\ log["order.created"][o] # <<>>
    /\ e \in Good => Occurrences(o, e) < Done(o, e)
    /\ log' = Logged(o, e)
    /\ UNCHANGED ledger

FeedNext ==
    \E o \in Orders :
        Announce(o) \/ Charge(o) \/ SetAside(o) \/ \E e \in Results : Report(o, e)

FeedSpec == FeedInit /\ [][FeedNext]_feedVars

\* The domains of the variables, every record in the topic of its event.
LogOK ==
    /\ log \in [Topics -> [Orders -> Seq(Events)]]
    /\ \A t \in Topics, o \in Orders : \A i \in 1 .. Len(log[t][o]) : TopicOf[log[t][o][i]] = t

LedgerOK == charges \in [Orders -> Nat] /\ reserved \in [Orders -> Nat]

=============================================================================
