------------------------------- MODULE ReadModel -------------------------------
(***************************************************************************)
(* The readers of the event topics of 11-multi-service-architecture: the   *)
(* query service, which keeps a view of every order in memory, and the     *)
(* notification service.  They rely on the feed only.  Handlers have no    *)
(* await, so taking a record and handling it are one step; both consumers  *)
(* commit automatically.                                                   *)
(***************************************************************************)
EXTENDS EventFeed

CONSTANTS
    MaxFaults,   \* bound: crashes, shutdowns, consumers that give up
    MaxDecisions \* bound: charges, reservations and failures of an order

ASSUME ReadersAssumption == MaxFaults \in Nat /\ MaxDecisions \in Nat

Readers == {"query", "notification"}

VARIABLES
    view,        \* orders_read_model
    notified,    \* notifications sent for each event of each order
    up,          \* "up"; "deaf": the consumer task has ended; "down"
    position,    \* records each consumer has taken from the log of each order
    committed,   \* the offsets last committed
    faults       \* faults so far, for MaxFaults

readerVars == <<view, notified, up, position, committed, faults>>
vars == <<feedVars, readerVars>>

NoView == [status |-> "absent", payment |-> "absent", inventory |-> "absent"]

Nothing == [r \in Readers |-> [t \in Topics |-> [o \in Orders |-> 0]]]

Init ==
    /\ FeedInit
    /\ view = [o \in Orders |-> NoView]
    /\ notified = [o \in Orders |-> [e \in Events |-> 0]]
    /\ up = [r \in Readers |-> "down"]
    /\ position = Nothing
    /\ committed = Nothing
    /\ faults = 0

Fault == faults < MaxFaults /\ faults' = faults + 1

-----------------------------------------------------------------------------
(* process_event, one operator per arm                                     *)

Created == [status |-> "CREATED", payment |-> "PENDING", inventory |-> "PENDING"]

\* Defect: the payment does not look at the reservation, as in the order service.
PaidAlone(v) == [v EXCEPT !.payment = "COMPLETED", !.status = "PAYMENT_COMPLETED"]

\* Defect: the payment is applied to new orders only.
PaidIfNew(v) ==
    IF v.status # "CREATED" THEN v
      ELSE [v EXCEPT !.payment = "COMPLETED", !.status = "PAYMENT_COMPLETED"]

Paid(v) ==
    [v EXCEPT !.payment = "COMPLETED",
              !.status = IF v.inventory = "RESERVED" THEN "COMPLETED" ELSE "PAYMENT_COMPLETED"]

\* Defect: the branches share the field of the success.
PaymentFailedAsCompleted(v) == [v EXCEPT !.payment = "COMPLETED", !.status = "CANCELLED"]

PaymentFailed(v) == [v EXCEPT !.payment = "FAILED", !.status = "CANCELLED"]

Reserved(v) ==
    [v EXCEPT !.inventory = "RESERVED",
              !.status = IF v.payment = "COMPLETED" THEN "COMPLETED" ELSE "INVENTORY_RESERVED"]

InventoryFailed(v) == [v EXCEPT !.inventory = "FAILED", !.status = "CANCELLED"]

\* What an event makes of the view v of its order. Results of an order without a
\* view are passed over.
Apply(v, e) ==
    IF e = "ORDER_CREATED" THEN Created
    ELSE IF v = NoView THEN NoView
    ELSE CASE e = "PAYMENT_COMPLETED" -> Paid(v)
           [] e = "PAYMENT_FAILED" -> PaymentFailed(v)
           [] e = "INVENTORY_RESERVED" -> Reserved(v)
           [] e = "INVENTORY_FAILED" -> InventoryFailed(v)

-----------------------------------------------------------------------------
(* Steps                                                                   *)

Decisions(o) ==
    charges[o] + reserved[o] + Occurrences(o, "PAYMENT_FAILED") + Occurrences(o, "INVENTORY_FAILED")

\* The services decide on orders and write to the topics.
Feed ==
    /\ FeedNext
    /\ \A o \in Orders : Decisions(o)' <= MaxDecisions
    /\ UNCHANGED readerVars

\* Defect: the position stays, so the record is handed over again.
TakesAgain(r, t, o, e) ==
    /\ up[r] = "up"
    /\ position[r][t][o] < Len(log[t][o])
    /\ e = log[t][o][position[r][t][o] + 1]
    /\ UNCHANGED position

\* async for hands the next record e of topic t over; the position moves at once.
Takes(r, t, o, e) ==
    /\ up[r] = "up"
    /\ position[r][t][o] < Len(log[t][o])
    /\ e = log[t][o][position[r][t][o] + 1]
    /\ position' = [position EXCEPT ![r][t][o] = @ + 1]

\* The query service applies an event.
Query(t, o) ==
    \E e \in Events :
        /\ Takes("query", t, o, e)
        /\ view' = [view EXCEPT ![o] = Apply(@, e)]
        /\ UNCHANGED <<feedVars, notified, up, committed, faults>>

\* Defect: results of the payment get no notification.
NotifyOthers(t, o) ==
    \E e \in Events :
        /\ Takes("notification", t, o, e)
        /\ notified' = IF t = "payment.result" THEN notified
                         ELSE [notified EXCEPT ![o][e] = @ + 1]
        /\ UNCHANGED <<feedVars, view, up, committed, faults>>

\* The notification service sends one notification per record.
Notify(t, o) ==
    \E e \in Events :
        /\ Takes("notification", t, o, e)
        /\ notified' = [notified EXCEPT ![o][e] = @ + 1]
        /\ UNCHANGED <<feedVars, view, up, committed, faults>>

\* Only a crash or a rejoin reads committed: commits after the last fault are left out.
AutoCommit(r) ==
    /\ faults < MaxFaults
    /\ up[r] = "up"
    /\ committed' = [committed EXCEPT ![r] = position[r]]
    /\ UNCHANGED <<feedVars, view, notified, up, position, faults>>

\* The iteration over the consumer raises: its task ends with a last commit.
ConsumerEnds(r) ==
    /\ Fault
    /\ up[r] = "up"
    /\ up' = [up EXCEPT ![r] = "deaf"]
    /\ committed' = [committed EXCEPT ![r] = position[r]]
    /\ UNCHANGED <<feedVars, view, notified, position>>

\* The session expires and aiokafka joins again in the background, at the committed
\* offsets; the service does not notice.
Rejoin(r) ==
    /\ Fault
    /\ up[r] = "up"
    /\ position' = [position EXCEPT ![r] = committed[r]]
    /\ UNCHANGED <<feedVars, view, notified, up, committed>>

\* The process ends, and the view with it. Sent notifications stay sent.
Ends(r) ==
    /\ up[r] # "down"
    /\ up' = [up EXCEPT ![r] = "down"]
    /\ view' = IF r = "query" THEN [o \in Orders |-> NoView] ELSE view
    /\ UNCHANGED <<feedVars, notified>>

\* A crash: the group goes back to the committed offsets.
Crash(r) ==
    /\ Fault
    /\ Ends(r)
    /\ position' = [position EXCEPT ![r] = committed[r]]
    /\ UNCHANGED committed

\* A shutdown, whose consumer.stop() commits.
Shutdown(r) ==
    /\ Fault
    /\ Ends(r)
    /\ committed' = [committed EXCEPT ![r] = position[r]]
    /\ UNCHANGED position

\* compose starts the container, or an operator does so again.
Start(r) ==
    /\ up[r] = "down"
    /\ up' = [up EXCEPT ![r] = "up"]
    /\ UNCHANGED <<feedVars, view, notified, position, committed, faults>>

\* start_consumer gives up on Kafka after max_retries.
StartDeaf(r) ==
    /\ Fault
    /\ up[r] = "down"
    /\ up' = [up EXCEPT ![r] = "deaf"]
    /\ UNCHANGED <<feedVars, view, notified, position, committed>>

QueryStep == \E t \in Topics, o \in Orders : Query(t, o)
NotificationStep == \E t \in Topics, o \in Orders : Notify(t, o)

Next ==
    \/ Feed \/ QueryStep \/ NotificationStep
    \/ \E r \in Readers :
          \/ AutoCommit(r) \/ Rejoin(r) \/ ConsumerEnds(r)
          \/ Crash(r) \/ Shutdown(r) \/ Start(r) \/ StartDeaf(r)

Spec == Init /\ [][Next]_vars

\* The two event loops run on and compose starts the containers.
Fairness ==
    /\ WF_vars(QueryStep) /\ WF_vars(NotificationStep)
    /\ \A r \in Readers : WF_vars(Start(r))

FairSpec == Spec /\ Fairness

-----------------------------------------------------------------------------
(* Properties                                                              *)

Views == [status : {"CREATED", "PAYMENT_COMPLETED", "INVENTORY_RESERVED", "COMPLETED", "CANCELLED"},
          payment : {"PENDING", "COMPLETED", "FAILED"},
          inventory : {"PENDING", "RESERVED", "FAILED"}]

OffsetsOK ==
    /\ position \in [Readers -> [Topics -> [Orders -> Nat]]]
    /\ committed \in [Readers -> [Topics -> [Orders -> Nat]]]
    /\ \A r \in Readers, t \in Topics, o \in Orders :
          committed[r][t][o] <= position[r][t][o] /\ position[r][t][o] <= Len(log[t][o])

\* Every variable stays in its domain, and no consumer is ahead of its log.
TypeOK ==
    /\ LogOK /\ LedgerOK /\ OffsetsOK
    /\ view \in [Orders -> Views \cup {NoView}]
    /\ notified \in [Orders -> [Events -> Nat]]
    /\ up \in [Readers -> {"up", "deaf", "down"}]
    /\ faults \in 0 .. MaxFaults

\* The view joins the two results whichever is read first, also when results
\* are repeated or contradict each other: COMPLETED means both are good, and
\* both good means COMPLETED.
ViewJoins ==
    \A o \in Orders :
        view[o].status = "COMPLETED" <=>
            view[o].payment = "COMPLETED" /\ view[o].inventory = "RESERVED"

\* The view shows nothing that was not published, and no success that is not true:
\* what it calls paid is charged, what it calls reserved is reserved, and so, with
\* ViewJoins, what it calls COMPLETED is both.
ViewIsTrue ==
    \A o \in Orders :
        /\ view[o].payment = "COMPLETED" => Published(o, "PAYMENT_COMPLETED") /\ charges[o] > 0
        /\ view[o].payment = "FAILED" => Published(o, "PAYMENT_FAILED")
        /\ view[o].inventory = "RESERVED" => Published(o, "INVENTORY_RESERVED") /\ reserved[o] > 0
        /\ view[o].inventory = "FAILED" => Published(o, "INVENTORY_FAILED")

\* A record is notified at most once for each time that the notification service is
\* assigned its topics, at a start or after an expired session, and so a customer hears of
\* a success at most as often, for each time that it happened.
NotifiedOncePerAssignment ==
    \A o \in Orders, e \in Events :
        /\ notified[o][e] <= (faults + 1) * Occurrences(o, e)
        /\ e \in Good => notified[o][e] <= (faults + 1) * Done(o, e)

\* Without faults every event is notified.
EveryEventNotified ==
    [](faults = 0) => \A o \in Orders, e \in Events : Published(o, e) ~> notified[o][e] > 0

Unread(t, o) == position["query"][t][o] < Len(log[t][o])

\* Without faults a result that is still to be read when the view exists gets
\* into it for good, though a later one may replace it.
ViewCatchesUp ==
    [](faults = 0) => \A o \in Orders :
        /\ (view[o] # NoView /\ Unread("payment.result", o)) ~> [](view[o].payment # "PENDING")
        /\ (view[o] # NoView /\ Unread("inventory.result", o)) ~> [](view[o].inventory # "PENDING")

=============================================================================
