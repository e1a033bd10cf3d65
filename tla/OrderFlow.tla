------------------------------- MODULE OrderFlow -------------------------------
(***************************************************************************)
(* Order, payment and inventory service of 11-multi-service-architecture.  *)
(* Payment and inventory work on the announcement of an order in parallel, *)
(* and the order service joins their results, which it reads from two      *)
(* topics.  Every consumer commits automatically and handles one record at *)
(* a time; an exception of a handler is logged and the record passed over. *)
(***************************************************************************)
EXTENDS EventFeed

CONSTANTS
    MaxFaults,   \* bound: failed sends, expired sessions, crashes, shutdowns, consumers
                 \* that give up
    None         \* "no order"

ASSUME FlowAssumption == MaxFaults \in Nat /\ None \notin Orders

Workers == {"payment", "inventory"}
Services == Workers \cup {"order"}

Subscriptions ==
    {<<"payment", "order.created">>, <<"inventory", "order.created">>,
     <<"order", "payment.result">>, <<"order", "inventory.result">>}

VARIABLES
    status,      \* status of each order in orders_db, "absent" if it is not there
    seen,        \* the types in events of each order
    handler,     \* create_order: "none", "sending", "done"
    up,          \* "up"; "deaf": the consumer task has ended; "down"
    job,         \* the order each worker is at and its next step
    position,    \* records each consumer has taken from the log of each order
    committed,   \* the offsets last committed
    faults       \* faults so far, for MaxFaults

orderVars == <<status, seen, handler>>
offsets == <<position, committed>>
vars == <<orderVars, up, job, offsets, log, ledger, faults>>

NoJob == [order |-> None, step |-> "idle"]
Job(o, s) == [order |-> o, step |-> s]

Nothing == [s \in Services |-> [t \in Topics |-> [o \in Orders |-> 0]]]

Init ==
    /\ FeedInit
    /\ status = [o \in Orders |-> "absent"]
    /\ seen = [o \in Orders |-> {}]
    /\ handler = [o \in Orders |-> "none"]
    /\ up = [s \in Services |-> "down"]
    /\ job = [s \in Workers |-> NoJob]
    /\ position = Nothing
    /\ committed = Nothing
    /\ faults = 0

Fault == faults < MaxFaults /\ faults' = faults + 1

-----------------------------------------------------------------------------
(* POST /orders                                                            *)

\* create_order, up to the await on the send.
CreateOrder(o) ==
    /\ up["order"] # "down" /\ handler[o] = "none"
    /\ status' = [status EXCEPT ![o] = "CREATED"]
    /\ handler' = [handler EXCEPT ![o] = "sending"]
    /\ UNCHANGED <<seen, up, job, offsets, log, ledger, faults>>

\* The record is stored; what is left of the handler is its answer.
StoreCreated(o) ==
    /\ handler[o] = "sending"
    /\ log' = Logged(o, "ORDER_CREATED")
    /\ handler' = [handler EXCEPT ![o] = "done"]
    /\ UNCHANGED <<status, seen, up, job, offsets, ledger, faults>>

\* The send raises and the order stays CREATED. If the record is stored all the
\* same, the step is StoreCreated: only the answer differs.
CreateFails(o) ==
    /\ Fault
    /\ handler[o] = "sending"
    /\ handler' = [handler EXCEPT ![o] = "done"]
    /\ UNCHANGED <<status, seen, up, job, offsets, log, ledger>>

-----------------------------------------------------------------------------
(* The consumers                                                           *)

Idle(s) == s \in Workers => job[s] = NoJob

\* Defect: the position stays, so the record is handed over again.
TakesAgain(s, t, o, e) ==
    /\ up[s] = "up" /\ Idle(s)
    /\ <<s, t>> \in Subscriptions
    /\ position[s][t][o] < Len(log[t][o])
    /\ e = log[t][o][position[s][t][o] + 1]
    /\ UNCHANGED position

\* async for hands the next record e of topic t over; the position moves at once.
Takes(s, t, o, e) ==
    /\ up[s] = "up" /\ Idle(s)
    /\ <<s, t>> \in Subscriptions
    /\ position[s][t][o] < Len(log[t][o])
    /\ e = log[t][o][position[s][t][o] + 1]
    /\ position' = [position EXCEPT ![s][t][o] = @ + 1]

\* Defect: a reservation completes the order whatever the payment has become.
CompleteOnReservation(o, e) ==
    CASE e = "PAYMENT_COMPLETED" -> "PAYMENT_COMPLETED"
      [] e \in {"PAYMENT_FAILED", "INVENTORY_FAILED"} -> "CANCELLED"
      [] e = "INVENTORY_RESERVED" ->
            IF seen[o] # {} THEN "COMPLETED" ELSE "INVENTORY_RESERVED"

\* The status that an event gives an order. Only the arm of the reservation
\* looks for the other result.
StatusAfter(o, e) ==
    CASE e = "PAYMENT_COMPLETED" -> "PAYMENT_COMPLETED"
      [] e \in {"PAYMENT_FAILED", "INVENTORY_FAILED"} -> "CANCELLED"
      [] e = "INVENTORY_RESERVED" ->
            IF "PAYMENT_COMPLETED" \in seen[o] THEN "COMPLETED" ELSE "INVENTORY_RESERVED"

\* The loop of the order service: unknown orders are passed over.
ReceiveResult(o) ==
    \E t \in Topics, e \in Results :
        /\ Takes("order", t, o, e)
        /\ IF status[o] = "absent" THEN UNCHANGED <<status, seen>>
             ELSE /\ status' = [status EXCEPT ![o] = StatusAfter(o, e)]
                  /\ seen' = [seen EXCEPT ![o] = @ \cup {e}]
        /\ UNCHANGED <<handler, up, job, committed, log, ledger, faults>>

\* A worker takes an order and sleeps.
TakeOrder(s, o) ==
    /\ Takes(s, "order.created", o, "ORDER_CREATED")
    /\ job' = [job EXCEPT ![s] = Job(o, "decide")]
    /\ UNCHANGED <<orderVars, up, committed, log, ledger, faults>>

\* The payment service after its sleep: the result is drawn and recorded.
DecidePayment(o) ==
    /\ job["payment"] = Job(o, "decide")
    /\ \/ /\ charges' = [charges EXCEPT ![o] = @ + 1]
          /\ job' = [job EXCEPT !["payment"] = Job(o, "PAYMENT_COMPLETED")]
       \/ /\ job' = [job EXCEPT !["payment"] = Job(o, "PAYMENT_FAILED")]
          /\ UNCHANGED charges
    /\ UNCHANGED <<orderVars, up, offsets, log, reserved, faults>>

\* The inventory service after its sleep.
DecideStock(o) ==
    /\ job["inventory"] = Job(o, "decide")
    /\ \/ /\ reserved' = [reserved EXCEPT ![o] = @ + 1]
          /\ job' = [job EXCEPT !["inventory"] = Job(o, "INVENTORY_RESERVED")]
       \/ /\ job' = [job EXCEPT !["inventory"] = Job(o, "INVENTORY_FAILED")]
          /\ UNCHANGED reserved
    /\ UNCHANGED <<orderVars, up, offsets, log, charges, faults>>

\* Defect: the result is recorded but not published.
PublishNothing(s) ==
    /\ job[s].step \in Results
    /\ job' = [job EXCEPT ![s] = NoJob]
    /\ UNCHANGED <<orderVars, up, offsets, log, ledger, faults>>

\* send_and_wait of a worker's result; the loop goes on.
Publish(s) ==
    /\ job[s].step \in Results
    /\ log' = Logged(job[s].order, job[s].step)
    /\ job' = [job EXCEPT ![s] = NoJob]
    /\ UNCHANGED <<orderVars, up, offsets, ledger, faults>>

\* The auto-commit covers every record taken, the one at work included. Only
\* a crash or a rejoin reads committed: commits after the last fault are left out.
AutoCommit(s) ==
    /\ faults < MaxFaults
    /\ up[s] = "up"
    /\ committed' = [committed EXCEPT ![s] = position[s]]
    /\ UNCHANGED <<orderVars, up, job, position, log, ledger, faults>>

-----------------------------------------------------------------------------
(* Failures                                                                *)

\* Defect: the send is repeated, although the record may be stored.
PublishFailsAndRetries(s) ==
    /\ Fault
    /\ job[s].step \in Results
    /\ log' \in {log, Logged(job[s].order, job[s].step)}
    /\ UNCHANGED <<orderVars, up, job, offsets, ledger>>

\* The send of a result raises, with the record stored or not. The exception
\* is logged, the loop takes the next record and the result is not sent again.
PublishFails(s) ==
    /\ Fault
    /\ job[s].step \in Results
    /\ log' \in {log, Logged(job[s].order, job[s].step)}
    /\ job' = [job EXCEPT ![s] = NoJob]
    /\ UNCHANGED <<orderVars, up, offsets, ledger>>

\* The iteration over the consumer raises: its task ends with a last commit,
\* the process goes on.
ConsumerEnds(s) ==
    /\ Fault
    /\ up[s] = "up" /\ Idle(s)
    /\ up' = [up EXCEPT ![s] = "deaf"]
    /\ committed' = [committed EXCEPT ![s] = position[s]]
    /\ UNCHANGED <<orderVars, job, position, log, ledger>>

\* The session expires and aiokafka joins again in the background, at the committed
\* offsets; a worker goes on with its order.
Rejoin(s) ==
    /\ Fault
    /\ up[s] = "up"
    /\ position' = [position EXCEPT ![s] = committed[s]]
    /\ UNCHANGED <<orderVars, up, job, committed, log, ledger>>

\* The process ends: a worker loses its job, the order service its orders.
Ends(s) ==
    /\ up[s] # "down"
    /\ up' = [up EXCEPT ![s] = "down"]
    /\ job' = [w \in Workers |-> IF w = s THEN NoJob ELSE job[w]]
    /\ IF s = "order"
         THEN /\ status' = [o \in Orders |-> "absent"]
              /\ seen' = [o \in Orders |-> {}]
              /\ handler' = [o \in Orders |->
                    IF handler[o] = "sending" THEN "done" ELSE handler[o]]
         ELSE UNCHANGED orderVars
    /\ UNCHANGED <<log, ledger>>

\* A crash: the group goes back to the committed offsets.
Crash(s) ==
    /\ Fault
    /\ Ends(s)
    /\ position' = [position EXCEPT ![s] = committed[s]]
    /\ UNCHANGED committed

\* A shutdown: requests are finished first, the consumer task is cancelled
\* wherever it is, and stopping the consumer commits.
Shutdown(s) ==
    /\ Fault
    /\ s = "order" => \A o \in Orders : handler[o] # "sending"
    /\ Ends(s)
    /\ committed' = [committed EXCEPT ![s] = position[s]]
    /\ UNCHANGED position

\* compose starts the container, or an operator does so again.
Start(s) ==
    /\ up[s] = "down"
    /\ up' = [up EXCEPT ![s] = "up"]
    /\ UNCHANGED <<orderVars, job, offsets, log, ledger, faults>>

\* start_consumer gives up on Kafka after max_retries.
StartDeaf(s) ==
    /\ Fault
    /\ up[s] = "down"
    /\ up' = [up EXCEPT ![s] = "deaf"]
    /\ UNCHANGED <<orderVars, job, offsets, log, ledger>>

-----------------------------------------------------------------------------

OrderStep == \E o \in Orders : ReceiveResult(o)

PaymentStep == Publish("payment") \/ \E o \in Orders : TakeOrder("payment", o) \/ DecidePayment(o)

InventoryStep ==
    Publish("inventory") \/ \E o \in Orders : TakeOrder("inventory", o) \/ DecideStock(o)

Next ==
    \/ \E o \in Orders : CreateOrder(o) \/ StoreCreated(o) \/ CreateFails(o)
    \/ OrderStep \/ PaymentStep \/ InventoryStep
    \/ \E s \in Workers : PublishFails(s)
    \/ \E s \in Services :
          \/ AutoCommit(s) \/ Rejoin(s) \/ ConsumerEnds(s)
          \/ Crash(s) \/ Shutdown(s) \/ Start(s) \/ StartDeaf(s)

Spec == Init /\ [][Next]_vars

\* The event loops run on and compose starts the containers; clients, the
\* commit timer and failures owe nothing.
Fairness ==
    /\ \A o \in Orders : WF_vars(StoreCreated(o))
    /\ WF_vars(OrderStep) /\ WF_vars(PaymentStep) /\ WF_vars(InventoryStep)
    /\ \A s \in Services : WF_vars(Start(s))

FairSpec == Spec /\ Fairness

-----------------------------------------------------------------------------
(* Properties                                                              *)

Statuses == {"absent", "CREATED", "PAYMENT_COMPLETED", "INVENTORY_RESERVED",
             "COMPLETED", "CANCELLED"}

OrdersOK ==
    /\ status \in [Orders -> Statuses]
    /\ seen \in [Orders -> SUBSET Results]
    /\ handler \in [Orders -> {"none", "sending", "done"}]

ServicesOK ==
    /\ up \in [Services -> {"up", "deaf", "down"}]
    /\ job \in [Workers -> [order : Orders, step : Results \cup {"decide"}] \cup {NoJob}]

OffsetsOK ==
    /\ position \in [Services -> [Topics -> [Orders -> Nat]]]
    /\ committed \in [Services -> [Topics -> [Orders -> Nat]]]
    /\ \A s \in Services, t \in Topics, o \in Orders :
          committed[s][t][o] <= position[s][t][o] /\ position[s][t][o] <= Len(log[t][o])

\* Every variable stays in its domain, every record in the topic of its event,
\* and no consumer is ahead of its log.
TypeOK == OrdersOK /\ ServicesOK /\ LogOK /\ OffsetsOK /\ LedgerOK /\ faults \in 0 .. MaxFaults

\* A status never claims what has not happened: a completed order is charged
\* and reserved, a cancelled one was refused by a service, and so on, whatever
\* is lost, repeated or overtaken on the way.
StatusIsTrue ==
    \A o \in Orders :
        /\ status[o] \in {"PAYMENT_COMPLETED", "COMPLETED"} => charges[o] > 0
        /\ status[o] \in {"INVENTORY_RESERVED", "COMPLETED"} => reserved[o] > 0
        /\ status[o] = "CANCELLED" =>
              Published(o, "PAYMENT_FAILED") \/ Published(o, "INVENTORY_FAILED")

\* One of each, and one more of either for every fault.
OneEach(n, m) == n <= 1 + faults /\ m <= 1 + faults /\ n + m <= 2 + faults

\* Every repetition costs a fault of its own. Payment and inventory decide an
\* order once each and say so once each; a fault lets one of them do it once
\* more. The order itself is announced once, whatever fails.
RepeatsCostFaults ==
    \A o \in Orders :
        /\ Len(log["order.created"][o]) <= 1
        /\ OneEach(charges[o], reserved[o])
        /\ OneEach(Len(log["payment.result"][o]), Len(log["inventory.result"][o]))

Judged(o) ==
    /\ seen[o] \cap {"PAYMENT_COMPLETED", "PAYMENT_FAILED"} # {}
    /\ seen[o] \cap {"INVENTORY_RESERVED", "INVENTORY_FAILED"} # {}

\* Without faults the order service gets both results of every order, since it
\* knows the order before the others hear of it.
EveryOrderJudged ==
    [](faults = 0) => \A o \in Orders : status[o] = "CREATED" ~> Judged(o)

\* The topics are the feed that the readers rely on: one announcement per order,
\* before everything else of it, and as many good results at most as there were charges
\* and reservations, although a crash repeats a decision and a failed send hides one.
ImplementsFeed == FeedSpec

\* What main.py and a comment in consumer.py say of the join: an order with both
\* good results is completed.
BothResultsComplete ==
    \A o \in Orders :
        {"PAYMENT_COMPLETED", "INVENTORY_RESERVED"} \subseteq seen[o]
            /\ seen[o] \cap {"PAYMENT_FAILED", "INVENTORY_FAILED"} = {}
            => status[o] = "COMPLETED"

=============================================================================
