--------------------------------- MODULE Saga ---------------------------------
(***************************************************************************)
(* The choreographed order saga of 09-saga-pattern-order-system: order,    *)
(* payment and inventory service, each one process with an auto-committing *)
(* consumer that handles one message at a time, and the five topics        *)
(* between them.  The key of every record is its order_id; what Kafka      *)
(* promises for it is the order of the records of one order in one topic,  *)
(* so each topic keeps one log per order.                                  *)
(***************************************************************************)
EXTENDS Integers, Sequences

CONSTANTS
    Orders,      \* the orders clients may place
    MaxFaults,   \* bound: failed sends, expired sessions, ended loops, crashes, shutdowns,
                 \* failed starts
    None         \* "no order"

ASSUME SagaAssumption == MaxFaults \in Nat /\ None \notin Orders

Services == {"order", "payment", "inventory"}

\* event_type of the records, with the topic that carries it
TopicOf ==
    [ORDER_CREATED      |-> "order.created",
     PAYMENT_COMPLETED  |-> "payment.result",
     PAYMENT_FAILED     |-> "payment.result",
     INVENTORY_RESERVED |-> "inventory.result",
     INVENTORY_FAILED   |-> "inventory.result",
     REFUND_REQUESTED   |-> "payment.refund-request",
     REFUND_COMPLETED   |-> "payment.refund-result",
     REFUND_FAILED      |-> "payment.refund-result"]

Events == DOMAIN TopicOf
Topics == {TopicOf[e] : e \in Events}

Subscriptions ==
    {<<"order", "payment.result">>, <<"order", "inventory.result">>,
     <<"order", "payment.refund-result">>,
     <<"payment", "order.created">>, <<"payment", "payment.refund-request">>,
     <<"inventory", "payment.result">>}

\* The status that the order service gives an order on an event.
StatusOf ==
    [PAYMENT_COMPLETED  |-> "INVENTORY_PROCESSING",
     PAYMENT_FAILED     |-> "PAYMENT_FAILED",
     INVENTORY_RESERVED |-> "COMPLETED",
     INVENTORY_FAILED   |-> "COMPENSATING",
     REFUND_COMPLETED   |-> "COMPENSATED",
     REFUND_FAILED      |-> "COMPENSATION_FAILED"]

VARIABLES
    status,      \* status of each order in orders_db, "absent" if it is not there
    handler,     \* create_new_order: "none", "sending", "stored", "done"
    up,          \* "up"; "deaf": the consumer task has ended; "down"
    job,         \* the order each consumer works on and its next step
    position,    \* records each consumer has taken from the log of each order
    committed,   \* the offsets last committed
    log,         \* the records of each topic, per order
    charges,     \* successful payments (payments_db, as seen by the customer)
    refunds,     \* successful refunds (refunds_db)
    reserved,    \* successful reservations (inventory_db)
    faults       \* faults so far, for MaxFaults

ledger == <<charges, refunds, reserved>>
offsets == <<position, committed>>
vars == <<status, handler, up, job, offsets, log, ledger, faults>>

NoJob == [order |-> None, step |-> "idle"]
Job(o, s) == [order |-> o, step |-> s]

Nothing == [s \in Services |-> [t \in Topics |-> [o \in Orders |-> 0]]]

Init ==
    /\ status = [o \in Orders |-> "absent"]
    /\ handler = [o \in Orders |-> "none"]
    /\ up = [s \in Services |-> "down"]
    /\ job = [s \in Services |-> NoJob]
    /\ position = Nothing
    /\ committed = Nothing
    /\ log = [t \in Topics |-> [o \in Orders |-> <<>>]]
    /\ charges = [o \in Orders |-> 0]
    /\ refunds = [o \in Orders |-> 0]
    /\ reserved = [o \in Orders |-> 0]
    /\ faults = 0

Fault == faults < MaxFaults /\ faults' = faults + 1

Logged(o, e) == [log EXCEPT ![TopicOf[e]][o] = Append(@, e)]

\* update_order_status: unknown orders are passed over in silence.
WithStatus(o, st) ==
    IF status[o] = "absent" THEN status ELSE [status EXCEPT ![o] = st]

-----------------------------------------------------------------------------
(* POST /orders                                                            *)

\* create_order, up to the await on the send.
CreateOrder(o) ==
    /\ up["order"] # "down" /\ handler[o] = "none"
    /\ status' = [status EXCEPT ![o] = "CREATED"]
    /\ handler' = [handler EXCEPT ![o] = "sending"]
    /\ UNCHANGED <<up, job, offsets, log, ledger, faults>>

\* The broker stores order.created; the acknowledgement is on its way.
StoreCreated(o) ==
    /\ handler[o] = "sending"
    /\ log' = Logged(o, "ORDER_CREATED")
    /\ handler' = [handler EXCEPT ![o] = "stored"]
    /\ UNCHANGED <<status, up, job, offsets, ledger, faults>>

\* publish_order_created returns and the status is set, whatever it is by now.
ReturnCreated(o) ==
    /\ handler[o] = "stored"
    /\ status' = WithStatus(o, "PAYMENT_PROCESSING")
    /\ handler' = [handler EXCEPT ![o] = "done"]
    /\ UNCHANGED <<up, job, offsets, log, ledger, faults>>

\* The send raises, before or after the record was stored: the order stays
\* CREATED and the client sees status 500.
CreateFails(o) ==
    /\ Fault
    /\ handler[o] \in {"sending", "stored"}
    /\ handler' = [handler EXCEPT ![o] = "done"]
    /\ UNCHANGED <<status, up, job, offsets, log, ledger>>

-----------------------------------------------------------------------------
(* The consumers                                                           *)

\* Defect: the position stays, so the record is handed over again.
TakesAgain(s, t, o, e) ==
    /\ up[s] = "up" /\ job[s] = NoJob
    /\ <<s, t>> \in Subscriptions
    /\ position[s][t][o] < Len(log[t][o])
    /\ e = log[t][o][position[s][t][o] + 1]
    /\ UNCHANGED position

\* async for hands the next record e of topic t over; the position moves at once.
Takes(s, t, o, e) ==
    /\ up[s] = "up" /\ job[s] = NoJob
    /\ <<s, t>> \in Subscriptions
    /\ position[s][t][o] < Len(log[t][o])
    /\ e = log[t][o][position[s][t][o] + 1]
    /\ position' = [position EXCEPT ![s][t][o] = @ + 1]

\* Defect: the refund is requested for failed payments too.
RefundAnyFailure(o) ==
    \E t \in Topics, e \in DOMAIN StatusOf :
        /\ Takes("order", t, o, e)
        /\ status' = WithStatus(o, StatusOf[e])
        /\ job' = IF e \in {"INVENTORY_FAILED", "PAYMENT_FAILED"} /\ status[o] # "absent"
                    THEN [job EXCEPT !["order"] = Job(o, "REFUND_REQUESTED")] ELSE job
        /\ UNCHANGED <<handler, up, committed, log, ledger, faults>>

\* Defect: a failed refund is recorded like a successful one.
AnyRefundCompensates(o) ==
    \E t \in Topics, e \in DOMAIN StatusOf :
        /\ Takes("order", t, o, e)
        /\ status' = WithStatus(o, IF e = "REFUND_FAILED" THEN "COMPENSATED" ELSE StatusOf[e])
        /\ job' = IF e = "INVENTORY_FAILED" /\ status[o] # "absent"
                    THEN [job EXCEPT !["order"] = Job(o, "REFUND_REQUESTED")] ELSE job
        /\ UNCHANGED <<handler, up, committed, log, ledger, faults>>

\* process_message of the order service. Only INVENTORY_FAILED of a known
\* order has an await, the publication of the refund request.
ProcessMessage(o) ==
    \E t \in Topics, e \in DOMAIN StatusOf :
        /\ Takes("order", t, o, e)
        /\ status' = WithStatus(o, StatusOf[e])
        /\ job' = IF e = "INVENTORY_FAILED" /\ status[o] # "absent"
                    THEN [job EXCEPT !["order"] = Job(o, "REFUND_REQUESTED")] ELSE job
        /\ UNCHANGED <<handler, up, committed, log, ledger, faults>>

\* The payment service takes an order or a refund request and sleeps.
TakePayment(o) ==
    \E t \in Topics, e \in {"ORDER_CREATED", "REFUND_REQUESTED"} :
        /\ Takes("payment", t, o, e)
        /\ job' = [job EXCEPT !["payment"] =
                      Job(o, IF e = "ORDER_CREATED" THEN "charge" ELSE "refund")]
        /\ UNCHANGED <<status, handler, up, committed, log, ledger, faults>>

\* process_order_created after its sleep: the payment succeeds or is refused,
\* is recorded, and its result is to be published.
Charge(o) ==
    /\ job["payment"] = Job(o, "charge")
    /\ \/ /\ charges' = [charges EXCEPT ![o] = @ + 1]
          /\ job' = [job EXCEPT !["payment"] = Job(o, "PAYMENT_COMPLETED")]
       \/ /\ job' = [job EXCEPT !["payment"] = Job(o, "PAYMENT_FAILED")]
          /\ UNCHANGED charges
    /\ UNCHANGED <<status, handler, up, offsets, log, refunds, reserved, faults>>

\* process_refund_request after its sleep.
Refund(o) ==
    /\ job["payment"] = Job(o, "refund")
    /\ \/ /\ refunds' = [refunds EXCEPT ![o] = @ + 1]
          /\ job' = [job EXCEPT !["payment"] = Job(o, "REFUND_COMPLETED")]
       \/ /\ job' = [job EXCEPT !["payment"] = Job(o, "REFUND_FAILED")]
          /\ UNCHANGED refunds
    /\ UNCHANGED <<status, handler, up, offsets, log, charges, reserved, faults>>

\* Defect: the inventory service does not look at event_type.
TakeAnyPaymentResult(o) ==
    \E e \in {"PAYMENT_COMPLETED", "PAYMENT_FAILED"} :
        /\ Takes("inventory", "payment.result", o, e)
        /\ job' = [job EXCEPT !["inventory"] = Job(o, "reserve")]
        /\ UNCHANGED <<status, handler, up, committed, log, ledger, faults>>

\* process_payment_result: failed payments are passed over.
TakePaymentResult(o) ==
    \E e \in {"PAYMENT_COMPLETED", "PAYMENT_FAILED"} :
        /\ Takes("inventory", "payment.result", o, e)
        /\ job' = IF e = "PAYMENT_COMPLETED"
                    THEN [job EXCEPT !["inventory"] = Job(o, "reserve")] ELSE job
        /\ UNCHANGED <<status, handler, up, committed, log, ledger, faults>>

\* Defect: the branches of success and shortage publish each other's event.
ReserveSwapped(o) ==
    /\ job["inventory"] = Job(o, "reserve")
    /\ \/ /\ reserved' = [reserved EXCEPT ![o] = @ + 1]
          /\ job' = [job EXCEPT !["inventory"] = Job(o, "INVENTORY_FAILED")]
       \/ /\ job' = [job EXCEPT !["inventory"] = Job(o, "INVENTORY_RESERVED")]
          /\ UNCHANGED reserved
    /\ UNCHANGED <<status, handler, up, offsets, log, charges, refunds, faults>>

\* process_payment_result after its sleep.
Reserve(o) ==
    /\ job["inventory"] = Job(o, "reserve")
    /\ \/ /\ reserved' = [reserved EXCEPT ![o] = @ + 1]
          /\ job' = [job EXCEPT !["inventory"] = Job(o, "INVENTORY_RESERVED")]
       \/ /\ job' = [job EXCEPT !["inventory"] = Job(o, "INVENTORY_FAILED")]
          /\ UNCHANGED reserved
    /\ UNCHANGED <<status, handler, up, offsets, log, charges, refunds, faults>>

\* send_and_wait of a service's result; the handler returns.
Publish(s) ==
    /\ job[s].step \in Events
    /\ log' = Logged(job[s].order, job[s].step)
    /\ job' = [job EXCEPT ![s] = NoJob]
    /\ UNCHANGED <<status, handler, up, offsets, ledger, faults>>

\* The auto-commit of the consumer covers every record taken, the one at
\* work included. Only a crash or a rejoin reads committed, so commits after
\* the last fault that MaxFaults allows are left out.
AutoCommit(s) ==
    /\ faults < MaxFaults
    /\ up[s] = "up"
    /\ committed' = [committed EXCEPT ![s] = position[s]]
    /\ UNCHANGED <<status, handler, up, job, position, log, ledger, faults>>

-----------------------------------------------------------------------------
(* Failures                                                                *)

\* The send raises, with the record stored or not. The exception leaves the
\* loop of start_consumer, whose finally clause stops the consumer, with a
\* last commit; the process goes on without it.
PublishFails(s) ==
    /\ Fault
    /\ job[s].step \in Events
    /\ log' \in {log, Logged(job[s].order, job[s].step)}
    /\ job' = [job EXCEPT ![s] = NoJob]
    /\ up' = [up EXCEPT ![s] = "deaf"]
    /\ committed' = [committed EXCEPT ![s] = position[s]]
    /\ UNCHANGED <<status, handler, position, ledger>>

\* The iteration over the consumer raises: its task ends with a last commit.
ConsumerEnds(s) ==
    /\ Fault
    /\ up[s] = "up" /\ job[s] = NoJob
    /\ up' = [up EXCEPT ![s] = "deaf"]
    /\ committed' = [committed EXCEPT ![s] = position[s]]
    /\ UNCHANGED <<status, handler, job, position, log, ledger>>

\* The session expires and aiokafka joins again in the background, at the committed
\* offsets; the handler goes on with its record.
Rejoin(s) ==
    /\ Fault
    /\ up[s] = "up"
    /\ position' = [position EXCEPT ![s] = committed[s]]
    /\ UNCHANGED <<status, handler, up, job, committed, log, ledger>>

\* The process ends; the order service loses its orders and requests.
Ends(s) ==
    /\ up[s] # "down"
    /\ up' = [up EXCEPT ![s] = "down"]
    /\ job' = [job EXCEPT ![s] = NoJob]
    /\ IF s = "order"
         THEN /\ status' = [o \in Orders |-> "absent"]
              /\ handler' = [o \in Orders |->
                    IF handler[o] \in {"sending", "stored"} THEN "done" ELSE handler[o]]
         ELSE UNCHANGED <<status, handler>>
    /\ UNCHANGED <<log, ledger>>

\* A crash: the group goes back to the committed offsets.
Crash(s) ==
    /\ Fault
    /\ Ends(s)
    /\ position' = [position EXCEPT ![s] = committed[s]]
    /\ UNCHANGED committed

\* A shutdown: requests are finished first, the consumer task is cancelled
\* wherever it is, and stopping the consumer commits.
Shutdown(s) ==
    /\ Fault
    /\ s = "order" => \A o \in Orders : handler[o] \in {"none", "done"}
    /\ Ends(s)
    /\ committed' = [committed EXCEPT ![s] = position[s]]
    /\ UNCHANGED position

\* The container starts again.
Start(s) ==
    /\ up[s] = "down"
    /\ up' = [up EXCEPT ![s] = "up"]
    /\ UNCHANGED <<status, handler, job, offsets, log, ledger, faults>>

\* start_consumer gives up on Kafka after max_retries.
StartDeaf(s) ==
    /\ Fault
    /\ up[s] = "down"
    /\ up' = [up EXCEPT ![s] = "deaf"]
    /\ UNCHANGED <<status, handler, job, offsets, log, ledger>>

-----------------------------------------------------------------------------

RequestStep(o) == StoreCreated(o) \/ ReturnCreated(o)

OrderStep == Publish("order") \/ \E o \in Orders : ProcessMessage(o)

PaymentStep ==
    Publish("payment") \/ \E o \in Orders : TakePayment(o) \/ Charge(o) \/ Refund(o)

InventoryStep ==
    Publish("inventory") \/ \E o \in Orders : TakePaymentResult(o) \/ Reserve(o)

Next ==
    \/ \E o \in Orders : CreateOrder(o) \/ RequestStep(o) \/ CreateFails(o)
    \/ OrderStep \/ PaymentStep \/ InventoryStep
    \/ \E s \in Services :
          \/ AutoCommit(s) \/ Rejoin(s) \/ PublishFails(s) \/ ConsumerEnds(s)
          \/ Crash(s) \/ Shutdown(s) \/ Start(s) \/ StartDeaf(s)

Spec == Init /\ [][Next]_vars

\* Every event loop runs on and containers are started again; clients, the
\* commit timer and failures owe nothing.
Fairness ==
    /\ \A o \in Orders : WF_vars(RequestStep(o))
    /\ WF_vars(OrderStep) /\ WF_vars(PaymentStep) /\ WF_vars(InventoryStep)
    /\ \A s \in Services : WF_vars(Start(s))

FairSpec == Spec /\ Fairness

-----------------------------------------------------------------------------
(* Properties                                                              *)

Statuses ==
    {"absent", "CREATED", "PAYMENT_PROCESSING"} \cup {StatusOf[e] : e \in DOMAIN StatusOf}

Steps == Events \cup {"charge", "refund", "reserve"}

OrdersOK ==
    /\ status \in [Orders -> Statuses]
    /\ handler \in [Orders -> {"none", "sending", "stored", "done"}]

ServicesOK ==
    /\ up \in [Services -> {"up", "deaf", "down"}]
    /\ job \in [Services -> [order : Orders, step : Steps] \cup {NoJob}]

LogOK ==
    /\ log \in [Topics -> [Orders -> Seq(Events)]]
    /\ \A t \in Topics, o \in Orders : \A i \in 1 .. Len(log[t][o]) : TopicOf[log[t][o][i]] = t

OffsetsOK ==
    /\ position \in [Services -> [Topics -> [Orders -> Nat]]]
    /\ committed \in [Services -> [Topics -> [Orders -> Nat]]]
    /\ \A s \in Services, t \in Topics, o \in Orders :
          committed[s][t][o] <= position[s][t][o] /\ position[s][t][o] <= Len(log[t][o])

LedgerOK ==
    /\ charges \in [Orders -> Nat]
    /\ refunds \in [Orders -> Nat]
    /\ reserved \in [Orders -> Nat]

\* Every variable stays in its domain, every record in the topic of its event,
\* and no consumer is ahead of its log.
TypeOK == OrdersOK /\ ServicesOK /\ LogOK /\ OffsetsOK /\ LedgerOK /\ faults \in 0 .. MaxFaults

Published(o, e) == \E i \in 1 .. Len(log[TopicOf[e]][o]) : log[TopicOf[e]][o][i] = e

\* An order shown as COMPLETED has been paid for and its goods are reserved,
\* whatever is lost, repeated or overtaken on the way.
CompletedIsDelivered ==
    \A o \in Orders : status[o] = "COMPLETED" => charges[o] > 0 /\ reserved[o] > 0

\* An order shown as COMPENSATED has been refunded.
CompensatedIsRefunded == \A o \in Orders : status[o] = "COMPENSATED" => refunds[o] > 0

\* Money goes back only for an order that was charged and whose goods were
\* refused, in any run.
RefundsAnswerShortage ==
    \A o \in Orders : refunds[o] > 0 => charges[o] > 0 /\ Published(o, "INVENTORY_FAILED")

\* An order is charged once, and once more for a fault at most. Without faults
\* its charge is either kept for reserved goods or returned, never both.
MoneyIsConserved ==
    \A o \in Orders :
        /\ charges[o] <= 1 + faults
        /\ faults = 0 => reserved[o] + refunds[o] <= charges[o]

Settlement == INSTANCE OrderSettlement WITH
    placed <- {o \in Orders : log["order.created"][o] # <<>>},
    paid <- {o \in Orders : charges[o] > 0},
    refused <- {o \in Orders : \E s \in Services : job[s] = Job(o, "PAYMENT_FAILED")}
                  \cup {o \in Orders : Published(o, "PAYMENT_FAILED")},
    delivered <- {o \in Orders : reserved[o] > 0},
    returned <- {o \in Orders : refunds[o] > 0},
    kept <- {o \in Orders : \E s \in Services : job[s] = Job(o, "REFUND_FAILED")}
                  \cup {o \in Orders : Published(o, "REFUND_FAILED")}

\* Without faults the choreography implements OrderSettlement.
ImplementsSettlement == Settlement!FairSpec

=============================================================================
