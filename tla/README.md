# Formal models of the FastAPI + Kafka guide

The repository is a guide of thirteen chapters. Each chapter is an application of
its own, written in Python with FastAPI and aiokafka; nothing is shared between
chapters except the style. This directory holds TLA+ models of chapters 03 to 13, TLC configurations that check them on small instances, and
TLAPS proofs of the safety results for every value of the constants.

Commands, inside this directory: `tlc -config OutboxSafety.cfg MCOutbox`,
`tlapm OutboxProofs.tla`. `PROJECT.json` lists every run, the lines of code that each
definition stands for, the mutants that show each property can fail, the hazards, the
findings and the theorems.

## 1. Inventory

All services are single-threaded asyncio processes. What runs between two `await`s is
atomic; at every `await` another coroutine of the process, or another process, may go on.
Durable state is in PostgreSQL (ch. 12), Redis (ch. 08) and Kafka (topics and committed
offsets); everything else is lost with the process.

| Component | State | Operations | Talks to | What is hard |
|---|---|---|---|---|
| **ch. 12** order service | tables `orders`, `outbox`, sequence of `outbox.id` | POST /orders in one transaction | PostgreSQL | ids drawn before the commit; order and event must appear together |
| **ch. 12** relay | locked rows of a tick, stop event | claim (`FOR UPDATE SKIP LOCKED`), send, mark, commit; start, stop, cancel | PostgreSQL, Kafka | several relays, failed sends that succeed later, crash before the commit |
| **ch. 12** consumer | `processed_events`, position, offsets | getmany, inbox mark, business logic, commit | Kafka, PostgreSQL | crash between any two of these, duplicates |
| **ch. 13** circuit breaker | `_state`, `_failure_count`, `_opened_at` | `_before_call`, `_on_success`, `_on_failure` under a lock | the guarded call, outside the lock | results of earlier states come back in later ones |
| **ch. 13** payment client | retry counter, HTTP call under way | POST /payments: retry around breaker around HTTP | gateway | retry after a timeout whose request is still alive |
| **ch. 13** gateway | mode, latency | POST /charge, POST /admin/mode | client | mode switched under running requests |
| **ch. 09** order service | `orders_db` (memory), offsets | POST /orders; consumer of three topics; refund request | payment, inventory through Kafka | handler and consumer write the same status; three topics without an order |
| **ch. 09** payment service | `payments_db`, `refunds_db` (memory), offsets | charge, refund | Kafka | auto-commit while a record is at work |
| **ch. 09** inventory service | `inventory_db` (memory), offsets | reserve | Kafka | the same |
| **ch. 11** order service | `orders_db` (memory), offsets | POST /orders; join of two results | payment, inventory through Kafka | results from two topics in any order; cancellation against completion |
| **ch. 11** payment, inventory | records (memory), offsets | decide an order, in parallel | Kafka | auto-commit while an order is at work; a result whose send fails is given up |
| **ch. 11** query service | `orders_read_model`, `event_log` (memory), offsets | `process_event` | all topics | order across topics, restart |
| **ch. 11** notification service | notifications (memory), offsets | one notification per record | all topics | auto-commit, repeated records |
| ch. 11 gateway | none | proxy | HTTP | a 504 whose order exists |
| **ch. 08** idempotent consumer | `balances` (memory), keys in Redis, offsets | check, credit, mark, commit | Redis, Kafka | crash between the steps; three lifetimes of state |
| **ch. 07** payment consumer, DLQ consumer | `processed_payments`, `failed_payments` (memory), offsets | retry, dead letter, commit | Kafka | failed dead letter is committed all the same; the session may expire in a backoff |
| **ch. 05** consumer group | `received_messages` (memory), offsets | process, `commit()` | Kafka | rebalance between the two; a refused commit ends the loop but not the membership |
| **ch. 03, 04, 06, 10** list consumers | message list (memory), offsets | append | Kafka | auto-commit; loop that ends on an error |
| **ch. 10** lag and health | none | joins the group to measure it | Kafka | the measurement rebalances the group |
| **ch. 03 to 06, 10** producers | none | one send per request | Kafka | none of their own |
| ch. 02 producer; serializers; schemas | none | one send per request; conversions | Kafka | none of their own |

What makes each component correct:

* *Outbox*: no event without its order; a row marked as published is on the topic;
  no duplicate without a failure; every accepted order is published and received; the
  business logic runs at most once per event; no offset passes an event not received.
* *Circuit breaker*: closed exactly while fewer failures than the threshold are counted; it
  closes again for good once the service is well. A single trial call in HALF_OPEN is promised
  and does not hold, and a late success closes an open circuit at once (section 3).
* *Payment client*: every payment is answered; a payment is charged no more often than it was
  sent; a gateway that answers nobody gets a few requests for each recovery timeout only.
* *Saga*: a status never claims what has not happened; money goes back only for an order
  that was charged and whose goods were refused; without failures every order ends in one
  of four ways, and its money and goods agree.
* *Multi-service flow*: a status never claims what has not happened; an order is announced
  once and before its results; without failures both services decide it once and the order
  service gets both results. Both good should mean COMPLETED, and does not (section 3).
* *Read model and notifications*: the view shows COMPLETED exactly when it shows both results
  as good, and nothing that was not published; no result that it could place is lost; every
  event is notified, at most once for each assignment of the topics to the service.
* *Idempotent consumer*: one credit per key and expiration in the life of a process; balances and
  keys agree until it restarts; no offset passes an event that nobody credited; every event is
  credited in the end.
* *Retry and DLQ*: no offset passes a payment without an outcome, and a restart or an expired
  session repeats at most one; each payment shows in the list it belongs to, unless its dead letter was lost.
* *Consumer group and list consumers*: no offset passes a record that no list received; a record is
  received again only in a new generation; the group catches up, whatever is expelled, crashes
  or joins to measure it; the lag it reports hides no backlog.

## 2. Modules

| Module | What it is | Code |
|---|---|---|
| `Outbox` | order service, relays, topic, consumer | `12-outbox-pattern/app/{main,outbox,relay,consumer}.py`, `init.sql` |
| `EventDelivery` | the promise of the outbox: accepted, delivered, confirmed, received, run | abstract |
| `MCOutbox` | instances of `Outbox` for TLC: assignment of orders to partitions, symmetry | |
| `OutboxProofs` | theorems about `Outbox` | |
| `CircuitBreaker` | the breaker and a service that may be sick | `13-resilience-patterns/app/circuit_breaker.py` |
| `ResilientCharge` | client and gateway around an INSTANCE of `CircuitBreaker` | `client_main.py`, `gateway_client.py`, `retry.py`, `gateway_main.py` |
| `ResilientChargeProofs` | theorems about both, among them that the second implements the first | |
| `Saga` | the three services of chapter 09 and their five topics | `09-saga-pattern-order-system/*/app/*.py` |
| `OrderSettlement` | the promise of the saga: refused, delivered, refunded or kept for manual work | abstract |
| `SagaProofs` | theorems about `Saga` | |
| `EventFeed` | the topics of chapter 11 as their readers see them, with the charges and reservations they speak of: one announcement per order, then results in any number, none of them better than the ledger | abstract; shared by the next two |
| `OrderFlow` | order, payment and inventory service of chapter 11, which implement `EventFeed` | `11-multi-service-architecture/{order,payment,inventory}-service/app/*.py` |
| `ReadModel` | query and notification service of chapter 11, which rely on `EventFeed` only | `11-multi-service-architecture/{query,notification}-service/app/*.py` |
| `OrderFlowProofs`, `ReadModelProofs` | theorems about them, among them that `OrderFlow` implements the feed | |
| `PointCredit` | the idempotent consumer, its producer, Redis | `08-exactly-once-and-idempotency/app/*.py` |
| `DeadLetter` | both consumers and the producer of chapter 07 | `07-error-handling-and-retry/app/*.py` |
| `EffectivelyOnce` | the promise of the idempotent consumer: a key is credited once as long as it is known | abstract |
| `PaymentTriage` | the promise of the payment consumer: the first unconfirmed payment is processed, shelved or lost, then confirmed | abstract |
| `PointCreditProofs`, `DeadLetterProofs` | theorems about them, among them that `PointCredit` and `DeadLetter` implement these promises | |
| `ConsumerGroup` | the group of chapter 05, the single consumers of 03, 04, 06 and 10, their producers, the lag check | `0{3,4,5,6}-*/`, `10-monitoring-and-testing/app/{consumer,health,producer}.py` |
| `MCConsumerGroup` | the deployments of the chapters for TLC | |
| `GroupReception` | the promise of a consumer group: records in the order of their partition, offsets behind what was received | abstract |
| `ConsumerGroupProofs` | theorems about `ConsumerGroup`, among them that it implements the promise | |

The operators named "Defect" in the modules are not part of any specification. They are the
mutated forms named in `PROJECT.json`: put in the place of the definition below them,
they make a run fail.

### Outbox

An order id is unique, each request enqueues one event, and the event carries its id, so
`Orders` stands for orders, rows and messages. `CreateOrder` is the handler up to the flush,
where the row draws `rowId` from the sequence; `CommitOrder` makes order and row visible;
`AbortOrder` is every rollback. A tick of `OutboxRelay` is a transaction: `Select` locks a
batch (`Claimable` is `SKIP LOCKED`, `Selections` is `ORDER BY id LIMIT`), `Send`, `Store`
and `Acknowledge` are `send_and_wait` for one row, `MarkPublished` is the UPDATE with its
COMMIT. `TickFails` is any exception in it, `RelayCrash` also the cancellation after five
seconds, `RequestStop` and `RelayStops` the graceful end. A record that was handed to the
producer and given up stays in `stray` and may still arrive. The consumer is `Fetch`
(getmany), `MarkProcessed` (the inbox transaction), `HandleEvent` (the place of the business
logic), `CommitOffset`; an exception leaves `consume()` and is a crash. `position` is where getmany
goes on, `next` and `fetchEnd` are the batch at hand: `ConsumerRejoins` takes the first back and leaves the
batch alone.

### Expired sessions

A consumer that does not poll or reach its coordinator in time is dropped from its group. aiokafka
joins again by itself, in the background of whatever the handler awaits: the positions are the
committed offsets again, and neither the handler nor its `commit()` hears of it, because the
commit is sent with the membership of that moment. Only a commit that the coordinator has
to refuse raises. Every consumer model has this step, as a fault: `ConsumerRejoins`, `Rejoin` (chapters 08, 09 and 11),
`RejoinPayments` and `RejoinDlq`, and in `ConsumerGroup`, where it happens to a member beside others, `Expel` and `Learn`. Where the
handler awaits `commit()`, the offset asked for is a variable of its own (`request`), so that a rejoin may
come between the asking and the storing.

### CircuitBreaker and ResilientCharge

The three sections under the `asyncio.Lock` contain no `await`, so each is one step; `func`
runs between them, and `inside` holds the calls that are in it. `_opened_at` is abstracted to
"never", "recent" and "due", which is all that `_should_attempt_recovery` can tell. The
service gets sick and well at any time; a call that started in good health returns well unless
the breakdown hits it. `ResilientCharge` replaces that service by the gateway: a request is
treated according to the mode at its arrival, a treatment that takes longer than the client's
timeout becomes `late`, and the handler that nobody waits for approves later. `Inside` are the payments
whose call waits for its result; `requests` and `expiries` count the requests that were sent since a call last succeeded,
those out at that moment included, and the recovery timeouts that passed since then. The mapping
of `Breaker == INSTANCE CircuitBreaker` shows that client and gateway together drive the
breaker as the first module says, including its fairness.

### Saga

Each topic keeps one log per order: the key of every record is the order id, and all that
Kafka promises is the order of records with one key in one topic. A consumer takes one record at a
time (`Takes`), and its position moves when the record is handed out, so that `AutoCommit` may
commit a record that is still at work. The handlers are split at their awaits: the
order service has one, the refund request; payment and inventory sleep, decide and record
(`Charge`, `Refund`, `Reserve`), then `Publish`. `create_new_order` is `CreateOrder`,
`StoreCreated` (the broker has the record, the acknowledgement is on its way) and
`ReturnCreated`, which sets PAYMENT_PROCESSING after the await, whatever the status is by then.
Failures: a send that raises with or without its record stored (`CreateFails`,
`PublishFails`; the exception ends the consumer loop while the process stays up), a crash, a
shutdown whose `consumer.stop()` commits, an iteration that raises between two records (`ConsumerEnds`), an
expired session (`Rejoin`), a start that gives up on Kafka (`StartDeaf`; at first all
services are down). The
variables `charges`, `refunds` and `reserved` count what happened to the customer's money
and goods; they stand for `payments_db`, `refunds_db` and `inventory_db`, which the code only
appends to, and survive a restart because the money does.

### OrderFlow, EventFeed and ReadModel

Logs, offsets and faults are those of the saga; what differs is in the code. Payment and
inventory both start from `order.created` (`TakeOrder`), sleep, draw and record a result
(`DecidePayment`, `DecideStock`) and `Publish` it. Here an exception of a handler does not end the loop:
it is logged, and the result is given up (`PublishFails`). Only an exception of the iteration
itself ends the task (`ConsumerEnds`). `ReceiveResult` is one round of the order service's loop; it has
no await, and the asymmetry of its arms is in `StatusAfter`. `seen` is the list `events` as a
set, because the code only asks whether a type is in it. `charges` and `reserved` count what the customer sees
and survive a restart, as in the saga.

The query and the notification service influence nobody, so they have a module of their own, whose
environment is the abstract feed and not the three services: what holds for every feed
holds for the one that `OrderFlow` writes, by the refinement. `Apply` is `process_event`, one
operator per arm, on the three fields that it tests or sets and that are ever joined. Handlers
without an await are one step with the taking of the record (`Query`, `Notify`). A restart loses the
view and keeps the offsets; notifications that were sent stay sent.

### PointCredit

A key stands for the event that carries it, so `credits[k]` is what the balances hold of the event. The
endpoints append to `log`: `Post` as clients repeat keys, `DuplicateTest` and `SecondSend` around the
sleep of the duplicate test. `_process_message` is one action per await: `SkipDuplicate` or `Credit`
(the answer of Redis and the credit have no await between them), `MarkProcessed`, `Commit`. Each
of them has its failure (`CheckFails`, `MarkFails`, `CommitFails`), which leaves the `async for` and ends
the task (`EndLoop`), while the process stays up ("deaf"). Three lifetimes of state meet: balances go with
the process (`Stop`), keys with their time to live (`Expire`), offsets stay. A call that raises may have
had its effect all the same.

### DeadLetter

`consume_payments` is `Receive`, then attempts (`AttemptFails` for an amount of 10, `ProcessPayment` for
any other), then `DeadLetterSent` or, when that send fails too, `DeadLetterLost`, then `Commit`.
`maxRetries` is a value of the environment variable: with 0 there is no attempt, and
`raise last_exception` raises a `TypeError` that sends a good payment to the dead letters. `PaymentsFail` is an
exception outside the inner `try`, which ends the task. `consume_dlq` is `ListLetter`, with `AutoCommit` at any
moment. `StoredTwice` is the retry of a producer that is not idempotent. `RejoinPayments` may strike in a backoff or beside
a commit; the payment at work is then handled once more in the same life. `RejoinDlq` has all letters since
the last automatic commit read again. `sessions` counts the assignments of the payment consumer. `Stop` is a crash or the end
of `lifespan`, which differ for the model only in what the DLQ consumer still commits.

### ConsumerGroup

The chapters run the same consumer with other settings, so one module holds them all, and `runs` says
which chapter a member is from; the actions that differ are named by chapter (`Consume05`,
`Shutdown03`). `Rebalance`, `Expel`, `Assignments` and the check in `IsCurrent` are Kafka's coordinator, as
the code relies on it: a commit is refused unless it comes from a member of the current generation.
`Consume05` appends the record and asks for the commit of all its positions (`RequestCommit`);
`CommitStored` or `CommitRefused` is the answer. A refused commit ends the loop and leaves the consumer in
the group ("deaf"), from which it is dropped when it has not polled for long enough. The lag check is a
member as well: `StartCheck` joins, `Snapshot` is `assignment()`, `ReadEnd` and `ReadCommitted` are the
two awaits per partition, `EndCheck` leaves.

### Deviations of the documentation

The README of chapter 09 says at line 117 that compensation is only logged, and at line 113
that the order becomes FAILED. The code goes further: it sets COMPENSATING and requests the
refund, and the status FAILED is never used. The model follows the code.

## 3. Runs

| Run | Shows | Bounds |
|---|---|---|
| `outbox_safety` | marked is published; relays share no row; a duplicate takes a fault; at most one handling; committed is received | 3 orders with batches of 2, so that LIMIT cuts, 2 relays, 1 partition, 1 fault |
| `outbox_delivery` | accepted orders are published; `Outbox` implements `EventDelivery` | 2 orders in 2 partitions, batches of 1, 2 relays, 1 fault |
| `breaker_recovery` | the circuit closes for good once the service is well | 4 calls, threshold 2 |
| `charge_safety` | charges within attempts; a gateway that answers nobody is spared; the circuit is closed exactly below its threshold; every payment is answered; implements `CircuitBreaker` | 2 payments, 3 attempts, threshold 2 |
| `order_flow` | statuses tell the truth; every repeated decision and every missing result costs a fault; `OrderFlow` implements `EventFeed` | 1 order, 2 faults of any kind |
| `order_flow_join` | *violation*: reserved first and paid second leaves the order PAYMENT_COMPLETED | 1 order, no fault |
| `read_model` | the view joins, is true and catches up; every event is notified, at most once per assignment of the topics | 1 order, 2 decisions of any kind, 1 fault |
| `saga_faults` | statuses and refunds tell the truth; an order is charged once, and once more per fault | 1 order, 1 fault of any kind |
| `saga_no_faults` | `Saga` implements `OrderSettlement`; every order is settled | 2 orders, no fault |
| `point_credit` | one credit per key and expiration; balances match the keys; `PointCredit` implements `EffectivelyOnce`; every event is credited | 2 keys, 4 records, 2 faults, 3 lives |
| `dead_letter` | `DeadLetter` implements `PaymentTriage`; a restart or an expired session repeats at most one payment; the lists are right; every payment shows | 3 payments, 2 of them bad, 0 or 2 attempts, 1 fault, 2 lives |
| `consumer_group` | `ConsumerGroup` implements `GroupReception`; one reception per generation; the lag hides no backlog; the group catches up | 5 deployments, 2 members, 2 partitions, 2 records, 2 faults |

The violation is a disagreement between the code and what its own documentation says; the
finding in `PROJECT.json` quotes the lines. The runs that pass say what still holds in spite of it.

Further statements of the documentation do not hold of the models either, and have no
run of their own. A crash between the inbox mark and the business logic makes the redelivered event
look like a duplicate, so it is never handled (12-outbox-pattern/README.md:510 promises
effectively exactly-once). In chapter 09 the handler of POST /orders sets PAYMENT_PROCESSING after its
await, over a final status that the consumer may have set (order-service/app/main.py:105 against the flow
of models.py:5), and a shortage that is read after a restart, when `orders_db` is empty, is never
compensated (consumer.py:6). `outbox.id` does not give the order of publication (12-outbox-pattern/README.md:279),
since an id is drawn at the flush and becomes visible at the commit. HALF_OPEN lets every call
through while the trial is under way, and not one only (circuit_breaker.py:8 and 95, README.md:154 of the chapter), since
`_before_call` tests OPEN alone; `GatewayIsSpared` bounds what comes of it. A success of a
call that entered before the opening closes an OPEN circuit at once, without the trial of
circuit_breaker.py:7 to 9, since `_on_success` does not look at the state. A saga may be COMPLETED before
its order service has seen the payment (order-service/app/models.py:7 of chapter 09), since
nothing orders two topics. In chapter 11 a later success takes a CANCELLED order back to a status of
success (consumer.py:75 of the order service). And its read model is not eventually consistent
(11-multi-service-architecture/README.md:186): a result that is read before the announcement of
its order is dropped, even without faults, and after a restart the view is lost while the offsets stay.

In chapter 08 a restart empties the balances and keeps the keys, so that a redelivered event is skipped
and its points are gone; that is why `BalancesMatchKeys` speaks of the first life. In chapter 10 the lag
of one partition may be negative and the total too small, when another member gets the partition and
commits between the two reads (health.py:92 and 96), and the total is 0 when the check was assigned nothing
(health.py:88); `LagCoversBacklog` says what remains true of each partition that is reported.

What the safety properties do not say is as important. They bound repeats and keep every claim true; that a
record lost after its offset was committed, a result whose send failed, a shortage that a restart forgot, a status that was
overwritten or a dead letter that could not be sent is made up for, no property says, because no code does it. The
notes of the hazards in `PROJECT.json` name each of these at its line.

**Why the bounds are enough.** `MaxFaults` bounds failures, not the moments at which they
strike: a fault may come at every step. In the saga two faults are out of TLC's reach (more
than seven million states); the theorems of section 5 cover any number, for the outbox too. `AutoCommit` is
guarded by `faults < MaxFaults`: committed offsets are read by crashes only, so a commit after the
last fault changes nothing that is observed. `MaxCount` stops the failure count above the threshold,
where the code compares with the threshold only; it is reached in the runs. Two relays
suffice for every race between relays because a claim concerns one pair of them; three rows and
batches of two are the least for which the LIMIT cuts. `Fetch` returns any number of records, so
`max_records` is not a bound. `MaxDecisions` in
`read_model` bounds the decisions of an order, which are its charges, its reservations and the failures
that were published: two are the least that can be joined, repeated or contradict each other, and the theorems
are about any number. One order is enough in `saga_faults` because services keep no state
shared between orders except their one job at a time, which `saga_no_faults` covers with two. The workers of chapter 11 share
nothing else either, and its two readers share nothing at all. In `point_credit` four records are two
events sent twice or one sent four times, and three lives let a record be read in three of them.
`dead_letter` has two bad payments, so that the second is handled behind the dead letter of the first; one fault is
one expired session, in any backoff, and the proofs cover any number. `GatewayIsSpared` needs no bound on `requests`: attempts end. In
`consumer_group` two records fit in one partition or in both, two members are enough to take a
partition from each other, and `generation` needs no bound: it grows with starts, faults and lag checks only,
which `MaxFaults` limits.

**Deadlock.** Every model but the breaker's two may stop: when all events are handled and no
client comes, nothing is left to do. Those configurations switch the deadlock check off and say
so; the breaker and the gateway never stop.

**Fairness.** Only the event loops owe steps: a coroutine that can run does run, a consumer
that has a record takes it, a container is started by compose, an HTTP call ends
by its timeout, and time passes. Clients, operators, commit timers, failures and late records
owe nothing. In the outbox one fairness condition per relay covers its whole step, because
the relay is one coroutine; in the saga there is one per service, and one per request handler. No
strong fairness is used. The liveness properties of chapters 09 and 11 assume in their text that no fault
happens; so `Start` is needed for the first start only. In chapters 03 to 08 and 10 nobody restarts a
process or a loop, so nothing is fair about `Start`; `EveryPointCredited`, `EveryPaymentSettled` and
`GroupCatchesUp` assume instead that a loop is up again and again. The coordinator is fair in `Rebalance`,
because Kafka ends every rebalance by a timeout. `Recovers` has its assumption in the property: the service stays healthy and
calls keep coming.

## 4. What the abstract specifications add

`EventDelivery` and `OrderSettlement` are what a user of the service would be told. The
first has no tables, relays or offsets; its liveness covers delivery and reception and leaves
handling out, because a crash between the inbox mark and the business logic loses it
(section 3). The second has no services, topics or statuses; `Saga` implements it
only without faults, because a redelivered `order.created` charges twice and a lost
`INVENTORY_FAILED` is never settled. `EventFeed` is an interface: `OrderFlow` implements
it through every fault, and `ReadModel` is checked and proved against it. Because the feed carries the
ledger, the two together speak of the whole chapter: an order that the view calls COMPLETED was announced,
charged and reserved, whatever crashed, came twice or was lost on the way.

`GroupReception`, `EffectivelyOnce` and `PaymentTriage` are the promises of the consumers with a manual commit, and
the module that keeps each does so through every fault of its run. The first has no members and no
generations: what a rebalance, an expulsion or a refused commit can do to a group is to receive records again
and to take an offset back, never to receive one before its predecessors or to commit what nobody received.
The second credits and knows in one step, which is what the name says. What the code
adds to it is the moment between the two, and the mapping shows what this moment costs: an event that waits for
its key counts as known, and when the key is never written, the receiver forgets that one event as it closes
or ends, and nobody credits it again in this life. The third has no attempts, positions or tasks:
it works on the first payment that is not confirmed, or once more on the one before when its confirmation
was slower than an expired session, and what cannot be processed is shelved, or lost
when the shelf is out of reach, which is what the code does when the dead letter cannot be sent. With
`MAX_RETRIES` 0 nothing can be processed, and `fit` is empty.

## 5. Proofs

All theorems hold for every value of the constants that satisfies the named assumptions:
`ConstantsAssumption` (every order has a partition, batches are not empty),
`BreakerAssumption` and `ChargeAssumption` (positive threshold, at most the counter's bound; for `Sparing` the payments
are a finite set),
`SagaAssumption` and `FlowAssumption` (a number of faults, and `None` is no order),
`ReadersAssumption` (numbers), and the `ConstantsAssumption` of `PointCredit`, `DeadLetter` and `ConsumerGroup` (bounds are
numbers, `None` is no value of another kind, rejected payments are payments, members and partitions are
finite sets). `TypeOK` is proved of every
module with proofs and is not checked again by TLC.

* **`OutboxProofs`**: `TypeCorrect`, `NoGhosts`, `MarksAreTrue`, `ClaimsAreExclusive`,
  `AtMostOnce`, `NothingSkipped`, and `Refinement` to the safety part of `EventDelivery`.
  The invariant `IInv` strengthens the checked ones: rows belong to committed transactions
  and have distinct ids (`TableInv`, `KeyInv`); what a relay has acknowledged, and what it has
  stored, is in the log (`RelayInv`); every offset is within its log (`OffsetInv`), and what lies below `next` or
  below a committed offset is in the inbox, while below the position, which a rejoin may have put anywhere, it is there or part
  of the batch at hand (`InboxInv`); the business logic has not run for the event at hand (`HandlingInv`). It is
  needed because none of the checked invariants is inductive: `MarkedIsPublished`, say, depends on
  the acknowledgements, and those on `Store`. The one argument about sequences is that the log
  only grows at its end. `DuplicatesAreFaults` counts copies: one belongs to the row, stored or with the relay
  that works on it, and every other takes a fault of its own.
* **`ResilientChargeProofs`**, the breaker on its own, as the instance `Breaker` with its calls named payments:
  `ClosedMeansBelow` and `OpeningDated` are inductive together with
  the types (`InStep`), one lemma per section under the lock. `GatewayInStep` carries them over to client and gateway.
* **`ResilientChargeProofs`**, client and gateway: `ChargesBounded` counts requests: approvals and late handlers of
  a payment never exceed the attempts that came back, and one attempt is under way at most
  (`CallsAreAttempts`). `Sparing` counts requests against the breaker (`Spared`): as long as nothing succeeds, a
  closed circuit has a counted failure or a call under way for each request; the opening leaves at most one call of
  every payment under way, which a timeout pays for before it lets as many in again, also when they all come together
  during the trial. `Refinement` maps every step of client and gateway to a step of
  `CircuitBreaker` or to a stutter.
* **`SagaProofs`**: the argument is causal. Every event, in a log or about to be published,
  states a fact of the ledger (`Fact`), every handler step presupposes one (`Ground`), no
  step takes a fact back (`Grows`), and a status repeats an event. Crashes, redelivery and lost
  records cannot break it, because they only take steps away or do them again. So `Delivered`,
  `Refunded` and `RefundsAreAnswers` hold for any number of faults, which TLC cannot reach.
  `MoneyConserved` counts: what a service puts out, its unfinished work included, is at most
  what it has read, and every reading beyond the first is a fault, be it a crash or an expired session; without faults the log before it carries one
  event of a kind per order. The same counts give `Refinement`: while nothing fails every step is a step of `OrderSettlement` or a stutter.
* **`OrderFlowProofs`**: the same causal argument for `StatusesAreTrue`, where the join needs that every
  result in `seen` is a fact (`SeenIsTrue`). `Refinement` needs three more parts: a request that has not
  sent yet has an order that is new to its topic (`RequestsAreNew`), a worker is at an
  announced order (`JobsAreTrue`), and the good results of an order, with the one that a worker is about to publish,
  are no more than its charges or reservations (`Backed`). `RepeatsAreFaults` counts as in the saga, with any number
  of faults: each makes up for one decision too many or one result too few.
* **`ReadModelProofs`**: `ResultsAreJoined` is inductive, one case per arm of `process_event`
  (`ApplyJoins`); `ViewsAreTrue` adds that an arm says only what its event says (`ApplySays`),
  that records stay, and that a good record has its charge or reservation in the ledger (`Backed`). `NotificationsBounded` counts assignments of the topics: every one but the current may have
  notified all records, the current one those below its position. With `Refinement` of
  `OrderFlowProofs` all of them hold for the feed of `OrderFlow`.
* **`PointCreditProofs`**: `CreditedOnce`, `BalancesAgree`, `CommittedCredited`, and
  `EffectivelyOnceImplemented`, whose mapping is explained in section 4. Behind them stands the
  bookkeeping of one life (`Balanced`, and `Matched` for the first one): between two messages a running loop
  has credited an event once per expiration at most, and once more if its key is in Redis; an event that waits for
  its key is one ahead, and stays so when the loop ends, which costs nothing because nobody
  credits any more. The refinement rests on what the crossing of the two steps leaves in order (`Orderly`): no event
  that is credited and unmarked has its key in Redis, and position and committed offset of a running loop stay within one record of each
  other, whichever of them a rejoin has left behind.
* **`DeadLetterProofs`**: `CommittedAccounted`, `OutcomesFollow`, `ListsRight`, and `TriageImplemented`, the
  mapping to `PaymentTriage`. The records before the
  committed offset and before the one that a `commit()` asks for have outcomes, and the position of a running loop is one payment
  away from the committed offset, on either side, because a rejoin may come before or after the commit is stored (`Reached`);
  every assignment of the partition, by a start or a rejoin, leaves room for one outcome more than the position, and
  a payment that is tried has not used it (`Counted`); only rejected payments, or any without an attempt,
  get letters (`LettersAreWrong`); and the lists count the copies below the two positions, with one payment more for each
  fault and, in the list that commits automatically, with all copies once more (`ProcessedListed`, `FailedListed`).
* **`ConsumerGroupProofs`**: `AtLeastOnce` and `LagIsSafe` follow from one statement about offsets: wherever
  one is held, as a position, in a commit on its way, on the broker or in the report, it covers received messages
  only (`Covers`), so whoever commits or is assigned what, offsets stay safe. `RepeatsAreGenerations` counts
  receptions together with the members that may still take the message, and with the owner that has not
  learnt of its partition (`Counted`): a rebalance makes room for one more, learning and taking use it up, and
  a member that does not know of its expulsion has been counted before. `ReceptionInOrder` maps every step to one
  of `GroupReception` or a stutter: a position covers received messages, so what is taken at it comes after them.

Model-checked only: the properties that need fairness (`AcceptedIsPublished`,
`Recovers`, `EveryPaymentAnswered`, `EveryOrderJudged`, `EveryEventNotified`,
`ViewCatchesUp`, `EveryPointCredited`, `EveryPaymentSettled`, `GroupCatchesUp` and the liveness part of the
refinements), which are out of the prover's reach. Every invariant that a run checks is proved.
`CommittedIsHandled`, `CommittedIsCredited` and `CommittedIsAccounted` are proved without a run of their own,
because the refinements that the runs check imply them.

## 6. Not modelled, and why

* Within the modelled chapters: amounts, items and wording; the histories of statuses; the GET
  endpoints, which only read; start and stop of HTTP and database clients; messages without an
  `event_id` header, which the relay never produces; duplicates made inside the Kafka producer by its
  own retries (they add copies that redelivery after a crash adds too); a second member in a consumer
  group of chapters 09, 11 and 12, which their compose files do not start. A restart of the payment
  client is its initial state again, because nothing is persisted.
* Records that a consumer cannot take in: bytes which the deserializer rejects, or JSON without the fields that the handlers
  read. No producer of the repository sends any. One that the deserializer rejects would raise in the iteration again after each
  start: the step `ConsumerEnds`, `LoopEnds` or `PaymentsFail`, again and again at one offset.
* In chapter 11: `event_log` and the histories of orders and views, which are only shown; the
  arm for `NOTIFICATION_SENT`, an event that no service publishes; the gateway, a stateless proxy.
* In chapters 03 to 08 and 10: the cut of a list that is full (`MAX_EVENTS`, 100 messages), which only a query
  sees; broker and cluster queries; a lag check of a process while another one runs; partitions that are
  added to a topic.
* Chapter 02 is the producer of chapter 03 without a consumer. Chapters 00 and 01 are shell scripts and
  prose. The serializers and schemas are conversions without state.

## 7. Plan

Done: every chapter that keeps state is modelled and checked, its invariants are proved, and every module has a
proved refinement, except the two readers of chapter 11, which are proved against the refined feed. What is left is a
promise of the read model in the form of section 4, a
second member in the groups of chapters 09, 11 and 12, for a deployment that scales their services out, and a lag
check of one process while another runs.
