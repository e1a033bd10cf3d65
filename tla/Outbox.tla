------------------------------- MODULE Outbox -------------------------------
(***************************************************************************)
(* The transactional outbox of 12-outbox-pattern: POST /orders writes the  *)
(* order and its event in one database transaction, relays move the rows   *)
(* of the outbox table to the topic order.events, and one consumer handles *)
(* each event behind an inbox table.                                       *)
(*                                                                         *)
(* Every request draws a fresh order_id and enqueues exactly one event     *)
(* with a fresh event_id, so the order stands for both ids and for the     *)
(* message that carries them.                                              *)
(***************************************************************************)
EXTENDS Integers, Sequences, FiniteSets

CONSTANTS
    Orders,       \* the orders clients may place
    Relays,       \* the OutboxRelay instances that poll the same table
    Partitions,   \* the partitions of order.events
    PartitionOf,  \* the partition that the key aggregate_id hashes to
    BatchSize,    \* RELAY_BATCH_SIZE
    MaxFaults,    \* bound: failed ticks, crashes, shutdowns and expired sessions of one
                  \* behaviour
    None          \* "no order"

ASSUME ConstantsAssumption ==
    /\ PartitionOf \in [Orders -> Partitions]
    /\ BatchSize \in Nat \ {0}
    /\ MaxFaults \in Nat
    /\ None \notin Orders

VARIABLES
    \* PostgreSQL, as committed
    orders,       \* rows of orders
    outbox,       \* rows of outbox
    publishedAt,  \* rows of outbox whose published_at is set
    processed,    \* rows of processed_events
    \* the create_order handlers and the BIGSERIAL sequence of outbox.id
    txn,          \* transaction of each request: "none", "open", "done"
    rowId,        \* outbox.id drawn by each order, 0 before
    lastId,       \* last value of the sequence
    \* the relays
    mode,         \* "running", "stopping" (stop event set), "down"
    batch,        \* rows the tick's SELECT has locked
    acked,        \* rows of the batch whose send_and_wait has returned
    sending,      \* the row send_and_wait is waiting for, or None
    stored,       \* the broker has stored the record being waited for
    \* Kafka
    log,          \* records of each partition
    stray,        \* records in flight that no relay waits for any more
    committed,    \* committed offset of the consumer group
    \* the consumer process
    consumerUp,
    position,     \* where getmany goes on in each partition
    next,         \* first message of each batch not handled yet
    fetchEnd,     \* end of each batch that getmany returned
    current,      \* the partitions whose messages are being handled (one, or none)
    handling,     \* event marked as processed whose business logic is next
    effects,      \* how often the business logic ran for each event
    faults        \* faults so far, for MaxFaults

dbVars == <<orders, outbox, publishedAt>>
txnVars == <<txn, rowId, lastId>>
relayVars == <<mode, batch, acked, sending, stored>>
brokerVars == <<log, stray>>
consumerVars == <<consumerUp, position, next, fetchEnd, current, handling>>
inboxVars == <<processed, effects, committed>>
vars == <<dbVars, txnVars, relayVars, brokerVars, consumerVars, inboxVars, faults>>

Init ==
    /\ orders = {} /\ outbox = {} /\ publishedAt = {} /\ processed = {}
    /\ txn = [o \in Orders |-> "none"]
    /\ rowId = [o \in Orders |-> 0]
    /\ lastId = 0
    /\ mode = [r \in Relays |-> "running"]
    /\ batch = [r \in Relays |-> {}]
    /\ acked = [r \in Relays |-> {}]
    /\ sending = [r \in Relays |-> None]
    /\ stored = [r \in Relays |-> FALSE]
    /\ log = [p \in Partitions |-> <<>>]
    /\ stray = [o \in Orders |-> 0]
    /\ committed = [p \in Partitions |-> 0]
    /\ consumerUp = TRUE
    /\ position = [p \in Partitions |-> 0]
    /\ next = [p \in Partitions |-> 0]
    /\ fetchEnd = [p \in Partitions |-> 0]
    /\ current = {}
    /\ handling = None
    /\ effects = [o \in Orders |-> 0]
    /\ faults = 0

-----------------------------------------------------------------------------
(* POST /orders                                                            *)

\* The flush at the end of session.begin(): both INSERTs run, the outbox row
\* takes the next value of the sequence, and nothing is visible outside yet.
CreateOrder(o) ==
    /\ txn[o] = "none"
    /\ txn' = [txn EXCEPT ![o] = "open"]
    /\ lastId' = lastId + 1
    /\ rowId' = [rowId EXCEPT ![o] = lastId + 1]
    /\ UNCHANGED <<dbVars, relayVars, brokerVars, consumerVars, inboxVars, faults>>

\* COMMIT makes the order and its event visible together.
CommitOrder(o) ==
    /\ txn[o] = "open"
    /\ txn' = [txn EXCEPT ![o] = "done"]
    /\ orders' = orders \cup {o}
    /\ outbox' = outbox \cup {o}
    /\ UNCHANGED <<publishedAt, rowId, lastId, relayVars, brokerVars, consumerVars,
                   inboxVars, faults>>

\* An exception or a crash before COMMIT rolls both INSERTs back; the value
\* of the sequence stays used.
AbortOrder(o) ==
    /\ txn[o] = "open"
    /\ txn' = [txn EXCEPT ![o] = "done"]
    /\ UNCHANGED <<dbVars, rowId, lastId, relayVars, brokerVars, consumerVars,
                   inboxVars, faults>>

-----------------------------------------------------------------------------
(* OutboxRelay                                                             *)

\* Defect: FOR UPDATE SKIP LOCKED is dropped from the SELECT.
ClaimableWithoutLocks == outbox \ publishedAt

\* Defect: the relay polls past the last published id instead of by published_at.
ClaimableByCursor ==
    {o \in outbox \ UNION {batch[r] : r \in Relays} :
        \A q \in publishedAt : rowId[q] < rowId[o]}

\* Rows that WHERE published_at IS NULL ... FOR UPDATE SKIP LOCKED sees.
Claimable == (outbox \ publishedAt) \ UNION {batch[r] : r \in Relays}

\* The results of ORDER BY id LIMIT batch on those rows.
Selections ==
    {S \in SUBSET Claimable :
        /\ S # {}
        /\ Cardinality(S) <= BatchSize
        /\ \A o \in S, q \in Claimable \ S : rowId[o] < rowId[q]
        /\ S # Claimable => Cardinality(S) = BatchSize}

\* The head of _tick. A SELECT without rows ends the tick and changes nothing.
Select(r) ==
    /\ mode[r] = "running"
    /\ batch[r] = {}
    /\ \E S \in Selections : batch' = [batch EXCEPT ![r] = S]
    /\ UNCHANGED <<dbVars, txnVars, mode, acked, sending, stored, brokerVars,
                   consumerVars, inboxVars, faults>>

\* _publish hands the next row of the batch, in id order, to send_and_wait.
Send(r) ==
    /\ sending[r] = None
    /\ \E o \in batch[r] \ acked[r] :
        /\ \A q \in batch[r] \ acked[r] : rowId[o] <= rowId[q]
        /\ sending' = [sending EXCEPT ![r] = o]
    /\ UNCHANGED <<dbVars, txnVars, mode, batch, acked, stored, brokerVars,
                   consumerVars, inboxVars, faults>>

Appended(o) == [log EXCEPT ![PartitionOf[o]] = Append(@, o)]

\* The broker stores the record; the acknowledgement is still on its way.
Store(r) ==
    /\ sending[r] # None
    /\ ~stored[r]
    /\ log' = Appended(sending[r])
    /\ stored' = [stored EXCEPT ![r] = TRUE]
    /\ UNCHANGED <<dbVars, txnVars, mode, batch, acked, sending, stray,
                   consumerVars, inboxVars, faults>>

\* Defect: send() instead of send_and_wait(), the record is only buffered.
SendWithoutWaiting(r) ==
    /\ sending[r] # None
    /\ acked' = [acked EXCEPT ![r] = @ \cup {sending[r]}]
    /\ sending' = [sending EXCEPT ![r] = None]
    /\ stored' = [stored EXCEPT ![r] = FALSE]
    /\ UNCHANGED <<dbVars, txnVars, mode, batch, brokerVars, consumerVars, inboxVars, faults>>

\* send_and_wait returns.
Acknowledge(r) ==
    /\ stored[r]
    /\ acked' = [acked EXCEPT ![r] = @ \cup {sending[r]}]
    /\ sending' = [sending EXCEPT ![r] = None]
    /\ stored' = [stored EXCEPT ![r] = FALSE]
    /\ UNCHANGED <<dbVars, txnVars, mode, batch, brokerVars, consumerVars, inboxVars, faults>>

\* Defect: the UPDATE marks the last published row instead of all of them.
MarkOnlyLast(r) ==
    /\ batch[r] # {} /\ acked[r] = batch[r]
    /\ \E o \in batch[r] :
        /\ \A q \in batch[r] : rowId[q] <= rowId[o]
        /\ publishedAt' = publishedAt \cup {o}
    /\ batch' = [batch EXCEPT ![r] = {}]
    /\ acked' = [acked EXCEPT ![r] = {}]
    /\ UNCHANGED <<orders, outbox, txnVars, mode, sending, stored, brokerVars,
                   consumerVars, inboxVars, faults>>

\* Defect: the UPDATE says WHERE published_at IS NULL instead of id = ANY(:ids).
MarkAllUnpublished(r) ==
    /\ batch[r] # {} /\ acked[r] = batch[r]
    /\ publishedAt' = outbox
    /\ batch' = [batch EXCEPT ![r] = {}]
    /\ acked' = [acked EXCEPT ![r] = {}]
    /\ UNCHANGED <<orders, outbox, txnVars, mode, sending, stored, brokerVars,
                   consumerVars, inboxVars, faults>>

\* The UPDATE of published_at for the whole batch and the COMMIT that ends
\* the transaction and releases the locks.
MarkPublished(r) ==
    /\ batch[r] # {} /\ acked[r] = batch[r]
    /\ publishedAt' = publishedAt \cup batch[r]
    /\ batch' = [batch EXCEPT ![r] = {}]
    /\ acked' = [acked EXCEPT ![r] = {}]
    /\ UNCHANGED <<orders, outbox, txnVars, mode, sending, stored, brokerVars,
                   consumerVars, inboxVars, faults>>

\* The transaction of the tick ends without its UPDATE: the locks are gone
\* and published_at stays NULL. A record sent but not stored yet is not
\* recalled: it may still reach the broker.
Rollback(r) ==
    /\ batch' = [batch EXCEPT ![r] = {}]
    /\ acked' = [acked EXCEPT ![r] = {}]
    /\ sending' = [sending EXCEPT ![r] = None]
    /\ stored' = [stored EXCEPT ![r] = FALSE]
    /\ stray' = IF sending[r] # None /\ ~stored[r]
                  THEN [stray EXCEPT ![sending[r]] = @ + 1] ELSE stray

Fault == faults < MaxFaults /\ faults' = faults + 1

\* Any exception of the tick: the send times out or is refused, the UPDATE
\* or the COMMIT fails. run() logs it and polls again.
TickFails(r) ==
    /\ Fault
    /\ batch[r] # {}
    /\ Rollback(r)
    /\ UNCHANGED <<dbVars, txnVars, mode, log, consumerVars, inboxVars>>

\* The process dies, or shutdown cancels the task after five seconds.
RelayCrash(r) ==
    /\ Fault
    /\ mode[r] # "down"
    /\ mode' = [mode EXCEPT ![r] = "down"]
    /\ Rollback(r)
    /\ UNCHANGED <<dbVars, txnVars, log, consumerVars, inboxVars>>

\* lifespan's shutdown sets the stop event; a tick under way goes on.
RequestStop(r) ==
    /\ Fault
    /\ mode[r] = "running"
    /\ mode' = [mode EXCEPT ![r] = "stopping"]
    /\ UNCHANGED <<dbVars, txnVars, batch, acked, sending, stored, brokerVars,
                   consumerVars, inboxVars>>

\* The loop of run() sees the stop event between two ticks and ends.
RelayStops(r) ==
    /\ mode[r] = "stopping"
    /\ batch[r] = {}
    /\ mode' = [mode EXCEPT ![r] = "down"]
    /\ UNCHANGED <<dbVars, txnVars, batch, acked, sending, stored, brokerVars,
                   consumerVars, inboxVars, faults>>

\* The service starts again, with a new OutboxRelay.
RelayStarts(r) ==
    /\ mode[r] = "down"
    /\ mode' = [mode EXCEPT ![r] = "running"]
    /\ UNCHANGED <<dbVars, txnVars, batch, acked, sending, stored, brokerVars,
                   consumerVars, inboxVars, faults>>

\* A record whose sender gave up on it is stored after all, or lost.
StrayArrives(o) ==
    /\ stray[o] > 0
    /\ stray' = [stray EXCEPT ![o] = @ - 1]
    /\ log' \in {log, Appended(o)}
    /\ UNCHANGED <<dbVars, txnVars, relayVars, consumerVars, inboxVars, faults>>

-----------------------------------------------------------------------------
(* consume()                                                               *)

LongestLog == CHOOSE n \in {Len(log[p]) : p \in Partitions} :
                 \A p \in Partitions : Len(log[p]) <= n

\* getmany returns some of the records after the position of each partition.
Fetch ==
    /\ consumerUp
    /\ current = {}
    /\ next = fetchEnd
    /\ \E upTo \in [Partitions -> 0 .. LongestLog] :
        /\ \A p \in Partitions : position[p] <= upTo[p] /\ upTo[p] <= Len(log[p])
        /\ upTo # position
        /\ fetchEnd' = upTo /\ position' = upTo
    /\ next' = position
    /\ UNCHANGED <<dbVars, txnVars, relayVars, brokerVars, consumerUp, current,
                   handling, inboxVars, faults>>

\* Defect: mark and check are not one statement, the event counts as new.
MarkWithoutCheck(p) ==
    /\ consumerUp /\ handling = None
    /\ current \subseteq {p}
    /\ next[p] < fetchEnd[p]
    /\ current' = {p}
    /\ processed' = processed \cup {log[p][next[p] + 1]}
    /\ handling' = log[p][next[p] + 1]
    /\ UNCHANGED <<dbVars, txnVars, relayVars, brokerVars, consumerUp, position, next,
                   fetchEnd, effects, committed, faults>>

\* _mark_processed for the next message of a partition, in a transaction of
\* its own: a known event is skipped, a new one goes on to the business logic.
MarkProcessed(p) ==
    /\ consumerUp /\ handling = None
    /\ current \subseteq {p}
    /\ next[p] < fetchEnd[p]
    /\ current' = {p}
    /\ LET o == log[p][next[p] + 1] IN
        \/ /\ o \in processed
           /\ next' = [next EXCEPT ![p] = @ + 1]
           /\ UNCHANGED <<processed, handling>>
        \/ /\ o \notin processed
           /\ processed' = processed \cup {o}
           /\ handling' = o
           /\ UNCHANGED next
    /\ UNCHANGED <<dbVars, txnVars, relayVars, brokerVars, consumerUp, position, fetchEnd,
                   effects, committed, faults>>

\* The place of the business logic, after the mark is committed.
HandleEvent(p) ==
    /\ consumerUp /\ handling # None
    /\ p \in current
    /\ effects' = [effects EXCEPT ![handling] = @ + 1]
    /\ handling' = None
    /\ next' = [next EXCEPT ![p] = @ + 1]
    /\ UNCHANGED <<dbVars, txnVars, relayVars, brokerVars, consumerUp, position, fetchEnd,
                   current, processed, committed, faults>>

\* Defect: the offset is committed as soon as a message of the batch is done.
CommitEarly(p) ==
    /\ consumerUp /\ handling = None
    /\ p \in current
    /\ committed' = [committed EXCEPT ![p] = fetchEnd[p]]
    /\ current' = {}
    /\ UNCHANGED <<dbVars, txnVars, relayVars, brokerVars, consumerUp, position, next,
                   fetchEnd, handling, processed, effects, faults>>

\* commit({tp: messages[-1].offset + 1}) once the partition's messages are done.
CommitOffset(p) ==
    /\ consumerUp /\ handling = None
    /\ p \in current
    /\ next[p] = fetchEnd[p]
    /\ committed' = [committed EXCEPT ![p] = next[p]]
    /\ current' = {}
    /\ UNCHANGED <<dbVars, txnVars, relayVars, brokerVars, consumerUp, position, next,
                   fetchEnd, handling, processed, effects, faults>>

\* The session expires and aiokafka joins again in the background: getmany will go on at
\* the committed offsets, while the batch at hand is handled and committed to its end.
ConsumerRejoins ==
    /\ Fault
    /\ consumerUp
    /\ position' = committed
    /\ UNCHANGED <<dbVars, txnVars, relayVars, brokerVars, consumerUp, next, fetchEnd,
                   current, handling, inboxVars>>

\* The process dies at any point, an exception of the database or of the
\* commit included: nothing inside consume() catches one.
ConsumerCrash ==
    /\ Fault
    /\ consumerUp
    /\ consumerUp' = FALSE
    /\ position' = committed
    /\ next' = committed
    /\ fetchEnd' = committed
    /\ current' = {}
    /\ handling' = None
    /\ UNCHANGED <<dbVars, txnVars, relayVars, brokerVars, inboxVars>>

\* restart: on-failure. The group resumes at the committed offsets.
ConsumerStarts ==
    /\ ~consumerUp
    /\ consumerUp' = TRUE
    /\ UNCHANGED <<dbVars, txnVars, relayVars, brokerVars, position, next, fetchEnd, current,
                   handling, inboxVars, faults>>

-----------------------------------------------------------------------------

RelayStep(r) ==
    \/ Select(r) \/ Send(r) \/ Store(r) \/ Acknowledge(r) \/ MarkPublished(r)
    \/ RelayStops(r) \/ RelayStarts(r)

ConsumerStep ==
    \/ Fetch \/ ConsumerStarts
    \/ \E p \in Partitions : MarkProcessed(p) \/ HandleEvent(p) \/ CommitOffset(p)

Next ==
    \/ \E o \in Orders : CreateOrder(o) \/ CommitOrder(o) \/ AbortOrder(o) \/ StrayArrives(o)
    \/ \E r \in Relays : RelayStep(r) \/ TickFails(r) \/ RelayCrash(r) \/ RequestStop(r)
    \/ ConsumerStep
    \/ ConsumerRejoins \/ ConsumerCrash

Spec == Init /\ [][Next]_vars

\* The event loops of the relays and of the consumer run on; containers that
\* went down are started again. Clients, faults and the network owe nothing.
Fairness ==
    /\ \A r \in Relays : WF_vars(RelayStep(r))
    /\ WF_vars(ConsumerStep)

FairSpec == Spec /\ Fairness

-----------------------------------------------------------------------------
(* Properties                                                              *)

TablesOK ==
    /\ orders \subseteq Orders /\ outbox \subseteq Orders /\ publishedAt \subseteq Orders
    /\ txn \in [Orders -> {"none", "open", "done"}]
    /\ rowId \in [Orders -> Nat]
    /\ lastId \in Nat

RelaysOK ==
    /\ mode \in [Relays -> {"running", "stopping", "down"}]
    /\ batch \in [Relays -> SUBSET Orders]
    /\ acked \in [Relays -> SUBSET Orders]
    /\ sending \in [Relays -> Orders \cup {None}]
    /\ stored \in [Relays -> BOOLEAN]

TopicOK == log \in [Partitions -> Seq(Orders)] /\ stray \in [Orders -> Nat]

ConsumerOK ==
    /\ consumerUp \in BOOLEAN
    /\ position \in [Partitions -> Nat]
    /\ next \in [Partitions -> Nat]
    /\ fetchEnd \in [Partitions -> Nat]
    /\ current \subseteq Partitions
    /\ handling \in Orders \cup {None}

InboxOK ==
    /\ processed \subseteq Orders
    /\ effects \in [Orders -> Nat]
    /\ committed \in [Partitions -> Nat]

\* Every variable stays in its domain.
TypeOK == TablesOK /\ RelaysOK /\ TopicOK /\ ConsumerOK /\ InboxOK /\ faults \in Nat

InLog(o) == \E i \in 1 .. Len(log[PartitionOf[o]]) : log[PartitionOf[o]][i] = o

\* The topic never carries the event of an order that is not in the orders
\* table, whatever commits, rollbacks and late records happen: the ghost
\* order of the dual write that the single transaction of POST /orders rules out.
NoGhostEvent ==
    \A p \in Partitions : \A i \in 1 .. Len(log[p]) : log[p][i] \in orders

\* A row whose published_at is set is on the topic: relay failures between
\* the send, the UPDATE and the COMMIT never mark an event that was not stored.
MarkedIsPublished == \A o \in publishedAt : InLog(o)

\* Two relays never work on the same row, and none on a row already marked
\* as published, however their ticks interleave.
ExclusiveClaim ==
    /\ \A r, s \in Relays : r # s => batch[r] \cap batch[s] = {}
    /\ \A r \in Relays : batch[r] \cap publishedAt = {}

\* A second copy of an event takes a failed tick or a dead relay: scaling out
\* relays alone publishes no row twice.
DuplicatesNeedFaults ==
    \A o \in Orders :
        Cardinality({i \in 1 .. Len(log[PartitionOf[o]]) : log[PartitionOf[o]][i] = o})
            + stray[o] <= 1 + faults

\* The business logic runs at most once per event, in spite of duplicates on
\* the topic, of crashes and expired sessions of the consumer and of offsets read again.
HandledAtMostOnce == \A o \in Orders : effects[o] <= 1

\* The group's offset never passes an event that is not in the inbox, also where the
\* batch of an expired session is committed after the group has gone back.
CommittedIsReceived ==
    \A p \in Partitions :
        /\ committed[p] <= Len(log[p])
        /\ \A i \in 1 .. committed[p] : log[p][i] \in processed

\* Every accepted order is eventually marked as published, although ticks
\* fail, relays die and shut down.
AcceptedIsPublished == \A o \in Orders : o \in orders ~> o \in publishedAt

Delivery == INSTANCE EventDelivery WITH
    accepted <- orders, delivered <- {o \in Orders : InLog(o)},
    confirmed <- publishedAt, received <- processed, runs <- effects

\* The outbox implements the promise of EventDelivery, liveness included.
ImplementsDelivery == Delivery!FairSpec

=============================================================================
