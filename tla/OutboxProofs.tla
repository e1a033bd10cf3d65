---------------------------- MODULE OutboxProofs ----------------------------
(***************************************************************************)
(* Theorems about Outbox for any set of orders, relays and partitions, any *)
(* batch size and any number of faults. The properties are not inductive   *)
(* on their own: a batch may be marked only because every acknowledged row *)
(* is on the topic, an acknowledgement says so only because the broker     *)
(* stored the row that the relay waits for, and an offset may be committed *)
(* only because it never overtakes what was fetched. IInv says all of it.  *)
(* Duplicates are bounded by counting: one copy belongs to the row itself, *)
(* and every other one takes a fault that no other copy takes.             *)
(***************************************************************************)
EXTENDS Outbox, SequenceTheorems, FiniteSetTheorems, TLAPS

-----------------------------------------------------------------------------
(* The inductive invariant                                                 *)

\* Orders and events are committed together; what travels is committed.
TableInv ==
    /\ outbox = orders
    /\ \A o \in Orders : stray[o] > 0 => o \in orders

\* Each event is in the partition of its key.
KeyInv == \A p \in Partitions : \A i \in 1 .. Len(log[p]) : PartitionOf[log[p][i]] = p

\* A relay waits for a row it has locked, and what it believes to be on the
\* topic is there.
RelayKnows(r) ==
    /\ batch[r] \subseteq outbox
    /\ acked[r] \subseteq batch[r]
    /\ sending[r] # None => sending[r] \in batch[r] \ acked[r]
    /\ stored[r] => sending[r] # None /\ InLog(sending[r])
    /\ \A o \in acked[r] : InLog(o)

RelayInv == \A r \in Relays : RelayKnows(r)

\* The batch, the position and the committed offset end within the log.
OffsetInv ==
    \A p \in Partitions :
        /\ next[p] <= fetchEnd[p] /\ fetchEnd[p] <= Len(log[p])
        /\ committed[p] <= Len(log[p]) /\ position[p] <= Len(log[p])

\* The messages before the next one of a batch, and those before a committed offset, are
\* in the inbox; those before the position are there too, or up to the end of the batch.
InboxInv ==
    \A p \in Partitions :
        /\ \A i \in 1 .. next[p] : log[p][i] \in processed
        /\ \A i \in 1 .. committed[p] : log[p][i] \in processed
        /\ \A i \in 1 .. position[p] : i <= fetchEnd[p] \/ log[p][i] \in processed

\* The event between mark and business logic is the one at the position, and
\* the business logic has run for events of the inbox only.
HandlingInv ==
    /\ handling # None =>
        /\ handling \in processed
        /\ effects[handling] = 0
        /\ \A p \in current : next[p] < fetchEnd[p] /\ log[p][next[p] + 1] = handling
    /\ \A o \in Orders : effects[o] # 0 => o \in processed /\ effects[o] = 1

IInv ==
    /\ TypeOK /\ TableInv /\ KeyInv /\ RelayInv /\ OffsetInv /\ InboxInv /\ HandlingInv
    /\ NoGhostEvent /\ MarkedIsPublished /\ ExclusiveClaim

-----------------------------------------------------------------------------
(* The log only grows at its end                                           *)

\* Every record keeps its offset.
LogKept ==
    \A p \in Partitions :
        /\ Len(log[p]) <= Len(log'[p])
        /\ \A i \in 1 .. Len(log[p]) : log'[p][i] = log[p][i]

\* An append keeps every offset and adds one record.
LEMMA AppendFacts ==
    ASSUME TypeOK, NEW q \in Orders, log' = Appended(q)
    PROVE  /\ log' \in [Partitions -> Seq(Orders)]
           /\ LogKept
           /\ InLog(q)'
           /\ \A p \in Partitions : \A i \in 1 .. Len(log'[p]) :
                 i \in 1 .. Len(log[p]) \/ (log'[p][i] = q /\ p = PartitionOf[q])
<1>1. PartitionOf[q] \in Partitions
  BY ConstantsAssumption
<1>2. log \in [Partitions -> Seq(Orders)]
  BY DEF TypeOK, TopicOK
<1>3. log'[PartitionOf[q]] = Append(log[PartitionOf[q]], q)
  BY <1>1, <1>2 DEF Appended
<1>4. \A p \in Partitions : p # PartitionOf[q] => log'[p] = log[p]
  BY <1>1, <1>2 DEF Appended
<1>5. log[PartitionOf[q]] \in Seq(Orders)
  BY <1>1, <1>2
<1>6. log' \in [Partitions -> Seq(Orders)]
  BY <1>1, <1>2, <1>5 DEF Appended
<1>a. /\ Len(log'[PartitionOf[q]]) = Len(log[PartitionOf[q]]) + 1
      /\ Len(log[PartitionOf[q]]) \in Nat
      /\ \A i \in 1 .. Len(log[PartitionOf[q]]) : log'[PartitionOf[q]][i] = log[PartitionOf[q]][i]
      /\ log'[PartitionOf[q]][Len(log[PartitionOf[q]]) + 1] = q
  BY <1>3, <1>5, AppendProperties, LenProperties
<1>b. \A p \in Partitions : Len(log[p]) \in Nat
  BY <1>2, LenProperties
<1>7. LogKept
  <2> SUFFICES ASSUME NEW p \in Partitions
               PROVE  /\ Len(log[p]) <= Len(log'[p])
                      /\ \A i \in 1 .. Len(log[p]) : log'[p][i] = log[p][i]
    BY DEF LogKept
  <2>1. CASE p = PartitionOf[q]
    BY <1>a, <2>1
  <2>2. CASE p # PartitionOf[q]
    <3>1. log'[p] = log[p]
      BY <1>4, <2>2
    <3> QED BY <1>b, <3>1
  <2> QED BY <2>1, <2>2
<1>8. InLog(q)'
  <2>1. Len(log[PartitionOf[q]]) + 1 \in 1 .. Len(log'[PartitionOf[q]])
    BY <1>a
  <2> QED BY <1>a, <2>1 DEF InLog
<1>9. \A p \in Partitions : \A i \in 1 .. Len(log'[p]) :
          i \in 1 .. Len(log[p]) \/ (log'[p][i] = q /\ p = PartitionOf[q])
  <2> SUFFICES ASSUME NEW p \in Partitions, NEW i \in 1 .. Len(log'[p])
               PROVE  i \in 1 .. Len(log[p]) \/ (log'[p][i] = q /\ p = PartitionOf[q])
    OBVIOUS
  <2>1. CASE p # PartitionOf[q]
    <3>1. log'[p] = log[p]
      BY <1>4, <2>1
    <3>2. i \in 1 .. Len(log[p])
      BY <3>1
    <3> QED BY <3>2
  <2>2. CASE p = PartitionOf[q]
    <3>1. i \in 1 .. Len(log[p]) + 1
      BY <1>a, <2>2
    <3>2. i = Len(log[p]) + 1 => log'[p][i] = q
      BY <1>a, <2>2
    <3>3. Len(log[p]) \in Nat
      BY <1>b
    <3> QED BY <2>2, <3>1, <3>2, <3>3
  <2> QED BY <2>1, <2>2
<1> QED BY <1>6, <1>7, <1>8, <1>9

\* What is on the topic stays there.
LEMMA InLogKept ==
    ASSUME TypeOK, LogKept, log' \in [Partitions -> Seq(Orders)], NEW o \in Orders, InLog(o)
    PROVE  InLog(o)'
<1>1. PartitionOf[o] \in Partitions
  BY ConstantsAssumption
<1>2. PICK i \in 1 .. Len(log[PartitionOf[o]]) : log[PartitionOf[o]][i] = o
  BY DEF InLog
<1>3. log'[PartitionOf[o]][i] = o
  BY <1>1, <1>2 DEF LogKept
<1>4. i \in 1 .. Len(log'[PartitionOf[o]])
  <2>0. log[PartitionOf[o]] \in Seq(Orders) /\ log'[PartitionOf[o]] \in Seq(Orders)
    BY <1>1 DEF TypeOK, TopicOK
  <2>1. Len(log[PartitionOf[o]]) \in Nat /\ Len(log'[PartitionOf[o]]) \in Nat
    BY <2>0, LenProperties
  <2>2. Len(log[PartitionOf[o]]) <= Len(log'[PartitionOf[o]])
    BY <1>1, Zenon DEF LogKept
  <2> QED BY <2>1, <2>2
<1> QED BY <1>3, <1>4 DEF InLog

\* Only Store and StrayArrives write, and they write the event of an order
\* that has committed.
LEMMA LogStep ==
    ASSUME IInv, Next
    PROVE  log' = log \/ \E q \in orders : log' = Appended(q)
<1> USE DEF dbVars, txnVars, relayVars, brokerVars, consumerVars, inboxVars
<1>1. ASSUME NEW r \in Relays, Store(r) PROVE \E q \in orders : log' = Appended(q)
  BY <1>1 DEF Store, IInv, RelayInv, RelayKnows, TableInv
<1>2. ASSUME NEW o \in Orders, StrayArrives(o)
      PROVE log' = log \/ \E q \in orders : log' = Appended(q)
  <2>1. o \in orders
    BY <1>2 DEF StrayArrives, IInv, TableInv
  <2>2. log' \in {log, Appended(o)}
    BY <1>2 DEF StrayArrives
  <2> QED BY <2>1, <2>2
<1>3. ASSUME NEW o \in Orders, CreateOrder(o) \/ CommitOrder(o) \/ AbortOrder(o) PROVE log' = log
  BY <1>3 DEF CreateOrder, CommitOrder, AbortOrder
<1>4. ASSUME NEW r \in Relays,
             \/ Select(r) \/ Send(r) \/ Acknowledge(r) \/ MarkPublished(r)
             \/ RelayStops(r) \/ RelayStarts(r) \/ RequestStop(r)
             \/ TickFails(r) \/ RelayCrash(r)
      PROVE log' = log
  BY <1>4 DEF Select, Send, Acknowledge, MarkPublished, RelayStops, RelayStarts, RequestStop,
              TickFails, RelayCrash
<1>5. ASSUME ConsumerStep \/ ConsumerRejoins \/ ConsumerCrash PROVE log' = log
  BY <1>5 DEF ConsumerStep, ConsumerRejoins, ConsumerCrash, ConsumerStarts, Fetch, MarkProcessed, HandleEvent,
              CommitOffset
<1> QED BY <1>1, <1>2, <1>3, <1>4, <1>5 DEF Next, RelayStep

\* Offsets keep their records in every step.
LEMMA StepKeepsLog ==
    ASSUME IInv, Next
    PROVE  LogKept /\ log' \in [Partitions -> Seq(Orders)]
<1>1. CASE log' = log
  BY <1>1 DEF LogKept, IInv, TypeOK, TopicOK
<1>2. ASSUME NEW q \in orders, log' = Appended(q)
      PROVE LogKept /\ log' \in [Partitions -> Seq(Orders)]
  BY <1>2, AppendFacts DEF IInv, TypeOK, TablesOK
<1> QED BY <1>1, <1>2, LogStep

-----------------------------------------------------------------------------
(* Every step keeps the invariant                                          *)

\* No step takes a variable out of its domain. MarkProcessed needs OffsetInv to
\* read inside the log, Acknowledge needs RelayInv to acknowledge a row.
LEMMA TypeStep == IInv /\ Next => TypeOK'
<1> SUFFICES ASSUME IInv, Next PROVE TypeOK'
  OBVIOUS
<1>i. /\ TablesOK /\ RelaysOK /\ TopicOK /\ ConsumerOK /\ InboxOK /\ faults \in Nat
      /\ OffsetInv /\ RelayInv
  BY DEF IInv, TypeOK
<1>l. log' \in [Partitions -> Seq(Orders)]
  BY StepKeepsLog
<1>a. UNCHANGED <<dbVars, txnVars>> => TablesOK'
  BY <1>i DEF TablesOK, dbVars, txnVars
<1>b. UNCHANGED relayVars => RelaysOK'
  BY <1>i DEF RelaysOK, relayVars
<1>c. UNCHANGED stray => TopicOK'
  BY <1>i, <1>l DEF TopicOK
<1>d. UNCHANGED consumerVars => ConsumerOK'
  BY <1>i DEF ConsumerOK, consumerVars
<1>e. UNCHANGED inboxVars => InboxOK'
  BY <1>i DEF InboxOK, inboxVars
<1>f. UNCHANGED faults \/ Fault => faults' \in Nat
  BY <1>i DEF Fault
<1>g. UNCHANGED brokerVars => UNCHANGED stray
  BY DEF brokerVars
<1> USE DEF TypeOK
<1>1. ASSUME NEW o \in Orders, CreateOrder(o) PROVE TypeOK'
  <2>1. TablesOK'
    BY <1>i, <1>1 DEF TablesOK, CreateOrder, dbVars
  <2> QED BY <1>1, <1>b, <1>c, <1>d, <1>e, <1>f, <1>g, <2>1 DEF CreateOrder
<1>2. ASSUME NEW o \in Orders, CommitOrder(o) PROVE TypeOK'
  <2>1. TablesOK'
    BY <1>i, <1>2 DEF TablesOK, CommitOrder
  <2> QED BY <1>2, <1>b, <1>c, <1>d, <1>e, <1>f, <1>g, <2>1 DEF CommitOrder
<1>3. ASSUME NEW o \in Orders, AbortOrder(o) PROVE TypeOK'
  <2>1. TablesOK'
    BY <1>i, <1>3 DEF TablesOK, AbortOrder, dbVars
  <2> QED BY <1>3, <1>b, <1>c, <1>d, <1>e, <1>f, <1>g, <2>1 DEF AbortOrder
<1>4. ASSUME NEW o \in Orders, StrayArrives(o) PROVE TypeOK'
  <2>1. TopicOK'
    BY <1>i, <1>l, <1>4 DEF TopicOK, StrayArrives
  <2> QED BY <1>4, <1>a, <1>b, <1>d, <1>e, <1>f, <2>1 DEF StrayArrives
<1>5. ASSUME NEW r \in Relays, Select(r) PROVE TypeOK'
  <2>1. PICK S \in Selections : batch' = [batch EXCEPT ![r] = S]
    BY <1>5 DEF Select
  <2>2. S \subseteq Orders
    BY <1>i DEF Selections, Claimable, TablesOK
  <2>3. RelaysOK'
    BY <1>i, <1>5, <2>1, <2>2 DEF RelaysOK, Select
  <2> QED BY <1>5, <1>a, <1>c, <1>d, <1>e, <1>f, <1>g, <2>3 DEF Select
<1>6. ASSUME NEW r \in Relays, Send(r) PROVE TypeOK'
  <2>1. RelaysOK'
    BY <1>i, <1>6 DEF RelaysOK, Send
  <2> QED BY <1>6, <1>a, <1>c, <1>d, <1>e, <1>f, <1>g, <2>1 DEF Send
<1>7. ASSUME NEW r \in Relays, Store(r) PROVE TypeOK'
  <2>1. RelaysOK'
    BY <1>i, <1>7 DEF RelaysOK, Store
  <2> QED BY <1>7, <1>a, <1>c, <1>d, <1>e, <1>f, <2>1 DEF Store
<1>8. ASSUME NEW r \in Relays, Acknowledge(r) PROVE TypeOK'
  <2>1. sending[r] \in Orders
    BY <1>i, <1>8 DEF Acknowledge, RelayInv, RelayKnows, RelaysOK
  <2>2. RelaysOK'
    BY <1>i, <1>8, <2>1 DEF RelaysOK, Acknowledge
  <2> QED BY <1>8, <1>a, <1>c, <1>d, <1>e, <1>f, <1>g, <2>2 DEF Acknowledge
<1>9. ASSUME NEW r \in Relays, MarkPublished(r) PROVE TypeOK'
  <2>1. RelaysOK'
    BY <1>i, <1>9 DEF RelaysOK, MarkPublished
  <2>2. TablesOK'
    BY <1>i, <1>9 DEF TablesOK, RelaysOK, MarkPublished, txnVars
  <2> QED BY <1>9, <1>c, <1>d, <1>e, <1>f, <1>g, <2>1, <2>2 DEF MarkPublished
<1>10. ASSUME NEW r \in Relays, RelayStops(r) \/ RelayStarts(r) \/ RequestStop(r) PROVE TypeOK'
  <2>1. RelaysOK'
    BY <1>i, <1>10 DEF RelaysOK, RelayStops, RelayStarts, RequestStop
  <2> QED BY <1>10, <1>a, <1>c, <1>d, <1>e, <1>f, <1>g, <2>1 DEF RelayStops, RelayStarts, RequestStop
<1>11. ASSUME NEW r \in Relays, TickFails(r) \/ RelayCrash(r) PROVE TypeOK'
  <2>1. mode' \in [Relays -> {"running", "stopping", "down"}] /\ Rollback(r)
    BY <1>i, <1>11 DEF RelaysOK, TickFails, RelayCrash
  <2>2. RelaysOK'
    BY <1>i, <2>1 DEF RelaysOK, Rollback
  <2>3. stray' \in [Orders -> Nat]
    BY <1>i, <2>1 DEF RelaysOK, TopicOK, Rollback
  <2>4. TopicOK'
    BY <1>l, <2>3 DEF TopicOK
  <2> QED BY <1>11, <1>a, <1>d, <1>e, <1>f, <2>2, <2>4 DEF TickFails, RelayCrash
<1>12. ASSUME Fetch PROVE TypeOK'
  <2>1. ConsumerOK'
    BY <1>i, <1>12 DEF ConsumerOK, Fetch
  <2> QED BY <1>12, <1>a, <1>b, <1>c, <1>e, <1>f, <1>g, <2>1 DEF Fetch
<1>13. ASSUME ConsumerStarts PROVE TypeOK'
  <2>1. ConsumerOK'
    BY <1>i, <1>13 DEF ConsumerOK, ConsumerStarts
  <2> QED BY <1>13, <1>a, <1>b, <1>c, <1>e, <1>f, <1>g, <2>1 DEF ConsumerStarts
<1>14. ASSUME ConsumerRejoins \/ ConsumerCrash PROVE TypeOK'
  <2>1. ConsumerOK'
    BY <1>i, <1>14 DEF ConsumerOK, InboxOK, ConsumerRejoins, ConsumerCrash
  <2> QED BY <1>14, <1>a, <1>b, <1>c, <1>e, <1>f, <1>g, <2>1 DEF ConsumerRejoins, ConsumerCrash
<1>15. ASSUME NEW p \in Partitions, MarkProcessed(p) PROVE TypeOK'
  <2> DEFINE e == log[p][next[p] + 1]
  <2>1. e \in Orders
    BY <1>i, <1>15 DEF ConsumerOK, TopicOK, OffsetInv, MarkProcessed
  <2>2. \/ next' = [next EXCEPT ![p] = @ + 1] /\ UNCHANGED <<processed, handling>>
        \/ next' = next /\ processed' = processed \cup {e} /\ handling' = e
    BY <1>15, Zenon DEF MarkProcessed
  <2>3. /\ current' = {p}
        /\ UNCHANGED <<dbVars, txnVars, relayVars, brokerVars, consumerUp, position, fetchEnd,
                       effects, committed, faults>>
    BY <1>15 DEF MarkProcessed
  <2>4. ConsumerOK'
    BY <1>i, <2>1, <2>2, <2>3 DEF ConsumerOK
  <2>5. InboxOK'
    BY <1>i, <2>1, <2>2, <2>3 DEF InboxOK
  <2> QED BY <2>3, <1>a, <1>b, <1>c, <1>f, <1>g, <2>4, <2>5
<1>16. ASSUME NEW p \in Partitions, HandleEvent(p) PROVE TypeOK'
  <2>1. ConsumerOK'
    BY <1>i, <1>16 DEF ConsumerOK, HandleEvent
  <2>2. InboxOK'
    BY <1>i, <1>16 DEF ConsumerOK, InboxOK, HandleEvent
  <2> QED BY <1>16, <1>a, <1>b, <1>c, <1>f, <1>g, <2>1, <2>2 DEF HandleEvent
<1>17. ASSUME NEW p \in Partitions, CommitOffset(p) PROVE TypeOK'
  <2>1. ConsumerOK'
    BY <1>i, <1>17 DEF ConsumerOK, CommitOffset
  <2>2. InboxOK'
    BY <1>i, <1>17 DEF ConsumerOK, InboxOK, CommitOffset
  <2> QED BY <1>17, <1>a, <1>b, <1>c, <1>f, <1>g, <2>1, <2>2 DEF CommitOffset
<1> HIDE DEF TypeOK
<1> QED
  BY <1>1, <1>2, <1>3, <1>4, <1>5, <1>6, <1>7, <1>8, <1>9, <1>10, <1>11, <1>12, <1>13, <1>14,
     <1>15, <1>16, <1>17 DEF Next, RelayStep, ConsumerStep

\* What each group of actions leaves alone, for the lemmas that follow.
LEMMA Frames ==
    ASSUME Next
    PROVE  /\ orders \subseteq orders' /\ outbox \subseteq outbox'
           /\ processed \subseteq processed'
           /\ \/ \E o \in Orders : CreateOrder(o) \/ CommitOrder(o) \/ AbortOrder(o) \/ StrayArrives(o)
              \/ \E r \in Relays : RelayStep(r) \/ TickFails(r) \/ RelayCrash(r) \/ RequestStop(r)
              \/ UNCHANGED <<dbVars, txnVars, relayVars, brokerVars>>
           /\ \/ UNCHANGED <<consumerVars, inboxVars>>
              \/ ConsumerStep
              \/ ConsumerRejoins \/ ConsumerCrash
<1> USE DEF dbVars, txnVars, relayVars, brokerVars, consumerVars, inboxVars
<1>1. ASSUME NEW o \in Orders, CreateOrder(o) \/ CommitOrder(o) \/ AbortOrder(o) \/ StrayArrives(o)
      PROVE /\ orders \subseteq orders' /\ outbox \subseteq outbox'
            /\ UNCHANGED <<consumerVars, inboxVars>>
  BY <1>1 DEF CreateOrder, CommitOrder, AbortOrder, StrayArrives
<1>2. ASSUME NEW r \in Relays, RelayStep(r)
      PROVE /\ orders' = orders /\ outbox' = outbox
            /\ UNCHANGED <<consumerVars, inboxVars>>
  BY <1>2 DEF RelayStep, Select, Send, Store, Acknowledge, MarkPublished, RelayStops, RelayStarts
<1>3. ASSUME NEW r \in Relays, TickFails(r) \/ RelayCrash(r) \/ RequestStop(r)
      PROVE /\ orders' = orders /\ outbox' = outbox
            /\ UNCHANGED <<consumerVars, inboxVars>>
  BY <1>3 DEF TickFails, RelayCrash, RequestStop
<1>4. ASSUME ConsumerStep
      PROVE UNCHANGED <<dbVars, txnVars, relayVars, brokerVars>> /\ processed \subseteq processed'
  BY <1>4 DEF ConsumerStep, Fetch, ConsumerStarts, MarkProcessed, HandleEvent, CommitOffset
<1>5. ASSUME ConsumerRejoins \/ ConsumerCrash
      PROVE UNCHANGED <<dbVars, txnVars, relayVars, brokerVars>> /\ processed' = processed
  BY <1>5 DEF ConsumerRejoins, ConsumerCrash
<1> QED
  BY <1>1, <1>2, <1>3, <1>4, <1>5 DEF Next

\* Only CommitOrder adds rows, to both tables; only a rollback leaves a record
\* in flight, and its row is one the relay had locked.
LEMMA TableStep == IInv /\ Next => TableInv'
<1> USE DEF dbVars, txnVars, relayVars, brokerVars, consumerVars, inboxVars
<1>1. ASSUME TableInv, NEW o \in Orders, CommitOrder(o) PROVE TableInv'
  BY <1>1 DEF TableInv, CommitOrder
<1>2. ASSUME TypeOK, TableInv, NEW o \in Orders, StrayArrives(o) PROVE TableInv'
  BY <1>2 DEF TypeOK, TableInv, StrayArrives
<1>3. ASSUME TypeOK, TableInv, RelayInv, NEW r \in Relays, Rollback(r),
             UNCHANGED <<orders, outbox>>
      PROVE TableInv'
  <2>1. CASE sending[r] # None
    <3>1. sending[r] \in orders
      BY <1>3, <2>1 DEF RelayInv, RelayKnows, TableInv
    <3>2. \A q \in Orders : q # sending[r] => stray'[q] = stray[q]
      BY <1>3, <2>1 DEF Rollback, TypeOK
    <3> QED BY <1>3, <3>1, <3>2 DEF TableInv
  <2>2. CASE sending[r] = None
    BY <1>3, <2>2 DEF TableInv, Rollback
  <2> QED BY <2>1, <2>2
<1>4. ASSUME NEW r \in Relays, TickFails(r) \/ RelayCrash(r)
      PROVE Rollback(r) /\ UNCHANGED <<orders, outbox>>
  BY <1>4 DEF TickFails, RelayCrash
<1>5. ASSUME TableInv, UNCHANGED <<orders, outbox, stray>> PROVE TableInv'
  BY <1>5 DEF TableInv
<1>6. ASSUME NEW o \in Orders, CreateOrder(o) \/ AbortOrder(o) PROVE UNCHANGED <<orders, outbox, stray>>
  BY <1>6 DEF CreateOrder, AbortOrder
<1>7. ASSUME NEW r \in Relays, RelayStep(r) \/ RequestStop(r) PROVE UNCHANGED <<orders, outbox, stray>>
  BY <1>7 DEF RelayStep, Select, Send, Store, Acknowledge, MarkPublished, RelayStops, RelayStarts,
              RequestStop
<1>8. ASSUME UNCHANGED <<dbVars, txnVars, relayVars, brokerVars>>
      PROVE UNCHANGED <<orders, outbox, stray>>
  BY <1>8
<1> HIDE DEF dbVars, txnVars, relayVars, brokerVars, consumerVars, inboxVars
<1> QED BY <1>1, <1>2, <1>3, <1>4, <1>5, <1>6, <1>7, <1>8, Frames DEF IInv

\* The records of the log are events of committed orders.
LEMMA NoGhostStep == IInv /\ Next => NoGhostEvent' /\ KeyInv'
<1> SUFFICES ASSUME IInv, Next PROVE NoGhostEvent' /\ KeyInv'
  OBVIOUS
<1>1. orders \subseteq orders'
  BY Frames
<1>2. NoGhostEvent /\ TypeOK /\ KeyInv
  BY DEF IInv
<1>3. CASE log' = log
  BY <1>1, <1>2, <1>3 DEF NoGhostEvent, KeyInv
<1>4. ASSUME NEW q \in orders, log' = Appended(q) PROVE NoGhostEvent' /\ KeyInv'
  <2>1. q \in Orders
    BY <1>2 DEF TypeOK, TablesOK
  <2>2. LogKept /\ \A p \in Partitions : \A i \in 1 .. Len(log'[p]) :
                        i \in 1 .. Len(log[p]) \/ (log'[p][i] = q /\ p = PartitionOf[q])
    BY <1>2, <1>4, <2>1, AppendFacts
  <2>3. NoGhostEvent'
    BY <1>1, <1>2, <2>2 DEF NoGhostEvent, LogKept
  <2>4. KeyInv'
    BY <1>2, <2>2 DEF KeyInv, LogKept
  <2> QED BY <2>3, <2>4
<1> QED BY <1>3, <1>4, LogStep

\* What is on the topic before a step is on it afterwards.
LEMMA StepKeepsInLog ==
    ASSUME IInv, Next, NEW o \in Orders, InLog(o)
    PROVE  InLog(o)'
BY StepKeepsLog, InLogKept DEF IInv

\* A relay's knowledge stays true when it changes nothing and the log grows.
LEMMA RelayInvKept ==
    ASSUME IInv, Next, NEW r \in Relays,
           batch'[r] = batch[r], acked'[r] = acked[r], sending'[r] = sending[r],
           stored'[r] = stored[r]
    PROVE  RelayKnows(r)'
<1>1. outbox \subseteq outbox'
  BY Frames
<1>2. batch[r] \subseteq Orders
  BY DEF IInv, TypeOK, RelaysOK
<1>3. RelayKnows(r)
  BY DEF IInv, RelayInv
<1>4. stored[r] => sending[r] \in Orders /\ InLog(sending[r])'
  BY <1>2, <1>3, StepKeepsInLog DEF RelayKnows
<1>5. \A o \in acked[r] : InLog(o)'
  BY <1>2, <1>3, StepKeepsInLog DEF RelayKnows
<1> QED BY <1>1, <1>3, <1>4, <1>5 DEF RelayKnows

\* A relay never waits for a row it has not locked, nor believes a row to be
\* on the topic that is not.
LEMMA RelayInvStep == IInv /\ Next => RelayInv'
<1> SUFFICES ASSUME IInv, Next, NEW s \in Relays PROVE RelayKnows(s)'
  BY DEF RelayInv
<1> DEFINE Keeps == /\ batch'[s] = batch[s] /\ acked'[s] = acked[s]
                    /\ sending'[s] = sending[s] /\ stored'[s] = stored[s]
<1>t. TypeOK
  BY DEF IInv
<1>i. RelayKnows(s)
  BY DEF IInv, RelayInv
<1>o. outbox \subseteq outbox' /\ batch[s] \subseteq Orders
  BY <1>t, Frames DEF TypeOK, RelaysOK
<1>l. \A o \in Orders : InLog(o) => InLog(o)'
  BY StepKeepsInLog
<1>k. CASE Keeps
  BY <1>k, RelayInvKept
<1>1. ASSUME NEW o \in Orders, CreateOrder(o) \/ CommitOrder(o) \/ AbortOrder(o) \/ StrayArrives(o)
      PROVE Keeps
  BY <1>1 DEF CreateOrder, CommitOrder, AbortOrder, StrayArrives, relayVars
<1>2. ASSUME UNCHANGED relayVars PROVE Keeps
  BY <1>2 DEF relayVars
<1>3. ASSUME NEW r \in Relays, RelayStops(r) \/ RelayStarts(r) \/ RequestStop(r) PROVE Keeps
  BY <1>3 DEF RelayStops, RelayStarts, RequestStop
<1>4. ASSUME NEW r \in Relays, r # s, RelayStep(r) \/ TickFails(r) \/ RelayCrash(r) PROVE Keeps
  BY <1>t, <1>4 DEF TypeOK, RelaysOK, RelayStep, Select, Send, Store, Acknowledge, MarkPublished,
                    RelayStops, RelayStarts, TickFails, RelayCrash, Rollback
<1>5. ASSUME Select(s) PROVE RelayKnows(s)'
  <2>1. /\ batch[s] = {} /\ batch'[s] \subseteq outbox
        /\ acked'[s] = acked[s] /\ sending'[s] = sending[s] /\ stored'[s] = stored[s]
    BY <1>t, <1>5 DEF TypeOK, Select, Selections, Claimable
  <2> QED BY <1>i, <1>o, <2>1 DEF RelayKnows
<1>6. ASSUME Send(s) PROVE RelayKnows(s)'
  <2>1. /\ batch'[s] = batch[s] /\ acked'[s] = acked[s] /\ stored'[s] = stored[s]
        /\ sending[s] = None /\ sending'[s] \in batch[s] \ acked[s]
    BY <1>t, <1>6 DEF TypeOK, RelaysOK, Send
  <2> QED BY <1>i, <1>o, <1>l, <2>1 DEF RelayKnows
<1>7. ASSUME Store(s) PROVE RelayKnows(s)'
  <2>1. /\ batch'[s] = batch[s] /\ acked'[s] = acked[s] /\ sending'[s] = sending[s]
        /\ sending[s] # None /\ log' = Appended(sending[s])
    BY <1>t, <1>7 DEF TypeOK, Store
  <2>2. sending[s] \in Orders
    BY <1>i, <1>o, <2>1 DEF RelayKnows
  <2>3. InLog(sending[s])'
    BY <1>t, <2>1, <2>2, AppendFacts
  <2> QED BY <1>i, <1>o, <1>l, <2>1, <2>3 DEF RelayKnows
<1>8. ASSUME Acknowledge(s) PROVE RelayKnows(s)'
  <2>1. /\ batch'[s] = batch[s] /\ acked'[s] = acked[s] \cup {sending[s]}
        /\ sending'[s] = None /\ stored[s] /\ ~stored'[s]
    BY <1>t, <1>8 DEF TypeOK, RelaysOK, Acknowledge
  <2> QED BY <1>i, <1>o, <1>l, <2>1 DEF RelayKnows
<1>9. ASSUME MarkPublished(s) PROVE RelayKnows(s)'
  <2>1. /\ batch'[s] = {} /\ acked'[s] = {} /\ acked[s] = batch[s] /\ batch[s] # {}
        /\ sending'[s] = sending[s] /\ stored'[s] = stored[s]
    BY <1>t, <1>9 DEF TypeOK, RelaysOK, MarkPublished
  <2> QED BY <1>i, <1>o, <1>l, <2>1 DEF RelayKnows
<1>10. ASSUME Rollback(s) PROVE RelayKnows(s)'
  <2>1. batch'[s] = {} /\ acked'[s] = {} /\ sending'[s] = None /\ ~stored'[s]
    BY <1>t, <1>10 DEF TypeOK, RelaysOK, Rollback
  <2> QED BY <2>1 DEF RelayKnows
<1>11. ASSUME NEW r \in Relays, RelayStep(r) PROVE RelayKnows(s)'
  BY <1>k, <1>3, <1>4, <1>5, <1>6, <1>7, <1>8, <1>9, <1>11 DEF RelayStep
<1>12. ASSUME NEW r \in Relays, TickFails(r) \/ RelayCrash(r) PROVE RelayKnows(s)'
  BY <1>k, <1>4, <1>10, <1>12 DEF TickFails, RelayCrash
<1> QED BY <1>k, <1>1, <1>2, <1>3, <1>11, <1>12, Frames

\* A row is marked only when its whole batch is on the topic.
LEMMA MarkedStep == IInv /\ Next => MarkedIsPublished'
<1> SUFFICES ASSUME IInv, Next PROVE MarkedIsPublished'
  OBVIOUS
<1> USE DEF dbVars, txnVars, relayVars, brokerVars
<1>1. ASSUME publishedAt' = publishedAt PROVE MarkedIsPublished'
  BY <1>1, StepKeepsInLog DEF IInv, TypeOK, TablesOK, MarkedIsPublished
<1>2. ASSUME NEW r \in Relays, MarkPublished(r) PROVE MarkedIsPublished'
  <2>1. publishedAt' = publishedAt \cup acked[r]
    BY <1>2 DEF MarkPublished
  <2>2. acked[r] \subseteq Orders /\ publishedAt \subseteq Orders
    BY DEF IInv, TypeOK, TablesOK, RelaysOK
  <2>3. \A o \in publishedAt \cup acked[r] : InLog(o)
    BY DEF IInv, MarkedIsPublished, RelayInv, RelayKnows
  <2> QED BY <2>1, <2>2, <2>3, StepKeepsInLog DEF MarkedIsPublished
<1>3. ASSUME NEW o \in Orders, CreateOrder(o) \/ CommitOrder(o) \/ AbortOrder(o) \/ StrayArrives(o)
      PROVE publishedAt' = publishedAt
  BY <1>3 DEF CreateOrder, CommitOrder, AbortOrder, StrayArrives
<1>4. ASSUME NEW r \in Relays,
             \/ Select(r) \/ Send(r) \/ Store(r) \/ Acknowledge(r) \/ RelayStops(r)
             \/ RelayStarts(r) \/ RequestStop(r) \/ TickFails(r) \/ RelayCrash(r)
      PROVE publishedAt' = publishedAt
  BY <1>4 DEF Select, Send, Store, Acknowledge, RelayStops, RelayStarts, RequestStop,
              TickFails, RelayCrash
<1>5. ASSUME UNCHANGED <<dbVars, txnVars, relayVars, brokerVars>> PROVE publishedAt' = publishedAt
  BY <1>5
<1> HIDE DEF dbVars, txnVars, relayVars, brokerVars
<1> QED BY <1>1, <1>2, <1>3, <1>4, <1>5, Frames DEF RelayStep

\* SKIP LOCKED keeps the batches apart; a marked row is in no batch, because
\* marking and unlocking are one step.
LEMMA ClaimStep == IInv /\ Next => ExclusiveClaim'
<1> SUFFICES ASSUME IInv, Next PROVE ExclusiveClaim'
  OBVIOUS
<1> USE DEF dbVars, txnVars, relayVars, brokerVars
<1>t. batch \in [Relays -> SUBSET Orders]
  BY DEF IInv, TypeOK, RelaysOK
<1>e. ExclusiveClaim
  BY DEF IInv
<1>1. ASSUME batch' = batch, publishedAt' = publishedAt PROVE ExclusiveClaim'
  BY <1>1, <1>e DEF ExclusiveClaim
<1>2. ASSUME NEW r \in Relays, Select(r) PROVE ExclusiveClaim'
  <2>1. PICK S \in Selections : batch' = [batch EXCEPT ![r] = S]
    BY <1>2 DEF Select
  <2>2. publishedAt' = publishedAt
    BY <1>2 DEF Select
  <2>3. S \cap publishedAt = {} /\ \A s \in Relays : S \cap batch[s] = {}
    BY DEF Selections, Claimable
  <2> QED BY <1>t, <1>e, <2>1, <2>2, <2>3 DEF ExclusiveClaim
<1>3. ASSUME NEW r \in Relays, MarkPublished(r) PROVE ExclusiveClaim'
  <2>1. publishedAt' = publishedAt \cup batch[r] /\ batch' = [batch EXCEPT ![r] = {}]
    BY <1>3 DEF MarkPublished
  <2> QED BY <1>t, <1>e, <2>1 DEF ExclusiveClaim
<1>4. ASSUME NEW r \in Relays, TickFails(r) \/ RelayCrash(r) PROVE ExclusiveClaim'
  <2>1. publishedAt' = publishedAt /\ batch' = [batch EXCEPT ![r] = {}]
    BY <1>4 DEF TickFails, RelayCrash, Rollback
  <2> QED BY <1>t, <1>e, <2>1 DEF ExclusiveClaim
<1>5. ASSUME NEW o \in Orders, CreateOrder(o) \/ CommitOrder(o) \/ AbortOrder(o) \/ StrayArrives(o)
      PROVE batch' = batch /\ publishedAt' = publishedAt
  BY <1>5 DEF CreateOrder, CommitOrder, AbortOrder, StrayArrives
<1>6. ASSUME NEW r \in Relays,
             \/ Send(r) \/ Store(r) \/ Acknowledge(r) \/ RelayStops(r) \/ RelayStarts(r)
             \/ RequestStop(r)
      PROVE batch' = batch /\ publishedAt' = publishedAt
  BY <1>6 DEF Send, Store, Acknowledge, RelayStops, RelayStarts, RequestStop
<1>7. ASSUME UNCHANGED <<dbVars, txnVars, relayVars, brokerVars>>
      PROVE batch' = batch /\ publishedAt' = publishedAt
  BY <1>7
<1> HIDE DEF dbVars, txnVars, relayVars, brokerVars
<1> QED BY <1>1, <1>2, <1>3, <1>4, <1>5, <1>6, <1>7, Frames DEF RelayStep

ConsumerInv == OffsetInv /\ InboxInv /\ HandlingInv

\* Steps of the handlers, the relays and the broker leave the consumer's
\* variables alone, and the log keeps what the consumer has fetched.
LEMMA ConsumerInvKept ==
    ASSUME IInv, Next, UNCHANGED <<consumerVars, inboxVars>>
    PROVE  ConsumerInv'
<1> USE DEF consumerVars, inboxVars
<1>1. log \in [Partitions -> Seq(Orders)] /\ log' \in [Partitions -> Seq(Orders)]
  BY StepKeepsLog DEF IInv, TypeOK, TopicOK
<1>2. /\ next \in [Partitions -> Nat] /\ fetchEnd \in [Partitions -> Nat]
      /\ position \in [Partitions -> Nat]
  BY DEF IInv, TypeOK, TopicOK, ConsumerOK
<1>3. LogKept /\ current \subseteq Partitions
  BY StepKeepsLog DEF IInv, TypeOK, ConsumerOK
<1>4. \A p \in Partitions : Len(log[p]) \in Nat /\ Len(log'[p]) \in Nat
  BY <1>1
<1>5. OffsetInv /\ InboxInv /\ HandlingInv
  BY DEF IInv
<1>6. committed \in [Partitions -> Nat]
  BY DEF IInv, TypeOK, InboxOK
<1>7. \A p \in Partitions : Len(log[p]) <= Len(log'[p])
  BY <1>3 DEF LogKept
<1>8. \A p \in Partitions : /\ fetchEnd[p] <= Len(log'[p]) /\ committed[p] <= Len(log'[p])
                           /\ position[p] <= Len(log'[p])
  BY <1>2, <1>4, <1>5, <1>6, <1>7 DEF OffsetInv
<1>9. OffsetInv'
  BY <1>5, <1>8 DEF OffsetInv
<1>10. \A p \in Partitions :
          /\ \A i \in 1 .. fetchEnd[p] : log'[p][i] = log[p][i]
          /\ \A i \in 1 .. committed[p] : log'[p][i] = log[p][i]
          /\ \A i \in 1 .. position[p] : log'[p][i] = log[p][i]
  BY <1>2, <1>3, <1>4, <1>5, <1>6 DEF LogKept, OffsetInv
<1>11. InboxInv'
  <2>1. processed' = processed /\ UNCHANGED <<next, committed, position, fetchEnd>>
    OBVIOUS
  <2> SUFFICES ASSUME NEW p \in Partitions
               PROVE  /\ \A i \in 1 .. next[p] : log'[p][i] \in processed
                      /\ \A i \in 1 .. committed[p] : log'[p][i] \in processed
                      /\ \A i \in 1 .. position[p] :
                            i <= fetchEnd[p] \/ log'[p][i] \in processed
    BY <2>1 DEF InboxInv
  <2> HIDE DEF consumerVars, inboxVars
  <2>2. next[p] \in Nat /\ fetchEnd[p] \in Nat /\ next[p] <= fetchEnd[p]
    BY <1>2, <1>5 DEF OffsetInv
  <2>3. \A i \in 1 .. next[p] : log'[p][i] \in processed
    BY <2>2, <1>5, <1>10 DEF InboxInv
  <2>4. \A i \in 1 .. committed[p] : log'[p][i] \in processed
    BY <1>5, <1>10 DEF InboxInv
  <2>5. \A i \in 1 .. position[p] : i <= fetchEnd[p] \/ log'[p][i] \in processed
    BY <1>5, <1>10 DEF InboxInv
  <2> QED BY <2>3, <2>4, <2>5
<1>12. HandlingInv'
  <2>1. \A p \in current : next[p] < fetchEnd[p] => log'[p][next[p] + 1] = log[p][next[p] + 1]
    BY <1>2, <1>3, <1>10
  <2> QED BY <1>5, <2>1 DEF HandlingInv
<1> QED BY <1>9, <1>11, <1>12 DEF ConsumerInv

\* The consumer's own steps.
LEMMA ConsumerInvStep == IInv /\ Next => ConsumerInv'
<1> SUFFICES ASSUME IInv, Next PROVE ConsumerInv'
  OBVIOUS
<1> USE DEF brokerVars
<1>t. /\ log \in [Partitions -> Seq(Orders)]
      /\ committed \in [Partitions -> Nat]
      /\ position \in [Partitions -> Nat]
      /\ next \in [Partitions -> Nat]
      /\ fetchEnd \in [Partitions -> Nat]
      /\ effects \in [Orders -> Nat]
      /\ handling \in Orders \cup {None}
      /\ current \subseteq Partitions
  BY DEF IInv, TypeOK, TopicOK, ConsumerOK, InboxOK
<1>i. OffsetInv /\ InboxInv /\ HandlingInv
  BY DEF IInv
<1>n. \A p \in Partitions : Len(log[p]) \in Nat
  BY <1>t
<1>1. CASE UNCHANGED <<consumerVars, inboxVars>>
  BY <1>1, ConsumerInvKept
<1>2. CASE Fetch
  <2>1. /\ log' = log /\ next' = position /\ committed' = committed /\ current' = current
        /\ handling' = handling /\ processed' = processed /\ effects' = effects
        /\ current = {} /\ next = fetchEnd /\ position' = fetchEnd'
    BY <1>2 DEF Fetch, inboxVars
  <2>2. \A p \in Partitions : position[p] <= fetchEnd'[p] /\ fetchEnd'[p] <= Len(log[p])
    BY <1>2 DEF Fetch
  <2>3. OffsetInv'
    BY <1>i, <2>1, <2>2 DEF OffsetInv
  <2>4. InboxInv'
    <3>1. \A p \in Partitions : \A i \in 1 .. position[p] : log[p][i] \in processed
      BY <1>t, <1>i, <2>1 DEF InboxInv
    <3>2. \A p \in Partitions : \A i \in 1 .. position'[p] : i <= fetchEnd'[p]
      BY <2>1
    <3> QED BY <1>i, <2>1, <3>1, <3>2 DEF InboxInv
  <2>5. HandlingInv'
    BY <1>i, <2>1 DEF HandlingInv
  <2> QED BY <2>3, <2>4, <2>5 DEF ConsumerInv
<1>3. CASE ConsumerStarts
  <2>1. /\ log' = log /\ next' = next /\ committed' = committed /\ current' = current
        /\ handling' = handling /\ processed' = processed /\ effects' = effects
        /\ fetchEnd' = fetchEnd /\ position' = position
    BY <1>3 DEF ConsumerStarts, inboxVars
  <2> QED BY <1>i, <2>1 DEF ConsumerInv, OffsetInv, InboxInv, HandlingInv
<1>4. CASE ConsumerCrash
  <2>1. /\ log' = log /\ next' = committed /\ committed' = committed /\ current' = {}
        /\ handling' = None /\ processed' = processed /\ effects' = effects
        /\ fetchEnd' = committed /\ position' = committed
    BY <1>4 DEF ConsumerCrash, inboxVars
  <2>2. OffsetInv'
    BY <1>t, <1>n, <1>i, <2>1 DEF OffsetInv
  <2>3. InboxInv'
    BY <1>t, <1>i, <2>1 DEF OffsetInv, InboxInv
  <2>4. HandlingInv'
    BY <1>i, <2>1 DEF HandlingInv
  <2> QED BY <2>2, <2>3, <2>4 DEF ConsumerInv
<1>5. ASSUME NEW p \in Partitions, MarkProcessed(p) PROVE ConsumerInv'
  <2> DEFINE e == log[p][next[p] + 1]
  <2>1. /\ log' = log /\ committed' = committed /\ effects' = effects /\ fetchEnd' = fetchEnd
        /\ position' = position /\ next[p] < fetchEnd[p] /\ handling = None /\ current' = {p}
    BY <1>5 DEF MarkProcessed
  <2>2. CASE e \in processed
    <3>1. /\ next' = [next EXCEPT ![p] = @ + 1]
          /\ processed' = processed
          /\ handling' = handling
      BY <1>5, <2>2, Zenon DEF MarkProcessed
    <3>2. OffsetInv'
      BY <1>t, <1>n, <1>i, <2>1, <3>1 DEF OffsetInv
    <3>3. InboxInv'
      BY <1>t, <1>i, <2>1, <2>2, <3>1 DEF InboxInv
    <3>4. HandlingInv'
      BY <1>i, <2>1, <3>1 DEF HandlingInv
    <3> QED BY <3>2, <3>3, <3>4 DEF ConsumerInv
  <2>3. CASE e \notin processed
    <3>1. next' = next /\ processed' = processed \cup {e} /\ handling' = e
      BY <1>5, <2>3, Zenon DEF MarkProcessed
    <3>2. OffsetInv'
      BY <1>i, <2>1, <3>1 DEF OffsetInv
    <3>3. InboxInv'
      BY <1>i, <2>1, <3>1 DEF InboxInv
    <3>4. e \in Orders
      BY <1>t, <1>n, <1>i, <2>1 DEF OffsetInv
    <3>5. effects[e] = 0
      BY <1>i, <2>3, <3>4 DEF HandlingInv
    <3>6. HandlingInv'
      <4>1. \A q \in current' : next'[q] < fetchEnd'[q] /\ log'[q][next'[q] + 1] = handling'
        BY <2>1, <3>1
      <4>2. handling' \in processed' /\ effects'[handling'] = 0
        BY <2>1, <3>1, <3>5
      <4>3. \A o \in Orders : effects'[o] # 0 => o \in processed' /\ effects'[o] = 1
        BY <1>i, <2>1, <3>1 DEF HandlingInv
      <4> QED BY <4>1, <4>2, <4>3 DEF HandlingInv
    <3> QED BY <3>2, <3>3, <3>6 DEF ConsumerInv
  <2> QED BY <2>2, <2>3
<1>6. ASSUME NEW p \in Partitions, HandleEvent(p) PROVE ConsumerInv'
  <2>1. /\ log' = log /\ committed' = committed /\ fetchEnd' = fetchEnd /\ current' = current
        /\ position' = position
        /\ processed' = processed /\ handling # None /\ handling' = None /\ p \in current
        /\ next' = [next EXCEPT ![p] = @ + 1]
        /\ effects' = [effects EXCEPT ![handling] = @ + 1]
    BY <1>6 DEF HandleEvent
  <2>2. /\ next[p] < fetchEnd[p] /\ log[p][next[p] + 1] = handling
        /\ handling \in processed /\ effects[handling] = 0 /\ handling \in Orders
    BY <1>t, <1>i, <2>1 DEF HandlingInv
  <2>3. OffsetInv'
    BY <1>t, <1>n, <1>i, <2>1, <2>2 DEF OffsetInv
  <2>4. InboxInv'
    <3>1. ASSUME NEW q \in Partitions, NEW i \in 1 .. next'[q] PROVE log[q][i] \in processed
      <4>1. CASE q = p /\ i = next[p] + 1
        BY <2>2, <4>1
      <4>2. CASE ~(q = p /\ i = next[p] + 1)
        <5>1. i \in 1 .. next[q]
          BY <1>t, <2>1, <4>2
        <5> QED BY <1>i, <5>1 DEF InboxInv
      <4> QED BY <4>1, <4>2
    <3> QED BY <1>i, <2>1, <3>1 DEF InboxInv
  <2>5. HandlingInv'
    <3>1. effects'[handling] = 1 /\ \A o \in Orders : o # handling => effects'[o] = effects[o]
      BY <1>t, <2>1, <2>2
    <3>2. \A o \in Orders : effects[o] # 0 => o \in processed /\ effects[o] = 1
      BY <1>i DEF HandlingInv
    <3>3. \A o \in Orders : effects'[o] # 0 => o \in processed' /\ effects'[o] = 1
      BY <2>1, <2>2, <3>1, <3>2
    <3> QED BY <2>1, <3>3 DEF HandlingInv
  <2> QED BY <2>3, <2>4, <2>5 DEF ConsumerInv
<1>7. ASSUME NEW p \in Partitions, CommitOffset(p) PROVE ConsumerInv'
  <2>1. /\ log' = log /\ next' = next /\ fetchEnd' = fetchEnd /\ current' = {}
        /\ handling' = handling /\ processed' = processed /\ effects' = effects
        /\ committed' = [committed EXCEPT ![p] = next[p]] /\ handling = None
        /\ position' = position
    BY <1>7 DEF CommitOffset
  <2>2. OffsetInv'
    BY <1>t, <1>n, <1>i, <2>1 DEF OffsetInv
  <2>3. InboxInv' /\ HandlingInv'
    BY <1>t, <1>i, <2>1 DEF InboxInv, HandlingInv
  <2> QED BY <2>2, <2>3 DEF ConsumerInv
<1>8. CASE ConsumerRejoins
  <2>1. /\ UNCHANGED <<log, next, committed, current, handling, processed, effects, fetchEnd>>
        /\ position' = committed
    BY <1>8 DEF ConsumerRejoins, inboxVars
  <2> QED BY <1>i, <2>1 DEF ConsumerInv, OffsetInv, InboxInv, HandlingInv
<1> QED BY <1>1, <1>2, <1>3, <1>4, <1>5, <1>6, <1>7, <1>8, Frames DEF ConsumerStep

-----------------------------------------------------------------------------
(* Theorems                                                                *)

LEMMA InitInv == Init => IInv
<1> SUFFICES ASSUME Init PROVE IInv
  OBVIOUS
<1>1. TypeOK
  BY ConstantsAssumption DEF Init, TypeOK, TablesOK, RelaysOK, TopicOK, ConsumerOK, InboxOK
<1>2. TableInv /\ KeyInv /\ RelayInv
  BY DEF Init, TableInv, KeyInv, RelayInv, RelayKnows
<1>3. OffsetInv /\ InboxInv /\ HandlingInv
  BY DEF Init, OffsetInv, InboxInv, HandlingInv
<1>4. NoGhostEvent /\ MarkedIsPublished /\ ExclusiveClaim
  BY DEF Init, NoGhostEvent, MarkedIsPublished, ExclusiveClaim
<1> QED BY <1>1, <1>2, <1>3, <1>4 DEF IInv

\* IInv is inductive: the heart of every theorem below.
THEOREM Invariance == Spec => []IInv
<1>1. IInv /\ UNCHANGED vars => IInv'
  <2> SUFFICES ASSUME IInv, UNCHANGED vars PROVE IInv'
    OBVIOUS
  <2>0. /\ UNCHANGED <<orders, outbox, publishedAt, processed, txn, rowId, lastId>>
        /\ UNCHANGED <<mode, batch, acked, sending, stored, log, stray, committed>>
        /\ UNCHANGED <<consumerUp, position, next, fetchEnd, current, handling, effects, faults>>
    BY DEF vars, dbVars, txnVars, relayVars, brokerVars, consumerVars, inboxVars
  <2>1. TypeOK'
    BY <2>0 DEF IInv, TypeOK, TablesOK, RelaysOK, TopicOK, ConsumerOK, InboxOK
  <2>2. TableInv' /\ KeyInv' /\ RelayInv'
    BY <2>0 DEF IInv, TableInv, KeyInv, RelayInv, RelayKnows, InLog
  <2>3. OffsetInv' /\ InboxInv' /\ HandlingInv'
    BY <2>0 DEF IInv, OffsetInv, InboxInv, HandlingInv
  <2>4. NoGhostEvent' /\ MarkedIsPublished' /\ ExclusiveClaim'
    BY <2>0 DEF IInv, NoGhostEvent, MarkedIsPublished, ExclusiveClaim, InLog
  <2> QED BY <2>1, <2>2, <2>3, <2>4 DEF IInv
<1>2. IInv /\ Next => IInv'
  BY TypeStep, TableStep, RelayInvStep, ConsumerInvStep, NoGhostStep, MarkedStep, ClaimStep
  DEF IInv, ConsumerInv
<1> QED BY <1>1, <1>2, InitInv, PTL DEF Spec

\* Type correctness: no handler, relay, consumer or fault drives a variable
\* out of its domain.
THEOREM TypeCorrect == Spec => []TypeOK
<1>1. IInv => TypeOK
  BY DEF IInv
<1> QED BY <1>1, Invariance, PTL

\* The topic carries events of committed orders only, whatever is rolled back.
THEOREM NoGhosts == Spec => []NoGhostEvent
<1>1. IInv => NoGhostEvent
  BY DEF IInv
<1> QED BY <1>1, Invariance, PTL

\* published_at tells the truth: a marked row is on the topic.
THEOREM MarksAreTrue == Spec => []MarkedIsPublished
<1>1. IInv => MarkedIsPublished
  BY DEF IInv
<1> QED BY <1>1, Invariance, PTL

\* Any number of relays share the table without working on the same row.
THEOREM ClaimsAreExclusive == Spec => []ExclusiveClaim
<1>1. IInv => ExclusiveClaim
  BY DEF IInv
<1> QED BY <1>1, Invariance, PTL

\* Duplicates on the topic and crashes of the consumer never make the
\* business logic run twice for an event.
THEOREM AtMostOnce == Spec => []HandledAtMostOnce
<1>1. IInv => HandledAtMostOnce
  <2> SUFFICES ASSUME IInv, NEW o \in Orders PROVE effects[o] <= 1
    BY DEF HandledAtMostOnce
  <2>1. effects[o] = 0 \/ effects[o] = 1
    BY DEF IInv, HandlingInv
  <2> QED BY <2>1
<1> QED BY <1>1, Invariance, PTL

\* A committed offset covers events of the inbox only: a restart loses none.
THEOREM NothingSkipped == Spec => []CommittedIsReceived
<1>1. IInv => CommittedIsReceived
  <2> SUFFICES ASSUME IInv, NEW p \in Partitions
               PROVE  /\ committed[p] <= Len(log[p])
                      /\ \A i \in 1 .. committed[p] : log[p][i] \in processed
    BY DEF CommittedIsReceived
  <2>1. committed[p] <= Len(log[p])
    BY DEF IInv, OffsetInv
  <2>2. \A i \in 1 .. committed[p] : log[p][i] \in processed
    BY DEF IInv, InboxInv
  <2> QED BY <2>1, <2>2
<1> QED BY <1>1, Invariance, PTL

-----------------------------------------------------------------------------
(* Refinement                                                              *)

Delivered == {o \in Orders : InLog(o)}

\* Writing one more record is the Deliver step of its event.
LEMMA AppendDelivers ==
    ASSUME IInv, NEW q \in Orders, log' = Appended(q)
    PROVE  Delivered' = Delivered \cup {q}
<1>1. TypeOK
  BY DEF IInv
<1>2. /\ log' \in [Partitions -> Seq(Orders)] /\ LogKept /\ InLog(q)'
      /\ \A p \in Partitions : \A i \in 1 .. Len(log'[p]) :
            i \in 1 .. Len(log[p]) \/ (log'[p][i] = q /\ p = PartitionOf[q])
  BY <1>1, AppendFacts
<1>3. \A o \in Orders : InLog(o) => InLog(o)'
  BY <1>1, <1>2, InLogKept
<1>4. ASSUME NEW o \in Orders, o # q, InLog(o)' PROVE InLog(o)
  <2>1. PICK i \in 1 .. Len(log'[PartitionOf[o]]) : log'[PartitionOf[o]][i] = o
    BY <1>4 DEF InLog
  <2>2. PartitionOf[o] \in Partitions
    BY ConstantsAssumption
  <2>3. i \in 1 .. Len(log[PartitionOf[o]])
    BY <1>2, <1>4, <2>1, <2>2
  <2>4. log[PartitionOf[o]][i] = o
    BY <2>1, <2>2, <2>3, <1>2 DEF LogKept
  <2> QED BY <2>3, <2>4 DEF InLog
<1> QED BY <1>2, <1>3, <1>4 DEF Delivered

\* Every step of the outbox is a step of the promise, or leaves it alone.
LEMMA StepRefines == IInv /\ Next => [Delivery!Next]_(Delivery!vars)
<1> SUFFICES ASSUME IInv, Next PROVE [Delivery!Next]_(Delivery!vars)
  OBVIOUS
<1> DEFINE Stutter == /\ orders' = orders /\ Delivered' = Delivered /\ publishedAt' = publishedAt
                      /\ processed' = processed /\ effects' = effects
<1> USE DEF dbVars, txnVars, relayVars, brokerVars, consumerVars, inboxVars
<1>t. TypeOK
  BY DEF IInv
<1>l. log' = log => Delivered' = Delivered
  BY DEF Delivered, InLog
<1>s. CASE Stutter
  BY <1>s DEF Delivery!vars, Delivered
<1>1. ASSUME NEW o \in Orders, CommitOrder(o) PROVE Delivery!Accept(o)
  <2>1. /\ orders' = orders \cup {o} /\ publishedAt' = publishedAt /\ log' = log
        /\ processed' = processed /\ effects' = effects
    BY <1>1 DEF CommitOrder
  <2> QED BY <1>l, <2>1 DEF Delivery!Accept, Delivered
<1>2. ASSUME NEW o \in orders, log' = Appended(o), orders' = orders, publishedAt' = publishedAt,
             processed' = processed, effects' = effects
      PROVE Delivery!Deliver(o)
  <2>1. Delivered' = Delivered \cup {o}
    BY <1>t, <1>2, AppendDelivers DEF TypeOK, TablesOK
  <2> QED BY <1>2, <2>1 DEF Delivery!Deliver, Delivered
<1>3. ASSUME NEW r \in Relays, Store(r) PROVE \E o \in Orders : Delivery!Deliver(o)
  <2>1. /\ sending[r] \in orders /\ log' = Appended(sending[r])
        /\ orders' = orders /\ publishedAt' = publishedAt
        /\ processed' = processed /\ effects' = effects
    BY <1>3 DEF Store, IInv, RelayInv, RelayKnows, TableInv
  <2> QED BY <1>t, <1>2, <2>1 DEF TypeOK, TablesOK
<1>4. ASSUME NEW o \in Orders, StrayArrives(o) PROVE Stutter \/ Delivery!Deliver(o)
  <2>1. /\ orders' = orders /\ publishedAt' = publishedAt
        /\ processed' = processed /\ effects' = effects
        /\ log' = log \/ log' = Appended(o)
    BY <1>4 DEF StrayArrives
  <2>2. o \in orders
    BY <1>4 DEF StrayArrives, IInv, TableInv
  <2> QED BY <1>l, <1>2, <2>1, <2>2
<1>5. ASSUME NEW r \in Relays, MarkPublished(r) PROVE \E S \in SUBSET Orders : Delivery!Confirm(S)
  <2>1. /\ publishedAt' = publishedAt \cup acked[r] /\ orders' = orders /\ log' = log
        /\ processed' = processed /\ effects' = effects
    BY <1>5 DEF MarkPublished
  <2>2. acked[r] \subseteq Delivered
    BY <1>t DEF IInv, RelayInv, RelayKnows, TypeOK, TablesOK, Delivered
  <2>3. Delivery!Confirm(acked[r])
    BY <1>l, <2>1, <2>2 DEF Delivery!Confirm, Delivered
  <2> QED BY <1>t, <2>3 DEF TypeOK, RelaysOK
<1>6. ASSUME NEW p \in Partitions, MarkProcessed(p)
      PROVE Stutter \/ \E o \in Orders : Delivery!Receive(o)
  <2> DEFINE e == log[p][next[p] + 1]
  <2>1. /\ orders' = orders /\ publishedAt' = publishedAt /\ log' = log /\ effects' = effects
        /\ next[p] < fetchEnd[p]
    BY <1>6 DEF MarkProcessed
  <2>2. processed' = processed \/ processed' = processed \cup {e}
    BY <1>6, Zenon DEF MarkProcessed
  <2>3. next[p] + 1 \in 1 .. Len(log[p])
    <3>1. log[p] \in Seq(Orders) /\ next[p] \in Nat /\ fetchEnd[p] \in Nat
      BY <1>t DEF TypeOK, TopicOK, ConsumerOK
    <3>2. fetchEnd[p] <= Len(log[p])
      BY DEF IInv, OffsetInv
    <3> QED BY <2>1, <3>1, <3>2
  <2>4. e \in Orders /\ PartitionOf[e] = p
    BY <1>t, <2>3 DEF TypeOK, TopicOK, IInv, KeyInv
  <2>5. e \in Delivered
    BY <2>3, <2>4 DEF Delivered, InLog
  <2>6. CASE processed' = processed
    BY <1>l, <2>1, <2>6
  <2>7. CASE processed' = processed \cup {e}
    <3>1. Delivery!Receive(e)
      BY <1>l, <2>1, <2>5, <2>7 DEF Delivery!Receive, Delivered
    <3> QED BY <2>4, <3>1
  <2> QED BY <2>2, <2>6, <2>7
<1>7. ASSUME NEW p \in Partitions, HandleEvent(p) PROVE \E o \in Orders : Delivery!Handle(o)
  <2>1. /\ orders' = orders /\ publishedAt' = publishedAt /\ log' = log /\ processed' = processed
        /\ effects' = [effects EXCEPT ![handling] = @ + 1] /\ handling # None
    BY <1>7 DEF HandleEvent
  <2>2. handling \in Orders /\ handling \in processed /\ effects[handling] = 0
    BY <1>t, <2>1 DEF TypeOK, InboxOK, IInv, HandlingInv
  <2>3. effects' = [effects EXCEPT ![handling] = 1]
    BY <2>1, <2>2
  <2>4. Delivery!Handle(handling)
    BY <1>l, <2>1, <2>2, <2>3 DEF Delivery!Handle, Delivered
  <2> QED BY <2>2, <2>4
<1>8. ASSUME NEW o \in Orders, CreateOrder(o) \/ AbortOrder(o) PROVE Stutter
  BY <1>l, <1>8 DEF CreateOrder, AbortOrder
<1>9. ASSUME NEW r \in Relays,
             \/ Select(r) \/ Send(r) \/ Acknowledge(r) \/ RelayStops(r) \/ RelayStarts(r)
             \/ RequestStop(r) \/ TickFails(r) \/ RelayCrash(r)
      PROVE Stutter
  BY <1>l, <1>9 DEF Select, Send, Acknowledge, RelayStops, RelayStarts, RequestStop,
                    TickFails, RelayCrash
<1>10. ASSUME Fetch \/ ConsumerStarts \/ ConsumerRejoins \/ ConsumerCrash PROVE Stutter
  BY <1>l, <1>10 DEF Fetch, ConsumerStarts, ConsumerRejoins, ConsumerCrash
<1>11. ASSUME NEW p \in Partitions, CommitOffset(p) PROVE Stutter
  BY <1>l, <1>11 DEF CommitOffset
<1> HIDE DEF Stutter, dbVars, txnVars, relayVars, brokerVars, consumerVars, inboxVars
<1> QED
  BY <1>s, <1>1, <1>3, <1>4, <1>5, <1>6, <1>7, <1>8, <1>9, <1>10, <1>11
  DEF Next, RelayStep, ConsumerStep, Delivery!Next

\* The safety of the promise: with any faults, the outbox is an EventDelivery
\* whose delivered orders are those with an event on the topic.
THEOREM Refinement == Spec => Delivery!Spec
<1>1. Init => Delivery!Init
  <2> SUFFICES ASSUME Init PROVE Delivery!Init
    OBVIOUS
  <2>1. \A o \in Orders : ~InLog(o)
    BY ConstantsAssumption DEF Init, InLog
  <2> QED BY <2>1 DEF Init, Delivery!Init
<1>2. UNCHANGED vars => UNCHANGED Delivery!vars
  BY DEF vars, dbVars, txnVars, relayVars, brokerVars, consumerVars, inboxVars, Delivery!vars, InLog
<1>3. IInv /\ [Next]_vars => [Delivery!Next]_(Delivery!vars)
  BY <1>2, StepRefines
<1> QED BY <1>1, <1>3, Invariance, PTL DEF Spec, Delivery!Spec

-----------------------------------------------------------------------------
(* Copies of an event                                                      *)

Offsets(o) == {i \in 1 .. Len(log[PartitionOf[o]]) : log[PartitionOf[o]][i] = o}
Copies(o) == Cardinality(Offsets(o)) + stray[o]

\* The record of an order that no fault accounts for: it is marked, or the relay
\* that has locked its row knows, or is about to know, that it is stored.
Stored(o) ==
    \/ o \in publishedAt
    \/ \E r \in Relays : o \in acked[r] \/ (sending[r] = o /\ stored[r])

\* Every other copy takes a fault of its own.
CopiesCounted == \A o \in Orders : Copies(o) <= faults + IF Stored(o) THEN 1 ELSE 0

\* The offsets of an event are finitely many, and an append adds one of them.
LEMMA OffsetsFinite ==
    ASSUME TypeOK, NEW o \in Orders
    PROVE  /\ IsFiniteSet(Offsets(o)) /\ Cardinality(Offsets(o)) \in Nat
           /\ Copies(o) \in Nat
<1>1. PartitionOf[o] \in Partitions /\ stray[o] \in Nat
  BY ConstantsAssumption DEF TypeOK, TopicOK
<1>2. Len(log[PartitionOf[o]]) \in Nat
  BY <1>1, LenProperties DEF TypeOK, TopicOK
<1>3. IsFiniteSet(1 .. Len(log[PartitionOf[o]]))
  BY <1>2, FS_Interval
<1>4. IsFiniteSet(Offsets(o))
  BY <1>3, FS_Subset DEF Offsets
<1> QED BY <1>1, <1>4, FS_CardinalityType DEF Copies

LEMMA AppendCopies ==
    ASSUME TypeOK, NEW q \in Orders, log' = Appended(q), NEW o \in Orders
    PROVE  Cardinality(Offsets(o)') = Cardinality(Offsets(o)) + IF o = q THEN 1 ELSE 0
<1> DEFINE n == Len(log[PartitionOf[o]])
<1>1. /\ PartitionOf[o] \in Partitions /\ PartitionOf[q] \in Partitions
      /\ log \in [Partitions -> Seq(Orders)]
  BY ConstantsAssumption DEF TypeOK, TopicOK
<1>2. log[PartitionOf[o]] \in Seq(Orders) /\ n \in Nat
  BY <1>1, LenProperties
<1>3. CASE PartitionOf[o] # PartitionOf[q]
  <2>1. log'[PartitionOf[o]] = log[PartitionOf[o]] /\ o # q
    BY <1>1, <1>3 DEF Appended
  <2>2. Cardinality(Offsets(o)) \in Nat
    BY OffsetsFinite
  <2>3. Offsets(o)' = Offsets(o)
    BY <2>1 DEF Offsets
  <2> QED BY <2>1, <2>2, <2>3
<1>4. CASE PartitionOf[o] = PartitionOf[q]
  <2>1. log'[PartitionOf[o]] = Append(log[PartitionOf[o]], q)
    BY <1>1, <1>4 DEF Appended
  <2>2. /\ Len(log'[PartitionOf[o]]) = n + 1
        /\ \A i \in 1 .. n : log'[PartitionOf[o]][i] = log[PartitionOf[o]][i]
        /\ log'[PartitionOf[o]][n + 1] = q
    BY <1>2, <2>1, AppendProperties
  <2>3. 1 .. n + 1 = (1 .. n) \cup {n + 1} /\ n + 1 \notin 1 .. n
    BY <1>2
  <2>4. Offsets(o)' = IF o = q THEN Offsets(o) \cup {n + 1} ELSE Offsets(o)
    BY <2>2, <2>3 DEF Offsets
  <2>5. n + 1 \notin Offsets(o)
    BY <2>3 DEF Offsets
  <2>6. IsFiniteSet(Offsets(o)) /\ Cardinality(Offsets(o)) \in Nat
    BY OffsetsFinite
  <2>7. Cardinality(Offsets(o) \cup {n + 1}) = Cardinality(Offsets(o)) + 1
    BY <2>5, <2>6, FS_AddElement
  <2> QED BY <2>4, <2>6, <2>7
<1> QED BY <1>3, <1>4

LEMMA KeptCopies ==
    ASSUME log' = log, NEW o \in Orders
    PROVE  Cardinality(Offsets(o)') = Cardinality(Offsets(o))
BY DEF Offsets

\* A relay that waits for a row not stored yet is the only one to know of it.
LEMMA WaitingIsNew ==
    ASSUME IInv, NEW r \in Relays, sending[r] # None, ~stored[r]
    PROVE  sending[r] \in Orders /\ ~Stored(sending[r])
<1> DEFINE o == sending[r]
<1>1. o \in batch[r] \ acked[r] /\ o \in Orders
  BY DEF IInv, RelayInv, RelayKnows, TypeOK, RelaysOK
<1>2. o \notin publishedAt
  BY <1>1 DEF IInv, ExclusiveClaim
<1>3. ASSUME NEW s \in Relays, o \in acked[s] \/ (sending[s] = o /\ stored[s])
      PROVE  FALSE
  <2>1. s # r
    BY <1>1, <1>3
  <2>2. o \in batch[s]
    BY <1>3 DEF IInv, RelayInv, RelayKnows
  <2> QED BY <1>1, <2>1, <2>2 DEF IInv, ExclusiveClaim
<1> QED BY <1>1, <1>2, <1>3 DEF Stored

\* A step that adds no copy and forgets nothing that is stored.
LEMMA QuietCopies ==
    ASSUME IInv, CopiesCounted, log' = log, stray' = stray, faults' \in {faults, faults + 1},
           \A o \in Orders : Stored(o) => Stored(o)'
    PROVE  CopiesCounted'
<1> SUFFICES ASSUME NEW o \in Orders
             PROVE  Copies(o)' <= faults' + IF Stored(o)' THEN 1 ELSE 0
  BY DEF CopiesCounted
<1>1. Copies(o)' = Copies(o)
  BY KeptCopies DEF Copies
<1>2. Copies(o) \in Nat /\ faults \in Nat
  BY OffsetsFinite DEF IInv, TypeOK
<1>3. Copies(o) <= faults + IF Stored(o) THEN 1 ELSE 0
  BY DEF CopiesCounted
<1> QED BY <1>1, <1>2, <1>3

LEMMA StoreCopies ==
    ASSUME IInv, CopiesCounted, NEW r \in Relays, Store(r)
    PROVE  CopiesCounted'
<1> DEFINE q == sending[r]
<1>1. /\ log' = Appended(q) /\ stored' = [stored EXCEPT ![r] = TRUE]
      /\ q # None /\ ~stored[r]
      /\ stray' = stray /\ faults' = faults
      /\ publishedAt' = publishedAt /\ acked' = acked /\ sending' = sending
  BY DEF Store, dbVars
<1>2. q \in Orders /\ ~Stored(q)
  BY <1>1, WaitingIsNew
<1>3. stored' = [s \in Relays |-> IF s = r THEN TRUE ELSE stored[s]]
  BY <1>1 DEF IInv, TypeOK, RelaysOK
<1>4. ASSUME NEW o \in Orders PROVE Copies(o)' <= faults' + IF Stored(o)' THEN 1 ELSE 0
  <2>1. Cardinality(Offsets(o)') = Cardinality(Offsets(o)) + IF o = q THEN 1 ELSE 0
    BY <1>1, <1>2, AppendCopies DEF IInv
  <2>2. /\ Cardinality(Offsets(o)) \in Nat /\ stray[o] \in Nat /\ faults \in Nat
    BY OffsetsFinite DEF IInv, TypeOK, TopicOK
  <2>3. Cardinality(Offsets(o)) + stray[o] <= faults + IF Stored(o) THEN 1 ELSE 0
    BY DEF CopiesCounted, Copies
  <2>4. Stored(o) \/ o = q => Stored(o)'
    BY <1>1, <1>3 DEF Stored
  <2>5. Copies(o)' = Cardinality(Offsets(o)') + stray[o]
    BY <1>1 DEF Copies
  <2> QED BY <1>1, <1>2, <2>1, <2>2, <2>3, <2>4, <2>5
<1> QED BY <1>4 DEF CopiesCounted

LEMMA StrayCopies ==
    ASSUME IInv, CopiesCounted, NEW q \in Orders, StrayArrives(q)
    PROVE  CopiesCounted'
<1>1. /\ log' = log \/ log' = Appended(q)
      /\ stray[q] > 0 /\ stray' = [stray EXCEPT ![q] = @ - 1] /\ faults' = faults
      /\ publishedAt' = publishedAt /\ acked' = acked /\ sending' = sending /\ stored' = stored
  BY DEF StrayArrives, dbVars, relayVars
<1>2. ASSUME NEW o \in Orders PROVE Copies(o)' <= faults' + IF Stored(o)' THEN 1 ELSE 0
  <2>1. \/ Cardinality(Offsets(o)') = Cardinality(Offsets(o))
        \/ Cardinality(Offsets(o)') = Cardinality(Offsets(o)) + IF o = q THEN 1 ELSE 0
    BY <1>1, AppendCopies, KeptCopies DEF IInv
  <2>2. stray' [o] = stray[o] - IF o = q THEN 1 ELSE 0
    BY <1>1 DEF IInv, TypeOK, TopicOK
  <2>3. Cardinality(Offsets(o)) \in Nat /\ stray[o] \in Nat /\ faults \in Nat
    BY OffsetsFinite DEF IInv, TypeOK, TopicOK
  <2>4. Cardinality(Offsets(o)) + stray[o] <= faults + IF Stored(o) THEN 1 ELSE 0
    BY DEF CopiesCounted, Copies
  <2>5. Stored(o)' = Stored(o)
    BY <1>1 DEF Stored
  <2>6. Copies(o)' = Cardinality(Offsets(o)') + stray'[o]
    BY DEF Copies
  <2> QED BY <1>1, <2>1, <2>2, <2>3, <2>4, <2>5, <2>6
<1> QED BY <1>2 DEF CopiesCounted

\* A rollback forgets its batch, at the price of the fault that it is: a row
\* that is stored may be sent again, one that is on its way may still arrive.
LEMMA RollbackCopies ==
    ASSUME IInv, CopiesCounted, NEW r \in Relays, Rollback(r), Fault, log' = log,
           publishedAt' = publishedAt
    PROVE  CopiesCounted'
<1>1. ASSUME NEW o \in Orders PROVE Copies(o)' <= faults' + IF Stored(o)' THEN 1 ELSE 0
  <2>1. Copies(o)' = Cardinality(Offsets(o)) + stray'[o]
    BY KeptCopies DEF Copies
  <2>2. Cardinality(Offsets(o)) \in Nat /\ stray[o] \in Nat /\ faults \in Nat /\ faults' = faults + 1
    BY OffsetsFinite DEF IInv, TypeOK, TopicOK, Fault
  <2>3. Cardinality(Offsets(o)) + stray[o] <= faults + IF Stored(o) THEN 1 ELSE 0
    BY DEF CopiesCounted, Copies
  <2>4. CASE sending[r] = o /\ o # None /\ ~stored[r]
    <3>1. ~Stored(o)
      BY <2>4, WaitingIsNew
    <3>2. stray'[o] = stray[o] + 1
      BY <2>4 DEF Rollback, IInv, TypeOK, TopicOK
    <3> QED BY <2>1, <2>2, <2>3, <3>1, <3>2
  <2>5. CASE ~(sending[r] = o /\ o # None /\ ~stored[r])
    <3>1. stray'[o] = stray[o]
      BY <2>5 DEF Rollback, IInv, TypeOK, TopicOK
    <3> QED BY <2>1, <2>2, <2>3, <3>1
  <2> QED BY <2>4, <2>5
<1> QED BY <1>1 DEF CopiesCounted

LEMMA CopiesStep == IInv /\ CopiesCounted /\ [Next]_vars => CopiesCounted'
<1> SUFFICES ASSUME IInv, CopiesCounted, [Next]_vars PROVE CopiesCounted'
  OBVIOUS
<1> USE DEF dbVars, txnVars, relayVars, brokerVars, consumerVars, inboxVars
<1>1. ASSUME UNCHANGED <<log, stray, publishedAt, acked, sending, stored>>,
             faults' \in {faults, faults + 1}
      PROVE  CopiesCounted'
  BY <1>1, QuietCopies DEF Stored
<1>2. ASSUME NEW o \in Orders, CreateOrder(o) \/ CommitOrder(o) \/ AbortOrder(o)
      PROVE  CopiesCounted'
  BY <1>1, <1>2 DEF CreateOrder, CommitOrder, AbortOrder
<1>3. ASSUME NEW r \in Relays,
             Select(r) \/ RelayStops(r) \/ RelayStarts(r) \/ RequestStop(r)
      PROVE  CopiesCounted'
  BY <1>1, <1>3 DEF Select, RelayStops, RelayStarts, RequestStop, Fault
<1>4. ASSUME ConsumerStep \/ ConsumerRejoins \/ ConsumerCrash \/ UNCHANGED vars
      PROVE  CopiesCounted'
  BY <1>1, <1>4 DEF ConsumerStep, ConsumerRejoins, ConsumerCrash, Fetch, ConsumerStarts, MarkProcessed,
                    HandleEvent, CommitOffset, Fault, vars
<1>5. ASSUME NEW r \in Relays, Send(r)
      PROVE  CopiesCounted'
  <2>1. /\ log' = log /\ stray' = stray /\ faults' = faults
        /\ publishedAt' = publishedAt /\ acked' = acked /\ stored' = stored
        /\ sending[r] = None
    BY <1>5 DEF Send
  <2>2. ~stored[r] /\ \A s \in Relays : s # r => sending'[s] = sending[s]
    BY <1>5, <2>1 DEF Send, IInv, RelayInv, RelayKnows, TypeOK, RelaysOK
  <2>3. \A o \in Orders : Stored(o) => Stored(o)'
    BY <2>1, <2>2 DEF Stored
  <2> QED BY <2>1, <2>3, QuietCopies
<1>6. ASSUME NEW r \in Relays, Acknowledge(r)
      PROVE  CopiesCounted'
  <2>1. /\ log' = log /\ stray' = stray /\ faults' = faults /\ publishedAt' = publishedAt
        /\ acked' = [acked EXCEPT ![r] = @ \cup {sending[r]}]
        /\ sending' = [sending EXCEPT ![r] = None] /\ stored' = [stored EXCEPT ![r] = FALSE]
    BY <1>6 DEF Acknowledge
  <2>2. /\ acked'[r] = acked[r] \cup {sending[r]}
        /\ \A s \in Relays : s # r => /\ acked'[s] = acked[s] /\ sending'[s] = sending[s]
                                      /\ stored'[s] = stored[s]
    BY <2>1 DEF IInv, TypeOK, RelaysOK
  <2>3. \A o \in Orders : Stored(o) => Stored(o)'
    BY <2>1, <2>2 DEF Stored
  <2> QED BY <2>1, <2>3, QuietCopies
<1>7. ASSUME NEW r \in Relays, MarkPublished(r)
      PROVE  CopiesCounted'
  <2>1. /\ log' = log /\ stray' = stray /\ faults' = faults
        /\ publishedAt' = publishedAt \cup acked[r]
        /\ acked' = [acked EXCEPT ![r] = {}] /\ acked[r] = batch[r]
        /\ sending' = sending /\ stored' = stored
    BY <1>7 DEF MarkPublished
  <2>2. \A s \in Relays : s # r => acked'[s] = acked[s]
    BY <2>1 DEF IInv, TypeOK, RelaysOK
  <2>3. \A o \in Orders : Stored(o) => Stored(o)'
    BY <2>1, <2>2 DEF Stored
  <2> QED BY <2>1, <2>3, QuietCopies
<1>8. ASSUME NEW r \in Relays, TickFails(r) \/ RelayCrash(r)
      PROVE  CopiesCounted'
  BY <1>8, RollbackCopies DEF TickFails, RelayCrash
<1> HIDE DEF dbVars, txnVars, relayVars, brokerVars, consumerVars, inboxVars
<1> QED
  BY <1>2, <1>3, <1>4, <1>5, <1>6, <1>7, <1>8, StoreCopies, StrayCopies DEF Next, RelayStep

\* An event has one copy on the topic or on its way, and one more at most for
\* each fault, for any number of relays that share the table.
THEOREM DuplicatesAreFaults == Spec => []DuplicatesNeedFaults
<1>1. Init => CopiesCounted
  <2> SUFFICES ASSUME Init, NEW o \in Orders PROVE Copies(o) <= faults
    BY DEF CopiesCounted, Init, Stored
  <2>1. Offsets(o) = {} /\ stray[o] = 0 /\ faults = 0
    BY ConstantsAssumption DEF Init, Offsets
  <2> QED BY <2>1, FS_EmptySet DEF Copies
<1>2. IInv /\ CopiesCounted => DuplicatesNeedFaults
  <2> SUFFICES ASSUME IInv, CopiesCounted, NEW o \in Orders
               PROVE  Copies(o) <= 1 + faults
    BY DEF DuplicatesNeedFaults, Copies, Offsets
  <2>1. Copies(o) \in Nat /\ faults \in Nat
    BY OffsetsFinite DEF IInv, TypeOK
  <2> QED BY <2>1 DEF CopiesCounted
<1> QED BY <1>1, <1>2, CopiesStep, Invariance, PTL DEF Spec

=============================================================================
