---------------------------- MODULE ReadModelProofs ----------------------------
(***************************************************************************)
(* Theorems about ReadModel for any feed and any number of faults.  The    *)
(* view is true because records are never taken from a log, and it joins   *)
(* because each arm of process_event looks for the other result. Each      *)
(* assignment of the notification service's topics but the current one may *)
(* have notified all records, and the current one those below its position.*)
(***************************************************************************)
EXTENDS ReadModel, SequenceTheorems, FiniteSetTheorems, TLAPS

ViewsOK == view \in [Orders -> Views \cup {NoView}]
RestOK ==
    /\ notified \in [Orders -> [Events -> Nat]]
    /\ up \in [Readers -> {"up", "deaf", "down"}]
    /\ faults \in 0 .. MaxFaults

\* No good result without a charge or a reservation of its own.
Backed == \A o \in Orders, e \in Good : Occurrences(o, e) <= Done(o, e)

FeedOK == LogOK /\ LedgerOK /\ Backed

ViewIsPublished ==
    \A o \in Orders :
        /\ view[o].payment = "COMPLETED" => Published(o, "PAYMENT_COMPLETED")
        /\ view[o].payment = "FAILED" => Published(o, "PAYMENT_FAILED")
        /\ view[o].inventory = "RESERVED" => Published(o, "INVENTORY_RESERVED")
        /\ view[o].inventory = "FAILED" => Published(o, "INVENTORY_FAILED")

IInv == FeedOK /\ OffsetsOK /\ ViewsOK /\ RestOK /\ ViewJoins /\ ViewIsPublished

LEMMA EventNames ==
    /\ Events = {"ORDER_CREATED", "PAYMENT_COMPLETED", "PAYMENT_FAILED", "INVENTORY_RESERVED",
                 "INVENTORY_FAILED"}
    /\ \A e \in Events : TopicOf[e] \in Topics
  <1>1. Events = {"ORDER_CREATED", "PAYMENT_COMPLETED", "PAYMENT_FAILED", "INVENTORY_RESERVED",
                  "INVENTORY_FAILED"}
    BY DEF Events, TopicOf
  <1> QED
    BY <1>1 DEF Topics

-----------------------------------------------------------------------------
(* The logs                                                                *)

\* Appending an event keeps every record and adds this one.
LEMMA LogGrows ==
    ASSUME LogOK, NEW o \in Orders, NEW e \in Events, log' = Logged(o, e)
    PROVE  /\ LogOK'
           /\ \A t \in Topics, p \in Orders :
                 /\ Len(log[t][p]) <= Len(log'[t][p])
                 /\ \A i \in 1 .. Len(log[t][p]) : log'[t][p][i] = log[t][p][i]
                 /\ \A i \in 1 .. Len(log'[t][p]) :
                       i \in 1 .. Len(log[t][p]) \/ (p = o /\ log'[t][p][i] = e)
  <1> DEFINE T == TopicOf[e]
  <1>1. T \in Topics
    BY EventNames
  <1>2. \A t \in Topics, p \in Orders :
           log'[t][p] = IF t = T /\ p = o THEN Append(log[t][p], e) ELSE log[t][p]
    BY <1>1 DEF LogOK, Logged
  <1>3. \A t \in Topics, p \in Orders : log[t][p] \in Seq(Events)
    BY DEF LogOK
  <1>4. \A t \in Topics, p \in Orders :
           LET q == Append(log[t][p], e) IN
           /\ q \in Seq(Events) /\ Len(q) = Len(log[t][p]) + 1
           /\ \A i \in 1 .. Len(log[t][p]) : q[i] = log[t][p][i]
           /\ q[Len(log[t][p]) + 1] = e
    BY <1>3, AppendProperties
  <1>5. \A t \in Topics, p \in Orders : Len(log[t][p]) \in Nat
    BY <1>3, LenProperties
  <1>6. log' \in [Topics -> [Orders -> Seq(Events)]]
    BY <1>1, <1>4 DEF LogOK, Logged
  <1>7. ASSUME NEW t \in Topics, NEW p \in Orders
        PROVE  /\ Len(log[t][p]) <= Len(log'[t][p])
               /\ \A i \in 1 .. Len(log[t][p]) : log'[t][p][i] = log[t][p][i]
               /\ \A i \in 1 .. Len(log'[t][p]) :
                     \/ i \in 1 .. Len(log[t][p])
                     \/ p = o /\ t = T /\ log'[t][p][i] = e
    <2>1. CASE t = T /\ p = o
      <3>1. /\ log'[t][p] = Append(log[t][p], e)
            /\ Len(Append(log[t][p], e)) = Len(log[t][p]) + 1
        BY <2>1, <1>2, <1>4
      <3>2. \A i \in 1 .. Len(log'[t][p]) :
               i \in 1 .. Len(log[t][p]) \/ i = Len(log[t][p]) + 1
        BY <3>1, <1>5
      <3>3. \A i \in 1 .. Len(log[t][p]) : log'[t][p][i] = log[t][p][i]
        BY <3>1, <1>4
      <3>4. log'[t][p][Len(log[t][p]) + 1] = e
        BY <3>1, <1>4
      <3> QED
        BY <2>1, <3>1, <3>2, <3>3, <3>4, <1>5
    <2>2. CASE ~(t = T /\ p = o)
      BY <2>2, <1>2, <1>5
    <2> QED
      BY <2>1, <2>2
  <1>8. \A t \in Topics, p \in Orders : \A i \in 1 .. Len(log'[t][p]) :
           TopicOf[log'[t][p][i]] = t
    <2> SUFFICES ASSUME NEW t \in Topics, NEW p \in Orders, NEW i \in 1 .. Len(log'[t][p])
                 PROVE  TopicOf[log'[t][p][i]] = t
      OBVIOUS
    <2>1. CASE i \in 1 .. Len(log[t][p])
      BY <2>1, <1>7 DEF LogOK
    <2>2. CASE p = o /\ t = T /\ log'[t][p][i] = e
      BY <2>2
    <2> QED
      BY <1>7, <2>1, <2>2
  <1> QED
    BY <1>6, <1>7, <1>8 DEF LogOK

\* The places of event e among the first n records of s.
Places(s, n, e) == {i \in 1 .. n : s[i] = e}

LEMMA Products ==
    ASSUME NEW f \in Nat, NEW a \in Nat, NEW b \in Nat, a <= b
    PROVE  f * a \in Nat /\ f * a <= f * b /\ (f + 1) * a = f * a + a
  <1>1. PICK d \in Nat : b = a + d
    BY b - a \in Nat
  <1>2. f * a \in Nat /\ f * d \in Nat
    OBVIOUS
  <1>3. f * (a + d) = f * a + f * d
    OBVIOUS
  <1> QED
    BY <1>1, <1>2, <1>3

\* The records of an event in a longer sequence are finitely many, and no fewer.
LEMMA Picks ==
    ASSUME NEW s, NEW u, NEW e, NEW m \in Nat, NEW n \in Nat, m <= n,
           \A i \in 1 .. m : s[i] = u[i]
    PROVE  /\ IsFiniteSet(Places(s, m, e))
           /\ Cardinality(Places(s, m, e)) \in Nat
           /\ Cardinality(Places(u, n, e)) \in Nat
           /\ Cardinality(Places(s, m, e)) <= Cardinality(Places(u, n, e))
  <1>1. IsFiniteSet(1 .. n)
    BY FS_Interval
  <1>2. Places(u, n, e) \in SUBSET (1 .. n) /\ Places(s, m, e) \in SUBSET Places(u, n, e)
    BY DEF Places
  <1>3. IsFiniteSet(Places(u, n, e))
    BY <1>1, <1>2, FS_Subset
  <1>4. /\ IsFiniteSet(Places(s, m, e))
        /\ Cardinality(Places(s, m, e)) <= Cardinality(Places(u, n, e))
    BY <1>2, <1>3, FS_Subset
  <1> QED
    BY <1>3, <1>4, FS_CardinalityType

\* One record more is one place more if it is the event.
LEMMA OneLonger ==
    ASSUME NEW s, NEW u, NEW e, NEW n \in Nat, NEW m \in Nat, m = n + 1, \A i \in 1 .. n : u[i] = s[i]
    PROVE  /\ u[m] = e => Cardinality(Places(u, m, e)) = Cardinality(Places(s, n, e)) + 1
           /\ u[m] # e => Cardinality(Places(u, m, e)) = Cardinality(Places(s, n, e))
  <1>1. IsFiniteSet(Places(s, n, e)) /\ Cardinality(Places(s, n, e)) \in Nat
    <2>1. n <= n /\ \A i \in 1 .. n : s[i] = s[i]
      OBVIOUS
    <2> QED
      BY <2>1, Picks
  <1>2. 1 .. n + 1 = (1 .. n) \cup {n + 1} /\ n + 1 \notin 1 .. n
    OBVIOUS
  <1>3. Places(u, n + 1, e) = IF u[n + 1] = e THEN Places(s, n, e) \cup {n + 1} ELSE Places(s, n, e)
    BY <1>2 DEF Places
  <1>4. n + 1 \notin Places(s, n, e)
    BY <1>2 DEF Places
  <1>5. Cardinality(Places(s, n, e) \cup {n + 1}) = Cardinality(Places(s, n, e)) + 1
    BY <1>1, <1>4, FS_AddElement
  <1> QED
    BY <1>1, <1>3, <1>5

\* A record that a consumer takes is a record of the log, of a known topic.
LEMMA TakenIsLogged ==
    ASSUME LogOK, OffsetsOK, NEW s \in Readers, NEW t \in Topics, NEW o \in Orders, NEW e,
           Takes(s, t, o, e)
    PROVE  \E i \in 1 .. Len(log[t][o]) : log[t][o][i] = e /\ e \in Events /\ TopicOf[e] = t
  <1>1. position[s][t][o] \in Nat /\ log[t][o] \in Seq(Events) /\ Len(log[t][o]) \in Nat
    BY LenProperties DEF OffsetsOK, LogOK
  <1>2. position[s][t][o] + 1 \in 1 .. Len(log[t][o])
    BY <1>1 DEF Takes
  <1>3. log[t][o][position[s][t][o] + 1] \in Events
    BY <1>1, <1>2, ElementOfSeq
  <1> QED
    BY <1>2, <1>3 DEF Takes, LogOK

-----------------------------------------------------------------------------
(* Offsets                                                                 *)

LEMMA FaultsOK == ASSUME faults \in 0 .. MaxFaults, Fault \/ UNCHANGED faults
                  PROVE  (faults \in 0 .. MaxFaults)'
  BY ReadersAssumption DEF Fault

\* The bounds of the offsets hold once they hold one by one.
LEMMA OffsetsPointwise ==
    ASSUME position' \in [Readers -> [Topics -> [Orders -> Nat]]],
           committed' \in [Readers -> [Topics -> [Orders -> Nat]]],
           \A s \in Readers, t \in Topics, o \in Orders :
              committed'[s][t][o] <= position'[s][t][o] /\ position'[s][t][o] <= Len(log'[t][o])
    PROVE  OffsetsOK'
  BY DEF OffsetsOK

LEMMA OffsetsTyped ==
    ASSUME OffsetsOK, LogOK, NEW s \in Readers, NEW t \in Topics, NEW o \in Orders
    PROVE  /\ position[s][t][o] \in Nat /\ committed[s][t][o] \in Nat
           /\ Len(log[t][o]) \in Nat
           /\ committed[s][t][o] <= position[s][t][o]
           /\ position[s][t][o] <= Len(log[t][o])
  <1>1. log[t][o] \in Seq(Events)
    BY DEF LogOK
  <1>2. Len(log[t][o]) \in Nat
    BY <1>1, LenProperties
  <1> QED
    BY <1>2 DEF OffsetsOK

\* The offsets keep within logs that grow or stay.
LEMMA OffsetsFrame ==
    ASSUME OffsetsOK, UNCHANGED <<position, committed>>, LogOK, LogOK',
           \A t \in Topics, o \in Orders : Len(log[t][o]) <= Len(log'[t][o])
    PROVE  OffsetsOK'
  <1>1. position' = position /\ committed' = committed
    OBVIOUS
  <1>2. ASSUME NEW s \in Readers, NEW t \in Topics, NEW o \in Orders
        PROVE  /\ committed'[s][t][o] <= position'[s][t][o]
               /\ position'[s][t][o] <= Len(log'[t][o])
    <2>1. log'[t][o] \in Seq(Events)
      BY DEF LogOK
    <2>2. Len(log'[t][o]) \in Nat
      BY <2>1, LenProperties
    <2> QED
      BY <1>1, <2>2, OffsetsTyped
  <1>3. /\ position' \in [Readers -> [Topics -> [Orders -> Nat]]]
        /\ committed' \in [Readers -> [Topics -> [Orders -> Nat]]]
    BY <1>1 DEF OffsetsOK
  <1> QED
    BY <1>2, <1>3, OffsetsPointwise

\* A table of three dimensions of which one entry changes.
LEMMA OneEntryChanges ==
    ASSUME NEW A, NEW B, NEW C, NEW f \in [A -> [B -> [C -> Nat]]], NEW v,
           NEW a \in A, NEW b \in B, NEW c \in C,
           NEW x \in A, NEW y \in B, NEW z \in C
    PROVE  [f EXCEPT ![a][b][c] = v][x][y][z]
             = IF x = a /\ y = b /\ z = c THEN v ELSE f[x][y][z]
  <1>1. CASE x # a
    BY <1>1
  <1>2. CASE x = a /\ y # b
    BY <1>2
  <1>3. CASE x = a /\ y = b
    BY <1>3
  <1> QED
    BY <1>1, <1>2, <1>3

\* Taking a record moves one position, to the end of the log at most.
LEMMA TakesOffsets ==
    ASSUME LogOK, OffsetsOK, NEW s \in Readers, NEW t \in Topics, NEW o \in Orders, NEW e,
           Takes(s, t, o, e), UNCHANGED <<committed, log>>
    PROVE  OffsetsOK'
  <1>1. /\ position[s][t][o] < Len(log[t][o])
        /\ position' = [position EXCEPT ![s][t][o] = position[s][t][o] + 1]
    BY DEF Takes
  <1>2. /\ position \in [Readers -> [Topics -> [Orders -> Nat]]]
        /\ committed' \in [Readers -> [Topics -> [Orders -> Nat]]]
        /\ committed' = committed /\ log' = log
    BY DEF OffsetsOK
  <1>3. position[s][t][o] + 1 \in Nat
    BY OffsetsTyped
  <1>4. position' \in [Readers -> [Topics -> [Orders -> Nat]]]
    BY <1>1, <1>2, <1>3
  <1>5. ASSUME NEW r \in Readers, NEW u \in Topics, NEW p \in Orders
        PROVE  position'[r][u][p] = IF r = s /\ u = t /\ p = o
                                      THEN position[s][t][o] + 1 ELSE position[r][u][p]
    <2>1. position \in [Readers -> [Topics -> [Orders -> Nat]]]
      BY <1>2
    <2> QED
      BY <1>1, <2>1, OneEntryChanges
  <1>6. ASSUME NEW r \in Readers, NEW u \in Topics, NEW p \in Orders
        PROVE  /\ committed'[r][u][p] <= position'[r][u][p]
               /\ position'[r][u][p] <= Len(log'[u][p])
    <2>1. CASE r = s /\ u = t /\ p = o
      BY <2>1, <1>1, <1>2, <1>5, OffsetsTyped
    <2>2. CASE ~(r = s /\ u = t /\ p = o)
      BY <2>2, <1>2, <1>5, OffsetsTyped
    <2> QED
      BY <2>1, <2>2
  <1> QED
    BY <1>2, <1>4, <1>6, OffsetsPointwise

\* A commit copies the position of one reader, or leaves the offset.
LEMMA CommitOffsets ==
    ASSUME OffsetsOK, LogOK, LogOK', NEW s \in Readers,
           committed' = [committed EXCEPT ![s] = position[s]], UNCHANGED position,
           \A t \in Topics, o \in Orders : Len(log[t][o]) <= Len(log'[t][o])
    PROVE  OffsetsOK'
  <1>1. /\ position \in [Readers -> [Topics -> [Orders -> Nat]]]
        /\ committed \in [Readers -> [Topics -> [Orders -> Nat]]]
    BY DEF OffsetsOK
  <1>2. \A r \in Readers : committed'[r] = IF r = s THEN position[r] ELSE committed[r]
    BY <1>1
  <1>3. position[s] \in [Topics -> [Orders -> Nat]]
    BY <1>1
  <1>4. committed' \in [Readers -> [Topics -> [Orders -> Nat]]]
    BY <1>1, <1>3
  <1>5. ASSUME NEW r \in Readers, NEW t \in Topics, NEW o \in Orders
        PROVE  /\ committed'[r][t][o] <= position'[r][t][o]
               /\ position'[r][t][o] <= Len(log'[t][o])
    <2>1. log'[t][o] \in Seq(Events)
      BY DEF LogOK
    <2>2. Len(log'[t][o]) \in Nat
      BY <2>1, LenProperties
    <2> QED
      BY <1>2, <2>2, OffsetsTyped
  <1> QED
    BY <1>1, <1>4, <1>5, OffsetsPointwise

\* A crash or a rejoin goes back to the committed offsets of one reader.
LEMMA CrashOffsets ==
    ASSUME OffsetsOK, LogOK, NEW s \in Readers,
           position' = [position EXCEPT ![s] = committed[s]], UNCHANGED <<committed, log>>
    PROVE  OffsetsOK'
  <1>1. /\ position \in [Readers -> [Topics -> [Orders -> Nat]]]
        /\ committed \in [Readers -> [Topics -> [Orders -> Nat]]]
    BY DEF OffsetsOK
  <1>2. \A r \in Readers : position'[r] = IF r = s THEN committed[r] ELSE position[r]
    BY <1>1
  <1>3. committed[s] \in [Topics -> [Orders -> Nat]]
    BY <1>1
  <1>4. position' \in [Readers -> [Topics -> [Orders -> Nat]]]
    BY <1>1, <1>3
  <1>5. ASSUME NEW r \in Readers, NEW t \in Topics, NEW o \in Orders
        PROVE  /\ committed'[r][t][o] <= position'[r][t][o]
               /\ position'[r][t][o] <= Len(log'[t][o])
    BY <1>2, OffsetsTyped
  <1> QED
    BY <1>1, <1>4, <1>5, OffsetsPointwise

-----------------------------------------------------------------------------
(* The view                                                                *)

\* What an event makes of a view is a view that joins the two results.
LEMMA ApplyJoins ==
    ASSUME NEW v \in Views \cup {NoView}, NEW e \in Events,
           v.status = "COMPLETED" <=> v.payment = "COMPLETED" /\ v.inventory = "RESERVED"
    PROVE  /\ Apply(v, e) \in Views \cup {NoView}
           /\ Apply(v, e).status = "COMPLETED" <=>
                 Apply(v, e).payment = "COMPLETED" /\ Apply(v, e).inventory = "RESERVED"
  <1>1. CASE e = "ORDER_CREATED"
    BY <1>1 DEF Apply, Created, Views
  <1>2. CASE e # "ORDER_CREATED" /\ v = NoView
    BY <1>2 DEF Apply, NoView
  <1>3. CASE e # "ORDER_CREATED" /\ v # NoView
    <2>1. v \in Views
      BY <1>3
    <2>2. CASE e = "PAYMENT_COMPLETED"
      <3>1. Apply(v, e) = Paid(v)
        BY <1>3, <2>2 DEF Apply
      <3> QED
        BY <2>1, <3>1 DEF Paid, Views
    <2>3. CASE e = "PAYMENT_FAILED"
      <3>1. Apply(v, e) = PaymentFailed(v)
        BY <1>3, <2>3 DEF Apply
      <3> QED
        BY <2>1, <3>1 DEF PaymentFailed, Views
    <2>4. CASE e = "INVENTORY_RESERVED"
      <3>1. Apply(v, e) = Reserved(v)
        BY <1>3, <2>4 DEF Apply
      <3> QED
        BY <2>1, <3>1 DEF Reserved, Views
    <2>5. CASE e = "INVENTORY_FAILED"
      <3>1. Apply(v, e) = InventoryFailed(v)
        BY <1>3, <2>5 DEF Apply
      <3> QED
        BY <2>1, <3>1 DEF InventoryFailed, Views
    <2> QED
      BY <1>3, <2>2, <2>3, <2>4, <2>5, EventNames
  <1> QED
    BY <1>1, <1>2, <1>3

\* An event adds what it says itself to a view, and nothing else.
LEMMA ApplySays ==
    ASSUME NEW v \in Views \cup {NoView}, NEW e \in Events
    PROVE  /\ Apply(v, e).payment = "COMPLETED" => v.payment = "COMPLETED" \/ e = "PAYMENT_COMPLETED"
           /\ Apply(v, e).payment = "FAILED" => v.payment = "FAILED" \/ e = "PAYMENT_FAILED"
           /\ Apply(v, e).inventory = "RESERVED" =>
                 v.inventory = "RESERVED" \/ e = "INVENTORY_RESERVED"
           /\ Apply(v, e).inventory = "FAILED" => v.inventory = "FAILED" \/ e = "INVENTORY_FAILED"
  <1>1. CASE e = "ORDER_CREATED"
    BY <1>1 DEF Apply, Created
  <1>2. CASE e # "ORDER_CREATED" /\ v = NoView
    BY <1>2 DEF Apply, NoView
  <1>3. CASE e # "ORDER_CREATED" /\ v # NoView
    <2>1. v \in Views
      BY <1>3
    <2>2. CASE e = "PAYMENT_COMPLETED"
      <3>1. Apply(v, e) = Paid(v)
        BY <1>3, <2>2 DEF Apply
      <3> QED
        BY <2>1, <2>2, <3>1 DEF Paid, Views
    <2>3. CASE e = "PAYMENT_FAILED"
      <3>1. Apply(v, e) = PaymentFailed(v)
        BY <1>3, <2>3 DEF Apply
      <3> QED
        BY <2>1, <2>3, <3>1 DEF PaymentFailed, Views
    <2>4. CASE e = "INVENTORY_RESERVED"
      <3>1. Apply(v, e) = Reserved(v)
        BY <1>3, <2>4 DEF Apply
      <3> QED
        BY <2>1, <2>4, <3>1 DEF Reserved, Views
    <2>5. CASE e = "INVENTORY_FAILED"
      <3>1. Apply(v, e) = InventoryFailed(v)
        BY <1>3, <2>5 DEF Apply
      <3> QED
        BY <2>1, <2>5, <3>1 DEF InventoryFailed, Views
    <2> QED
      BY <1>3, <2>2, <2>3, <2>4, <2>5, EventNames
  <1> QED
    BY <1>1, <1>2, <1>3

\* A record stays where it is.
LEMMA PublishedStays ==
    ASSUME LogOK, NEW o \in Orders, NEW e \in Events, log' = Logged(o, e),
           NEW p \in Orders, NEW f \in Events, Published(p, f)
    PROVE  Published(p, f)'
  <1> DEFINE T == TopicOf[f]
  <1>1. T \in Topics
    BY EventNames
  <1>2. /\ Len(log[T][p]) <= Len(log'[T][p])
        /\ \A i \in 1 .. Len(log[T][p]) : log'[T][p][i] = log[T][p][i]
    BY <1>1, LogGrows
  <1>3. log[T][p] \in Seq(Events) /\ log'[T][p] \in Seq(Events)
    BY <1>1, LogGrows DEF LogOK
  <1>4. Len(log[T][p]) \in Nat /\ Len(log'[T][p]) \in Nat
    BY <1>3, LenProperties
  <1>5. PICK i \in 1 .. Len(log[T][p]) : log[T][p][i] = f
    BY DEF Published
  <1>6. i \in 1 .. Len(log'[T][p]) /\ log'[T][p][i] = f
    BY <1>2, <1>4, <1>5
  <1> QED
    BY <1>6 DEF Published

\* The claims about the views hold once they hold one by one.
LEMMA ViewsPointwise ==
    ASSUME \A o \in Orders : \E v \in Views \cup {NoView} :
              /\ view'[o] = v
              /\ v.status = "COMPLETED" <=> v.payment = "COMPLETED" /\ v.inventory = "RESERVED"
              /\ v.payment = "COMPLETED" => Published(o, "PAYMENT_COMPLETED")'
              /\ v.payment = "FAILED" => Published(o, "PAYMENT_FAILED")'
              /\ v.inventory = "RESERVED" => Published(o, "INVENTORY_RESERVED")'
              /\ v.inventory = "FAILED" => Published(o, "INVENTORY_FAILED")'
    PROVE  ViewJoins' /\ ViewIsPublished'
  <1>1. ViewJoins'
    BY DEF ViewJoins
  <1>2. ViewIsPublished'
    BY DEF ViewIsPublished, Published
  <1> QED
    BY <1>1, <1>2

-----------------------------------------------------------------------------
(* Steps                                                                   *)

\* Appending an event makes one more record of it, and of no other.
LEMMA OneMore ==
    ASSUME LogOK, NEW o \in Orders, NEW e \in Events, log' = Logged(o, e),
           NEW p \in Orders, NEW f \in Events
    PROVE  /\ Occurrences(p, f) \in Nat
           /\ Occurrences(p, f)' = Occurrences(p, f) + IF p = o /\ f = e THEN 1 ELSE 0
  <1> DEFINE T == TopicOf[f]
             n == Len(log[T][p])
  <1>1. T \in Topics /\ TopicOf[e] \in Topics
    BY EventNames
  <1>2. log[T][p] \in Seq(Events) /\ n \in Nat
    BY <1>1, LenProperties DEF LogOK
  <1>3. /\ Occurrences(p, f) = Cardinality(Places(log[T][p], n, f))
        /\ Occurrences(p, f)' = Cardinality(Places(log'[T][p], Len(log'[T][p]), f))
    BY DEF Occurrences, Places
  <1>4. IsFiniteSet(Places(log[T][p], n, f)) /\ Cardinality(Places(log[T][p], n, f)) \in Nat
    BY <1>2, Picks
  <1>5. CASE T = TopicOf[e] /\ p = o
    <2>1. log'[T][p] = Append(log[T][p], e)
      BY <1>1, <1>5 DEF Logged, LogOK
    <2>2. /\ Len(log'[T][p]) = n + 1 /\ log'[T][p][n + 1] = e
          /\ \A i \in 1 .. n : log'[T][p][i] = log[T][p][i]
      BY <1>2, <2>1, AppendProperties
    <2> DEFINE u == log'[T][p]
    <2>3. /\ e = f => Cardinality(Places(u, Len(u), f)) = Cardinality(Places(log[T][p], n, f)) + 1
          /\ e # f => Cardinality(Places(u, Len(u), f)) = Cardinality(Places(log[T][p], n, f))
      <3>1. Len(u) \in Nat /\ Len(u) = n + 1 /\ u[Len(u)] = e
        BY <1>2, <2>2
      <3>2. \A i \in 1 .. n : u[i] = log[T][p][i]
        BY <2>2
      <3>3. n \in Nat
        BY <1>2
      <3> HIDE DEF u, n, T
      <3> DEFINE v == log[T][p]
      <3>4. \A i \in 1 .. n : u[i] = v[i]
        BY <3>2
      <3> HIDE DEF v
      <3>5. n + 1 \in Nat
        BY <3>3
      <3>6. /\ u[n + 1] = f => Cardinality(Places(u, n + 1, f)) = Cardinality(Places(v, n, f)) + 1
            /\ u[n + 1] # f => Cardinality(Places(u, n + 1, f)) = Cardinality(Places(v, n, f))
        BY <3>3, <3>4, <3>5, OneLonger
      <3>7. u[n + 1] = e /\ Len(u) = n + 1
        BY <3>1
      <3> QED
        BY <3>6, <3>7 DEF v
    <2>4. /\ e = f => Occurrences(p, f)' = Occurrences(p, f) + 1
          /\ e # f => Occurrences(p, f)' = Occurrences(p, f)
      BY <1>3, <2>3
    <2> QED
      BY <1>3, <1>4, <1>5, <2>4
  <1>6. CASE ~(T = TopicOf[e] /\ p = o)
    <2>1. log'[T][p] = log[T][p]
      BY <1>1, <1>6 DEF Logged, LogOK
    <2> QED
      BY <1>3, <1>4, <1>6, <2>1
  <1> QED
    BY <1>5, <1>6

\* What is published is counted.
LEMMA PublishedCounts ==
    ASSUME LogOK, NEW o \in Orders, NEW e \in Events, Published(o, e)
    PROVE  Occurrences(o, e) \in Nat /\ Occurrences(o, e) > 0
  <1> DEFINE l == log[TopicOf[e]][o]
             R == Places(l, Len(l), e)
  <1>1. l \in Seq(Events)
    BY EventNames DEF LogOK
  <1>2. Len(l) \in Nat
    BY <1>1, LenProperties
  <1>3. IsFiniteSet(R) /\ Cardinality(R) \in Nat
    BY <1>2, Picks
  <1>4. R # {}
    BY DEF Published, Places
  <1>5. Cardinality(R) # 0
    BY <1>3, <1>4, FS_EmptySet
  <1>6. Occurrences(o, e) = Cardinality(R)
    BY DEF Occurrences, Places
  <1> QED
    BY <1>3, <1>5, <1>6

\* A step of the feed adds a record, a good result only if one is due, or a
\* charge or a reservation.
LEMMA FeedAdds ==
    ASSUME Feed, LedgerOK
    PROVE  /\ LedgerOK'
           /\ \A o \in Orders : charges[o] <= charges'[o] /\ reserved[o] <= reserved'[o]
           /\ \/ UNCHANGED log
              \/ \E o \in Orders, e \in Events :
                    /\ log' = Logged(o, e)
                    /\ e \in Good => Occurrences(o, e) < Done(o, e)
  <1>1. PICK o \in Orders :
           Announce(o) \/ Charge(o) \/ SetAside(o) \/ \E e \in Results : Report(o, e)
    BY DEF Feed, FeedNext
  <1>2. CASE Announce(o)
    <2>1. "ORDER_CREATED" \in Events /\ "ORDER_CREATED" \notin Good
      BY EventNames DEF Good
    <2> QED
      BY <1>2, <2>1 DEF Announce, ledger, LedgerOK
  <1>3. CASE Charge(o)
    BY <1>3 DEF Charge, LedgerOK
  <1>4. CASE SetAside(o)
    BY <1>4 DEF SetAside, LedgerOK
  <1>5. ASSUME NEW e \in Results, Report(o, e)
        PROVE  /\ UNCHANGED ledger /\ e \in Events /\ log' = Logged(o, e)
               /\ e \in Good => Occurrences(o, e) < Done(o, e)
    BY <1>5 DEF Report, Results
  <1>6. CASE \E e \in Results : Report(o, e)
    BY <1>5, <1>6 DEF ledger, LedgerOK
  <1> QED
    BY <1>1, <1>2, <1>3, <1>4, <1>6

\* A ledger that grows backs a log that stays, or that grows by what is due.
LEMMA BackedGrows ==
    ASSUME FeedOK, Feed
    PROVE  Backed'
  <1>1. /\ LedgerOK /\ LedgerOK'
        /\ \A o \in Orders : charges[o] <= charges'[o] /\ reserved[o] <= reserved'[o]
    BY FeedAdds DEF FeedOK
  <1>2. \A p \in Orders, f \in Good :
           /\ f \in Events
           /\ Done(p, f) \in Nat /\ Done(p, f)' \in Nat /\ Done(p, f) <= Done(p, f)'
           /\ Occurrences(p, f) <= Done(p, f)
    BY <1>1, EventNames DEF Done, LedgerOK, Good, FeedOK, Backed
  <1>3. CASE UNCHANGED log
    <2>1. \A p \in Orders, f \in Good :
             Occurrences(p, f)' = Occurrences(p, f) /\ Occurrences(p, f) \in Nat
      <3> SUFFICES ASSUME NEW p \in Orders, NEW f \in Good
                   PROVE  /\ Occurrences(p, f)' = Occurrences(p, f)
                          /\ Occurrences(p, f) \in Nat
        OBVIOUS
      <3>1. log[TopicOf[f]][p] \in Seq(Events)
        BY <1>2, EventNames DEF FeedOK, LogOK
      <3>2. Len(log[TopicOf[f]][p]) \in Nat
        BY <3>1, LenProperties
      <3>3. Cardinality(Places(log[TopicOf[f]][p], Len(log[TopicOf[f]][p]), f)) \in Nat
        BY <3>2, Picks
      <3>4. Occurrences(p, f)
               = Cardinality(Places(log[TopicOf[f]][p], Len(log[TopicOf[f]][p]), f))
        BY DEF Occurrences, Places
      <3>5. Occurrences(p, f)' = Occurrences(p, f)
        BY <1>3 DEF Occurrences
      <3> QED
        BY <3>3, <3>4, <3>5
    <2> QED
      BY <1>2, <2>1 DEF Backed
  <1>4. ASSUME NEW o \in Orders, NEW e \in Events, log' = Logged(o, e),
               e \in Good => Occurrences(o, e) < Done(o, e)
        PROVE  Backed'
    <2>1. ASSUME NEW p \in Orders, NEW f \in Good
          PROVE  Occurrences(p, f)' <= Done(p, f)'
      <3>1. /\ Occurrences(p, f) \in Nat
            /\ Occurrences(p, f)' = Occurrences(p, f) + IF p = o /\ f = e THEN 1 ELSE 0
        BY <1>2, <1>4, OneMore DEF FeedOK
      <3>2. CASE p = o /\ f = e
        BY <1>2, <1>4, <3>1, <3>2
      <3>3. CASE ~(p = o /\ f = e)
        BY <1>2, <3>1, <3>3
      <3> QED
        BY <3>2, <3>3
    <2> QED
      BY <2>1 DEF Backed
  <1> QED
    BY <1>3, <1>4, FeedAdds DEF FeedOK

\* A step of the feed keeps what there is.
LEMMA FeedGrows ==
    ASSUME FeedOK, Feed
    PROVE  /\ FeedOK'
           /\ \A t \in Topics, p \in Orders :
                 /\ Len(log[t][p]) <= Len(log'[t][p])
                 /\ \A i \in 1 .. Len(log[t][p]) : log'[t][p][i] = log[t][p][i]
           /\ \A p \in Orders, f \in Events : Published(p, f) => Published(p, f)'
  <1>1. LogOK /\ LedgerOK' /\ Backed'
    BY FeedAdds, BackedGrows DEF FeedOK
  <1>2. CASE UNCHANGED log
    <2>1. \A t \in Topics, p \in Orders : log[t][p] \in Seq(Events)
      BY <1>1 DEF LogOK
    <2>2. \A t \in Topics, p \in Orders : Len(log[t][p]) <= Len(log'[t][p])
      BY <1>2, <2>1, LenProperties
    <2> QED
      BY <1>1, <1>2, <2>2 DEF FeedOK, LogOK, Published
  <1>3. ASSUME NEW o \in Orders, NEW e \in Events, log' = Logged(o, e)
        PROVE  /\ LogOK'
               /\ \A t \in Topics, p \in Orders :
                     /\ Len(log[t][p]) <= Len(log'[t][p])
                     /\ \A i \in 1 .. Len(log[t][p]) : log'[t][p][i] = log[t][p][i]
               /\ \A p \in Orders, f \in Events : Published(p, f) => Published(p, f)'
    BY <1>1, <1>3, LogGrows, PublishedStays
  <1> QED
    BY <1>1, <1>2, <1>3, FeedAdds DEF FeedOK

LEMMA FeedStep ==
    ASSUME IInv, Feed
    PROVE  IInv'
  <1>1. FeedOK' /\ LogOK /\ LogOK'
    BY FeedGrows DEF IInv, FeedOK
  <1>2. UNCHANGED <<view, notified, up, position, committed, faults>>
    BY DEF Feed, readerVars
  <1>3. \A t \in Topics, p \in Orders : Len(log[t][p]) <= Len(log'[t][p])
    BY FeedGrows DEF IInv
  <1>4. OffsetsOK'
    BY <1>1, <1>2, <1>3, OffsetsFrame DEF IInv
  <1>5. ViewsOK' /\ RestOK' /\ ViewJoins'
    BY <1>2 DEF IInv, ViewsOK, RestOK, ViewJoins
  <1>6. ViewIsPublished'
    <2>1. \A p \in Orders, f \in Events : Published(p, f) => Published(p, f)'
      BY FeedGrows DEF IInv
    <2>2. /\ \A p \in Orders : Published(p, "PAYMENT_COMPLETED") => Published(p, "PAYMENT_COMPLETED")'
          /\ \A p \in Orders : Published(p, "PAYMENT_FAILED") => Published(p, "PAYMENT_FAILED")'
          /\ \A p \in Orders : Published(p, "INVENTORY_RESERVED") => Published(p, "INVENTORY_RESERVED")'
          /\ \A p \in Orders : Published(p, "INVENTORY_FAILED") => Published(p, "INVENTORY_FAILED")'
      BY <2>1, EventNames
    <2> QED
      BY <1>2, <2>2 DEF IInv, ViewIsPublished
  <1> QED
    BY <1>1, <1>4, <1>5, <1>6 DEF IInv

LEMMA FeedFrame == ASSUME FeedOK, UNCHANGED feedVars PROVE FeedOK'
  BY DEF FeedOK, feedVars, ledger, LogOK, LedgerOK, Backed, Occurrences, Done

LEMMA QueryStepKeeps ==
    ASSUME IInv, NEW t \in Topics, NEW o \in Orders, Query(t, o)
    PROVE  IInv'
  <1>1. PICK e \in Events :
           /\ Takes("query", t, o, e)
           /\ view' = [view EXCEPT ![o] = Apply(view[o], e)]
           /\ UNCHANGED <<feedVars, log, notified, up, committed, faults>>
    BY DEF Query, feedVars
  <1>2. "query" \in Readers
    BY DEF Readers
  <1>3. Published(o, e)
    BY <1>1, <1>2, TakenIsLogged DEF IInv, FeedOK, Published
  <1>4. FeedOK' /\ RestOK' /\ OffsetsOK'
    <2>1. FeedOK' /\ RestOK'
      BY <1>1, FeedFrame DEF IInv, RestOK
    <2>2. OffsetsOK'
      BY <1>1, <1>2, TakesOffsets DEF IInv, FeedOK
    <2> QED
      BY <2>1, <2>2
  <1>5. /\ view[o] \in Views \cup {NoView}
        /\ view[o].status = "COMPLETED" <=>
              view[o].payment = "COMPLETED" /\ view[o].inventory = "RESERVED"
    BY DEF IInv, ViewsOK, ViewJoins
  <1>6. Apply(view[o], e) \in Views \cup {NoView}
    BY <1>5, ApplyJoins
  <1>7. ViewsOK'
    BY <1>1, <1>6 DEF IInv, ViewsOK
  <1>8. ASSUME NEW p \in Orders
        PROVE  \E v \in Views \cup {NoView} :
              /\ view'[p] = v
              /\ v.status = "COMPLETED" <=> v.payment = "COMPLETED" /\ v.inventory = "RESERVED"
              /\ v.payment = "COMPLETED" => Published(p, "PAYMENT_COMPLETED")'
              /\ v.payment = "FAILED" => Published(p, "PAYMENT_FAILED")'
              /\ v.inventory = "RESERVED" => Published(p, "INVENTORY_RESERVED")'
              /\ v.inventory = "FAILED" => Published(p, "INVENTORY_FAILED")'
    <2>1. \A f \in Events : Published(p, f) => Published(p, f)'
      BY <1>1 DEF Published
    <2>2. /\ view[p].payment = "COMPLETED" => Published(p, "PAYMENT_COMPLETED")
          /\ view[p].payment = "FAILED" => Published(p, "PAYMENT_FAILED")
          /\ view[p].inventory = "RESERVED" => Published(p, "INVENTORY_RESERVED")
          /\ view[p].inventory = "FAILED" => Published(p, "INVENTORY_FAILED")
      BY DEF IInv, ViewIsPublished
    <2>3. CASE p = o
      <3> DEFINE v == Apply(view[o], e)
      <3>1. view'[p] = v /\ v \in Views \cup {NoView}
        BY <1>1, <1>6, <2>3 DEF IInv, ViewsOK
      <3>2. v.status = "COMPLETED" <=> v.payment = "COMPLETED" /\ v.inventory = "RESERVED"
        BY <1>5, ApplyJoins
      <3>3. /\ v.payment = "COMPLETED" => Published(p, "PAYMENT_COMPLETED")
            /\ v.payment = "FAILED" => Published(p, "PAYMENT_FAILED")
            /\ v.inventory = "RESERVED" => Published(p, "INVENTORY_RESERVED")
            /\ v.inventory = "FAILED" => Published(p, "INVENTORY_FAILED")
        BY <1>3, <1>5, <2>2, <2>3, ApplySays
      <3> HIDE DEF v
      <3> QED
        BY <2>1, <3>1, <3>2, <3>3, EventNames
    <2>4. CASE p # o
      <3>1. view'[p] = view[p] /\ view[p] \in Views \cup {NoView}
        BY <1>1, <2>4 DEF IInv, ViewsOK
      <3>2. view[p].status = "COMPLETED" <=>
               view[p].payment = "COMPLETED" /\ view[p].inventory = "RESERVED"
        BY DEF IInv, ViewJoins
      <3> QED
        BY <2>1, <2>2, <3>1, <3>2, EventNames
    <2> QED
      BY <2>3, <2>4
  <1>9. ViewJoins' /\ ViewIsPublished'
    BY <1>8, ViewsPointwise
  <1> QED
    BY <1>4, <1>7, <1>9 DEF IInv

\* Steps that leave the log, and the views unless they are lost.
LEMMA ReaderStep ==
    ASSUME IInv, UNCHANGED feedVars, OffsetsOK', RestOK',
           UNCHANGED view \/ view' = [o \in Orders |-> NoView]
    PROVE  IInv'
  <1>1. FeedOK' /\ UNCHANGED log
    BY FeedFrame DEF IInv, feedVars
  <1>2. ViewsOK' /\ ViewJoins' /\ ViewIsPublished'
    <2>1. CASE UNCHANGED view
      BY <1>1, <2>1 DEF IInv, ViewsOK, ViewJoins, ViewIsPublished, Published
    <2>2. CASE view' = [o \in Orders |-> NoView]
      BY <2>2 DEF ViewsOK, ViewJoins, ViewIsPublished, NoView
    <2> QED
      BY <2>1, <2>2
  <1> QED
    BY <1>1, <1>2 DEF IInv

LEMMA NotifyStep ==
    ASSUME IInv, NEW t \in Topics, NEW o \in Orders, Notify(t, o)
    PROVE  IInv'
  <1>1. PICK e \in Events :
           /\ Takes("notification", t, o, e)
           /\ notified' = [notified EXCEPT ![o][e] = @ + 1]
           /\ UNCHANGED <<feedVars, log, view, up, committed, faults>>
    BY DEF Notify, feedVars
  <1>2. "notification" \in Readers
    BY DEF Readers
  <1>3. OffsetsOK'
    BY <1>1, <1>2, TakesOffsets DEF IInv, FeedOK
  <1>4. RestOK'
    BY <1>1 DEF IInv, RestOK
  <1> QED
    BY <1>1, <1>3, <1>4, ReaderStep

\* A commit keeps the offsets while the log stays.
LEMMA CommitStep ==
    ASSUME IInv, NEW r \in Readers, UNCHANGED <<log, position>>,
           committed' = [committed EXCEPT ![r] = position[r]]
    PROVE  OffsetsOK'
  <1>1. LogOK'
    BY DEF IInv, FeedOK, LogOK
  <1>2. "query" \in Readers
    BY DEF Readers
  <1>3. \A t \in Topics, o \in Orders : Len(log[t][o]) <= Len(log'[t][o])
    BY <1>2, OffsetsTyped DEF IInv, FeedOK
  <1> QED
    BY <1>1, <1>3, CommitOffsets DEF IInv, FeedOK

LEMMA LifeSteps ==
    ASSUME IInv, NEW r \in Readers,
           \/ AutoCommit(r) \/ Rejoin(r) \/ ConsumerEnds(r) \/ Crash(r) \/ Shutdown(r)
           \/ Start(r) \/ StartDeaf(r)
    PROVE  IInv'
  <1>1. /\ UNCHANGED <<feedVars, log, notified>>
        /\ Fault \/ UNCHANGED faults
        /\ UNCHANGED view \/ view' = [o \in Orders |-> NoView]
        /\ UNCHANGED up \/ \E u \in {"up", "deaf", "down"} : up' = [up EXCEPT ![r] = u]
    BY DEF AutoCommit, Rejoin, ConsumerEnds, Crash, Shutdown, Ends, Start, StartDeaf, feedVars
  <1>2. \/ UNCHANGED <<position, committed>>
        \/ UNCHANGED position /\ committed' = [committed EXCEPT ![r] = position[r]]
        \/ UNCHANGED committed /\ position' = [position EXCEPT ![r] = committed[r]]
    BY DEF AutoCommit, Rejoin, ConsumerEnds, Crash, Shutdown, Start, StartDeaf
  <1>3. OffsetsOK'
    <2>1. CASE UNCHANGED <<position, committed>>
      BY <1>1, <2>1 DEF IInv, OffsetsOK
    <2>2. CASE UNCHANGED position /\ committed' = [committed EXCEPT ![r] = position[r]]
      BY <1>1, <2>2, CommitStep
    <2>3. CASE UNCHANGED committed /\ position' = [position EXCEPT ![r] = committed[r]]
      BY <1>1, <2>3, CrashOffsets DEF IInv, FeedOK
    <2> QED
      BY <1>2, <2>1, <2>2, <2>3
  <1>4. RestOK'
    <2>1. (faults \in 0 .. MaxFaults)'
      BY <1>1, FaultsOK DEF IInv, RestOK
    <2> QED
      BY <1>1, <2>1 DEF IInv, RestOK
  <1> QED
    BY <1>1, <1>3, <1>4, ReaderStep

-----------------------------------------------------------------------------
(* Theorems                                                                *)

LEMMA InitIInv == Init => IInv
  <1> SUFFICES ASSUME Init PROVE IInv
    OBVIOUS
  <1>1. LogOK /\ OffsetsOK /\ LedgerOK
    BY DEF Init, FeedInit, LogOK, OffsetsOK, LedgerOK, Nothing
  <1>2. ViewsOK /\ RestOK
    BY ReadersAssumption DEF Init, ViewsOK, RestOK
  <1>3. ViewJoins /\ ViewIsPublished
    BY DEF Init, ViewJoins, ViewIsPublished, NoView
  <1>4. Backed
    <2>1. ASSUME NEW o \in Orders, NEW e \in Good
          PROVE  Occurrences(o, e) = 0 /\ Done(o, e) = 0
      <3>1. log[TopicOf[e]][o] = <<>>
        BY EventNames DEF Init, FeedInit, Good
      <3>2. {i \in 1 .. Len(log[TopicOf[e]][o]) : log[TopicOf[e]][o][i] = e} = {}
        BY <3>1
      <3> QED
        BY <3>2, FS_EmptySet DEF Init, FeedInit, Occurrences, Done
    <2> QED
      BY <2>1 DEF Backed
  <1> QED
    BY <1>1, <1>2, <1>3, <1>4 DEF IInv, FeedOK

LEMMA NextIInv ==
    ASSUME IInv, [Next]_vars
    PROVE  IInv'
  <1>1. CASE Feed
    BY <1>1, FeedStep
  <1>2. CASE QueryStep \/ NotificationStep
    BY <1>2, QueryStepKeeps, NotifyStep DEF QueryStep, NotificationStep
  <1>3. ASSUME NEW r \in Readers,
               \/ AutoCommit(r) \/ Rejoin(r) \/ ConsumerEnds(r) \/ Crash(r) \/ Shutdown(r)
               \/ Start(r) \/ StartDeaf(r)
        PROVE  IInv'
    BY <1>3, LifeSteps
  <1>4. CASE UNCHANGED vars
    <2>1. UNCHANGED <<feedVars, log, view, notified, up, position, committed, faults>>
      BY <1>4 DEF vars, readerVars, feedVars
    <2>2. OffsetsOK' /\ RestOK'
      BY <2>1 DEF IInv, OffsetsOK, RestOK
    <2> QED
      BY <2>1, <2>2, ReaderStep
  <1> QED
    BY <1>1, <1>2, <1>3, <1>4 DEF Next

LEMMA Invariance == Spec => []IInv
  <1>1. Init => IInv
    BY InitIInv
  <1>2. IInv /\ [Next]_vars => IInv'
    BY NextIInv
  <1> QED
    BY <1>1, <1>2, PTL DEF Spec

\* The variables of the two readers stay in their domains and their offsets
\* within the logs.
THEOREM TypeCorrect == Spec => []TypeOK
  <1>1. IInv => TypeOK
    BY DEF IInv, FeedOK, ViewsOK, RestOK, TypeOK
  <1> QED
    BY <1>1, Invariance, PTL

\* The view shows COMPLETED exactly when it shows both results as good,
\* whatever feed it reads and however often it reads it.
THEOREM ResultsAreJoined == Spec => []ViewJoins
  <1>1. IInv => ViewJoins
    BY DEF IInv
  <1> QED
    BY <1>1, Invariance, PTL

\* The view of any feed shows only what was published, and its successes have
\* happened: an order that it shows as COMPLETED is charged and reserved.
THEOREM ViewsAreTrue == Spec => []ViewIsTrue
  <1>1. IInv => ViewIsTrue
    <2> SUFFICES ASSUME IInv PROVE ViewIsTrue
      OBVIOUS
    <2>1. LogOK /\ LedgerOK /\ Backed /\ ViewIsPublished
      BY DEF IInv, FeedOK
    <2>2. ASSUME NEW o \in Orders, NEW e \in Good, Published(o, e)
          PROVE  Done(o, e) > 0
      <3>1. Occurrences(o, e) \in Nat /\ Occurrences(o, e) > 0 /\ Occurrences(o, e) <= Done(o, e)
        BY <2>1, <2>2, EventNames, PublishedCounts DEF Good, Backed
      <3>2. Done(o, e) \in Nat
        BY <2>1 DEF Done, LedgerOK
      <3> QED
        BY <3>1, <3>2
    <2>3. /\ \A o \in Orders : Published(o, "PAYMENT_COMPLETED") => charges[o] > 0
          /\ \A o \in Orders : Published(o, "INVENTORY_RESERVED") => reserved[o] > 0
      BY <2>2 DEF Done, Good
    <2> QED
      BY <2>1, <2>3 DEF ViewIsTrue, ViewIsPublished
  <1> QED
    BY <1>1, Invariance, PTL

-----------------------------------------------------------------------------
(* Notifications                                                           *)

\* The records of an event among the first n of its order.
Among(n, o, e) == Places(log[TopicOf[e]][o], n, e)

Heard(o, e) == position["notification"][TopicOf[e]][o]

\* Every assignment but the current one may have notified all records, the current one
\* has notified those that it has read.
NotifiedCounted ==
    \A o \in Orders, e \in Events :
        notified[o][e] <= faults * Occurrences(o, e) + Cardinality(Among(Heard(o, e), o, e))

\* The records before the position are some of all records, finitely many.
LEMMA AmongAll ==
    ASSUME LogOK, OffsetsOK, NEW o \in Orders, NEW e \in Events
    PROVE  /\ Heard(o, e) \in Nat /\ Heard(o, e) <= Len(log[TopicOf[e]][o])
           /\ IsFiniteSet(Among(Heard(o, e), o, e))
           /\ Cardinality(Among(Heard(o, e), o, e)) \in Nat
           /\ Occurrences(o, e) \in Nat
           /\ Cardinality(Among(Heard(o, e), o, e)) <= Occurrences(o, e)
  <1>1. /\ Heard(o, e) \in Nat /\ Len(log[TopicOf[e]][o]) \in Nat
        /\ Heard(o, e) <= Len(log[TopicOf[e]][o])
    BY EventNames, OffsetsTyped DEF Heard, Readers
  <1>2. Occurrences(o, e) = Cardinality(Places(log[TopicOf[e]][o], Len(log[TopicOf[e]][o]), e))
    BY DEF Occurrences, Places
  <1> QED
    BY <1>1, <1>2, Picks DEF Among

\* The feed adds records behind the position.
LEMMA FeedCounted ==
    ASSUME IInv, NotifiedCounted, Feed
    PROVE  NotifiedCounted'
  <1>2. notified' = notified /\ position' = position /\ faults' = faults
    BY DEF Feed, readerVars
  <1>3. LogOK /\ OffsetsOK /\ LogOK' /\ OffsetsOK'
    BY FeedStep DEF IInv, FeedOK
  <1>4. ASSUME NEW o \in Orders, NEW e \in Events
        PROVE  notified'[o][e] <= faults' * Occurrences(o, e)'
                                    + Cardinality(Among(Heard(o, e), o, e))'
    <2> DEFINE l == log[TopicOf[e]][o]
               h == Heard(o, e)
    <2>1. TopicOf[e] \in Topics
      BY EventNames
    <2>2. Len(l) <= Len(l') /\ \A i \in 1 .. Len(l) : l'[i] = l[i]
      BY <2>1, FeedGrows DEF IInv
    <2>3. /\ h \in Nat /\ h <= Len(l) /\ h' = h /\ Len(l) \in Nat /\ Len(l') \in Nat
      BY <1>2, <1>3, <2>1, AmongAll, OffsetsTyped, LenProperties DEF Heard, LogOK
    <2>4. Among(Heard(o, e), o, e)' = Among(h, o, e)
      BY <2>2, <2>3 DEF Among, Places
    <2>5. Occurrences(o, e) <= Occurrences(o, e)' /\ Occurrences(o, e)' \in Nat
      <3>1. /\ Cardinality(Places(l', Len(l'), e)) \in Nat
            /\ Cardinality(Places(l, Len(l), e)) <= Cardinality(Places(l', Len(l'), e))
        BY <2>2, <2>3, Picks
      <3>2. /\ Occurrences(o, e) = Cardinality(Places(l, Len(l), e))
            /\ Occurrences(o, e)' = Cardinality(Places(l', Len(l'), e))
        BY DEF Occurrences, Places
      <3> QED
        BY <3>1, <3>2
    <2>6. /\ Occurrences(o, e) \in Nat
          /\ Cardinality(Among(h, o, e)) \in Nat /\ faults \in Nat /\ notified[o][e] \in Nat
      BY <1>3, AmongAll DEF IInv, FeedOK, RestOK
    <2>7. notified[o][e] <= faults * Occurrences(o, e) + Cardinality(Among(h, o, e))
      BY DEF NotifiedCounted
    <2>8. /\ faults * Occurrences(o, e) \in Nat /\ faults * Occurrences(o, e)' \in Nat
          /\ faults * Occurrences(o, e) <= faults * Occurrences(o, e)'
      BY <2>5, <2>6, Products
    <2>9. Cardinality(Among(Heard(o, e), o, e))' = Cardinality(Among(h, o, e))
      BY <2>4
    <2>10. notified'[o][e] = notified[o][e] /\ faults' = faults
      BY <1>2
    <2> HIDE DEF l, h
    <2> QED
      BY <2>5, <2>6, <2>7, <2>8, <2>9, <2>10
  <1> QED
    BY <1>4 DEF NotifiedCounted

\* A notification is for the record that is read with it.
LEMMA NotifyCounted ==
    ASSUME IInv, NotifiedCounted, NEW t \in Topics, NEW q \in Orders, Notify(t, q)
    PROVE  NotifiedCounted'
  <1>1. PICK f \in Events :
           /\ Takes("notification", t, q, f)
           /\ notified' = [notified EXCEPT ![q][f] = @ + 1]
           /\ log' = log /\ faults' = faults
    BY DEF Notify, feedVars
  <1>2. LogOK /\ OffsetsOK /\ "notification" \in Readers
    BY DEF IInv, FeedOK, Readers
  <1> DEFINE n == position["notification"][t][q]
  <1>3. /\ n \in Nat /\ n < Len(log[t][q]) /\ log[t][q][n + 1] = f
        /\ position' = [position EXCEPT !["notification"][t][q] = n + 1]
    BY <1>1, <1>2, OffsetsTyped DEF Takes
  <1>4. TopicOf[f] = t
    BY <1>1, <1>2, TakenIsLogged
  <1>5. ASSUME NEW o \in Orders, NEW e \in Events
        PROVE  notified'[o][e] <= faults' * Occurrences(o, e)'
                                    + Cardinality(Among(Heard(o, e), o, e))'
    <2> DEFINE h == Heard(o, e)
    <2>1. TopicOf[e] \in Topics
      BY EventNames
    <2>2. Heard(o, e)' = IF TopicOf[e] = t /\ o = q THEN n + 1 ELSE h
      <3>1. position \in [Readers -> [Topics -> [Orders -> Nat]]]
        BY <1>2 DEF OffsetsOK
      <3> QED
        BY <1>2, <1>3, <2>1, <3>1, OneEntryChanges DEF Heard
    <2>3. /\ h \in Nat /\ IsFiniteSet(Among(h, o, e)) /\ Cardinality(Among(h, o, e)) \in Nat
          /\ Occurrences(o, e) \in Nat /\ faults \in Nat /\ notified[o][e] \in Nat
      BY <1>2, AmongAll DEF IInv, FeedOK, RestOK
    <2>4. notified'[o][e] = notified[o][e] + IF o = q /\ e = f THEN 1 ELSE 0
      BY <1>1 DEF IInv, RestOK
    <2>5. /\ Cardinality(Among(Heard(o, e), o, e))' \in Nat
          /\ Cardinality(Among(Heard(o, e), o, e))'
                = Cardinality(Among(h, o, e)) + IF o = q /\ e = f THEN 1 ELSE 0
      <3>1. CASE TopicOf[e] = t /\ o = q
        <4>1. h = n /\ Heard(o, e)' = n + 1
          BY <2>2, <3>1 DEF Heard
        <4>2. 1 .. n + 1 = (1 .. n) \cup {n + 1} /\ n + 1 \notin 1 .. n
          BY <1>3
        <4>3. Among(Heard(o, e), o, e)' = IF e = f THEN Among(h, o, e) \cup {n + 1}
                                          ELSE Among(h, o, e)
          BY <1>1, <1>3, <3>1, <4>1, <4>2 DEF Among, Places
        <4>4. n + 1 \notin Among(h, o, e)
          BY <4>1, <4>2 DEF Among, Places
        <4>5. Cardinality(Among(h, o, e) \cup {n + 1}) = Cardinality(Among(h, o, e)) + 1
          BY <2>3, <4>4, FS_AddElement
        <4> QED
          BY <2>3, <3>1, <4>3, <4>5
      <3>2. CASE ~(TopicOf[e] = t /\ o = q)
        <4>1. Among(Heard(o, e), o, e)' = Among(h, o, e)
          BY <1>1, <2>2, <3>2 DEF Among, Places
        <4> QED
          BY <1>4, <2>3, <3>2, <4>1
      <3> QED
        BY <3>1, <3>2
    <2>6. Occurrences(o, e)' = Occurrences(o, e)
      BY <1>1 DEF Occurrences
    <2>7. notified[o][e] <= faults * Occurrences(o, e) + Cardinality(Among(h, o, e))
      BY DEF NotifiedCounted
    <2>8. faults * Occurrences(o, e) \in Nat
      BY <2>3, Products
    <2> HIDE DEF h
    <2> QED
      BY <1>1, <2>3, <2>4, <2>5, <2>6, <2>7, <2>8
  <1> QED
    BY <1>5 DEF NotifiedCounted

\* A crash or a rejoin reads records again, at the price of the fault that it is.
LEMMA LifeCounted ==
    ASSUME IInv, NotifiedCounted, log' = log, notified' = notified, OffsetsOK',
           \/ faults' = faults + 1
           \/ faults' = faults /\ position'["notification"] = position["notification"]
    PROVE  NotifiedCounted'
  <1>1. LogOK /\ OffsetsOK /\ LogOK'
    BY DEF IInv, FeedOK, LogOK
  <1>2. ASSUME NEW o \in Orders, NEW e \in Events
        PROVE  notified'[o][e] <= faults' * Occurrences(o, e)'
                                    + Cardinality(Among(Heard(o, e), o, e))'
    <2> DEFINE c == Cardinality(Among(Heard(o, e), o, e))
    <2>1. /\ c \in Nat /\ Occurrences(o, e) \in Nat /\ c <= Occurrences(o, e)
          /\ faults \in Nat /\ notified[o][e] \in Nat
      BY <1>1, AmongAll DEF IInv, FeedOK, RestOK
    <2> DEFINE d == Cardinality(Among(Heard(o, e), o, e))'
    <2>2. d \in Nat
      <3>1. Heard(o, e)' \in Nat
        <4>1. position' \in [Readers -> [Topics -> [Orders -> Nat]]]
          BY DEF OffsetsOK
        <4> QED
          BY <4>1, EventNames DEF Heard, Readers
      <3>2. Cardinality(Places(log'[TopicOf[e]][o], Heard(o, e)', e)) \in Nat
        BY <3>1, Picks
      <3> QED
        BY <3>2 DEF Among
    <2>3. Occurrences(o, e)' = Occurrences(o, e)
      BY DEF Occurrences
    <2>4. notified[o][e] <= faults * Occurrences(o, e) + c
      BY DEF NotifiedCounted
    <2>5. /\ faults * Occurrences(o, e) \in Nat
          /\ (faults + 1) * Occurrences(o, e) = faults * Occurrences(o, e) + Occurrences(o, e)
      BY <2>1, Products
    <2>6. CASE faults' = faults
      <3>1. Heard(o, e)' = Heard(o, e)
        BY <2>1, <2>6 DEF Heard
      <3>2. Among(Heard(o, e), o, e)' = Among(Heard(o, e), o, e)
        BY <3>1 DEF Among
      <3>3. d = c
        BY <3>2
      <3>4. notified'[o][e] <= faults * Occurrences(o, e) + d
        BY <2>4, <3>3
      <3> QED
        BY <2>3, <2>6, <3>4
    <2>7. CASE faults' = faults + 1
      <3> HIDE DEF c, d
      <3>1. notified'[o][e] <= (faults + 1) * Occurrences(o, e) + d
        BY <2>1, <2>2, <2>4, <2>5
      <3> QED
        BY <2>3, <2>7, <3>1 DEF d
    <2> QED
      BY <2>6, <2>7
  <1> QED
    BY <1>2 DEF NotifiedCounted

LEMMA NextCounted ==
    ASSUME IInv, NotifiedCounted, [Next]_vars
    PROVE  NotifiedCounted'
  <1>1. OffsetsOK' /\ OffsetsOK
    BY NextIInv DEF IInv, FeedOK
  <1>2. ASSUME NEW t \in Topics, NEW o \in Orders, Query(t, o)
        PROVE  NotifiedCounted'
    <2>1. log' = log /\ notified' = notified /\ faults' = faults
      BY <1>2 DEF Query, feedVars
    <2>2. position'["notification"] = position["notification"]
      BY <1>1, <1>2 DEF Query, Takes, OffsetsOK, Readers
    <2> QED
      BY <1>1, <2>1, <2>2, LifeCounted
  <1>3. ASSUME NEW r \in Readers,
               \/ AutoCommit(r) \/ Rejoin(r) \/ ConsumerEnds(r) \/ Crash(r) \/ Shutdown(r)
               \/ Start(r) \/ StartDeaf(r)
        PROVE  NotifiedCounted'
    <2>1. /\ log' = log /\ notified' = notified
          /\ faults' = faults + 1 \/ (faults' = faults /\ position' = position)
      BY <1>3 DEF AutoCommit, Rejoin, ConsumerEnds, Crash, Shutdown, Ends, Start, StartDeaf, Fault,
             feedVars
    <2> QED
      BY <1>1, <2>1, LifeCounted
  <1>4. CASE UNCHANGED vars
    <2>1. log' = log /\ notified' = notified /\ faults' = faults /\ position' = position
      BY <1>4 DEF vars, readerVars, feedVars
    <2> QED
      BY <1>1, <2>1, LifeCounted
  <1> QED
    BY <1>2, <1>3, <1>4, FeedCounted, NotifyCounted DEF Next, QueryStep, NotificationStep

\* A record is notified at most once for each time that the notification service is
\* assigned its topics, for any feed and any number of crashes and expired sessions,
\* and a success at most that often for each time that it happened.
THEOREM NotificationsBounded == Spec => []NotifiedOncePerAssignment
  <1>1. Init => NotifiedCounted
    <2> SUFFICES ASSUME Init, NEW o \in Orders, NEW e \in Events
                 PROVE  0 <= 0 * Occurrences(o, e) + Cardinality(Among(Heard(o, e), o, e))
      BY DEF NotifiedCounted, Init
    <2>1. LogOK /\ OffsetsOK
      BY InitIInv DEF IInv, FeedOK
    <2> QED
      BY <2>1, AmongAll
  <1>2. IInv /\ NotifiedCounted => NotifiedOncePerAssignment
    <2> SUFFICES ASSUME IInv, NotifiedCounted, NEW o \in Orders, NEW e \in Events
                 PROVE  /\ notified[o][e] <= (faults + 1) * Occurrences(o, e)
                        /\ e \in Good => notified[o][e] <= (faults + 1) * Done(o, e)
      BY DEF NotifiedOncePerAssignment
    <2> DEFINE c == Cardinality(Among(Heard(o, e), o, e))
    <2>1. /\ c \in Nat /\ Occurrences(o, e) \in Nat /\ c <= Occurrences(o, e)
          /\ faults \in Nat /\ notified[o][e] \in Nat
      BY AmongAll DEF IInv, FeedOK, RestOK
    <2>2. notified[o][e] <= faults * Occurrences(o, e) + c
      BY DEF NotifiedCounted
    <2>3. /\ faults * Occurrences(o, e) \in Nat
          /\ (faults + 1) * Occurrences(o, e) = faults * Occurrences(o, e) + Occurrences(o, e)
      BY <2>1, Products
    <2> HIDE DEF c
    <2>4. notified[o][e] <= (faults + 1) * Occurrences(o, e)
      BY <2>1, <2>2, <2>3
    <2>5. ASSUME e \in Good
          PROVE  notified[o][e] <= (faults + 1) * Done(o, e)
      <3>1. Done(o, e) \in Nat /\ Occurrences(o, e) <= Done(o, e)
        BY <2>5 DEF IInv, FeedOK, LedgerOK, Backed, Done
      <3>2. /\ (faults + 1) * Occurrences(o, e) \in Nat
            /\ (faults + 1) * Occurrences(o, e) <= (faults + 1) * Done(o, e)
        BY <2>1, <3>1, faults + 1 \in Nat, Products
      <3>3. (faults + 1) * Done(o, e) \in Nat
        BY <2>1, <3>1
      <3> QED
        BY <2>1, <2>4, <3>2, <3>3
    <2> QED
      BY <2>4, <2>5
  <1> QED
    BY <1>1, <1>2, NextCounted, Invariance, PTL DEF Spec

=============================================================================
