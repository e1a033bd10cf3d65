---------------------------- MODULE OrderFlowProofs ----------------------------
(***************************************************************************)
(* Theorems about OrderFlow for any orders and any number of faults.  As   *)
(* in the saga the argument is causal: a result, in a log or about to be   *)
(* published, states a fact of the ledger, no step takes a fact back, and  *)
(* what the order service shows repeats results.  Decisions are counted:   *)
(* what a worker puts out, its unfinished work included, is at most what   *)
(* it has read.  That the topics are a feed rests on the order being new   *)
(* to its topic when it is announced, and on the good results, the one     *)
(* about to be published included, being no more than the ledger's.        *)
(***************************************************************************)
EXTENDS OrderFlow, SequenceTheorems, FiniteSetTheorems, TLAPS

\* What an event states about the ledger.
Fact(o, e) ==
    /\ e = "PAYMENT_COMPLETED" => charges[o] > 0
    /\ e = "INVENTORY_RESERVED" => reserved[o] > 0

Announced(o) == log["order.created"][o] # <<>>

LogsAreTrue ==
    \A t \in Topics, o \in Orders : \A i \in 1 .. Len(log[t][o]) : Fact(o, log[t][o][i])

\* A worker is at an order that was announced, and about to say what is true.
JobsAreTrue ==
    \A s \in Workers : job[s] # NoJob => Fact(job[s].order, job[s].step) /\ Announced(job[s].order)

SeenIsTrue == \A o \in Orders : \A e \in seen[o] : Fact(o, e)

\* An order whose request has not sent anything is new to its topic.
RequestsAreNew == \A o \in Orders : handler[o] # "done" => ~Announced(o)

Causality == LogsAreTrue /\ JobsAreTrue /\ SeenIsTrue /\ StatusIsTrue

IInv == TypeOK /\ Causality /\ RequestsAreNew

-----------------------------------------------------------------------------
(* Names                                                                   *)

LEMMA EventNames ==
    /\ Events = {"ORDER_CREATED", "PAYMENT_COMPLETED", "PAYMENT_FAILED", "INVENTORY_RESERVED",
                 "INVENTORY_FAILED"}
    /\ Results = {"PAYMENT_COMPLETED", "PAYMENT_FAILED", "INVENTORY_RESERVED", "INVENTORY_FAILED"}
    /\ \A e \in Events : TopicOf[e] \in Topics
    /\ \A e \in Events : TopicOf[e] = "order.created" <=> e = "ORDER_CREATED"
    /\ "order.created" \in Topics
  <1>1. Events = {"ORDER_CREATED", "PAYMENT_COMPLETED", "PAYMENT_FAILED", "INVENTORY_RESERVED",
                  "INVENTORY_FAILED"}
    BY DEF Events, TopicOf
  <1>2. Results = {"PAYMENT_COMPLETED", "PAYMENT_FAILED", "INVENTORY_RESERVED", "INVENTORY_FAILED"}
    BY <1>1 DEF Results
  <1>3. \A e \in Events : TopicOf[e] = "order.created" <=> e = "ORDER_CREATED"
    BY <1>1 DEF TopicOf
  <1>4. \A e \in Events : TopicOf[e] \in Topics
    BY DEF Topics
  <1>5. "order.created" \in Topics
    BY <1>1, <1>3, <1>4
  <1> QED
    BY <1>1, <1>2, <1>3, <1>4, <1>5

LEMMA JobFields ==
    ASSUME NEW o \in Orders, NEW s
    PROVE  Job(o, s).order = o /\ Job(o, s).step = s /\ Job(o, s) # NoJob
  BY FlowAssumption DEF Job, NoJob

LEMMA ServiceNames ==
    /\ Services = {"payment", "inventory", "order"} /\ Workers = {"payment", "inventory"}
  BY DEF Services, Workers

-----------------------------------------------------------------------------
(* The logs                                                                *)

\* Appending an event keeps every record and adds this one.
LEMMA LogGrows ==
    ASSUME LogOK, NEW o \in Orders, NEW e \in Events, log' = Logged(o, e)
    PROVE  /\ LogOK'
           /\ \A t \in Topics, p \in Orders :
                 /\ Len(log[t][p]) <= Len(log'[t][p])
                 /\ \A i \in 1 .. Len(log[t][p]) : log'[t][p][i] = log[t][p][i]
                 /\ \A i \in 1 .. Len(log'[t][p]) :
                       i \in 1 .. Len(log[t][p]) \/ (p = o /\ log'[t][p][i] = e)
                 /\ ~(t = TopicOf[e] /\ p = o) => log'[t][p] = log[t][p]
  <1> DEFINE T == TopicOf[e]
  <1>1. T \in Topics
    BY EventNames
  <1>2. \A t \in Topics, p \in Orders :
           log'[t][p] = IF t = T /\ p = o THEN Append(log[t][p], e) ELSE log[t][p]
    BY <1>1 DEF LogOK, Logged
  <1>3. \A t \in Topics, p \in Orders : log[t][p] \in Seq(Events)
    BY DEF LogOK
  <1>4. \A t \in Topics, p \in Orders :
           LET q == Append(log[t][p], e) IN
           /\ q \in Seq(Events) /\ Len(q) = Len(log[t][p]) + 1
           /\ \A i \in 1 .. Len(log[t][p]) : q[i] = log[t][p][i]
           /\ q[Len(log[t][p]) + 1] = e
    BY <1>3, AppendProperties
  <1>5. \A t \in Topics, p \in Orders : Len(log[t][p]) \in Nat
    BY <1>3, LenProperties
  <1>6. log' \in [Topics -> [Orders -> Seq(Events)]]
    BY <1>1, <1>4 DEF LogOK, Logged
  <1>7. ASSUME NEW t \in Topics, NEW p \in Orders
        PROVE  /\ Len(log[t][p]) <= Len(log'[t][p])
               /\ \A i \in 1 .. Len(log[t][p]) : log'[t][p][i] = log[t][p][i]
               /\ \A i \in 1 .. Len(log'[t][p]) :
                     \/ i \in 1 .. Len(log[t][p])
                     \/ p = o /\ t = T /\ log'[t][p][i] = e
    <2>1. CASE t = T /\ p = o
      <3>1. /\ log'[t][p] = Append(log[t][p], e)
            /\ Len(Append(log[t][p], e)) = Len(log[t][p]) + 1
        BY <2>1, <1>2, <1>4
      <3>2. \A i \in 1 .. Len(log'[t][p]) :
               i \in 1 .. Len(log[t][p]) \/ i = Len(log[t][p]) + 1
        BY <3>1, <1>5
      <3>3. \A i \in 1 .. Len(log[t][p]) : log'[t][p][i] = log[t][p][i]
        BY <3>1, <1>4
      <3>4. log'[t][p][Len(log[t][p]) + 1] = e
        BY <3>1, <1>4
      <3> QED
        BY <2>1, <3>1, <3>2, <3>3, <3>4, <1>5
    <2>2. CASE ~(t = T /\ p = o)
      BY <2>2, <1>2, <1>5
    <2> QED
      BY <2>1, <2>2
  <1>8. \A t \in Topics, p \in Orders : \A i \in 1 .. Len(log'[t][p]) :
           TopicOf[log'[t][p][i]] = t
    <2> SUFFICES ASSUME NEW t \in Topics, NEW p \in Orders, NEW i \in 1 .. Len(log'[t][p])
                 PROVE  TopicOf[log'[t][p][i]] = t
      OBVIOUS
    <2>1. CASE i \in 1 .. Len(log[t][p])
      BY <2>1, <1>7 DEF LogOK
    <2>2. CASE p = o /\ t = T /\ log'[t][p][i] = e
      BY <2>2
    <2> QED
      BY <1>7, <2>1, <2>2
  <1> QED
    BY <1>2, <1>6, <1>7, <1>8 DEF LogOK

\* A record that a consumer takes is a record of the log, of a known topic.
LEMMA TakenIsLogged ==
    ASSUME LogOK, OffsetsOK, NEW s \in Services, NEW t \in Topics, NEW o \in Orders, NEW e,
           Takes(s, t, o, e)
    PROVE  \E i \in 1 .. Len(log[t][o]) : log[t][o][i] = e /\ e \in Events /\ TopicOf[e] = t
  <1>1. position[s][t][o] \in Nat /\ log[t][o] \in Seq(Events) /\ Len(log[t][o]) \in Nat
    BY LenProperties DEF OffsetsOK, LogOK
  <1>2. position[s][t][o] + 1 \in 1 .. Len(log[t][o])
    BY <1>1 DEF Takes
  <1>3. log[t][o][position[s][t][o] + 1] \in Events
    BY <1>1, <1>2, ElementOfSeq
  <1> QED
    BY <1>2, <1>3 DEF Takes, LogOK

-----------------------------------------------------------------------------
(* Offsets                                                                 *)

LEMMA FaultsOK == ASSUME faults \in 0 .. MaxFaults, Fault \/ UNCHANGED faults
                  PROVE  (faults \in 0 .. MaxFaults)'
  BY FlowAssumption DEF Fault

\* The bounds of the offsets hold once they hold one by one.
LEMMA OffsetsPointwise ==
    ASSUME position' \in [Services -> [Topics -> [Orders -> Nat]]],
           committed' \in [Services -> [Topics -> [Orders -> Nat]]],
           \A s \in Services, t \in Topics, o \in Orders :
              committed'[s][t][o] <= position'[s][t][o] /\ position'[s][t][o] <= Len(log'[t][o])
    PROVE  OffsetsOK'
  BY DEF OffsetsOK

LEMMA OffsetsTyped ==
    ASSUME OffsetsOK, LogOK, NEW s \in Services, NEW t \in Topics, NEW o \in Orders
    PROVE  /\ position[s][t][o] \in Nat /\ committed[s][t][o] \in Nat
           /\ Len(log[t][o]) \in Nat
           /\ committed[s][t][o] <= position[s][t][o]
           /\ position[s][t][o] <= Len(log[t][o])
  <1>1. log[t][o] \in Seq(Events)
    BY DEF LogOK
  <1>2. Len(log[t][o]) \in Nat
    BY <1>1, LenProperties
  <1> QED
    BY <1>2 DEF OffsetsOK

\* The offsets keep within logs that grow or stay.
LEMMA OffsetsFrame ==
    ASSUME OffsetsOK, UNCHANGED offsets, LogOK, LogOK',
           \A t \in Topics, o \in Orders : Len(log[t][o]) <= Len(log'[t][o])
    PROVE  OffsetsOK'
  <1>1. position' = position /\ committed' = committed
    BY DEF offsets
  <1>2. ASSUME NEW s \in Services, NEW t \in Topics, NEW o \in Orders
        PROVE  /\ committed'[s][t][o] <= position'[s][t][o]
               /\ position'[s][t][o] <= Len(log'[t][o])
    <2>1. log'[t][o] \in Seq(Events)
      BY DEF LogOK
    <2>2. Len(log'[t][o]) \in Nat
      BY <2>1, LenProperties
    <2> QED
      BY <1>1, <2>2, OffsetsTyped
  <1>3. /\ position' \in [Services -> [Topics -> [Orders -> Nat]]]
        /\ committed' \in [Services -> [Topics -> [Orders -> Nat]]]
    BY <1>1 DEF OffsetsOK
  <1> QED
    BY <1>2, <1>3, OffsetsPointwise

\* A table of three dimensions of which one entry changes.
LEMMA OneEntryChanges ==
    ASSUME NEW A, NEW B, NEW C, NEW f \in [A -> [B -> [C -> Nat]]], NEW v,
           NEW a \in A, NEW b \in B, NEW c \in C,
           NEW x \in A, NEW y \in B, NEW z \in C
    PROVE  [f EXCEPT ![a][b][c] = v][x][y][z]
             = IF x = a /\ y = b /\ z = c THEN v ELSE f[x][y][z]
  <1>1. CASE x # a
    BY <1>1
  <1>2. CASE x = a /\ y # b
    BY <1>2
  <1>3. CASE x = a /\ y = b
    BY <1>3
  <1> QED
    BY <1>1, <1>2, <1>3

\* Taking a record moves one position, to the end of the log at most.
LEMMA TakesOffsets ==
    ASSUME LogOK, OffsetsOK, NEW s \in Services, NEW t \in Topics, NEW o \in Orders, NEW e,
           Takes(s, t, o, e), UNCHANGED <<committed, log>>
    PROVE  OffsetsOK'
  <1>1. /\ position[s][t][o] < Len(log[t][o])
        /\ position' = [position EXCEPT ![s][t][o] = position[s][t][o] + 1]
    BY DEF Takes
  <1>2. /\ position \in [Services -> [Topics -> [Orders -> Nat]]]
        /\ committed' \in [Services -> [Topics -> [Orders -> Nat]]]
        /\ committed' = committed /\ log' = log
    BY DEF OffsetsOK
  <1>3. position[s][t][o] + 1 \in Nat
    BY OffsetsTyped
  <1>4. position' \in [Services -> [Topics -> [Orders -> Nat]]]
    BY <1>1, <1>2, <1>3
  <1>5. ASSUME NEW r \in Services, NEW u \in Topics, NEW p \in Orders
        PROVE  position'[r][u][p] = IF r = s /\ u = t /\ p = o
                                      THEN position[s][t][o] + 1 ELSE position[r][u][p]
    <2>1. position \in [Services -> [Topics -> [Orders -> Nat]]]
      BY <1>2
    <2> QED
      BY <1>1, <2>1, OneEntryChanges
  <1>6. ASSUME NEW r \in Services, NEW u \in Topics, NEW p \in Orders
        PROVE  /\ committed'[r][u][p] <= position'[r][u][p]
               /\ position'[r][u][p] <= Len(log'[u][p])
    <2>1. CASE r = s /\ u = t /\ p = o
      BY <2>1, <1>1, <1>2, <1>5, OffsetsTyped
    <2>2. CASE ~(r = s /\ u = t /\ p = o)
      BY <2>2, <1>2, <1>5, OffsetsTyped
    <2> QED
      BY <2>1, <2>2
  <1> QED
    BY <1>2, <1>4, <1>6, OffsetsPointwise

\* A commit copies the position of one service, or leaves the offset.
LEMMA CommitOffsets ==
    ASSUME OffsetsOK, LogOK, LogOK', NEW s \in Services,
           committed' = [committed EXCEPT ![s] = position[s]], UNCHANGED position,
           \A t \in Topics, o \in Orders : Len(log[t][o]) <= Len(log'[t][o])
    PROVE  OffsetsOK'
  <1>1. /\ position \in [Services -> [Topics -> [Orders -> Nat]]]
        /\ committed \in [Services -> [Topics -> [Orders -> Nat]]]
    BY DEF OffsetsOK
  <1>2. \A r \in Services : committed'[r] = IF r = s THEN position[r] ELSE committed[r]
    BY <1>1
  <1>3. position[s] \in [Topics -> [Orders -> Nat]]
    BY <1>1
  <1>4. committed' \in [Services -> [Topics -> [Orders -> Nat]]]
    BY <1>1, <1>3
  <1>5. ASSUME NEW r \in Services, NEW t \in Topics, NEW o \in Orders
        PROVE  /\ committed'[r][t][o] <= position'[r][t][o]
               /\ position'[r][t][o] <= Len(log'[t][o])
    <2>1. log'[t][o] \in Seq(Events)
      BY DEF LogOK
    <2>2. Len(log'[t][o]) \in Nat
      BY <2>1, LenProperties
    <2> QED
      BY <1>2, <2>2, OffsetsTyped
  <1> QED
    BY <1>1, <1>4, <1>5, OffsetsPointwise

\* A crash or a rejoin goes back to the committed offsets of one service.
LEMMA CrashOffsets ==
    ASSUME OffsetsOK, LogOK, NEW s \in Services,
           position' = [position EXCEPT ![s] = committed[s]], UNCHANGED <<committed, log>>
    PROVE  OffsetsOK'
  <1>1. /\ position \in [Services -> [Topics -> [Orders -> Nat]]]
        /\ committed \in [Services -> [Topics -> [Orders -> Nat]]]
    BY DEF OffsetsOK
  <1>2. \A r \in Services : position'[r] = IF r = s THEN committed[r] ELSE position[r]
    BY <1>1
  <1>3. committed[s] \in [Topics -> [Orders -> Nat]]
    BY <1>1
  <1>4. position' \in [Services -> [Topics -> [Orders -> Nat]]]
    BY <1>1, <1>3
  <1>5. ASSUME NEW r \in Services, NEW t \in Topics, NEW o \in Orders
        PROVE  /\ committed'[r][t][o] <= position'[r][t][o]
               /\ position'[r][t][o] <= Len(log'[t][o])
    BY <1>2, OffsetsTyped
  <1> QED
    BY <1>1, <1>4, <1>5, OffsetsPointwise

-----------------------------------------------------------------------------
(* Facts are kept                                                          *)

\* No step takes back an entry of the ledger, a record or an announcement.
Grows ==
    /\ \A p \in Orders : charges[p] > 0 => charges'[p] > 0
    /\ \A p \in Orders : reserved[p] > 0 => reserved'[p] > 0
    /\ \A p \in Orders, f \in Events : Published(p, f) => Published(p, f)'
    /\ \A p \in Orders : Announced(p) => Announced(p)'

LedgerGrows ==
    /\ \A p \in Orders : charges[p] > 0 => charges'[p] > 0
    /\ \A p \in Orders : reserved[p] > 0 => reserved'[p] > 0

\* Records are only added: an announcement to an empty topic, results after it.
Adds(o, e) ==
    /\ Fact(o, e) /\ log' = Logged(o, e)
    /\ e = "ORDER_CREATED" => ~Announced(o)
    /\ e # "ORDER_CREATED" => Announced(o)

LogStep == UNCHANGED log \/ \E o \in Orders, e \in Events : Adds(o, e)

LEMMA PublishedStays ==
    ASSUME LogOK, NEW o \in Orders, NEW e \in Events, log' = Logged(o, e),
           NEW p \in Orders, NEW f \in Events, Published(p, f)
    PROVE  Published(p, f)'
  <1> DEFINE T == TopicOf[f]
  <1>1. T \in Topics
    BY EventNames
  <1>2. /\ Len(log[T][p]) <= Len(log'[T][p])
        /\ \A i \in 1 .. Len(log[T][p]) : log'[T][p][i] = log[T][p][i]
    BY <1>1, LogGrows
  <1>3. log[T][p] \in Seq(Events) /\ log'[T][p] \in Seq(Events)
    BY <1>1, LogGrows DEF LogOK
  <1>4. Len(log[T][p]) \in Nat /\ Len(log'[T][p]) \in Nat
    BY <1>3, LenProperties
  <1>5. PICK i \in 1 .. Len(log[T][p]) : log[T][p][i] = f
    BY DEF Published
  <1>6. i \in 1 .. Len(log'[T][p]) /\ log'[T][p][i] = f
    BY <1>2, <1>4, <1>5
  <1> QED
    BY <1>6 DEF Published

\* An order is announced when its topic holds a record.
LEMMA AnnouncedByLength ==
    ASSUME LogOK, NEW o \in Orders
    PROVE  Announced(o) <=> Len(log["order.created"][o]) > 0
  <1>1. log["order.created"][o] \in Seq(Events)
    BY EventNames DEF LogOK
  <1> QED
    BY <1>1, EmptySeq DEF Announced

LEMMA AnnouncedStays ==
    ASSUME LogOK, NEW o \in Orders, NEW e \in Events, log' = Logged(o, e),
           NEW p \in Orders, Announced(p)
    PROVE  Announced(p)'
  <1> DEFINE T == "order.created"
  <1>1. T \in Topics
    BY EventNames
  <1>2. LogOK' /\ Len(log[T][p]) <= Len(log'[T][p])
    BY <1>1, LogGrows
  <1>3. log[T][p] \in Seq(Events) /\ log'[T][p] \in Seq(Events)
    BY <1>1, <1>2 DEF LogOK
  <1>4. Len(log[T][p]) \in Nat /\ Len(log'[T][p]) \in Nat /\ Len(log[T][p]) > 0
    BY <1>3, LenProperties, AnnouncedByLength
  <1>5. Len(log'[T][p]) > 0
    BY <1>2, <1>4
  <1>6. log'[T][p] # <<>>
    BY <1>5, EmptySeq
  <1> QED
    BY <1>6 DEF Announced

LEMMA LogStepGrows ==
    ASSUME LogOK, LogStep, LedgerGrows
    PROVE  /\ Grows
           /\ LogOK'
           /\ \A t \in Topics, o \in Orders : Len(log[t][o]) <= Len(log'[t][o])
  <1>1. CASE UNCHANGED log
    <2>1. \A t \in Topics, o \in Orders : log[t][o] \in Seq(Events)
      BY DEF LogOK
    <2>2. \A t \in Topics, o \in Orders : Len(log[t][o]) \in Nat
      BY <2>1, LenProperties
    <2>3. Grows
      BY <1>1 DEF Grows, LedgerGrows, Published, Announced
    <2> QED
      BY <1>1, <2>2, <2>3 DEF LogOK
  <1>2. ASSUME NEW o \in Orders, NEW e \in Events, log' = Logged(o, e)
        PROVE  /\ Grows
               /\ LogOK'
               /\ \A t \in Topics, p \in Orders : Len(log[t][p]) <= Len(log'[t][p])
    <2>1. Grows
      BY <1>2, PublishedStays, AnnouncedStays DEF Grows, LedgerGrows
    <2> QED
      BY <1>2, <2>1, LogGrows
  <1> QED
    BY <1>1, <1>2 DEF LogStep, Adds

LEMMA LedgerKept ==
    ASSUME UNCHANGED ledger
    PROVE  LedgerGrows
  BY DEF ledger, LedgerGrows

LEMMA FactsStay ==
    ASSUME Grows, NEW o \in Orders, NEW e, Fact(o, e)
    PROVE  Fact(o, e)'
  BY DEF Grows, Fact

LEMMA LogsStayTrue ==
    ASSUME LogOK, LogsAreTrue, LogStep, Grows
    PROVE  LogsAreTrue'
  <1>1. CASE UNCHANGED log
    BY <1>1, FactsStay DEF LogsAreTrue
  <1>2. ASSUME NEW o \in Orders, NEW e \in Events, Fact(o, e), log' = Logged(o, e)
        PROVE  LogsAreTrue'
    <2>1. ASSUME NEW t \in Topics, NEW p \in Orders, NEW i \in 1 .. Len(log'[t][p]),
                 NEW v, v = log'[t][p][i]
          PROVE  Fact(p, v)'
      <3>1. CASE i \in 1 .. Len(log[t][p])
        <4>1. v = log[t][p][i]
          BY <1>2, <2>1, <3>1, LogGrows
        <4>2. Fact(p, v)
          BY <3>1, <4>1 DEF LogsAreTrue
        <4> QED
          BY <4>2, FactsStay
      <3>2. CASE p = o /\ log'[t][p][i] = e
        BY <1>2, <2>1, <3>2, FactsStay
      <3> QED
        BY <1>2, <3>1, <3>2, LogGrows
    <2> QED
      BY <2>1 DEF LogsAreTrue
  <1> QED
    BY <1>1, <1>2 DEF LogStep, Adds

\* The jobs are true once each of them is.
LEMMA JobsPointwise ==
    ASSUME \A s \in Workers : job'[s] # NoJob =>
              \E o \in Orders, st \in Results \cup {"decide"} :
                 job'[s].order = o /\ job'[s].step = st /\ Fact(o, st)' /\ Announced(o)'
    PROVE  JobsAreTrue'
  BY DEF JobsAreTrue, Fact, Announced

\* A job that is not touched stays true.
LEMMA JobStays ==
    ASSUME ServicesOK, JobsAreTrue, Grows, NEW s \in Workers, job[s] # NoJob
    PROVE  \E o \in Orders, st \in Results \cup {"decide"} :
              job[s].order = o /\ job[s].step = st /\ Fact(o, st)' /\ Announced(o)'
  <1>1. job[s].order \in Orders /\ job[s].step \in Results \cup {"decide"}
    BY DEF ServicesOK
  <1>2. PICK o \in Orders, st \in Results \cup {"decide"} : job[s].order = o /\ job[s].step = st
    BY <1>1
  <1>3. Fact(o, st) /\ Announced(o)
    BY <1>2 DEF JobsAreTrue
  <1>4. Fact(o, st)' /\ Announced(o)'
    BY <1>3, FactsStay DEF Grows
  <1> QED
    BY <1>2, <1>4

\* A job that is kept or ended stays true.
LEMMA JobsStay ==
    ASSUME ServicesOK, JobsAreTrue, Grows,
           \A s \in Workers : job'[s] = job[s] \/ job'[s] = NoJob
    PROVE  JobsAreTrue'
  <1>1. ASSUME NEW s \in Workers, job'[s] # NoJob
        PROVE  \E o \in Orders, st \in Results \cup {"decide"} :
                  job'[s].order = o /\ job'[s].step = st /\ Fact(o, st)' /\ Announced(o)'
    <2>1. job'[s] = job[s] /\ job[s] # NoJob
      BY <1>1
    <2> QED
      BY <2>1, JobStays
  <1> QED
    BY <1>1, JobsPointwise

\* One worker gets a job that is true.
LEMMA JobIsSet ==
    ASSUME ServicesOK, JobsAreTrue, Grows, UNCHANGED up,
           NEW s \in Workers, NEW o \in Orders, NEW st \in Results \cup {"decide"},
           job' = [job EXCEPT ![s] = Job(o, st)], Fact(o, st)', Announced(o)'
    PROVE  JobsAreTrue' /\ ServicesOK'
  <1>1. job' \in [Workers -> [order : Orders, step : Results \cup {"decide"}] \cup {NoJob}]
    BY DEF ServicesOK, Job
  <1>2. ASSUME NEW r \in Workers, job'[r] # NoJob
        PROVE  \E p \in Orders, t \in Results \cup {"decide"} :
                  job'[r].order = p /\ job'[r].step = t /\ Fact(p, t)' /\ Announced(p)'
    <2>1. CASE r = s
      <3>1. job'[r] = Job(o, st)
        BY <2>1 DEF ServicesOK
      <3>2. job'[r].order = o /\ job'[r].step = st
        BY <3>1, JobFields
      <3> QED
        BY <3>2
    <2>2. CASE r # s
      <3>1. job'[r] = job[r] /\ job[r] # NoJob
        BY <1>2, <2>2 DEF ServicesOK
      <3> QED
        BY <3>1, JobStays
    <2> QED
      BY <2>1, <2>2
  <1>3. JobsAreTrue'
    BY <1>2, JobsPointwise
  <1>4. ServicesOK'
    BY <1>1 DEF ServicesOK
  <1> QED
    BY <1>3, <1>4

\* Results that are kept or forgotten stay true.
LEMMA SeenStays ==
    ASSUME SeenIsTrue, Grows, \A p \in Orders : seen'[p] \subseteq seen[p]
    PROVE  SeenIsTrue'
  <1>1. ASSUME NEW p \in Orders, NEW e, e \in seen'[p]
        PROVE  Fact(p, e)'
    <2>1. Fact(p, e)
      BY <1>1 DEF SeenIsTrue
    <2> QED
      BY <2>1, FactsStay
  <1> QED
    BY <1>1 DEF SeenIsTrue

\* A status that is kept, or that claims nothing.
LEMMA StatusStays ==
    ASSUME StatusIsTrue, Grows,
           \A p \in Orders : status'[p] = status[p] \/ status'[p] \in {"absent", "CREATED"}
    PROVE  StatusIsTrue'
  <1>1. "PAYMENT_FAILED" \in Events /\ "INVENTORY_FAILED" \in Events
    BY EventNames
  <1>2. ASSUME NEW p \in Orders
        PROVE  /\ status'[p] \in {"PAYMENT_COMPLETED", "COMPLETED"} => charges'[p] > 0
               /\ status'[p] \in {"INVENTORY_RESERVED", "COMPLETED"} => reserved'[p] > 0
               /\ status'[p] = "CANCELLED" =>
                     Published(p, "PAYMENT_FAILED")' \/ Published(p, "INVENTORY_FAILED")'
    <2>1. CASE status'[p] = status[p]
      BY <1>1, <2>1 DEF StatusIsTrue, Grows
    <2>2. CASE status'[p] \in {"absent", "CREATED"}
      BY <2>2
    <2> QED
      BY <2>1, <2>2
  <1> QED
    BY <1>2 DEF StatusIsTrue

\* Results leave the topic of the announcements alone.
LEMMA RequestsStayNew ==
    ASSUME LogOK, RequestsAreNew,
           UNCHANGED log \/ \E o \in Orders, e \in Results : log' = Logged(o, e),
           \A p \in Orders : handler'[p] # "done" => handler[p] # "done"
    PROVE  RequestsAreNew'
  <1>1. CASE UNCHANGED log
    BY <1>1 DEF RequestsAreNew, Announced
  <1>2. ASSUME NEW o \in Orders, NEW e \in Results, log' = Logged(o, e)
        PROVE  RequestsAreNew'
    <2>1. e \in Events /\ TopicOf[e] # "order.created" /\ "order.created" \in Topics
      BY EventNames
    <2>2. \A p \in Orders : log'["order.created"][p] = log["order.created"][p]
      BY <1>2, <2>1, LogGrows
    <2> QED
      BY <2>2 DEF RequestsAreNew, Announced
  <1> QED
    BY <1>1, <1>2

-----------------------------------------------------------------------------
(* Steps                                                                   *)

\* A step of the induction: the invariant is kept, and the logs only grow.
Kept == IInv' /\ LogStep

\* Steps that leave the ledger, keep or end jobs and make no new claim.
LEMMA QuietStep ==
    ASSUME IInv, UNCHANGED ledger,
           UNCHANGED log \/ \E o \in Orders, e \in Results : Adds(o, e),
           OrdersOK', ServicesOK', OffsetsOK', Fault \/ UNCHANGED faults,
           \A s \in Workers : job'[s] = job[s] \/ job'[s] = NoJob,
           \A p \in Orders :
              /\ status'[p] = status[p] \/ status'[p] \in {"absent", "CREATED"}
              /\ seen'[p] \subseteq seen[p]
              /\ handler'[p] # "done" => handler[p] # "done"
    PROVE  Kept
  <1>1. LogStep
    BY EventNames DEF LogStep
  <1>2. Grows /\ LogOK'
    BY <1>1, LedgerKept, LogStepGrows DEF IInv, TypeOK
  <1>3. LedgerOK' /\ (faults \in 0 .. MaxFaults)'
    BY FaultsOK DEF IInv, TypeOK, LedgerOK, ledger
  <1>4. LogsAreTrue'
    BY <1>1, <1>2, LogsStayTrue DEF IInv, TypeOK, Causality
  <1>5. JobsAreTrue'
    BY <1>2, JobsStay DEF IInv, TypeOK, Causality
  <1>6. SeenIsTrue'
    BY <1>2, SeenStays DEF IInv, Causality
  <1>7. StatusIsTrue'
    BY <1>2, StatusStays DEF IInv, Causality
  <1>8. RequestsAreNew'
    BY RequestsStayNew DEF IInv, TypeOK, Adds
  <1> QED
    BY <1>1, <1>2, <1>3, <1>4, <1>5, <1>6, <1>7, <1>8 DEF Kept, IInv, TypeOK, Causality

\* The offsets are kept by every step that only adds results.
LEMMA QuietOffsets ==
    ASSUME IInv, UNCHANGED <<offsets, ledger>>,
           UNCHANGED log \/ \E o \in Orders, e \in Events : Adds(o, e)
    PROVE  OffsetsOK'
  <1>1. LogStep
    BY DEF LogStep
  <1>2. /\ LogOK'
        /\ \A t \in Topics, o \in Orders : Len(log[t][o]) <= Len(log'[t][o])
    BY <1>1, LedgerKept, LogStepGrows DEF IInv, TypeOK
  <1> QED
    BY <1>2, OffsetsFrame DEF IInv, TypeOK

LEMMA CreateSteps ==
    ASSUME IInv, NEW o \in Orders, CreateOrder(o) \/ CreateFails(o)
    PROVE  Kept
  <1>1. /\ UNCHANGED <<seen, up, job, offsets, log, ledger>>
        /\ Fault \/ UNCHANGED faults
        /\ handler[o] # "done"
    BY DEF CreateOrder, CreateFails
  <1>2. /\ OrdersOK'
        /\ \A p \in Orders : /\ status'[p] = status[p] \/ status'[p] = "CREATED"
                             /\ handler'[p] # "done" => handler[p] # "done"
    BY DEF CreateOrder, CreateFails, IInv, TypeOK, OrdersOK, Statuses
  <1>3. ServicesOK'
    BY <1>1 DEF IInv, TypeOK, ServicesOK
  <1>4. OffsetsOK'
    BY <1>1, QuietOffsets
  <1> QED
    BY <1>1, <1>2, <1>3, <1>4, QuietStep

\* The announcement is the one record that RequestsAreNew has to watch.
LEMMA StoreCreatedStep ==
    ASSUME IInv, NEW o \in Orders, StoreCreated(o)
    PROVE  Kept
  <1>1. /\ log' = Logged(o, "ORDER_CREATED") /\ handler[o] = "sending"
        /\ handler' = [handler EXCEPT ![o] = "done"]
        /\ UNCHANGED <<status, seen, up, job, offsets, ledger, faults>>
    BY DEF StoreCreated
  <1>2. "ORDER_CREATED" \in Events /\ Adds(o, "ORDER_CREATED")
    BY <1>1, EventNames DEF Adds, Fact, IInv, RequestsAreNew
  <1>3. LogStep
    BY <1>2 DEF LogStep
  <1>4. Grows /\ LogOK'
    BY <1>1, <1>3, LedgerKept, LogStepGrows DEF IInv, TypeOK
  <1>5. OrdersOK' /\ ServicesOK' /\ LedgerOK' /\ (faults \in 0 .. MaxFaults)'
    BY <1>1 DEF IInv, TypeOK, OrdersOK, ServicesOK, LedgerOK, ledger
  <1>6. OffsetsOK'
    BY <1>1, <1>2, QuietOffsets
  <1>7. LogsAreTrue'
    BY <1>3, <1>4, LogsStayTrue DEF IInv, TypeOK, Causality
  <1>8. JobsAreTrue'
    BY <1>1, <1>4, JobsStay DEF IInv, TypeOK, Causality
  <1>9. SeenIsTrue'
    BY <1>1, <1>4, SeenStays DEF IInv, Causality
  <1>10. StatusIsTrue'
    BY <1>1, <1>4, StatusStays DEF IInv, Causality
  <1>11. RequestsAreNew'
    <2>1. ASSUME NEW p \in Orders, handler'[p] # "done"
          PROVE  log'["order.created"][p] = <<>>
      <3>1. p # o /\ handler[p] # "done"
        BY <1>1, <2>1 DEF IInv, TypeOK, OrdersOK
      <3>2. log'["order.created"][p] = log["order.created"][p]
        BY <1>1, <1>2, <3>1, EventNames, LogGrows DEF IInv, TypeOK
      <3> QED
        BY <3>1, <3>2 DEF IInv, RequestsAreNew, Announced
    <2> QED
      BY <2>1 DEF RequestsAreNew, Announced
  <1> QED
    BY <1>3, <1>4, <1>5, <1>6, <1>7, <1>8, <1>9, <1>10, <1>11 DEF Kept, IInv, TypeOK, Causality

\* The result that a worker publishes is true, and its order announced.
LEMMA ResultIsTrue ==
    ASSUME IInv, NEW s \in Workers, job[s].step \in Results,
           log' \in {log, Logged(job[s].order, job[s].step)}
    PROVE  UNCHANGED log \/ \E o \in Orders, e \in Results : Adds(o, e)
  <1>1. "idle" \notin Results /\ "ORDER_CREATED" \notin Results
    BY EventNames
  <1>2. job[s] # NoJob
    BY <1>1 DEF NoJob
  <1>3. job[s].order \in Orders
    BY <1>2 DEF IInv, TypeOK, ServicesOK
  <1>4. Fact(job[s].order, job[s].step) /\ Announced(job[s].order)
    BY <1>2 DEF IInv, Causality, JobsAreTrue
  <1> QED
    BY <1>1, <1>3, <1>4 DEF Adds

LEMMA PublishSteps ==
    ASSUME IInv, NEW s \in Workers, Publish(s) \/ PublishFails(s)
    PROVE  Kept
  <1>1. /\ UNCHANGED <<status, seen, handler, up, offsets, ledger>>
        /\ Fault \/ UNCHANGED faults
        /\ job' = [job EXCEPT ![s] = NoJob] /\ job[s].step \in Results
        /\ log' \in {log, Logged(job[s].order, job[s].step)}
    BY DEF Publish, PublishFails, orderVars
  <1>2. UNCHANGED log \/ \E o \in Orders, e \in Results : Adds(o, e)
    BY <1>1, ResultIsTrue
  <1>3. OrdersOK' /\ ServicesOK'
    BY <1>1 DEF IInv, TypeOK, OrdersOK, ServicesOK
  <1>4. OffsetsOK'
    BY <1>1, <1>2, EventNames, QuietOffsets
  <1>5. \A r \in Workers : job'[r] = job[r] \/ job'[r] = NoJob
    BY <1>1 DEF IInv, TypeOK, ServicesOK
  <1> QED
    BY <1>1, <1>2, <1>3, <1>4, <1>5, QuietStep

\* A commit keeps the offsets while the log stays.
LEMMA CommitStep ==
    ASSUME IInv, NEW s \in Services, UNCHANGED <<log, position>>,
           committed' = [committed EXCEPT ![s] = position[s]]
    PROVE  OffsetsOK'
  <1>1. LogOK'
    BY DEF IInv, TypeOK, LogOK
  <1>2. \A t \in Topics, o \in Orders : Len(log[t][o]) <= Len(log'[t][o])
    BY OffsetsTyped, ServiceNames DEF IInv, TypeOK
  <1> QED
    BY <1>1, <1>2, CommitOffsets DEF IInv, TypeOK

LEMMA CommitSteps ==
    ASSUME IInv, NEW s \in Services, AutoCommit(s) \/ ConsumerEnds(s)
    PROVE  Kept
  <1>1. /\ UNCHANGED <<status, seen, handler, job, position, log, ledger>>
        /\ Fault \/ UNCHANGED faults
        /\ UNCHANGED up \/ up' = [up EXCEPT ![s] = "deaf"]
        /\ committed' = [committed EXCEPT ![s] = position[s]]
    BY DEF AutoCommit, ConsumerEnds, orderVars
  <1>2. OrdersOK' /\ ServicesOK'
    BY <1>1 DEF IInv, TypeOK, OrdersOK, ServicesOK
  <1>3. OffsetsOK'
    BY <1>1, CommitStep
  <1> QED
    BY <1>1, <1>2, <1>3, QuietStep

LEMMA RejoinStep ==
    ASSUME IInv, NEW s \in Services, Rejoin(s)
    PROVE  Kept
  <1>1. /\ UNCHANGED <<status, seen, handler, up, job, committed, log, ledger>> /\ Fault
        /\ position' = [position EXCEPT ![s] = committed[s]]
    BY DEF Rejoin, orderVars
  <1>2. OrdersOK' /\ ServicesOK'
    BY <1>1 DEF IInv, TypeOK, OrdersOK, ServicesOK
  <1>3. OffsetsOK'
    BY <1>1, CrashOffsets DEF IInv, TypeOK
  <1> QED
    BY <1>1, <1>2, <1>3, QuietStep

LEMMA EndsTypes ==
    ASSUME IInv, NEW s \in Services, Ends(s)
    PROVE  /\ OrdersOK' /\ ServicesOK' /\ UNCHANGED <<log, ledger>>
           /\ \A r \in Workers : job'[r] = job[r] \/ job'[r] = NoJob
           /\ \A p \in Orders :
                 /\ status'[p] = status[p] \/ status'[p] \in {"absent", "CREATED"}
                 /\ seen'[p] \subseteq seen[p]
                 /\ handler'[p] # "done" => handler[p] # "done"
  <1>1. /\ ServicesOK' /\ UNCHANGED <<log, ledger>>
        /\ \A r \in Workers : job'[r] = job[r] \/ job'[r] = NoJob
    BY DEF Ends, IInv, TypeOK, ServicesOK
  <1>2. CASE s = "order"
    BY <1>1, <1>2 DEF Ends, IInv, TypeOK, OrdersOK, Statuses
  <1>3. CASE s # "order"
    BY <1>1, <1>3 DEF Ends, IInv, TypeOK, OrdersOK, orderVars
  <1> QED
    BY <1>2, <1>3

LEMMA EndSteps ==
    ASSUME IInv, NEW s \in Services, Crash(s) \/ Shutdown(s)
    PROVE  Kept
  <1>1. Ends(s) /\ Fault
    BY DEF Crash, Shutdown
  <1>2. OffsetsOK'
    <2>1. CASE Crash(s)
      BY <1>1, <2>1, EndsTypes, CrashOffsets DEF Crash, IInv, TypeOK
    <2>2. CASE Shutdown(s)
      BY <1>1, <2>2, EndsTypes, CommitStep DEF Shutdown
    <2> QED
      BY <2>1, <2>2
  <1> QED
    BY <1>1, <1>2, EndsTypes, QuietStep

LEMMA StartSteps ==
    ASSUME IInv, NEW s \in Services, Start(s) \/ StartDeaf(s)
    PROVE  Kept
  <1>1. /\ UNCHANGED <<status, seen, handler, job, offsets, log, ledger>>
        /\ Fault \/ UNCHANGED faults
        /\ up' = [up EXCEPT ![s] = "up"] \/ up' = [up EXCEPT ![s] = "deaf"]
    BY DEF Start, StartDeaf, orderVars
  <1>2. OrdersOK' /\ ServicesOK'
    BY <1>1 DEF IInv, TypeOK, OrdersOK, ServicesOK
  <1>3. OffsetsOK'
    BY <1>1, QuietOffsets
  <1> QED
    BY <1>1, <1>2, <1>3, QuietStep

\* Steps that leave the log and make a claim of their own.
LEMMA ClaimStep ==
    ASSUME IInv, UNCHANGED <<handler, up, log, faults>>, LedgerGrows, LedgerOK', OffsetsOK',
           OrdersOK', ServicesOK', JobsAreTrue', SeenIsTrue', StatusIsTrue'
    PROVE  Kept
  <1>1. LogStep
    BY DEF LogStep
  <1>2. Grows /\ LogOK'
    BY <1>1, LogStepGrows DEF IInv, TypeOK
  <1>3. LogsAreTrue'
    BY <1>1, <1>2, LogsStayTrue DEF IInv, TypeOK, Causality
  <1>4. RequestsAreNew'
    BY RequestsStayNew DEF IInv, TypeOK
  <1>5. (faults \in 0 .. MaxFaults)'
    BY DEF IInv, TypeOK
  <1> QED
    BY <1>1, <1>2, <1>3, <1>4, <1>5 DEF Kept, IInv, TypeOK, Causality

LEMMA TakeOrderStep ==
    ASSUME IInv, NEW s \in Workers, NEW o \in Orders, TakeOrder(s, o)
    PROVE  Kept
  <1>1. /\ Takes(s, "order.created", o, "ORDER_CREATED")
        /\ job' = [job EXCEPT ![s] = Job(o, "decide")]
        /\ UNCHANGED <<status, seen, handler, up, committed, log, ledger, faults>>
    BY DEF TakeOrder, orderVars
  <1>2. s \in Services /\ "order.created" \in Topics
    BY ServiceNames, EventNames
  <1>3. LogStep /\ Grows
    BY <1>1, LedgerKept, LogStepGrows DEF LogStep, IInv, TypeOK
  <1>4. Announced(o)
    <2>1. PICK i \in 1 .. Len(log["order.created"][o]) : TRUE
      BY <1>1, <1>2, TakenIsLogged DEF IInv, TypeOK
    <2>2. Len(log["order.created"][o]) \in Nat
      BY <1>2, OffsetsTyped DEF IInv, TypeOK
    <2>3. Len(log["order.created"][o]) > 0
      BY <2>1, <2>2
    <2> QED
      BY <2>3, AnnouncedByLength DEF IInv, TypeOK
  <1>5. Announced(o)' /\ Fact(o, "decide")'
    BY <1>3, <1>4 DEF Grows, Fact
  <1>6. JobsAreTrue' /\ ServicesOK'
    BY <1>1, <1>3, <1>5, JobIsSet DEF IInv, TypeOK, Causality
  <1>7. OffsetsOK'
    BY <1>1, <1>2, TakesOffsets DEF IInv, TypeOK
  <1>8. SeenIsTrue' /\ StatusIsTrue'
    BY <1>1, <1>3, SeenStays, StatusStays DEF IInv, Causality
  <1>9. OrdersOK' /\ LedgerOK'
    BY <1>1 DEF IInv, TypeOK, OrdersOK, LedgerOK, ledger
  <1> QED
    BY <1>1, <1>6, <1>7, <1>8, <1>9, LedgerKept, ClaimStep

\* A worker draws a result, which the ledger backs.
LEMMA DecideStep ==
    ASSUME IInv, NEW s \in Workers, NEW o \in Orders, NEW st \in Results,
           UNCHANGED <<status, seen, handler, up, offsets, log, faults>>,
           job[s] = Job(o, "decide"), job' = [job EXCEPT ![s] = Job(o, st)],
           LedgerGrows, LedgerOK', Fact(o, st)'
    PROVE  Kept
  <1>1. Grows
    BY LogStepGrows DEF LogStep, IInv, TypeOK
  <1>2. Announced(o)'
    <2>1. job[s] # NoJob /\ job[s].order = o
      BY JobFields
    <2>2. Announced(o)
      BY <2>1 DEF IInv, Causality, JobsAreTrue
    <2> QED
      BY <1>1, <2>2 DEF Grows
  <1>3. JobsAreTrue' /\ ServicesOK'
    BY <1>1, <1>2, JobIsSet DEF IInv, TypeOK, Causality
  <1>4. OffsetsOK' /\ OrdersOK'
    BY DEF IInv, TypeOK, OffsetsOK, OrdersOK, offsets
  <1>5. SeenIsTrue' /\ StatusIsTrue'
    BY <1>1, SeenStays, StatusStays DEF IInv, Causality
  <1> QED
    BY <1>3, <1>4, <1>5, ClaimStep

LEMMA DecidePaymentStep ==
    ASSUME IInv, NEW o \in Orders, DecidePayment(o)
    PROVE  Kept
  <1>1. /\ UNCHANGED <<status, seen, handler, up, offsets, log, reserved, faults>>
        /\ "payment" \in Workers /\ job["payment"] = Job(o, "decide")
    BY DEF DecidePayment, Workers, orderVars
  <1>2. PICK st \in {"PAYMENT_COMPLETED", "PAYMENT_FAILED"} :
           /\ job' = [job EXCEPT !["payment"] = Job(o, st)]
           /\ charges' = IF st = "PAYMENT_COMPLETED" THEN [charges EXCEPT ![o] = @ + 1] ELSE charges
    BY DEF DecidePayment
  <1>3. LedgerGrows /\ LedgerOK'
    BY <1>1, <1>2 DEF IInv, TypeOK, LedgerOK, LedgerGrows
  <1>4. st \in Results
    BY EventNames
  <1>5. st = "PAYMENT_COMPLETED" => charges'[o] > 0
    BY <1>2 DEF IInv, TypeOK, LedgerOK
  <1>6. Fact(o, st)'
    BY <1>5 DEF Fact
  <1> QED
    BY <1>1, <1>2, <1>3, <1>4, <1>6, DecideStep

LEMMA DecideStockStep ==
    ASSUME IInv, NEW o \in Orders, DecideStock(o)
    PROVE  Kept
  <1>1. /\ UNCHANGED <<status, seen, handler, up, offsets, log, charges, faults>>
        /\ "inventory" \in Workers /\ job["inventory"] = Job(o, "decide")
    BY DEF DecideStock, Workers, orderVars
  <1>2. PICK st \in {"INVENTORY_RESERVED", "INVENTORY_FAILED"} :
           /\ job' = [job EXCEPT !["inventory"] = Job(o, st)]
           /\ reserved' = IF st = "INVENTORY_RESERVED" THEN [reserved EXCEPT ![o] = @ + 1]
                          ELSE reserved
    BY DEF DecideStock
  <1>3. LedgerGrows /\ LedgerOK'
    BY <1>1, <1>2 DEF IInv, TypeOK, LedgerOK, LedgerGrows
  <1>4. st \in Results
    BY EventNames
  <1>5. st = "INVENTORY_RESERVED" => reserved'[o] > 0
    BY <1>2 DEF IInv, TypeOK, LedgerOK
  <1>6. Fact(o, st)'
    BY <1>5 DEF Fact
  <1> QED
    BY <1>1, <1>2, <1>3, <1>4, <1>6, DecideStep

\* What a status claims of the order is what its result states.
LEMMA StatusAfterIsTrue ==
    ASSUME IInv, NEW o \in Orders, NEW e \in Results, Fact(o, e)
    PROVE  /\ StatusAfter(o, e) \in Statuses
           /\ StatusAfter(o, e) \in {"PAYMENT_COMPLETED", "COMPLETED"} => charges[o] > 0
           /\ StatusAfter(o, e) \in {"INVENTORY_RESERVED", "COMPLETED"} => reserved[o] > 0
           /\ StatusAfter(o, e) = "CANCELLED" => e \in {"PAYMENT_FAILED", "INVENTORY_FAILED"}
  <1>1. "PAYMENT_COMPLETED" \in seen[o] => charges[o] > 0
    BY DEF IInv, Causality, SeenIsTrue, Fact
  <1> QED
    BY <1>1, EventNames DEF StatusAfter, Statuses, Fact

LEMMA ReceiveResultStep ==
    ASSUME IInv, NEW o \in Orders, ReceiveResult(o)
    PROVE  Kept
  <1>1. PICK t \in Topics, e \in Results :
           /\ Takes("order", t, o, e)
           /\ IF status[o] = "absent" THEN UNCHANGED <<status, seen>>
                ELSE /\ status' = [status EXCEPT ![o] = StatusAfter(o, e)]
                     /\ seen' = [seen EXCEPT ![o] = @ \cup {e}]
           /\ UNCHANGED <<handler, up, job, committed, log, ledger, faults>>
    BY DEF ReceiveResult
  <1>2. "order" \in Services /\ e \in Events
    BY ServiceNames, EventNames
  <1>3. LogStep /\ Grows /\ LedgerGrows
    BY <1>1, LedgerKept, LogStepGrows DEF LogStep, IInv, TypeOK
  <1>4. PICK i \in 1 .. Len(log[t][o]) : log[t][o][i] = e /\ TopicOf[e] = t
    BY <1>1, <1>2, TakenIsLogged DEF IInv, TypeOK
  <1>5. Fact(o, e) /\ Published(o, e)
    BY <1>4 DEF IInv, Causality, LogsAreTrue, Published
  <1>6. ServicesOK' /\ LedgerOK' /\ OffsetsOK' /\ JobsAreTrue'
    <2>1. ServicesOK' /\ LedgerOK'
      BY <1>1 DEF IInv, TypeOK, ServicesOK, LedgerOK, ledger
    <2>2. OffsetsOK'
      BY <1>1, <1>2, TakesOffsets DEF IInv, TypeOK
    <2>3. JobsAreTrue'
      BY <1>1, <1>3, JobsStay DEF IInv, TypeOK, Causality
    <2> QED
      BY <2>1, <2>2, <2>3
  <1>7. CASE status[o] = "absent"
    <2>1. OrdersOK' /\ SeenIsTrue' /\ StatusIsTrue'
      BY <1>1, <1>3, <1>7, SeenStays, StatusStays DEF IInv, TypeOK, OrdersOK, Causality
    <2> QED
      BY <1>1, <1>3, <1>6, <2>1, ClaimStep
  <1>8. CASE status[o] # "absent"
    <2>1. /\ status' = [status EXCEPT ![o] = StatusAfter(o, e)]
          /\ seen' = [seen EXCEPT ![o] = seen[o] \cup {e}]
      BY <1>1, <1>8
    <2>2. OrdersOK'
      BY <1>1, <1>5, <2>1, StatusAfterIsTrue DEF IInv, TypeOK, OrdersOK
    <2>3. SeenIsTrue'
      <3>1. ASSUME NEW p \in Orders, NEW f, f \in seen'[p]
            PROVE  Fact(p, f)'
        <4>1. f \in seen[p] \/ (p = o /\ f = e)
          BY <2>1, <3>1 DEF IInv, TypeOK, OrdersOK
        <4>2. Fact(p, f)
          BY <1>5, <4>1 DEF IInv, Causality, SeenIsTrue
        <4> QED
          BY <1>3, <4>2, FactsStay
      <3> QED
        BY <3>1 DEF SeenIsTrue
    <2>4. StatusIsTrue'
      <3>1. charges' = charges /\ reserved' = reserved /\ log' = log
        BY <1>1 DEF ledger
      <3>2. ASSUME NEW p \in Orders
            PROVE  /\ status'[p] \in {"PAYMENT_COMPLETED", "COMPLETED"} => charges[p] > 0
                   /\ status'[p] \in {"INVENTORY_RESERVED", "COMPLETED"} => reserved[p] > 0
                   /\ status'[p] = "CANCELLED" =>
                         Published(p, "PAYMENT_FAILED") \/ Published(p, "INVENTORY_FAILED")
        <4>1. CASE p = o
          <5>1. status'[p] = StatusAfter(o, e)
            BY <2>1, <4>1 DEF IInv, TypeOK, OrdersOK
          <5> QED
            BY <1>5, <4>1, <5>1, StatusAfterIsTrue
        <4>2. CASE p # o
          <5>1. status'[p] = status[p]
            BY <2>1, <4>2 DEF IInv, TypeOK, OrdersOK
          <5> QED
            BY <5>1 DEF IInv, Causality, StatusIsTrue
        <4> QED
          BY <4>1, <4>2
      <3> QED
        BY <3>1, <3>2 DEF StatusIsTrue, Published
    <2> QED
      BY <1>1, <1>3, <1>6, <2>2, <2>3, <2>4, ClaimStep
  <1> QED
    BY <1>7, <1>8

LEMMA Stutter ==
    ASSUME IInv, UNCHANGED vars
    PROVE  Kept
  <1>1. /\ UNCHANGED <<status, seen, handler, up, job, log, ledger, faults>>
        /\ UNCHANGED offsets
    BY DEF vars, orderVars
  <1>2. OrdersOK' /\ ServicesOK' /\ OffsetsOK'
    BY <1>1 DEF IInv, TypeOK, OrdersOK, ServicesOK, OffsetsOK, offsets
  <1> QED
    BY <1>1, <1>2, QuietStep

-----------------------------------------------------------------------------
(* Theorems                                                                *)

LEMMA InitIInv == Init => IInv
  <1> SUFFICES ASSUME Init PROVE IInv
    OBVIOUS
  <1>1. OrdersOK /\ ServicesOK /\ LedgerOK
    BY DEF Init, FeedInit, OrdersOK, Statuses, ServicesOK, LedgerOK
  <1>2. LogOK /\ OffsetsOK
    BY DEF Init, FeedInit, LogOK, OffsetsOK, Nothing
  <1>3. faults \in 0 .. MaxFaults
    BY FlowAssumption DEF Init
  <1>4. LogsAreTrue /\ RequestsAreNew
    BY EventNames DEF Init, FeedInit, LogsAreTrue, RequestsAreNew, Announced
  <1>5. JobsAreTrue /\ SeenIsTrue /\ StatusIsTrue
    BY DEF Init, JobsAreTrue, SeenIsTrue, StatusIsTrue
  <1> QED
    BY <1>1, <1>2, <1>3, <1>4, <1>5 DEF IInv, TypeOK, Causality

LEMMA NextKept ==
    ASSUME IInv, [Next]_vars
    PROVE  Kept
  <1>1. ASSUME NEW o \in Orders, CreateOrder(o) \/ StoreCreated(o) \/ CreateFails(o)
        PROVE  Kept
    BY <1>1, CreateSteps, StoreCreatedStep
  <1>2. CASE OrderStep
    BY <1>2, ReceiveResultStep DEF OrderStep
  <1>3. CASE PaymentStep
    BY <1>3, PublishSteps, TakeOrderStep, DecidePaymentStep, ServiceNames DEF PaymentStep
  <1>4. CASE InventoryStep
    BY <1>4, PublishSteps, TakeOrderStep, DecideStockStep, ServiceNames DEF InventoryStep
  <1>5. ASSUME NEW s \in Workers, PublishFails(s)
        PROVE  Kept
    BY <1>5, PublishSteps
  <1>6. ASSUME NEW s \in Services, AutoCommit(s) \/ Rejoin(s) \/ ConsumerEnds(s)
        PROVE  Kept
    BY <1>6, CommitSteps, RejoinStep
  <1>7. ASSUME NEW s \in Services, Crash(s) \/ Shutdown(s) \/ Start(s) \/ StartDeaf(s)
        PROVE  Kept
    BY <1>7, EndSteps, StartSteps
  <1>8. CASE UNCHANGED vars
    BY <1>8, Stutter
  <1> QED
    BY <1>1, <1>2, <1>3, <1>4, <1>5, <1>6, <1>7, <1>8 DEF Next

\* Every result, in a topic, about to be published or shown by the order
\* service, states a fact, for any orders and any number of failures.
THEOREM Invariance == Spec => []IInv
  <1>1. Init => IInv
    BY InitIInv
  <1>2. IInv /\ [Next]_vars => IInv'
    BY NextKept DEF Kept
  <1> QED
    BY <1>1, <1>2, PTL DEF Spec

\* The variables of the three services stay in their domains, and no consumer
\* gets ahead of its log, through commits, crashes, shutdowns and failed sends.
THEOREM TypeCorrect == Spec => []TypeOK
  <1>1. IInv => TypeOK
    BY DEF IInv
  <1> QED
    BY <1>1, Invariance, PTL

\* No status of the order service claims what has not happened.
THEOREM StatusesAreTrue == Spec => []StatusIsTrue
  <1>1. IInv => StatusIsTrue
    BY DEF IInv, Causality
  <1> QED
    BY <1>1, Invariance, PTL

-----------------------------------------------------------------------------
(* Decisions, and the faults that repeat them                              *)

Sent(t, o) == Len(log[t][o])
Read(s, t, o) == position[s][t][o]
Busy(w, o) == IF job[w].order = o THEN 1 ELSE 0
Deciding(w, o) == IF job[w] = Job(o, "decide") THEN 1 ELSE 0
Decided(w, o) == IF w = "payment" THEN charges[o] ELSE reserved[o]
OutOf(w) == IF w = "payment" THEN "payment.result" ELSE "inventory.result"

\* Each worker publishes to its own topic.
StepsBelong == \A w \in Workers : job[w].step \in Results => TopicOf[job[w].step] = OutOf(w)

\* What a worker has made of an order, its unfinished work included.
Said(w, o) == Sent(OutOf(w), o) + Busy(w, o)
Made(w, o) == Decided(w, o) + Deciding(w, o)

\* The two numbers are covered by what the workers have read and by the faults.
Covered(o, p, i) ==
    LET P == Read("payment", "order.created", o)
        I == Read("inventory", "order.created", o)
    IN  p <= P + faults /\ i <= I + faults /\ p + i <= P + I + faults

\* What comes out of a worker has been read before, or read again for a fault.
Counted(o) ==
    /\ Sent("order.created", o) <= IF handler[o] = "done" THEN 1 ELSE 0
    /\ Covered(o, Said("payment", o), Said("inventory", o))
    /\ Covered(o, Made("payment", o), Made("inventory", o))

CountsMatch == StepsBelong /\ \A o \in Orders : Counted(o)

LEMMA Places ==
    /\ Topics = {"order.created", "payment.result", "inventory.result"}
    /\ \A w \in Workers : OutOf(w) \in Topics /\ OutOf(w) # "order.created"
    /\ OutOf("payment") # OutOf("inventory")
    /\ Workers = {"payment", "inventory"} /\ Workers \subseteq Services
  <1>1. Events = {"ORDER_CREATED", "PAYMENT_COMPLETED", "PAYMENT_FAILED", "INVENTORY_RESERVED",
                  "INVENTORY_FAILED"}
    BY EventNames
  <1>2. Topics = {"order.created", "payment.result", "inventory.result"}
    BY <1>1 DEF Topics, TopicOf
  <1> QED
    BY <1>2 DEF OutOf, Workers, Services

\* Every count is a number, and no service has read more than was sent.
LEMMA Counts ==
    ASSUME IInv, NEW p \in Orders
    PROVE  /\ \A t \in Topics : Sent(t, p) \in Nat
           /\ \A s \in Services, t \in Topics :
                 Read(s, t, p) \in Nat /\ Read(s, t, p) <= Sent(t, p)
           /\ \A w : Busy(w, p) \in {0, 1} /\ Deciding(w, p) \in {0, 1}
           /\ \A w : Decided(w, p) \in Nat
  <1>1. LogOK /\ OffsetsOK /\ LedgerOK
    BY DEF IInv, TypeOK
  <1>2. \A s \in Services, t \in Topics :
           /\ position[s][t][p] \in Nat /\ Len(log[t][p]) \in Nat
           /\ position[s][t][p] <= Len(log[t][p])
    BY <1>1, OffsetsTyped
  <1>3. "order" \in Services
    BY ServiceNames
  <1> QED
    BY <1>1, <1>2, <1>3 DEF Sent, Read, Busy, Deciding, Decided, LedgerOK

\* The two counts of every worker are numbers.
LEMMA WorkCounts ==
    ASSUME IInv, NEW p \in Orders
    PROVE  \A w \in Workers :
              /\ Said(w, p) \in Nat /\ Made(w, p) \in Nat
              /\ Read(w, "order.created", p) \in Nat
              /\ Read(w, "order.created", p) <= Sent("order.created", p)
  <1> SUFFICES ASSUME NEW w \in Workers
               PROVE  /\ Said(w, p) \in Nat /\ Made(w, p) \in Nat
                      /\ Read(w, "order.created", p) \in Nat
                      /\ Read(w, "order.created", p) <= Sent("order.created", p)
    OBVIOUS
  <1>1. /\ Sent(OutOf(w), p) \in Nat /\ Decided(w, p) \in Nat
        /\ Busy(w, p) \in {0, 1} /\ Deciding(w, p) \in {0, 1}
    BY Counts, Places
  <1> QED
    BY <1>1, Counts, Places DEF Said, Made

LEMMA LaterCounts ==
    ASSUME IInv', NEW p \in Orders
    PROVE  \A w \in Workers :
              /\ Said(w, p)' \in Nat /\ Made(w, p)' \in Nat
              /\ Read(w, "order.created", p)' \in Nat
  <1> SUFFICES ASSUME NEW w \in Workers
               PROVE  /\ Said(w, p)' \in Nat /\ Made(w, p)' \in Nat
                      /\ Read(w, "order.created", p)' \in Nat
    OBVIOUS
  <1>1. OutOf(w) \in Topics /\ "order.created" \in Topics /\ w \in Services
    BY Places
  <1>2. Sent(OutOf(w), p)' \in Nat /\ Read(w, "order.created", p)' \in Nat
    BY <1>1 DEF IInv, TypeOK, LogOK, OffsetsOK, Sent, Read
  <1>3. Decided(w, p)' \in Nat /\ Busy(w, p)' \in {0, 1} /\ Deciding(w, p)' \in {0, 1}
    BY DEF IInv, TypeOK, LedgerOK, Decided, Busy, Deciding
  <1> QED
    BY <1>2, <1>3 DEF Said, Made

\* The counts leave one decision of each worker, and one more for every fault.
LEMMA CountsDecide ==
    ASSUME IInv, CountsMatch
    PROVE  RepeatsCostFaults
  <1> SUFFICES ASSUME NEW o \in Orders
               PROVE  /\ Len(log["order.created"][o]) <= 1
                      /\ OneEach(charges[o], reserved[o])
                      /\ OneEach(Len(log["payment.result"][o]), Len(log["inventory.result"][o]))
    BY DEF RepeatsCostFaults
  <1> DEFINE P == Read("payment", "order.created", o)
             I == Read("inventory", "order.created", o)
  <1>1. Counted(o) /\ faults \in Nat
    BY FlowAssumption DEF CountsMatch, IInv, TypeOK
  <1>2. Sent("order.created", o) \in Nat /\ Sent("order.created", o) <= 1
    BY <1>1, Counts, Places DEF Counted
  <1>3. P \in Nat /\ P <= 1 /\ I \in Nat /\ I <= 1
    BY <1>2, WorkCounts, Places
  <1>4. ASSUME NEW p \in Nat, NEW i \in Nat, NEW n \in Nat, NEW m \in Nat,
               Covered(o, p, i), n <= p, m <= i
        PROVE  OneEach(n, m)
    <2> HIDE DEF P, I
    <2>1. p <= P + faults /\ i <= I + faults /\ p + i <= P + I + faults
      BY <1>4 DEF Covered, P, I
    <2> QED
      BY <1>1, <1>3, <1>4, <2>1 DEF OneEach
  <1>5. ASSUME NEW w \in Workers
        PROVE  /\ Sent(OutOf(w), o) \in Nat /\ Sent(OutOf(w), o) <= Said(w, o)
               /\ Decided(w, o) \in Nat /\ Decided(w, o) <= Made(w, o)
    <2>1. /\ Sent(OutOf(w), o) \in Nat /\ Decided(w, o) \in Nat
          /\ Busy(w, o) \in {0, 1} /\ Deciding(w, o) \in {0, 1}
      BY Counts, Places
    <2> QED
      BY <2>1 DEF Said, Made
  <1>6. OneEach(Decided("payment", o), Decided("inventory", o))
    BY <1>1, <1>4, <1>5, WorkCounts, Places DEF Counted
  <1>7. OneEach(Sent("payment.result", o), Sent("inventory.result", o))
    BY <1>1, <1>4, <1>5, WorkCounts, Places DEF Counted, OutOf
  <1> QED
    BY <1>2, <1>6, <1>7 DEF Sent, Decided

LEMMA InitCounts == Init => CountsMatch
  <1> SUFFICES ASSUME Init PROVE CountsMatch
    OBVIOUS
  <1>1. StepsBelong
    BY EventNames DEF Init, StepsBelong, NoJob
  <1>2. ASSUME NEW o \in Orders
        PROVE  Counted(o)
    <2>1. /\ \A t \in Topics : Sent(t, o) = 0
          /\ \A s \in Services, t \in Topics : Read(s, t, o) = 0
          /\ handler[o] = "none"
      BY DEF Init, FeedInit, Sent, Read, Nothing
    <2>2. ASSUME NEW w \in Workers
          PROVE  Busy(w, o) = 0 /\ Deciding(w, o) = 0 /\ Decided(w, o) = 0
      BY FlowAssumption, JobFields DEF Init, FeedInit, Busy, Deciding, Decided, NoJob
    <2>3. \A w \in Workers : Said(w, o) = 0 /\ Made(w, o) = 0
      BY <2>1, <2>2, Places DEF Said, Made
    <2> QED
      BY <2>1, <2>3, Places DEF Counted, Covered, Init
  <1> QED
    BY <1>1, <1>2 DEF CountsMatch

\* An event is one more record of its order and topic.
LEMMA SentMore ==
    ASSUME LogOK, NEW o \in Orders, NEW e \in Events, log' = Logged(o, e),
           NEW t \in Topics, NEW p \in Orders
    PROVE  Sent(t, p)' = IF t = TopicOf[e] /\ p = o THEN Sent(t, p) + 1 ELSE Sent(t, p)
  <1>1. TopicOf[e] \in Topics
    BY EventNames
  <1>2. log'[t][p] = IF t = TopicOf[e] /\ p = o THEN Append(log[t][p], e) ELSE log[t][p]
    BY <1>1 DEF LogOK, Logged
  <1>3. log[t][p] \in Seq(Events)
    BY DEF LogOK
  <1>4. Len(Append(log[t][p], e)) = Len(log[t][p]) + 1
    BY <1>3, AppendProperties
  <1> QED
    BY <1>2, <1>4 DEF Sent

LEMMA ReadMore ==
    ASSUME OffsetsOK, NEW s \in Services, NEW t \in Topics, NEW o \in Orders, NEW e,
           Takes(s, t, o, e), NEW r \in Services, NEW u \in Topics, NEW p \in Orders
    PROVE  Read(r, u, p)' = IF r = s /\ u = t /\ p = o THEN Read(r, u, p) + 1 ELSE Read(r, u, p)
  <1>1. position \in [Services -> [Topics -> [Orders -> Nat]]]
    BY DEF OffsetsOK
  <1>2. position' = [position EXCEPT ![s][t][o] = position[s][t][o] + 1]
    BY DEF Takes
  <1>3. position'[r][u][p] = IF r = s /\ u = t /\ p = o
                               THEN position[s][t][o] + 1 ELSE position[r][u][p]
    BY <1>1, <1>2, OneEntryChanges
  <1> QED
    BY <1>3 DEF Read

\* Whatever a step does, faults included, a worker is given work of its own.
LEMMA StepsStayBelonging ==
    ASSUME IInv, StepsBelong, [Next]_vars
    PROVE  StepsBelong'
  <1>1. job \in [Workers -> [order : Orders, step : Results \cup {"decide"}] \cup {NoJob}]
    BY DEF IInv, TypeOK, ServicesOK
  <1>2. "idle" \notin Results /\ "decide" \notin Results
    BY EventNames
  <1>3. CASE UNCHANGED job
    BY <1>3 DEF StepsBelong
  <1>4. ASSUME \A w \in Workers : job'[w] = job[w] \/ job'[w] = NoJob
        PROVE  StepsBelong'
    BY <1>2, <1>4 DEF StepsBelong, NoJob
  <1>5. ASSUME NEW w \in Workers, NEW o \in Orders, TakeOrder(w, o)
        PROVE  StepsBelong'
    BY <1>1, <1>2, <1>5 DEF TakeOrder, StepsBelong, Job
  <1>6. ASSUME NEW o \in Orders, DecidePayment(o) \/ DecideStock(o)
        PROVE  StepsBelong'
    <2>1. \/ \E st \in {"PAYMENT_COMPLETED", "PAYMENT_FAILED"} :
                job' = [job EXCEPT !["payment"] = Job(o, st)]
          \/ \E st \in {"INVENTORY_RESERVED", "INVENTORY_FAILED"} :
                job' = [job EXCEPT !["inventory"] = Job(o, st)]
      BY <1>6 DEF DecidePayment, DecideStock
    <2> QED
      BY <1>1, <2>1 DEF StepsBelong, Job, OutOf, TopicOf
  <1>7. ASSUME NEW s \in Services, Crash(s) \/ Shutdown(s)
        PROVE  StepsBelong'
    BY <1>4, <1>7 DEF Crash, Shutdown, Ends
  <1>8. ASSUME NEW w \in Workers, Publish(w) \/ PublishFails(w)
        PROVE  StepsBelong'
    BY <1>1, <1>4, <1>8 DEF Publish, PublishFails
  <1>9. ASSUME NEW o \in Orders, CreateOrder(o) \/ StoreCreated(o) \/ CreateFails(o) \/ ReceiveResult(o)
        PROVE  UNCHANGED job
    BY <1>9 DEF CreateOrder, StoreCreated, CreateFails, ReceiveResult
  <1>10. ASSUME NEW s \in Services,
                AutoCommit(s) \/ Rejoin(s) \/ ConsumerEnds(s) \/ Start(s) \/ StartDeaf(s)
         PROVE  UNCHANGED job
    BY <1>10 DEF AutoCommit, Rejoin, ConsumerEnds, Start, StartDeaf
  <1>11. UNCHANGED vars => UNCHANGED job
    BY DEF vars
  <1> QED
    BY <1>3, <1>5, <1>6, <1>7, <1>8, <1>9, <1>10, <1>11, Places
       DEF Next, OrderStep, PaymentStep, InventoryStep

\* A worker puts out no more than it reads.
Even(w, p) ==
    /\ Said(w, p)' + Read(w, "order.created", p) <= Said(w, p) + Read(w, "order.created", p)'
    /\ Made(w, p)' + Read(w, "order.created", p) <= Made(w, p) + Read(w, "order.created", p)'

\* A worker puts out one record more, or goes back by one.
OneAhead(w, p) ==
    /\ Said(w, p)' + Read(w, "order.created", p) <= Said(w, p) + Read(w, "order.created", p)' + 1
    /\ Made(w, p)' + Read(w, "order.created", p) <= Made(w, p) + Read(w, "order.created", p)' + 1

\* The order is announced by the end of its only request.
Announcing(p) ==
    /\ handler[p] = "done" => handler'[p] = "done"
    /\ Sent("order.created", p)' <= Sent("order.created", p)
         + (IF handler[p] # "done" /\ handler'[p] = "done" THEN 1 ELSE 0)

LEMMA EvenPair ==
    ASSUME NEW p \in Nat, NEW i \in Nat, NEW P \in Nat, NEW I \in Nat, NEW f \in Nat,
           NEW q \in Nat, NEW j \in Nat, NEW Q \in Nat, NEW J \in Nat, NEW g \in Nat,
           p <= P + f /\ i <= I + f /\ p + i <= P + I + f,
           q + P <= p + Q /\ j + I <= i + J /\ g >= f
    PROVE  q <= Q + g /\ j <= J + g /\ q + j <= Q + J + g
  OBVIOUS

LEMMA AheadPair ==
    ASSUME NEW p \in Nat, NEW i \in Nat, NEW P \in Nat, NEW I \in Nat, NEW f \in Nat,
           NEW q \in Nat, NEW j \in Nat, NEW Q \in Nat, NEW J \in Nat,
           p <= P + f /\ i <= I + f /\ p + i <= P + I + f,
           \/ q + P <= p + Q + 1 /\ j + I <= i + J
           \/ q + P <= p + Q /\ j + I <= i + J + 1
    PROVE  q <= Q + (f + 1) /\ j <= J + (f + 1) /\ q + j <= Q + J + (f + 1)
  OBVIOUS

LEMMA AnnouncedOnce ==
    ASSUME IInv, IInv', NEW p \in Orders, Counted(p), Announcing(p)
    PROVE  Sent("order.created", p)' <= IF handler'[p] = "done" THEN 1 ELSE 0
  <1>1. Sent("order.created", p) \in Nat /\ Sent("order.created", p)' \in Nat
    BY Places DEF IInv, TypeOK, Sent, LogOK
  <1> QED
    BY <1>1 DEF Announcing, Counted

\* While both workers are even the counts stay covered.
LEMMA EvenStep ==
    ASSUME IInv, IInv', NEW p \in Orders, Counted(p), Announcing(p), faults' >= faults,
           \A w \in Workers : Even(w, p)
    PROVE  Counted(p)'
  <1>1. faults \in Nat /\ faults' \in Nat
    BY FlowAssumption DEF IInv, TypeOK
  <1>2. "payment" \in Workers /\ "inventory" \in Workers
    BY Places
  <1>3. \A w \in Workers : /\ Said(w, p) \in Nat /\ Made(w, p) \in Nat
                           /\ Read(w, "order.created", p) \in Nat
    BY WorkCounts
  <1>4. \A w \in Workers : /\ Said(w, p)' \in Nat /\ Made(w, p)' \in Nat
                           /\ Read(w, "order.created", p)' \in Nat
    BY LaterCounts
  <1>5. Covered(p, Said("payment", p), Said("inventory", p))'
    BY <1>1, <1>2, <1>3, <1>4, EvenPair DEF Counted, Covered, Even
  <1>6. Covered(p, Made("payment", p), Made("inventory", p))'
    BY <1>1, <1>2, <1>3, <1>4, EvenPair DEF Counted, Covered, Even
  <1> QED
    BY <1>5, <1>6, AnnouncedOnce DEF Counted

\* A fault pays for the worker that is ahead.
LEMMA AheadStep ==
    ASSUME IInv, IInv', NEW p \in Orders, Counted(p), Announcing(p), faults' = faults + 1,
           NEW s \in Workers, OneAhead(s, p), \A w \in Workers \ {s} : Even(w, p)
    PROVE  Counted(p)'
  <1>1. faults \in Nat
    BY FlowAssumption DEF IInv, TypeOK
  <1>2. Workers = {"payment", "inventory"}
    BY Places
  <1>3. \A w \in Workers : /\ Said(w, p) \in Nat /\ Made(w, p) \in Nat
                           /\ Read(w, "order.created", p) \in Nat
    BY WorkCounts
  <1>4. \A w \in Workers : /\ Said(w, p)' \in Nat /\ Made(w, p)' \in Nat
                           /\ Read(w, "order.created", p)' \in Nat
    BY LaterCounts
  <1>5. Covered(p, Said("payment", p), Said("inventory", p))'
    BY <1>1, <1>2, <1>3, <1>4, AheadPair DEF Counted, Covered, Even, OneAhead
  <1>6. Covered(p, Made("payment", p), Made("inventory", p))'
    BY <1>1, <1>2, <1>3, <1>4, AheadPair DEF Counted, Covered, Even, OneAhead
  <1> QED
    BY <1>5, <1>6, AnnouncedOnce DEF Counted

\* A step that moves no count and starts a request at most.
LEMMA QuietCounts ==
    ASSUME IInv, NEW p \in Orders, UNCHANGED <<log, job, ledger>>,
           \A w \in Workers : Read(w, "order.created", p)' = Read(w, "order.created", p),
           handler[p] = "done" => handler'[p] = "done"
    PROVE  Announcing(p) /\ \A w \in Workers : Even(w, p)
  <1>1. Sent("order.created", p)' = Sent("order.created", p) /\ Sent("order.created", p) \in Nat
    BY Counts, Places DEF Sent
  <1>2. \A w \in Workers : Said(w, p)' = Said(w, p) /\ Made(w, p)' = Made(w, p)
    BY DEF Said, Made, Sent, Busy, Deciding, Decided, ledger
  <1>3. \A w \in Workers : /\ Said(w, p) \in Nat /\ Made(w, p) \in Nat
                           /\ Read(w, "order.created", p) \in Nat
    BY WorkCounts
  <1> QED
    BY <1>1, <1>2, <1>3 DEF Announcing, Even

LEMMA StoreCreatedOnce ==
    ASSUME IInv, NEW o \in Orders, StoreCreated(o), NEW p \in Orders
    PROVE  Announcing(p) /\ \A w \in Workers : Even(w, p)
  <1>1. log' = Logged(o, "ORDER_CREATED") /\ "ORDER_CREATED" \in Events /\ LogOK
        /\ TopicOf["ORDER_CREATED"] = "order.created"
    BY EventNames DEF StoreCreated, IInv, TypeOK, TopicOf
  <1>2. /\ Sent("order.created", p)' = IF p = o THEN Sent("order.created", p) + 1
                                       ELSE Sent("order.created", p)
        /\ \A w \in Workers : Sent(OutOf(w), p)' = Sent(OutOf(w), p)
    BY <1>1, SentMore, Places
  <1>3. \A w \in Workers : /\ Read(w, "order.created", p)' = Read(w, "order.created", p)
                           /\ Busy(w, p)' = Busy(w, p) /\ Deciding(w, p)' = Deciding(w, p)
                           /\ Decided(w, p)' = Decided(w, p)
    BY DEF StoreCreated, offsets, ledger, Read, Busy, Deciding, Decided
  <1>4. handler[o] = "sending" /\ handler'[p] = IF p = o THEN "done" ELSE handler[p]
    BY DEF StoreCreated, IInv, TypeOK, OrdersOK
  <1>5. /\ Sent("order.created", p) \in Nat
        /\ \A w \in Workers : /\ Said(w, p) \in Nat /\ Made(w, p) \in Nat
                              /\ Read(w, "order.created", p) \in Nat
    BY Counts, WorkCounts, Places
  <1>6. \A w \in Workers : Said(w, p)' = Said(w, p) /\ Made(w, p)' = Made(w, p)
    BY <1>2, <1>3 DEF Said, Made
  <1> QED
    BY <1>2, <1>3, <1>4, <1>5, <1>6 DEF Announcing, Even

\* The result of a worker leaves its job for the log.
LEMMA PublishOnce ==
    ASSUME IInv, StepsBelong, NEW s \in Workers, Publish(s), NEW p \in Orders
    PROVE  Announcing(p) /\ \A w \in Workers : Even(w, p)
  <1> DEFINE o == job[s].order
             e == job[s].step
  <1>1. /\ e \in Results /\ e \in Events /\ o \in Orders /\ log' = Logged(o, e) /\ LogOK
        /\ job' = [job EXCEPT ![s] = NoJob]
        /\ job \in [Workers -> [order : Orders, step : Results \cup {"decide"}] \cup {NoJob}]
    <2>1. "idle" \notin Results
      BY EventNames
    <2> QED
      BY <2>1, EventNames DEF Publish, IInv, TypeOK, ServicesOK, NoJob
  <1>2. TopicOf[e] = OutOf(s)
    BY <1>1 DEF StepsBelong
  <1>3. /\ Sent("order.created", p)' = Sent("order.created", p)
        /\ \A w \in Workers : Sent(OutOf(w), p)' = IF w = s /\ p = o THEN Sent(OutOf(w), p) + 1
                                                   ELSE Sent(OutOf(w), p)
    BY <1>1, <1>2, SentMore, Places
  <1>4. ASSUME NEW w \in Workers
        PROVE  /\ Busy(w, p)' = IF w = s THEN 0 ELSE Busy(w, p)
               /\ Deciding(w, p)' = IF w = s THEN 0 ELSE Deciding(w, p)
               /\ Busy(s, p) = IF p = o THEN 1 ELSE 0
    BY <1>1, JobFields, FlowAssumption DEF Busy, Deciding, NoJob
  <1>5. ASSUME NEW w \in Workers
        PROVE  /\ Read(w, "order.created", p)' = Read(w, "order.created", p)
               /\ Decided(w, p)' = Decided(w, p)
    BY DEF Publish, offsets, ledger, Read, Decided
  <1>6. handler' = handler
    BY DEF Publish, orderVars
  <1>7. ASSUME NEW w \in Workers
        PROVE  Even(w, p)
    <2>1. /\ Sent(OutOf(w), p) \in Nat /\ Read(w, "order.created", p) \in Nat
          /\ Busy(w, p) \in {0, 1} /\ Deciding(w, p) \in {0, 1} /\ Decided(w, p) \in Nat
      BY Counts, Places
    <2> QED
      BY <1>3, <1>4, <1>5, <2>1 DEF Even, Said, Made
  <1>8. Sent("order.created", p) \in Nat
    BY Counts, Places
  <1> QED
    BY <1>3, <1>6, <1>7, <1>8 DEF Announcing

LEMMA TakeOrderOnce ==
    ASSUME IInv, NEW s \in Workers, NEW o \in Orders, TakeOrder(s, o), NEW p \in Orders
    PROVE  Announcing(p) /\ \A w \in Workers : Even(w, p)
  <1>1. /\ Takes(s, "order.created", o, "ORDER_CREATED") /\ job[s] = NoJob
        /\ job' = [job EXCEPT ![s] = Job(o, "decide")]
        /\ UNCHANGED <<log, ledger>> /\ handler' = handler
        /\ job \in [Workers -> [order : Orders, step : Results \cup {"decide"}] \cup {NoJob}]
    BY DEF TakeOrder, Takes, Idle, orderVars, IInv, TypeOK, ServicesOK
  <1>2. ASSUME NEW w \in Workers
        PROVE  Read(w, "order.created", p)' = IF w = s /\ p = o THEN Read(w, "order.created", p) + 1
                                              ELSE Read(w, "order.created", p)
    BY <1>1, ReadMore, Places DEF IInv, TypeOK
  <1>3. ASSUME NEW w \in Workers
        PROVE  /\ Busy(w, p)' = IF w = s /\ p = o THEN 1 ELSE Busy(w, p)
               /\ Deciding(w, p)' = IF w = s /\ p = o THEN 1 ELSE Deciding(w, p)
               /\ Busy(s, p) = 0 /\ Deciding(s, p) = 0
    <2>1. /\ Job(o, "decide").order = o /\ NoJob.order \notin Orders
          /\ NoJob # Job(p, "decide") /\ (Job(o, "decide") = Job(p, "decide") <=> o = p)
      BY JobFields, FlowAssumption DEF NoJob
    <2> QED
      BY <1>1, <2>1 DEF Busy, Deciding
  <1>4. ASSUME NEW w \in Workers
        PROVE  Sent(OutOf(w), p)' = Sent(OutOf(w), p) /\ Decided(w, p)' = Decided(w, p)
    BY <1>1 DEF Sent, Decided, ledger
  <1>5. ASSUME NEW w \in Workers
        PROVE  Even(w, p)
    <2>1. /\ Sent(OutOf(w), p) \in Nat /\ Read(w, "order.created", p) \in Nat
          /\ Busy(w, p) \in {0, 1} /\ Deciding(w, p) \in {0, 1} /\ Decided(w, p) \in Nat
      BY Counts, Places
    <2> QED
      BY <1>2, <1>3, <1>4, <2>1 DEF Even, Said, Made
  <1>6. Sent("order.created", p)' = Sent("order.created", p) /\ Sent("order.created", p) \in Nat
    BY <1>1, Counts, Places DEF Sent
  <1> QED
    BY <1>1, <1>5, <1>6 DEF Announcing

\* A worker after its sleep: one decision less to make, one more made at most.
LEMMA DecideOnce ==
    ASSUME IInv, NEW o \in Orders, DecidePayment(o) \/ DecideStock(o), NEW p \in Orders
    PROVE  Announcing(p) /\ \A w \in Workers : Even(w, p)
  <1>1. PICK s \in Workers, st \in Results :
           /\ job[s] = Job(o, "decide") /\ job' = [job EXCEPT ![s] = Job(o, st)]
           /\ UNCHANGED <<position, log>> /\ handler' = handler
           /\ \A w \in Workers : w # s => Decided(w, p)' = Decided(w, p)
           /\ Decided(s, p)' \in {Decided(s, p), Decided(s, p) + 1}
           /\ p # o => Decided(s, p)' = Decided(s, p)
    <2>1. CASE DecidePayment(o)
      <3>1. /\ "payment" \in Workers /\ job["payment"] = Job(o, "decide")
            /\ UNCHANGED <<position, log, reserved>> /\ handler' = handler
        BY <2>1 DEF DecidePayment, Workers, offsets, orderVars
      <3>2. PICK st \in Results : job' = [job EXCEPT !["payment"] = Job(o, st)]
        BY <2>1, EventNames DEF DecidePayment
      <3>3. /\ charges'[p] \in {charges[p], charges[p] + 1}
            /\ p # o => charges'[p] = charges[p]
        BY <2>1 DEF DecidePayment, IInv, TypeOK, LedgerOK
      <3> QED
        BY <3>1, <3>2, <3>3 DEF Decided
    <2>2. CASE DecideStock(o)
      <3>1. /\ "inventory" \in Workers /\ job["inventory"] = Job(o, "decide")
            /\ UNCHANGED <<position, log, charges>> /\ handler' = handler
        BY <2>2 DEF DecideStock, Workers, offsets, orderVars
      <3>2. PICK st \in Results : job' = [job EXCEPT !["inventory"] = Job(o, st)]
        BY <2>2, EventNames DEF DecideStock
      <3>3. /\ reserved'[p] \in {reserved[p], reserved[p] + 1}
            /\ p # o => reserved'[p] = reserved[p]
        BY <2>2 DEF DecideStock, IInv, TypeOK, LedgerOK
      <3> QED
        BY <3>1, <3>2, <3>3, Places DEF Decided
    <2> QED
      BY <2>1, <2>2
  <1>2. ASSUME NEW w \in Workers
        PROVE  /\ Busy(w, p)' = Busy(w, p)
               /\ Deciding(w, p)' = IF w = s THEN 0 ELSE Deciding(w, p)
               /\ Deciding(s, p) = IF p = o THEN 1 ELSE 0
    <2>1. /\ job \in [Workers -> [order : Orders, step : Results \cup {"decide"}] \cup {NoJob}]
          /\ st # "decide"
      BY EventNames DEF IInv, TypeOK, ServicesOK
    <2>2. /\ Job(o, st).order = o /\ Job(o, "decide").order = o
          /\ Job(o, st) # Job(p, "decide") /\ (Job(o, "decide") = Job(p, "decide") <=> o = p)
      BY <2>1, JobFields
    <2> QED
      BY <1>1, <2>1, <2>2 DEF Busy, Deciding
  <1>3. ASSUME NEW w \in Workers
        PROVE  /\ Sent(OutOf(w), p)' = Sent(OutOf(w), p)
               /\ Read(w, "order.created", p)' = Read(w, "order.created", p)
    BY <1>1 DEF Sent, Read
  <1>4. ASSUME NEW w \in Workers
        PROVE  Even(w, p)
    <2>1. /\ Sent(OutOf(w), p) \in Nat /\ Read(w, "order.created", p) \in Nat
          /\ Busy(w, p) \in {0, 1} /\ Deciding(w, p) \in {0, 1} /\ Decided(w, p) \in Nat
      BY Counts, Places
    <2> QED
      BY <1>1, <1>2, <1>3, <2>1 DEF Even, Said, Made
  <1>5. Sent("order.created", p)' = Sent("order.created", p) /\ Sent("order.created", p) \in Nat
    BY <1>1, Counts, Places DEF Sent
  <1> QED
    BY <1>1, <1>4, <1>5 DEF Announcing

\* The order service moves its own position only.
LEMMA ReceiveOnce ==
    ASSUME IInv, NEW o \in Orders, ReceiveResult(o), NEW p \in Orders
    PROVE  Announcing(p) /\ \A w \in Workers : Even(w, p)
  <1>1. PICK t \in Topics, e \in Results : Takes("order", t, o, e)
    BY DEF ReceiveResult
  <1>2. UNCHANGED <<log, job, ledger>> /\ handler' = handler
    BY DEF ReceiveResult
  <1>3. \A w \in Workers : Read(w, "order.created", p)' = Read(w, "order.created", p)
    BY <1>1, ReadMore, Places, ServiceNames DEF IInv, TypeOK
  <1> QED
    BY <1>2, <1>3, QuietCounts

\* A send that raises loses the result or stores it: nothing is repeated.
LEMMA PublishFailsOnce ==
    ASSUME IInv, StepsBelong, NEW s \in Workers, PublishFails(s), NEW p \in Orders
    PROVE  Announcing(p) /\ \A w \in Workers : Even(w, p)
  <1> DEFINE o == job[s].order
             e == job[s].step
  <1>1. /\ e \in Results /\ e \in Events /\ o \in Orders /\ LogOK
        /\ log' = log \/ log' = Logged(o, e)
        /\ job' = [job EXCEPT ![s] = NoJob]
        /\ job \in [Workers -> [order : Orders, step : Results \cup {"decide"}] \cup {NoJob}]
    <2>1. "idle" \notin Results
      BY EventNames
    <2> QED
      BY <2>1, EventNames DEF PublishFails, IInv, TypeOK, ServicesOK, NoJob
  <1>2. TopicOf[e] = OutOf(s)
    BY <1>1 DEF StepsBelong
  <1>3. /\ Sent("order.created", p)' = Sent("order.created", p)
        /\ \A w \in Workers :
              \/ Sent(OutOf(w), p)' = Sent(OutOf(w), p)
              \/ w = s /\ p = o /\ Sent(OutOf(w), p)' = Sent(OutOf(w), p) + 1
    <2>1. CASE log' = log
      BY <2>1 DEF Sent
    <2>2. CASE log' = Logged(o, e)
      BY <2>2, <1>1, <1>2, SentMore, Places
    <2> QED
      BY <2>1, <2>2, <1>1
  <1>4. ASSUME NEW w \in Workers
        PROVE  /\ Busy(w, p)' = IF w = s THEN 0 ELSE Busy(w, p)
               /\ Deciding(w, p)' = IF w = s THEN 0 ELSE Deciding(w, p)
               /\ Busy(s, p) = IF p = o THEN 1 ELSE 0
    BY <1>1, JobFields, FlowAssumption DEF Busy, Deciding, NoJob
  <1>5. ASSUME NEW w \in Workers
        PROVE  /\ Read(w, "order.created", p)' = Read(w, "order.created", p)
               /\ Decided(w, p)' = Decided(w, p)
    BY DEF PublishFails, offsets, ledger, Read, Decided
  <1>6. handler' = handler
    BY DEF PublishFails, orderVars
  <1>7. ASSUME NEW w \in Workers
        PROVE  Even(w, p)
    <2>1. /\ Sent(OutOf(w), p) \in Nat /\ Read(w, "order.created", p) \in Nat
          /\ Busy(w, p) \in {0, 1} /\ Deciding(w, p) \in {0, 1} /\ Decided(w, p) \in Nat
      BY Counts, Places
    <2> QED
      BY <1>3, <1>4, <1>5, <2>1 DEF Even, Said, Made
  <1>8. Sent("order.created", p) \in Nat
    BY Counts, Places
  <1> QED
    BY <1>3, <1>6, <1>7, <1>8 DEF Announcing

\* A process that ends drops its job and finishes its requests.
LEMMA EndsCounts ==
    ASSUME IInv, NEW s \in Services, Ends(s), NEW p \in Orders
    PROVE  /\ Announcing(p)
           /\ \A w \in Workers : /\ Said(w, p)' <= Said(w, p) /\ Made(w, p)' <= Made(w, p)
                                 /\ Said(w, p)' \in Nat /\ Made(w, p)' \in Nat
  <1>1. UNCHANGED <<log, ledger>> /\ \A w \in Workers : job'[w] = job[w] \/ job'[w] = NoJob
    BY DEF Ends
  <1>2. handler[p] = "done" => handler'[p] = "done"
    BY DEF Ends, orderVars, IInv, TypeOK, OrdersOK
  <1>3. ASSUME NEW w \in Workers
        PROVE  /\ Sent(OutOf(w), p)' = Sent(OutOf(w), p) /\ Decided(w, p)' = Decided(w, p)
               /\ Busy(w, p)' \in {0, Busy(w, p)} /\ Deciding(w, p)' \in {0, Deciding(w, p)}
    BY <1>1, JobFields, FlowAssumption DEF Sent, Decided, ledger, Busy, Deciding, NoJob
  <1>4. ASSUME NEW w \in Workers
        PROVE  /\ Said(w, p)' <= Said(w, p) /\ Made(w, p)' <= Made(w, p)
               /\ Said(w, p)' \in Nat /\ Made(w, p)' \in Nat
    <2>1. /\ Sent(OutOf(w), p) \in Nat /\ Decided(w, p) \in Nat
          /\ Busy(w, p) \in {0, 1} /\ Deciding(w, p) \in {0, 1}
      BY Counts, Places
    <2> QED
      BY <1>3, <2>1 DEF Said, Made
  <1>5. Sent("order.created", p)' = Sent("order.created", p) /\ Sent("order.created", p) \in Nat
    BY <1>1, Counts, Places DEF Sent
  <1> QED
    BY <1>2, <1>4, <1>5 DEF Announcing

\* The service goes back to its committed offsets.
GoesBack(s) == Crash(s) \/ Rejoin(s)

\* After that the service may read its only record of the order again; the other
\* service goes on where it was.
LEMMA GoesBackCounts ==
    ASSUME IInv, NEW s \in Services, GoesBack(s), NEW p \in Orders, Counted(p)
    PROVE  /\ Announcing(p)
           /\ \A w \in Workers \ {s} : Even(w, p)
           /\ s \in Workers => OneAhead(s, p)
  <1> DEFINE R(w) == Read(w, "order.created", p)
  <1>1. position' = [position EXCEPT ![s] = committed[s]]
    BY DEF GoesBack, Crash, Rejoin
  <1>2. \A w \in Workers \ {s} : R(w)' = R(w)
    BY <1>1, Places DEF Read, IInv, TypeOK, OffsetsOK
  <1>3. \A w \in Workers : R(w) \in Nat /\ R(w) <= 1
    BY WorkCounts, Counts, Places DEF Counted
  <1>4. R(s)' \in Nat
    BY <1>1, Places DEF Read, IInv, TypeOK, OffsetsOK
  <1>5. /\ Announcing(p)
        /\ \A w \in Workers : /\ Said(w, p)' <= Said(w, p) /\ Made(w, p)' <= Made(w, p)
                              /\ Said(w, p)' \in Nat /\ Made(w, p)' \in Nat
                              /\ Said(w, p) \in Nat /\ Made(w, p) \in Nat
    <2>1. CASE Crash(s)
      BY <2>1, EndsCounts, WorkCounts DEF Crash
    <2>2. CASE Rejoin(s)
      <3>1. UNCHANGED <<log, job, ledger>> /\ handler' = handler
        BY <2>2 DEF Rejoin, orderVars
      <3>2. \A w \in Workers : Said(w, p)' = Said(w, p) /\ Made(w, p)' = Made(w, p)
        BY <3>1 DEF Said, Made, Sent, Busy, Deciding, Decided, ledger
      <3>3. Sent("order.created", p)' = Sent("order.created", p)
            /\ Sent("order.created", p) \in Nat
        BY <3>1, Counts, Places DEF Sent
      <3> QED
        BY <3>1, <3>2, <3>3, WorkCounts DEF Announcing
    <2> QED
      BY <2>1, <2>2 DEF GoesBack
  <1> HIDE DEF R
  <1>6. ASSUME NEW w \in Workers \ {s}
        PROVE  Even(w, p)
    BY <1>2, <1>3, <1>5 DEF Even, R
  <1>7. ASSUME s \in Workers
        PROVE  OneAhead(s, p)
    BY <1>3, <1>4, <1>5, <1>7 DEF OneAhead, R
  <1> QED
    BY <1>5, <1>6, <1>7

LEMMA ShutdownCounts ==
    ASSUME IInv, NEW s \in Services, Shutdown(s), NEW p \in Orders
    PROVE  Announcing(p) /\ \A w \in Workers : Even(w, p)
  <1>1. Ends(s) /\ position' = position
    BY DEF Shutdown
  <1>2. \A w \in Workers :
           /\ Read(w, "order.created", p)' = Read(w, "order.created", p)
           /\ Read(w, "order.created", p) \in Nat
           /\ Said(w, p)' <= Said(w, p) /\ Made(w, p)' <= Made(w, p)
           /\ Said(w, p)' \in Nat /\ Made(w, p)' \in Nat
           /\ Said(w, p) \in Nat /\ Made(w, p) \in Nat
    BY <1>1, EndsCounts, WorkCounts DEF Read
  <1> QED
    BY <1>1, <1>2, EndsCounts DEF Even

\* Every step that does not go back keeps the workers even.
LEMMA StepsAreEven ==
    ASSUME IInv, StepsBelong, [Next]_vars, \A s \in Services : ~GoesBack(s), NEW p \in Orders
    PROVE  Announcing(p) /\ \A w \in Workers : Even(w, p)
  <1> DEFINE Goal == Announcing(p) /\ \A w \in Workers : Even(w, p)
  <1>1. ASSUME NEW o \in Orders, CreateOrder(o) \/ CreateFails(o)
        PROVE  Goal
    <2>1. UNCHANGED <<log, job, ledger>> /\ UNCHANGED position
      BY <1>1 DEF CreateOrder, CreateFails, offsets
    <2>2. handler[p] = "done" => handler'[p] = "done"
      BY <1>1 DEF CreateOrder, CreateFails, IInv, TypeOK, OrdersOK
    <2> QED
      BY <2>1, <2>2, QuietCounts DEF Read
  <1>2. ASSUME NEW s \in Services, AutoCommit(s) \/ ConsumerEnds(s) \/ Start(s) \/ StartDeaf(s)
        PROVE  Goal
    <2>1. UNCHANGED <<log, job, ledger>> /\ UNCHANGED position /\ handler' = handler
      BY <1>2 DEF AutoCommit, ConsumerEnds, Start, StartDeaf, offsets, orderVars
    <2> QED
      BY <2>1, QuietCounts DEF Read
  <1>3. CASE UNCHANGED vars
    <2>1. UNCHANGED <<log, job, ledger>> /\ UNCHANGED position /\ handler' = handler
      BY <1>3 DEF vars, offsets, orderVars
    <2> QED
      BY <2>1, QuietCounts DEF Read
  <1>4. ASSUME OrderStep \/ PaymentStep \/ InventoryStep
        PROVE  Goal
    BY <1>4, ReceiveOnce, PublishOnce, TakeOrderOnce, DecideOnce, Places
       DEF OrderStep, PaymentStep, InventoryStep
  <1>5. ASSUME NEW w \in Workers, PublishFails(w)
        PROVE  Goal
    BY <1>5, PublishFailsOnce
  <1>6. ASSUME NEW s \in Services, Shutdown(s)
        PROVE  Goal
    BY <1>6, ShutdownCounts
  <1>7. ASSUME NEW o \in Orders, StoreCreated(o)
        PROVE  Goal
    BY <1>7, StoreCreatedOnce
  <1>8. CASE Next
    BY <1>1, <1>2, <1>4, <1>5, <1>6, <1>7, <1>8 DEF Next, GoesBack
  <1> QED
    BY <1>3, <1>8

LEMMA NextCounts ==
    ASSUME IInv, CountsMatch, [Next]_vars
    PROVE  CountsMatch'
  <1>1. StepsBelong /\ StepsBelong' /\ IInv'
    BY StepsStayBelonging, NextKept DEF CountsMatch, Kept
  <1>2. ASSUME NEW p \in Orders
        PROVE  Counted(p)'
    <2>1. Counted(p) /\ faults \in Nat
      BY FlowAssumption DEF CountsMatch, IInv, TypeOK
    <2>2. faults' \in {faults, faults + 1}
      BY DEF Next, vars, CreateOrder, StoreCreated, CreateFails, OrderStep, PaymentStep,
             InventoryStep, ReceiveResult, Publish, TakeOrder, DecidePayment, DecideStock,
             AutoCommit, Rejoin, PublishFails, ConsumerEnds, Crash, Shutdown, Start,
             StartDeaf, Fault
    <2>3. CASE \A s \in Services : ~GoesBack(s)
      BY <1>1, <2>1, <2>2, <2>3, StepsAreEven, EvenStep
    <2>4. ASSUME NEW s \in Services, GoesBack(s)
          PROVE  Counted(p)'
      <3>1. faults' = faults + 1
        BY <2>4 DEF GoesBack, Crash, Rejoin, Fault
      <3>2. CASE s \in Workers
        BY <1>1, <2>1, <2>4, <3>1, <3>2, GoesBackCounts, AheadStep
      <3>3. CASE s \notin Workers
        <4>1. Announcing(p) /\ \A w \in Workers : Even(w, p)
          BY <2>1, <2>4, <3>3, GoesBackCounts
        <4> QED
          BY <1>1, <2>1, <2>2, <4>1, EvenStep
      <3> QED
        BY <3>2, <3>3
    <2> QED
      BY <2>3, <2>4
  <1> QED
    BY <1>1, <1>2 DEF CountsMatch

\* Payment and inventory decide an order once each and say so once each, and a
\* fault lets one of them do so once more: for any orders and any faults, in
\* whatever order records are read. The order is announced once.
THEOREM RepeatsAreFaults == Spec => []RepeatsCostFaults
  <1>1. Init => CountsMatch
    BY InitCounts
  <1>2. IInv /\ CountsMatch /\ [Next]_vars => CountsMatch'
    BY NextCounts
  <1>3. IInv /\ CountsMatch => RepeatsCostFaults
    BY CountsDecide
  <1> QED
    BY <1>1, <1>2, <1>3, Invariance, PTL DEF Spec

-----------------------------------------------------------------------------
(* The feed                                                                *)

\* The worker that says e, and the good result that it is about to publish.
Sayer(e) == IF e = "PAYMENT_COMPLETED" THEN "payment" ELSE "inventory"
Due(o, e) == IF job[Sayer(e)] = Job(o, e) THEN 1 ELSE 0

\* Every good result, published or about to be, has happened once for itself.
Backed == \A o \in Orders, e \in Good : Occurrences(o, e) + Due(o, e) <= Done(o, e)

\* The places of event e among the first n records of s.
Spots(s, n, e) == {i \in 1 .. n : s[i] = e}

LEMMA SpotsCount ==
    ASSUME NEW s, NEW n \in Nat, NEW e
    PROVE  IsFiniteSet(Spots(s, n, e)) /\ Cardinality(Spots(s, n, e)) \in Nat
  <1>1. IsFiniteSet(1 .. n) /\ Spots(s, n, e) \in SUBSET (1 .. n)
    BY FS_Interval DEF Spots
  <1>2. IsFiniteSet(Spots(s, n, e))
    BY <1>1, FS_Subset
  <1> QED
    BY <1>2, FS_CardinalityType

\* One record more is one place more if it is the event.
LEMMA OneLonger ==
    ASSUME NEW s, NEW u, NEW e, NEW n \in Nat, NEW m \in Nat, m = n + 1, \A i \in 1 .. n : u[i] = s[i]
    PROVE  /\ u[m] = e => Cardinality(Spots(u, m, e)) = Cardinality(Spots(s, n, e)) + 1
           /\ u[m] # e => Cardinality(Spots(u, m, e)) = Cardinality(Spots(s, n, e))
  <1>1. IsFiniteSet(Spots(s, n, e)) /\ Cardinality(Spots(s, n, e)) \in Nat
    BY SpotsCount
  <1>2. 1 .. n + 1 = (1 .. n) \cup {n + 1} /\ n + 1 \notin 1 .. n
    OBVIOUS
  <1>3. Spots(u, n + 1, e) = IF u[n + 1] = e THEN Spots(s, n, e) \cup {n + 1} ELSE Spots(s, n, e)
    BY <1>2 DEF Spots
  <1>4. n + 1 \notin Spots(s, n, e)
    BY <1>2 DEF Spots
  <1>5. Cardinality(Spots(s, n, e) \cup {n + 1}) = Cardinality(Spots(s, n, e)) + 1
    BY <1>1, <1>4, FS_AddElement
  <1> QED
    BY <1>1, <1>3, <1>5

\* The good results and what they count.
LEMMA GoodNames ==
    ASSUME IInv, NEW p \in Orders, NEW f \in Good
    PROVE  /\ f \in Events /\ f \in Results /\ f # "ORDER_CREATED" /\ f # "decide"
           /\ Sayer(f) \in Workers /\ OutOf(Sayer(f)) = TopicOf[f]
           /\ \A w \in Workers : TopicOf[f] = OutOf(w) => w = Sayer(f)
           /\ Occurrences(p, f) \in Nat /\ Done(p, f) \in Nat /\ Due(p, f) \in {0, 1}
           /\ Due(p, f)' \in {0, 1}
  <1>1. f \in Events /\ f \in Results /\ f # "ORDER_CREATED" /\ f # "decide"
    BY EventNames DEF Good
  <1>2. /\ Sayer(f) \in Workers /\ OutOf(Sayer(f)) = TopicOf[f]
        /\ \A w \in Workers : TopicOf[f] = OutOf(w) => w = Sayer(f)
    BY Places DEF Good, Sayer, OutOf, TopicOf
  <1>3. log[TopicOf[f]][p] \in Seq(Events)
    BY <1>1, EventNames DEF IInv, TypeOK, LogOK
  <1>4. Len(log[TopicOf[f]][p]) \in Nat
    BY <1>3, LenProperties
  <1>5. Occurrences(p, f) = Cardinality(Spots(log[TopicOf[f]][p], Len(log[TopicOf[f]][p]), f))
    BY DEF Occurrences, Spots
  <1>6. Occurrences(p, f) \in Nat
    BY <1>4, <1>5, SpotsCount
  <1>7. Done(p, f) \in Nat /\ Due(p, f) \in {0, 1} /\ Due(p, f)' \in {0, 1}
    BY DEF Done, Due, IInv, TypeOK, LedgerOK
  <1> QED
    BY <1>1, <1>2, <1>6, <1>7

\* Appending an event makes one more record of it, and of no other.
LEMMA OneMore ==
    ASSUME IInv, NEW o \in Orders, NEW e \in Events, log' = Logged(o, e),
           NEW p \in Orders, NEW f \in Good
    PROVE  Occurrences(p, f)' = Occurrences(p, f) + IF p = o /\ f = e THEN 1 ELSE 0
  <1> DEFINE T == TopicOf[f]
             n == Len(log[T][p])
  <1>1. T \in Topics /\ TopicOf[e] \in Topics /\ LogOK
    BY GoodNames, EventNames DEF IInv, TypeOK
  <1>2. log[T][p] \in Seq(Events) /\ n \in Nat
    BY <1>1, LenProperties DEF LogOK
  <1>3. /\ Occurrences(p, f) = Cardinality(Spots(log[T][p], n, f))
        /\ Occurrences(p, f)' = Cardinality(Spots(log'[T][p], Len(log'[T][p]), f))
    BY DEF Occurrences, Spots
  <1>4. IsFiniteSet(Spots(log[T][p], n, f)) /\ Cardinality(Spots(log[T][p], n, f)) \in Nat
    BY <1>2, SpotsCount
  <1>5. CASE T = TopicOf[e] /\ p = o
    <2>1. log'[T][p] = Append(log[T][p], e)
      BY <1>1, <1>5 DEF Logged, LogOK
    <2>2. /\ Len(log'[T][p]) = n + 1 /\ log'[T][p][n + 1] = e
          /\ \A i \in 1 .. n : log'[T][p][i] = log[T][p][i]
      BY <1>2, <2>1, AppendProperties
    <2> DEFINE u == log'[T][p]
    <2>3. /\ e = f => Cardinality(Spots(u, Len(u), f)) = Cardinality(Spots(log[T][p], n, f)) + 1
          /\ e # f => Cardinality(Spots(u, Len(u), f)) = Cardinality(Spots(log[T][p], n, f))
      <3>1. Len(u) \in Nat /\ Len(u) = n + 1 /\ u[Len(u)] = e
        BY <1>2, <2>2
      <3>2. \A i \in 1 .. n : u[i] = log[T][p][i]
        BY <2>2
      <3>3. n \in Nat
        BY <1>2
      <3> HIDE DEF u, n, T
      <3> DEFINE v == log[T][p]
      <3>4. \A i \in 1 .. n : u[i] = v[i]
        BY <3>2
      <3> HIDE DEF v
      <3>5. n + 1 \in Nat
        BY <3>3
      <3>6. /\ u[n + 1] = f => Cardinality(Spots(u, n + 1, f)) = Cardinality(Spots(v, n, f)) + 1
            /\ u[n + 1] # f => Cardinality(Spots(u, n + 1, f)) = Cardinality(Spots(v, n, f))
        BY <3>3, <3>4, <3>5, OneLonger
      <3>7. u[n + 1] = e /\ Len(u) = n + 1
        BY <3>1
      <3> QED
        BY <3>6, <3>7 DEF v
    <2>4. /\ e = f => Occurrences(p, f)' = Occurrences(p, f) + 1
          /\ e # f => Occurrences(p, f)' = Occurrences(p, f)
      BY <1>3, <2>3
    <2> QED
      BY <1>3, <1>4, <1>5, <2>4
  <1>6. CASE ~(T = TopicOf[e] /\ p = o)
    <2>1. log'[T][p] = log[T][p]
      BY <1>1, <1>6 DEF Logged, LogOK
    <2> QED
      BY <1>3, <1>4, <1>6, <2>1
  <1> QED
    BY <1>5, <1>6

\* Steps that the readers do not see, and that give no worker a good result.
LEMMA QuietFed ==
    ASSUME IInv, Backed, UNCHANGED <<log, ledger>>,
           \A w \in Workers : job'[w] = job[w] \/ job'[w].step \notin Good
    PROVE  Backed' /\ UNCHANGED feedVars
  <1>1. ASSUME NEW p \in Orders, NEW f \in Good
        PROVE  Occurrences(p, f)' + Due(p, f)' <= Done(p, f)'
    <2>1. Occurrences(p, f)' = Occurrences(p, f) /\ Done(p, f)' = Done(p, f)
      BY DEF Occurrences, Done, ledger
    <2>2. Due(p, f)' <= Due(p, f)
      <3>1. Job(p, f).step = f /\ Sayer(f) \in Workers
        BY GoodNames, JobFields
      <3>2. job'[Sayer(f)] = Job(p, f) => job[Sayer(f)] = Job(p, f)
        BY <3>1
      <3> QED
        BY <3>2 DEF Due
    <2>3. Occurrences(p, f) + Due(p, f) <= Done(p, f)
      BY DEF Backed
    <2> QED
      BY <2>1, <2>2, <2>3, GoodNames
  <1> QED
    BY <1>1 DEF Backed, feedVars

\* The announcement of an order is new, and no result.
LEMMA AnnounceFed ==
    ASSUME IInv, Backed, NEW o \in Orders, StoreCreated(o)
    PROVE  Backed' /\ FeedNext
  <1>1. log' = Logged(o, "ORDER_CREATED") /\ UNCHANGED <<job, ledger>>
    BY DEF StoreCreated
  <1>2. Announce(o)
    BY <1>1 DEF StoreCreated, IInv, RequestsAreNew, Announced, Announce
  <1>3. ASSUME NEW p \in Orders, NEW f \in Good
        PROVE  Occurrences(p, f)' + Due(p, f)' <= Done(p, f)'
    <2>1. Occurrences(p, f)' = Occurrences(p, f)
      BY <1>1, GoodNames, EventNames, OneMore
    <2>2. Due(p, f)' = Due(p, f) /\ Done(p, f)' = Done(p, f)
      BY <1>1 DEF Due, Done, ledger
    <2> QED
      BY <2>1, <2>2 DEF Backed
  <1> QED
    BY <1>2, <1>3 DEF Backed, FeedNext

\* A good decision of worker s makes its result due.
LEMMA DecisionBacked ==
    ASSUME IInv, Backed, NEW o \in Orders, NEW e \in Good, UNCHANGED log,
           job[Sayer(e)] = Job(o, "decide"), job' = [job EXCEPT ![Sayer(e)] = Job(o, e)],
           \A p \in Orders, f \in Good :
              Done(p, f)' = Done(p, f) + IF p = o /\ f = e THEN 1 ELSE 0
    PROVE  Backed'
  <1>1. ASSUME NEW p \in Orders, NEW f \in Good
        PROVE  Occurrences(p, f)' + Due(p, f)' <= Done(p, f)'
    <2>1. Occurrences(p, f)' = Occurrences(p, f)
      BY DEF Occurrences
    <2>2. Due(p, f)' <= Due(p, f) + IF p = o /\ f = e THEN 1 ELSE 0
      <3>1. job \in [Workers -> [order : Orders, step : Results \cup {"decide"}] \cup {NoJob}]
        BY DEF IInv, TypeOK, ServicesOK
      <3>2. Job(o, e) = Job(p, f) => p = o /\ f = e
        BY JobFields
      <3>3. job'[Sayer(f)] = IF Sayer(f) = Sayer(e) THEN Job(o, e) ELSE job[Sayer(f)]
        BY <3>1, GoodNames
      <3> QED
        BY <3>2, <3>3, GoodNames DEF Due
    <2>3. Occurrences(p, f) + Due(p, f) <= Done(p, f)
      BY DEF Backed
    <2> QED
      BY <2>1, <2>2, <2>3, GoodNames
  <1> QED
    BY <1>1 DEF Backed

\* A worker decides on an announced order: the feed charges it or sets its stock
\* aside, and what is published of that is still due.
LEMMA DecideFed ==
    ASSUME IInv, Backed, NEW o \in Orders, DecidePayment(o) \/ DecideStock(o)
    PROVE  Backed' /\ [FeedNext]_feedVars
  <1>1. \A s \in Workers : job[s] = Job(o, "decide") => Announced(o)
    BY JobFields DEF IInv, Causality, JobsAreTrue
  <1>2. /\ "payment" \in Workers /\ "inventory" \in Workers
        /\ job \in [Workers -> [order : Orders, step : Results \cup {"decide"}] \cup {NoJob}]
        /\ "PAYMENT_FAILED" \notin Good /\ "INVENTORY_FAILED" \notin Good
    BY DEF IInv, TypeOK, ServicesOK, Workers, Good
  <1>3. CASE DecidePayment(o) /\ job' = [job EXCEPT !["payment"] = Job(o, "PAYMENT_FAILED")]
    <2>1. UNCHANGED <<log, ledger>>
      <3>1. Job(o, "PAYMENT_FAILED") # Job(o, "PAYMENT_COMPLETED")
        BY JobFields
      <3> QED
        BY <1>2, <1>3, <3>1 DEF DecidePayment, ledger
    <2>2. \A w \in Workers : job'[w] = job[w] \/ job'[w].step \notin Good
      BY <1>2, <1>3, JobFields
    <2> QED
      BY <2>1, <2>2, QuietFed
  <1>4. CASE DecideStock(o) /\ job' = [job EXCEPT !["inventory"] = Job(o, "INVENTORY_FAILED")]
    <2>1. UNCHANGED <<log, ledger>>
      <3>1. Job(o, "INVENTORY_FAILED") # Job(o, "INVENTORY_RESERVED")
        BY JobFields
      <3> QED
        BY <1>2, <1>4, <3>1 DEF DecideStock, ledger
    <2>2. \A w \in Workers : job'[w] = job[w] \/ job'[w].step \notin Good
      BY <1>2, <1>4, JobFields
    <2> QED
      BY <2>1, <2>2, QuietFed
  <1>5. CASE DecidePayment(o) /\ charges' = [charges EXCEPT ![o] = @ + 1]
             /\ job' = [job EXCEPT !["payment"] = Job(o, "PAYMENT_COMPLETED")]
    <2>1. "PAYMENT_COMPLETED" \in Good /\ Sayer("PAYMENT_COMPLETED") = "payment"
          /\ UNCHANGED <<log, reserved>> /\ job["payment"] = Job(o, "decide")
      BY <1>5 DEF Good, Sayer, DecidePayment
    <2>2. \A p \in Orders, f \in Good :
             Done(p, f)' = Done(p, f) + IF p = o /\ f = "PAYMENT_COMPLETED" THEN 1 ELSE 0
      BY <1>5, <2>1 DEF Done, Good, IInv, TypeOK, LedgerOK
    <2>3. Charge(o)
      BY <1>1, <1>2, <1>5, <2>1 DEF Charge, Announced
    <2> QED
      BY <1>5, <2>1, <2>2, <2>3, DecisionBacked DEF FeedNext
  <1>6. CASE DecideStock(o) /\ reserved' = [reserved EXCEPT ![o] = @ + 1]
             /\ job' = [job EXCEPT !["inventory"] = Job(o, "INVENTORY_RESERVED")]
    <2>1. "INVENTORY_RESERVED" \in Good /\ Sayer("INVENTORY_RESERVED") = "inventory"
          /\ UNCHANGED <<log, charges>> /\ job["inventory"] = Job(o, "decide")
      BY <1>6 DEF Good, Sayer, DecideStock
    <2>2. \A p \in Orders, f \in Good :
             Done(p, f)' = Done(p, f) + IF p = o /\ f = "INVENTORY_RESERVED" THEN 1 ELSE 0
      BY <1>6, <2>1 DEF Done, Good, IInv, TypeOK, LedgerOK
    <2>3. SetAside(o)
      BY <1>1, <1>2, <1>6, <2>1 DEF SetAside, Announced
    <2> QED
      BY <1>6, <2>1, <2>2, <2>3, DecisionBacked DEF FeedNext
  <1> QED
    BY <1>3, <1>4, <1>5, <1>6 DEF DecidePayment, DecideStock

\* The result that a worker publishes was due.
LEMMA ReportFed ==
    ASSUME IInv, StepsBelong, Backed, NEW s \in Workers, Publish(s) \/ PublishFails(s)
    PROVE  Backed' /\ [FeedNext]_feedVars
  <1> DEFINE o == job[s].order
             e == job[s].step
  <1>1. /\ e \in Results /\ log' \in {log, Logged(o, e)} /\ UNCHANGED ledger
        /\ job' = [job EXCEPT ![s] = NoJob]
    BY DEF Publish, PublishFails
  <1>2. /\ job \in [Workers -> [order : Orders, step : Results \cup {"decide"}] \cup {NoJob}]
        /\ "idle" \notin Results /\ NoJob.step \notin Good
        /\ e \in Events
    BY <1>1, EventNames DEF IInv, TypeOK, ServicesOK, NoJob, Good
  <1>3. job[s] # NoJob /\ o \in Orders
    BY <1>1, <1>2 DEF NoJob
  <1>4. Announced(o)
    BY <1>3 DEF IInv, Causality, JobsAreTrue
  <1>5. \A w \in Workers : job'[w] = IF w = s THEN NoJob ELSE job[w]
    BY <1>1, <1>2
  <1>6. CASE UNCHANGED log
    BY <1>1, <1>2, <1>5, <1>6, QuietFed
  <1>7. CASE log' = Logged(o, e)
    <2>1. e \in Good => s = Sayer(e) /\ Due(o, e) = 1
      <3>1. job[s] = Job(o, e)
        BY <1>2, <1>3 DEF Job
      <3>2. TopicOf[e] = OutOf(s)
        BY <1>1 DEF StepsBelong
      <3> QED
        BY <1>3, <3>1, <3>2, GoodNames DEF Due
    <2>2. Report(o, e)
      <3>1. e \in Good => Occurrences(o, e) < Done(o, e)
        BY <1>3, <2>1, GoodNames DEF Backed
      <3> QED
        BY <1>1, <1>4, <1>7, <3>1 DEF Report, Announced
    <2>3. ASSUME NEW p \in Orders, NEW f \in Good
          PROVE  Occurrences(p, f)' + Due(p, f)' <= Done(p, f)'
      <3>1. Occurrences(p, f)' = Occurrences(p, f) + IF p = o /\ f = e THEN 1 ELSE 0
        BY <1>2, <1>3, <1>7, OneMore
      <3>2. Done(p, f)' = Done(p, f)
        BY <1>1 DEF Done, ledger
      <3>3. Due(p, f)' <= Due(p, f) /\ (p = o /\ f = e => Due(p, f)' = 0)
        BY <1>2, <1>5, <2>1, GoodNames, JobFields DEF Due
      <3>4. Occurrences(p, f) + Due(p, f) <= Done(p, f) /\ (p = o /\ f = e => Due(p, f) = 1)
        BY <2>1 DEF Backed
      <3> HIDE DEF o, e
      <3>5. CASE p = o /\ f = e
        BY <3>1, <3>2, <3>3, <3>4, <3>5, GoodNames
      <3>6. CASE ~(p = o /\ f = e)
        BY <3>1, <3>2, <3>3, <3>4, <3>6, GoodNames
      <3> QED
        BY <3>5, <3>6
    <2> QED
      BY <1>1, <1>3, <2>2, <2>3 DEF Backed, FeedNext
  <1> QED
    BY <1>1, <1>6, <1>7

LEMMA NextFed ==
    ASSUME IInv, StepsBelong, Backed, [Next]_vars
    PROVE  Backed' /\ [FeedNext]_feedVars
  <1>1. ASSUME NEW o \in Orders, CreateOrder(o) \/ CreateFails(o) \/ ReceiveResult(o)
        PROVE  Backed' /\ UNCHANGED feedVars
    <2>1. UNCHANGED <<log, ledger>> /\ job' = job
      BY <1>1 DEF CreateOrder, CreateFails, ReceiveResult
    <2> QED
      BY <2>1, QuietFed
  <1>2. ASSUME NEW s \in Workers, NEW o \in Orders, TakeOrder(s, o)
        PROVE  Backed' /\ UNCHANGED feedVars
    <2>1. /\ UNCHANGED <<log, ledger>> /\ job' = [job EXCEPT ![s] = Job(o, "decide")]
          /\ job \in [Workers -> [order : Orders, step : Results \cup {"decide"}] \cup {NoJob}]
      BY <1>2 DEF TakeOrder, IInv, TypeOK, ServicesOK
    <2>2. Job(o, "decide").step \notin Good
      BY JobFields DEF Good
    <2> QED
      BY <2>1, <2>2, QuietFed
  <1>3. ASSUME NEW s \in Services,
               \/ AutoCommit(s) \/ Rejoin(s) \/ ConsumerEnds(s) \/ Crash(s) \/ Shutdown(s)
               \/ Start(s) \/ StartDeaf(s)
        PROVE  Backed' /\ UNCHANGED feedVars
    <2>1. /\ UNCHANGED <<log, ledger>>
          /\ \A w \in Workers : job'[w] = job[w] \/ job'[w] = NoJob
      BY <1>3 DEF AutoCommit, Rejoin, ConsumerEnds, Crash, Shutdown, Ends, Start, StartDeaf
    <2>2. NoJob.step \notin Good
      BY DEF NoJob, Good
    <2> QED
      BY <2>1, <2>2, QuietFed
  <1>4. CASE UNCHANGED vars
    <2>1. UNCHANGED <<log, ledger>> /\ job' = job
      BY <1>4 DEF vars
    <2> QED
      BY <2>1, QuietFed
  <1> QED
    BY <1>1, <1>2, <1>3, <1>4, AnnounceFed, DecideFed, ReportFed, Places
       DEF Next, OrderStep, PaymentStep, InventoryStep

\* The three services write the feed that the readers rely on: an order is
\* announced once, before all else of it, and no good result is published that is not
\* a charge or a reservation of its own, through crashes, failed sends and repetitions.
THEOREM Refinement == Spec => ImplementsFeed
  <1>1. Init => FeedInit /\ StepsBelong
    BY InitCounts DEF Init, CountsMatch
  <1>2. Init => Backed
    <2> SUFFICES ASSUME Init, NEW p \in Orders, NEW f \in Good
                 PROVE  Occurrences(p, f) + Due(p, f) <= Done(p, f)
      BY DEF Backed
    <2>1. IInv
      BY InitIInv
    <2>2. log[TopicOf[f]][p] = <<>> /\ Done(p, f) = 0
      BY <2>1, GoodNames, EventNames DEF Init, FeedInit, Done
    <2>3. {i \in 1 .. Len(log[TopicOf[f]][p]) : log[TopicOf[f]][p][i] = f} = {}
      BY <2>2
    <2>4. Occurrences(p, f) = 0
      BY <2>3, FS_EmptySet DEF Occurrences
    <2>5. Due(p, f) = 0
      <3>1. job[Sayer(f)] = NoJob /\ NoJob # Job(p, f)
        BY <2>1, GoodNames, JobFields DEF Init, NoJob, Good
      <3> QED
        BY <3>1 DEF Due
    <2> QED
      BY <2>2, <2>4, <2>5
  <1>3. IInv /\ StepsBelong /\ Backed /\ [Next]_vars
           => StepsBelong' /\ Backed' /\ [FeedNext]_feedVars
    BY NextFed, StepsStayBelonging
  <1> QED
    BY <1>1, <1>2, <1>3, Invariance, PTL DEF Spec, ImplementsFeed, FeedSpec

=============================================================================
