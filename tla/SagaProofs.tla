------------------------------ MODULE SagaProofs ------------------------------
(***************************************************************************)
(* Theorems about Saga for any orders and any number of faults.  The       *)
(* argument is causal: every event, in a log or about to be published,     *)
(* states a fact of the ledger, no step ever takes a fact back, and a      *)
(* status repeats what an event has stated.  Money is conserved by         *)
(* counting: what a service puts out, its unfinished work included, is at  *)
(* most what it has read, and a crash lets it read again.  The same counts *)
(* show that Saga implements OrderSettlement while nothing fails.          *)
(***************************************************************************)
EXTENDS Saga, SequenceTheorems, TLAPS

\* Goods of a paid order were refused.
Shortage(o) == charges[o] > 0 /\ Published(o, "INVENTORY_FAILED")

\* What an event states about the ledger.
Fact(o, e) ==
    /\ e = "PAYMENT_COMPLETED" => charges[o] > 0
    /\ e = "INVENTORY_RESERVED" => charges[o] > 0 /\ reserved[o] > 0
    /\ e = "INVENTORY_FAILED" => charges[o] > 0
    /\ e = "REFUND_REQUESTED" => Shortage(o)
    /\ e = "REFUND_COMPLETED" => refunds[o] > 0

\* What a step of a handler presupposes.
Ground(o, s) ==
    /\ s \in Events => Fact(o, s)
    /\ s = "reserve" => charges[o] > 0
    /\ s = "refund" => Shortage(o)

LogsAreTrue ==
    \A t \in Topics, o \in Orders : \A i \in 1 .. Len(log[t][o]) : Fact(o, log[t][o][i])

JobsAreGrounded ==
    \A s \in Services : job[s] # NoJob => Ground(job[s].order, job[s].step)

StatusIsTrue == CompletedIsDelivered /\ CompensatedIsRefunded

Causality == LogsAreTrue /\ JobsAreGrounded /\ StatusIsTrue /\ RefundsAnswerShortage

IInv == TypeOK /\ Causality

-----------------------------------------------------------------------------
(* Names                                                                   *)

LEMMA EventNames ==
    /\ Events = {"ORDER_CREATED", "PAYMENT_COMPLETED", "PAYMENT_FAILED", "INVENTORY_RESERVED",
                 "INVENTORY_FAILED", "REFUND_REQUESTED", "REFUND_COMPLETED", "REFUND_FAILED"}
    /\ \A e \in Events : TopicOf[e] \in Topics
    /\ TopicOf["INVENTORY_FAILED"] = "inventory.result"
    /\ DOMAIN StatusOf \subseteq Events
    /\ \A e \in DOMAIN StatusOf : StatusOf[e] \in Statuses
  <1>1. Events = {"ORDER_CREATED", "PAYMENT_COMPLETED", "PAYMENT_FAILED", "INVENTORY_RESERVED",
                  "INVENTORY_FAILED", "REFUND_REQUESTED", "REFUND_COMPLETED", "REFUND_FAILED"}
    BY DEF Events, TopicOf
  <1>2. DOMAIN StatusOf = {"PAYMENT_COMPLETED", "PAYMENT_FAILED", "INVENTORY_RESERVED",
                           "INVENTORY_FAILED", "REFUND_COMPLETED", "REFUND_FAILED"}
    BY DEF StatusOf
  <1>3. TopicOf["INVENTORY_FAILED"] = "inventory.result"
    BY DEF TopicOf
  <1> QED
    BY <1>1, <1>2, <1>3 DEF Topics, Statuses

\* The only events that set the two statuses a customer trusts.
LEMMA StatusNames ==
    ASSUME NEW e \in DOMAIN StatusOf
    PROVE  /\ StatusOf[e] = "COMPLETED" <=> e = "INVENTORY_RESERVED"
           /\ StatusOf[e] = "COMPENSATED" <=> e = "REFUND_COMPLETED"
  BY DEF StatusOf

LEMMA JobFields ==
    ASSUME NEW o \in Orders, NEW s
    PROVE  Job(o, s).order = o /\ Job(o, s).step = s /\ Job(o, s) # NoJob
  BY SagaAssumption DEF Job, NoJob

-----------------------------------------------------------------------------
(* The logs                                                                *)

\* Appending an event keeps every record and adds this one.
LEMMA LogGrows ==
    ASSUME LogOK, NEW o \in Orders, NEW e \in Events, log' = Logged(o, e)
    PROVE  /\ LogOK'
           /\ \A t \in Topics, p \in Orders :
                 /\ Len(log[t][p]) <= Len(log'[t][p])
                 /\ \A i \in 1 .. Len(log[t][p]) : log'[t][p][i] = log[t][p][i]
                 /\ \A i \in 1 .. Len(log'[t][p]) :
                       i \in 1 .. Len(log[t][p]) \/ (p = o /\ log'[t][p][i] = e)
  <1> DEFINE T == TopicOf[e]
  <1>1. T \in Topics
    BY EventNames
  <1>2. \A t \in Topics, p \in Orders :
           log'[t][p] = IF t = T /\ p = o THEN Append(log[t][p], e) ELSE log[t][p]
    BY <1>1 DEF LogOK, Logged
  <1>3. \A t \in Topics, p \in Orders : log[t][p] \in Seq(Events)
    BY DEF LogOK
  <1>4. \A t \in Topics, p \in Orders :
           LET q == Append(log[t][p], e) IN
           /\ q \in Seq(Events) /\ Len(q) = Len(log[t][p]) + 1
           /\ \A i \in 1 .. Len(log[t][p]) : q[i] = log[t][p][i]
           /\ q[Len(log[t][p]) + 1] = e
    BY <1>3, AppendProperties
  <1>5. \A t \in Topics, p \in Orders : Len(log[t][p]) \in Nat
    BY <1>3, LenProperties
  <1>6. log' \in [Topics -> [Orders -> Seq(Events)]]
    BY <1>1, <1>4 DEF LogOK, Logged
  <1>7. ASSUME NEW t \in Topics, NEW p \in Orders
        PROVE  /\ Len(log[t][p]) <= Len(log'[t][p])
               /\ \A i \in 1 .. Len(log[t][p]) : log'[t][p][i] = log[t][p][i]
               /\ \A i \in 1 .. Len(log'[t][p]) :
                     \/ i \in 1 .. Len(log[t][p])
                     \/ p = o /\ t = T /\ log'[t][p][i] = e
    <2>1. CASE t = T /\ p = o
      <3>1. /\ log'[t][p] = Append(log[t][p], e)
            /\ Len(Append(log[t][p], e)) = Len(log[t][p]) + 1
        BY <2>1, <1>2, <1>4
      <3>2. \A i \in 1 .. Len(log'[t][p]) :
               i \in 1 .. Len(log[t][p]) \/ i = Len(log[t][p]) + 1
        BY <3>1, <1>5
      <3>3. \A i \in 1 .. Len(log[t][p]) : log'[t][p][i] = log[t][p][i]
        BY <3>1, <1>4
      <3>4. log'[t][p][Len(log[t][p]) + 1] = e
        BY <3>1, <1>4
      <3> QED
        BY <2>1, <3>1, <3>2, <3>3, <3>4, <1>5
    <2>2. CASE ~(t = T /\ p = o)
      BY <2>2, <1>2, <1>5
    <2> QED
      BY <2>1, <2>2
  <1>8. \A t \in Topics, p \in Orders : \A i \in 1 .. Len(log'[t][p]) :
           TopicOf[log'[t][p][i]] = t
    <2> SUFFICES ASSUME NEW t \in Topics, NEW p \in Orders, NEW i \in 1 .. Len(log'[t][p])
                 PROVE  TopicOf[log'[t][p][i]] = t
      OBVIOUS
    <2>1. CASE i \in 1 .. Len(log[t][p])
      BY <2>1, <1>7 DEF LogOK
    <2>2. CASE p = o /\ t = T /\ log'[t][p][i] = e
      BY <2>2
    <2> QED
      BY <1>7, <2>1, <2>2
  <1> QED
    BY <1>6, <1>7, <1>8 DEF LogOK

\* A record that a consumer takes is a record of the log, of a known topic.
LEMMA TakenIsLogged ==
    ASSUME LogOK, OffsetsOK, NEW s \in Services, NEW t \in Topics, NEW o \in Orders, NEW e,
           Takes(s, t, o, e)
    PROVE  \E i \in 1 .. Len(log[t][o]) : log[t][o][i] = e /\ e \in Events /\ TopicOf[e] = t
  <1>1. position[s][t][o] \in Nat /\ log[t][o] \in Seq(Events) /\ Len(log[t][o]) \in Nat
    BY LenProperties DEF OffsetsOK, LogOK
  <1>2. position[s][t][o] + 1 \in 1 .. Len(log[t][o])
    BY <1>1 DEF Takes
  <1>3. log[t][o][position[s][t][o] + 1] \in Events
    BY <1>1, <1>2, ElementOfSeq
  <1> QED
    BY <1>2, <1>3 DEF Takes, LogOK

-----------------------------------------------------------------------------
(* Types                                                                   *)

LEMMA InitIInv == Init => IInv
  <1> SUFFICES ASSUME Init PROVE IInv
    OBVIOUS
  <1>1. OrdersOK /\ ServicesOK /\ LedgerOK
    BY DEF Init, OrdersOK, Statuses, ServicesOK, LedgerOK
  <1>2. LogOK /\ OffsetsOK
    BY DEF Init, LogOK, OffsetsOK, Nothing
  <1>3. faults \in 0 .. MaxFaults
    BY SagaAssumption DEF Init
  <1>4. LogsAreTrue /\ JobsAreGrounded
    BY DEF Init, LogsAreTrue, JobsAreGrounded
  <1>5. StatusIsTrue /\ RefundsAnswerShortage
    BY DEF Init, StatusIsTrue, CompletedIsDelivered, CompensatedIsRefunded,
           RefundsAnswerShortage
  <1> QED
    BY <1>1, <1>2, <1>3, <1>4, <1>5 DEF IInv, TypeOK, Causality

LEMMA FaultsOK == ASSUME faults \in 0 .. MaxFaults, Fault \/ UNCHANGED faults
                  PROVE  (faults \in 0 .. MaxFaults)'
  BY SagaAssumption DEF Fault

\* The bounds of the offsets hold once they hold one by one.
LEMMA OffsetsPointwise ==
    ASSUME position' \in [Services -> [Topics -> [Orders -> Nat]]],
           committed' \in [Services -> [Topics -> [Orders -> Nat]]],
           \A s \in Services, t \in Topics, o \in Orders :
              committed'[s][t][o] <= position'[s][t][o] /\ position'[s][t][o] <= Len(log'[t][o])
    PROVE  OffsetsOK'
  BY DEF OffsetsOK

LEMMA OffsetsTyped ==
    ASSUME OffsetsOK, LogOK, NEW s \in Services, NEW t \in Topics, NEW o \in Orders
    PROVE  /\ position[s][t][o] \in Nat /\ committed[s][t][o] \in Nat
           /\ Len(log[t][o]) \in Nat
           /\ committed[s][t][o] <= position[s][t][o]
           /\ position[s][t][o] <= Len(log[t][o])
  <1>1. log[t][o] \in Seq(Events)
    BY DEF LogOK
  <1>2. Len(log[t][o]) \in Nat
    BY <1>1, LenProperties
  <1> QED
    BY <1>2 DEF OffsetsOK

\* The offsets keep within logs that grow or stay.
LEMMA OffsetsFrame ==
    ASSUME OffsetsOK, UNCHANGED offsets, LogOK, LogOK',
           \A t \in Topics, o \in Orders : Len(log[t][o]) <= Len(log'[t][o])
    PROVE  OffsetsOK'
  <1>1. position' = position /\ committed' = committed
    BY DEF offsets
  <1>2. ASSUME NEW s \in Services, NEW t \in Topics, NEW o \in Orders
        PROVE  /\ committed'[s][t][o] <= position'[s][t][o]
               /\ position'[s][t][o] <= Len(log'[t][o])
    <2>1. log'[t][o] \in Seq(Events)
      BY DEF LogOK
    <2>2. Len(log'[t][o]) \in Nat
      BY <2>1, LenProperties
    <2> QED
      BY <1>1, <2>2, OffsetsTyped
  <1>3. /\ position' \in [Services -> [Topics -> [Orders -> Nat]]]
        /\ committed' \in [Services -> [Topics -> [Orders -> Nat]]]
    BY <1>1 DEF OffsetsOK
  <1> QED
    BY <1>2, <1>3, OffsetsPointwise

\* A table of three dimensions of which one entry changes.
LEMMA OneEntryChanges ==
    ASSUME NEW A, NEW B, NEW C, NEW f \in [A -> [B -> [C -> Nat]]], NEW v,
           NEW a \in A, NEW b \in B, NEW c \in C,
           NEW x \in A, NEW y \in B, NEW z \in C
    PROVE  [f EXCEPT ![a][b][c] = v][x][y][z]
             = IF x = a /\ y = b /\ z = c THEN v ELSE f[x][y][z]
  <1>1. CASE x # a
    BY <1>1
  <1>2. CASE x = a /\ y # b
    BY <1>2
  <1>3. CASE x = a /\ y = b
    BY <1>3
  <1> QED
    BY <1>1, <1>2, <1>3

\* Taking a record moves one position, to the end of the log at most.
LEMMA TakesOffsets ==
    ASSUME LogOK, OffsetsOK, NEW s \in Services, NEW t \in Topics, NEW o \in Orders, NEW e,
           Takes(s, t, o, e), UNCHANGED <<committed, log>>
    PROVE  OffsetsOK'
  <1>1. /\ position[s][t][o] < Len(log[t][o])
        /\ position' = [position EXCEPT ![s][t][o] = position[s][t][o] + 1]
    BY DEF Takes
  <1>2. /\ position \in [Services -> [Topics -> [Orders -> Nat]]]
        /\ committed' \in [Services -> [Topics -> [Orders -> Nat]]]
        /\ committed' = committed /\ log' = log
    BY DEF OffsetsOK
  <1>3. position[s][t][o] + 1 \in Nat
    BY OffsetsTyped
  <1>4. position' \in [Services -> [Topics -> [Orders -> Nat]]]
    BY <1>1, <1>2, <1>3
  <1>5. ASSUME NEW r \in Services, NEW u \in Topics, NEW p \in Orders
        PROVE  position'[r][u][p] = IF r = s /\ u = t /\ p = o
                                      THEN position[s][t][o] + 1 ELSE position[r][u][p]
    <2>1. position \in [Services -> [Topics -> [Orders -> Nat]]]
      BY <1>2
    <2> QED
      BY <1>1, <2>1, OneEntryChanges
  <1>6. ASSUME NEW r \in Services, NEW u \in Topics, NEW p \in Orders
        PROVE  /\ committed'[r][u][p] <= position'[r][u][p]
               /\ position'[r][u][p] <= Len(log'[u][p])
    <2>1. CASE r = s /\ u = t /\ p = o
      BY <2>1, <1>1, <1>2, <1>5, OffsetsTyped
    <2>2. CASE ~(r = s /\ u = t /\ p = o)
      BY <2>2, <1>2, <1>5, OffsetsTyped
    <2> QED
      BY <2>1, <2>2
  <1> QED
    BY <1>2, <1>4, <1>6, OffsetsPointwise

\* A commit copies the position of one service, or leaves the offset.
LEMMA CommitOffsets ==
    ASSUME OffsetsOK, LogOK, LogOK', NEW s \in Services,
           committed' = [committed EXCEPT ![s] = position[s]], UNCHANGED position,
           \A t \in Topics, o \in Orders : Len(log[t][o]) <= Len(log'[t][o])
    PROVE  OffsetsOK'
  <1>1. /\ position \in [Services -> [Topics -> [Orders -> Nat]]]
        /\ committed \in [Services -> [Topics -> [Orders -> Nat]]]
    BY DEF OffsetsOK
  <1>2. \A r \in Services : committed'[r] = IF r = s THEN position[r] ELSE committed[r]
    BY <1>1
  <1>3. position[s] \in [Topics -> [Orders -> Nat]]
    BY <1>1
  <1>4. committed' \in [Services -> [Topics -> [Orders -> Nat]]]
    BY <1>1, <1>3
  <1>5. ASSUME NEW r \in Services, NEW t \in Topics, NEW o \in Orders
        PROVE  /\ committed'[r][t][o] <= position'[r][t][o]
               /\ position'[r][t][o] <= Len(log'[t][o])
    <2>1. log'[t][o] \in Seq(Events)
      BY DEF LogOK
    <2>2. Len(log'[t][o]) \in Nat
      BY <2>1, LenProperties
    <2> QED
      BY <1>2, <2>2, OffsetsTyped
  <1> QED
    BY <1>1, <1>4, <1>5, OffsetsPointwise

\* A crash or a rejoin goes back to the committed offsets of one service.
LEMMA CrashOffsets ==
    ASSUME OffsetsOK, LogOK, NEW s \in Services,
           position' = [position EXCEPT ![s] = committed[s]], UNCHANGED <<committed, log>>
    PROVE  OffsetsOK'
  <1>1. /\ position \in [Services -> [Topics -> [Orders -> Nat]]]
        /\ committed \in [Services -> [Topics -> [Orders -> Nat]]]
    BY DEF OffsetsOK
  <1>2. \A r \in Services : position'[r] = IF r = s THEN committed[r] ELSE position[r]
    BY <1>1
  <1>3. committed[s] \in [Topics -> [Orders -> Nat]]
    BY <1>1
  <1>4. position' \in [Services -> [Topics -> [Orders -> Nat]]]
    BY <1>1, <1>3
  <1>5. ASSUME NEW r \in Services, NEW t \in Topics, NEW o \in Orders
        PROVE  /\ committed'[r][t][o] <= position'[r][t][o]
               /\ position'[r][t][o] <= Len(log'[t][o])
    BY <1>2, OffsetsTyped
  <1> QED
    BY <1>1, <1>4, <1>5, OffsetsPointwise

-----------------------------------------------------------------------------
(* Facts are kept                                                          *)

\* No entry of the ledger is taken back and no shortage forgotten.
Grows ==
    /\ \A p \in Orders : charges[p] > 0 => charges'[p] > 0
    /\ \A p \in Orders : reserved[p] > 0 => reserved'[p] > 0
    /\ \A p \in Orders : refunds[p] > 0 => refunds'[p] > 0
    /\ \A p \in Orders : Published(p, "INVENTORY_FAILED") => Published(p, "INVENTORY_FAILED")'

\* Records are only added.
LogStep ==
    \/ UNCHANGED log
    \/ \E o \in Orders, e \in Events : Fact(o, e) /\ log' = Logged(o, e)

LEMMA ShortagesStay ==
    ASSUME LogOK, LogStep, NEW p \in Orders, Published(p, "INVENTORY_FAILED")
    PROVE  Published(p, "INVENTORY_FAILED")'
  <1>1. CASE UNCHANGED log
    BY <1>1 DEF Published
  <1>2. ASSUME NEW o \in Orders, NEW e \in Events, log' = Logged(o, e)
        PROVE  Published(p, "INVENTORY_FAILED")'
    <2> DEFINE T == "inventory.result"
    <2>1. TopicOf["INVENTORY_FAILED"] = T /\ T \in Topics
      BY EventNames
    <2>2. /\ Len(log[T][p]) <= Len(log'[T][p])
          /\ \A i \in 1 .. Len(log[T][p]) : log'[T][p][i] = log[T][p][i]
      BY <1>2, <2>1, LogGrows
    <2>3. log[T][p] \in Seq(Events) /\ log'[T][p] \in Seq(Events)
      BY <1>2, <2>1, LogGrows DEF LogOK
    <2>4. Len(log[T][p]) \in Nat /\ Len(log'[T][p]) \in Nat
      BY <2>3, LenProperties
    <2>5. PICK i \in 1 .. Len(log[T][p]) : log[T][p][i] = "INVENTORY_FAILED"
      BY <2>1 DEF Published
    <2>6. i \in 1 .. Len(log'[T][p]) /\ log'[T][p][i] = "INVENTORY_FAILED"
      BY <2>2, <2>4, <2>5
    <2> QED
      BY <2>1, <2>6 DEF Published
  <1> QED
    BY <1>1, <1>2 DEF LogStep

LEMMA LogStepGrows ==
    ASSUME LogOK, LogStep, UNCHANGED ledger
    PROVE  /\ Grows
           /\ LogOK'
           /\ \A t \in Topics, o \in Orders : Len(log[t][o]) <= Len(log'[t][o])
  <1>1. Grows
    BY ShortagesStay DEF Grows, ledger
  <1>2. CASE UNCHANGED log
    <2>1. \A t \in Topics, o \in Orders : log[t][o] \in Seq(Events)
      BY DEF LogOK
    <2>2. \A t \in Topics, o \in Orders : Len(log[t][o]) \in Nat
      BY <2>1, LenProperties
    <2> QED
      BY <1>1, <1>2, <2>2 DEF LogOK
  <1>3. ASSUME NEW o \in Orders, NEW e \in Events, log' = Logged(o, e)
        PROVE  /\ LogOK'
               /\ \A t \in Topics, p \in Orders : Len(log[t][p]) <= Len(log'[t][p])
    BY <1>3, LogGrows
  <1> QED
    BY <1>1, <1>2, <1>3 DEF LogStep

LEMMA FactsStay ==
    ASSUME Grows, NEW o \in Orders, NEW e, Fact(o, e)
    PROVE  Fact(o, e)'
  BY DEF Grows, Fact, Shortage

LEMMA GroundStays ==
    ASSUME Grows, NEW o \in Orders, NEW s, Ground(o, s)
    PROVE  Ground(o, s)'
  <1>1. s \in Events => Fact(o, s)'
    BY FactsStay DEF Ground
  <1> QED
    BY <1>1 DEF Ground, Grows, Shortage

LEMMA LogsStayTrue ==
    ASSUME LogOK, LogsAreTrue, LogStep, Grows
    PROVE  LogsAreTrue'
  <1>1. CASE UNCHANGED log
    BY <1>1, FactsStay DEF LogsAreTrue
  <1>2. ASSUME NEW o \in Orders, NEW e \in Events, Fact(o, e), log' = Logged(o, e)
        PROVE  LogsAreTrue'
    <2>1. ASSUME NEW t \in Topics, NEW p \in Orders, NEW i \in 1 .. Len(log'[t][p]),
                 NEW v, v = log'[t][p][i]
          PROVE  Fact(p, v)'
      <3>1. CASE i \in 1 .. Len(log[t][p])
        <4>1. v = log[t][p][i]
          BY <1>2, <2>1, <3>1, LogGrows
        <4>2. Fact(p, v)
          BY <3>1, <4>1 DEF LogsAreTrue
        <4> QED
          BY <4>2, FactsStay
      <3>2. CASE p = o /\ log'[t][p][i] = e
        BY <1>2, <2>1, <3>2, FactsStay
      <3> QED
        BY <1>2, <3>1, <3>2, LogGrows
    <2> QED
      BY <2>1 DEF LogsAreTrue
  <1> QED
    BY <1>1, <1>2 DEF LogStep

\* The jobs are grounded once each of them is.
LEMMA JobsPointwise ==
    ASSUME \A s \in Services : job'[s] # NoJob =>
              \E o \in Orders, st \in Steps :
                 job'[s].order = o /\ job'[s].step = st /\ Ground(o, st)'
    PROVE  JobsAreGrounded'
  BY DEF JobsAreGrounded, Ground, Fact, Shortage, Published

\* A job that is not touched stays grounded.
LEMMA JobStays ==
    ASSUME ServicesOK, JobsAreGrounded, Grows, NEW s \in Services, job[s] # NoJob
    PROVE  \E o \in Orders, st \in Steps :
              job[s].order = o /\ job[s].step = st /\ Ground(o, st)'
  <1>1. job[s].order \in Orders /\ job[s].step \in Steps
    BY DEF ServicesOK
  <1>2. PICK o \in Orders, st \in Steps : job[s].order = o /\ job[s].step = st
    BY <1>1
  <1>3. Ground(o, st)
    BY <1>2 DEF JobsAreGrounded
  <1>4. Ground(o, st)'
    BY <1>3, GroundStays
  <1> QED
    BY <1>2, <1>4

\* A job that is kept or ended stays grounded.
LEMMA JobsStay ==
    ASSUME ServicesOK, JobsAreGrounded, Grows,
           \A s \in Services : job'[s] = job[s] \/ job'[s] = NoJob
    PROVE  JobsAreGrounded'
  <1>1. ASSUME NEW s \in Services, job'[s] # NoJob
        PROVE  \E o \in Orders, st \in Steps :
                  job'[s].order = o /\ job'[s].step = st /\ Ground(o, st)'
    <2>1. job'[s] = job[s] /\ job[s] # NoJob
      BY <1>1
    <2> QED
      BY <2>1, JobStays
  <1> QED
    BY <1>1, JobsPointwise

\* One service gets a job whose step is grounded.
LEMMA JobIsSet ==
    ASSUME ServicesOK, JobsAreGrounded, Grows, UNCHANGED up,
           NEW s \in Services, NEW o \in Orders, NEW st \in Steps,
           job' = [job EXCEPT ![s] = Job(o, st)], Ground(o, st)'
    PROVE  JobsAreGrounded' /\ ServicesOK'
  <1>1. job' \in [Services -> [order : Orders, step : Steps] \cup {NoJob}]
    BY DEF ServicesOK, Job
  <1>2. ASSUME NEW r \in Services, job'[r] # NoJob
        PROVE  \E p \in Orders, t \in Steps :
                  job'[r].order = p /\ job'[r].step = t /\ Ground(p, t)'
    <2>1. CASE r = s
      <3>1. job'[r] = Job(o, st)
        BY <2>1 DEF ServicesOK
      <3>2. job'[r].order = o /\ job'[r].step = st
        BY <3>1, JobFields
      <3> QED
        BY <3>2
    <2>2. CASE r # s
      <3>1. job'[r] = job[r] /\ job[r] # NoJob
        BY <1>2, <2>2 DEF ServicesOK
      <3> QED
        BY <3>1, JobStays
    <2> QED
      BY <2>1, <2>2
  <1>3. JobsAreGrounded'
    BY <1>2, JobsPointwise
  <1>4. ServicesOK'
    BY <1>1 DEF ServicesOK
  <1> QED
    BY <1>3, <1>4

\* A status that is kept, or is none of the two that promise something.
LEMMA StatusStays ==
    ASSUME StatusIsTrue, Grows,
           \A p \in Orders : \/ status'[p] = status[p]
                             \/ status'[p] \notin {"COMPLETED", "COMPENSATED"}
    PROVE  StatusIsTrue'
  BY DEF StatusIsTrue, CompletedIsDelivered, CompensatedIsRefunded, Grows

LEMMA RefundsStay ==
    ASSUME RefundsAnswerShortage, Grows, UNCHANGED refunds
    PROVE  RefundsAnswerShortage'
  BY DEF RefundsAnswerShortage, Grows

-----------------------------------------------------------------------------
(* Steps                                                                   *)

\* Steps that leave the ledger, keep or end jobs and promise nothing.
LEMMA QuietStep ==
    ASSUME IInv, LogStep, UNCHANGED ledger,
           OrdersOK', ServicesOK', OffsetsOK', Fault \/ UNCHANGED faults,
           \A s \in Services : job'[s] = job[s] \/ job'[s] = NoJob,
           \A p \in Orders : \/ status'[p] = status[p]
                             \/ status'[p] \notin {"COMPLETED", "COMPENSATED"}
    PROVE  IInv'
  <1>1. Grows /\ LogOK'
    BY LogStepGrows DEF IInv, TypeOK
  <1>2. LedgerOK' /\ (faults \in 0 .. MaxFaults)'
    BY FaultsOK DEF IInv, TypeOK, LedgerOK, ledger
  <1>3. LogsAreTrue'
    BY <1>1, LogsStayTrue DEF IInv, TypeOK, Causality
  <1>4. JobsAreGrounded'
    BY <1>1, JobsStay DEF IInv, TypeOK, Causality
  <1>5. StatusIsTrue'
    BY <1>1, StatusStays DEF IInv, Causality
  <1>6. RefundsAnswerShortage'
    BY <1>1, RefundsStay DEF IInv, Causality, ledger
  <1> QED
    BY <1>1, <1>2, <1>3, <1>4, <1>5, <1>6 DEF IInv, TypeOK, Causality

\* What the sending handler of a request adds to the log is a fact.
LEMMA OrderCreatedIsTrue ==
    ASSUME NEW o \in Orders, log' = Logged(o, "ORDER_CREATED")
    PROVE  LogStep
  <1>1. "ORDER_CREATED" \in Events /\ Fact(o, "ORDER_CREATED")
    BY EventNames DEF Fact
  <1> QED
    BY <1>1 DEF LogStep

\* The event that a service publishes is a fact.
LEMMA ResultIsTrue ==
    ASSUME IInv, NEW s \in Services, job[s].step \in Events,
           log' \in {log, Logged(job[s].order, job[s].step)}
    PROVE  LogStep
  <1>1. "idle" \notin Events
    BY EventNames
  <1>2. job[s] # NoJob
    BY <1>1 DEF NoJob
  <1>3. job[s].order \in Orders
    BY <1>2 DEF IInv, TypeOK, ServicesOK
  <1>4. Fact(job[s].order, job[s].step)
    BY <1>2 DEF IInv, Causality, JobsAreGrounded, Ground
  <1> QED
    BY <1>3, <1>4 DEF LogStep

LEMMA RequestSteps ==
    ASSUME IInv, NEW o \in Orders, CreateOrder(o) \/ RequestStep(o) \/ CreateFails(o)
    PROVE  IInv'
  <1>1. LogStep
    BY OrderCreatedIsTrue DEF CreateOrder, RequestStep, StoreCreated, ReturnCreated, CreateFails, LogStep
  <1>2. /\ UNCHANGED <<up, job, offsets, ledger>>
        /\ Fault \/ UNCHANGED faults
    BY DEF CreateOrder, RequestStep, StoreCreated, ReturnCreated, CreateFails
  <1>3. OrdersOK'
    BY DEF CreateOrder, RequestStep, StoreCreated, ReturnCreated, CreateFails, IInv, TypeOK,
           OrdersOK, WithStatus, Statuses
  <1>4. \A p \in Orders : \/ status'[p] = status[p]
                          \/ status'[p] \notin {"COMPLETED", "COMPENSATED"}
    BY DEF CreateOrder, RequestStep, StoreCreated, ReturnCreated, CreateFails, IInv, TypeOK,
           OrdersOK, WithStatus
  <1>5. OffsetsOK'
    BY <1>1, <1>2, LogStepGrows, OffsetsFrame DEF IInv, TypeOK
  <1>6. ServicesOK'
    BY <1>2 DEF IInv, TypeOK, ServicesOK
  <1> QED
    BY <1>1, <1>2, <1>3, <1>4, <1>5, <1>6, QuietStep

LEMMA PublishStep ==
    ASSUME IInv, NEW s \in Services, Publish(s)
    PROVE  IInv'
  <1>1. LogStep
    BY ResultIsTrue DEF Publish
  <1>2. UNCHANGED <<status, handler, up, offsets, ledger, faults>> /\ job' = [job EXCEPT ![s] = NoJob]
    BY DEF Publish
  <1>3. OrdersOK' /\ ServicesOK'
    BY <1>2 DEF IInv, TypeOK, OrdersOK, ServicesOK
  <1>4. OffsetsOK'
    BY <1>1, <1>2, LogStepGrows, OffsetsFrame DEF IInv, TypeOK
  <1>5. \A r \in Services : job'[r] = job[r] \/ job'[r] = NoJob
    BY <1>2 DEF IInv, TypeOK, ServicesOK
  <1> QED
    BY <1>1, <1>2, <1>3, <1>4, <1>5, QuietStep

LEMMA PublishFailsStep ==
    ASSUME IInv, NEW s \in Services, PublishFails(s)
    PROVE  IInv'
  <1>1. LogStep
    BY ResultIsTrue DEF PublishFails
  <1>2. /\ UNCHANGED <<status, handler, position, ledger>> /\ Fault
        /\ job' = [job EXCEPT ![s] = NoJob] /\ up' = [up EXCEPT ![s] = "deaf"]
        /\ committed' = [committed EXCEPT ![s] = position[s]]
    BY DEF PublishFails
  <1>3. OrdersOK' /\ ServicesOK'
    BY <1>2 DEF IInv, TypeOK, OrdersOK, ServicesOK
  <1>4. OffsetsOK'
    BY <1>1, <1>2, LogStepGrows, CommitOffsets DEF IInv, TypeOK
  <1>5. \A r \in Services : job'[r] = job[r] \/ job'[r] = NoJob
    BY <1>2 DEF IInv, TypeOK, ServicesOK
  <1> QED
    BY <1>1, <1>2, <1>3, <1>4, <1>5, QuietStep

LEMMA AutoCommitStep ==
    ASSUME IInv, NEW s \in Services, AutoCommit(s)
    PROVE  IInv'
  <1>1. LogStep
    BY DEF AutoCommit, LogStep
  <1>2. /\ UNCHANGED <<status, handler, up, job, position, log, ledger, faults>>
        /\ committed' = [committed EXCEPT ![s] = position[s]]
    BY DEF AutoCommit
  <1>3. OrdersOK' /\ ServicesOK'
    BY <1>2 DEF IInv, TypeOK, OrdersOK, ServicesOK
  <1>4. OffsetsOK'
    BY <1>1, <1>2, LogStepGrows, CommitOffsets DEF IInv, TypeOK
  <1> QED
    BY <1>1, <1>2, <1>3, <1>4, QuietStep

LEMMA ConsumerEndsStep ==
    ASSUME IInv, NEW s \in Services, ConsumerEnds(s)
    PROVE  IInv'
  <1>1. LogStep
    BY DEF ConsumerEnds, LogStep
  <1>2. /\ UNCHANGED <<status, handler, job, position, log, ledger>> /\ Fault
        /\ up' = [up EXCEPT ![s] = "deaf"]
        /\ committed' = [committed EXCEPT ![s] = position[s]]
    BY DEF ConsumerEnds
  <1>3. OrdersOK' /\ ServicesOK'
    BY <1>2 DEF IInv, TypeOK, OrdersOK, ServicesOK
  <1>4. OffsetsOK'
    BY <1>1, <1>2, LogStepGrows, CommitOffsets DEF IInv, TypeOK
  <1> QED
    BY <1>1, <1>2, <1>3, <1>4, QuietStep

LEMMA RejoinStep ==
    ASSUME IInv, NEW s \in Services, Rejoin(s)
    PROVE  IInv'
  <1>1. /\ UNCHANGED <<status, handler, up, job, committed, log, ledger>> /\ Fault
        /\ position' = [position EXCEPT ![s] = committed[s]]
    BY DEF Rejoin
  <1>2. LogStep
    BY <1>1 DEF LogStep
  <1>3. OrdersOK' /\ ServicesOK'
    BY <1>1 DEF IInv, TypeOK, OrdersOK, ServicesOK
  <1>4. OffsetsOK'
    BY <1>1, CrashOffsets DEF IInv, TypeOK
  <1> QED
    BY <1>1, <1>2, <1>3, <1>4, QuietStep

LEMMA EndsTypes ==
    ASSUME IInv, NEW s \in Services, Ends(s)
    PROVE  /\ OrdersOK' /\ ServicesOK' /\ UNCHANGED <<log, ledger>>
           /\ \A r \in Services : job'[r] = job[r] \/ job'[r] = NoJob
           /\ \A p \in Orders : \/ status'[p] = status[p]
                                 \/ status'[p] \notin {"COMPLETED", "COMPENSATED"}
  <1>1. CASE s = "order"
    BY <1>1 DEF Ends, IInv, TypeOK, OrdersOK, ServicesOK, Statuses
  <1>2. CASE s # "order"
    BY <1>2 DEF Ends, IInv, TypeOK, OrdersOK, ServicesOK
  <1> QED
    BY <1>1, <1>2

LEMMA CrashStep ==
    ASSUME IInv, NEW s \in Services, Crash(s)
    PROVE  IInv'
  <1>1. Ends(s) /\ Fault /\ position' = [position EXCEPT ![s] = committed[s]] /\ UNCHANGED committed
    BY DEF Crash
  <1>2. LogStep
    BY <1>1 DEF Ends, LogStep
  <1>3. OffsetsOK'
    BY <1>1, EndsTypes, CrashOffsets DEF IInv, TypeOK
  <1> QED
    BY <1>1, <1>2, <1>3, EndsTypes, QuietStep

LEMMA ShutdownStep ==
    ASSUME IInv, NEW s \in Services, Shutdown(s)
    PROVE  IInv'
  <1>1. Ends(s) /\ Fault /\ committed' = [committed EXCEPT ![s] = position[s]] /\ UNCHANGED position
    BY DEF Shutdown
  <1>2. LogStep
    BY <1>1 DEF Ends, LogStep
  <1>3. OffsetsOK'
    BY <1>1, <1>2, EndsTypes, LogStepGrows, CommitOffsets DEF IInv, TypeOK
  <1> QED
    BY <1>1, <1>2, <1>3, EndsTypes, QuietStep

LEMMA StartSteps ==
    ASSUME IInv, NEW s \in Services, Start(s) \/ StartDeaf(s)
    PROVE  IInv'
  <1>1. /\ UNCHANGED <<status, handler, job, offsets, log, ledger>>
        /\ Fault \/ UNCHANGED faults
        /\ up' = [up EXCEPT ![s] = "up"] \/ up' = [up EXCEPT ![s] = "deaf"]
    BY DEF Start, StartDeaf
  <1>2. LogStep
    BY <1>1 DEF LogStep
  <1>3. OrdersOK' /\ ServicesOK'
    BY <1>1 DEF IInv, TypeOK, OrdersOK, ServicesOK
  <1>4. OffsetsOK'
    BY <1>1, <1>2, LogStepGrows, OffsetsFrame DEF IInv, TypeOK
  <1> QED
    BY <1>1, <1>2, <1>3, <1>4, QuietStep

\* Steps that give a service a job, or write the ledger and give it a job.
LEMMA JobStep ==
    ASSUME IInv, UNCHANGED <<up, log, faults>>, LogsAreTrue', Grows, LedgerOK', OffsetsOK',
           OrdersOK', ServicesOK', JobsAreGrounded', StatusIsTrue', RefundsAnswerShortage'
    PROVE  IInv'
  <1>1. LogOK' /\ (faults \in 0 .. MaxFaults)'
    BY DEF IInv, TypeOK, LogOK
  <1> QED
    BY <1>1 DEF IInv, TypeOK, Causality

LEMMA StepNames ==
    /\ {"charge", "refund", "reserve"} \subseteq Steps
    /\ Events \subseteq Steps
    /\ "charge" \notin Events /\ "refund" \notin Events /\ "reserve" \notin Events
  BY EventNames DEF Steps

\* What a consumer takes is true.
LEMMA TakenIsTrue ==
    ASSUME IInv, NEW s \in Services, NEW t \in Topics, NEW o \in Orders, NEW e, Takes(s, t, o, e)
    PROVE  Fact(o, e) /\ e \in Events
  <1>1. PICK i \in 1 .. Len(log[t][o]) : log[t][o][i] = e /\ e \in Events
    BY TakenIsLogged DEF IInv, TypeOK
  <1>2. Fact(o, log[t][o][i])
    BY DEF IInv, Causality, LogsAreTrue
  <1> QED
    BY <1>1, <1>2

\* A step that only takes a record and gives the consumer a job.
LEMMA TakeStep ==
    ASSUME IInv, NEW s \in Services, NEW t \in Topics, NEW o \in Orders, NEW e, Takes(s, t, o, e),
           UNCHANGED <<up, committed, log, ledger, faults>>, OrdersOK', StatusIsTrue',
           \/ UNCHANGED job
           \/ \E st \in Steps : Ground(o, st) /\ job' = [job EXCEPT ![s] = Job(o, st)]
    PROVE  IInv'
  <1>1. LogStep
    BY DEF LogStep
  <1>2. Grows
    BY <1>1, LogStepGrows DEF IInv, TypeOK
  <1>3. LogsAreTrue'
    BY <1>1, <1>2, LogsStayTrue DEF IInv, TypeOK, Causality
  <1>4. LedgerOK'
    BY DEF IInv, TypeOK, LedgerOK, ledger
  <1>5. OffsetsOK'
    BY TakesOffsets DEF IInv, TypeOK
  <1>6. RefundsAnswerShortage'
    BY <1>2, RefundsStay DEF IInv, Causality, ledger
  <1>7. ServicesOK' /\ JobsAreGrounded'
    <2>1. CASE UNCHANGED job
      <3>1. ServicesOK'
        BY <2>1 DEF IInv, TypeOK, ServicesOK
      <3> QED
        BY <2>1, <3>1, <1>2, JobsStay DEF IInv, TypeOK, Causality
    <2>2. ASSUME NEW st \in Steps, Ground(o, st), job' = [job EXCEPT ![s] = Job(o, st)]
          PROVE  ServicesOK' /\ JobsAreGrounded'
      <3>1. Ground(o, st)'
        BY <2>2, <1>2, GroundStays
      <3> QED
        BY <2>2, <3>1, <1>2, JobIsSet DEF IInv, TypeOK, Causality
    <2> QED
      BY <2>1, <2>2
  <1> QED
    BY <1>2, <1>3, <1>4, <1>5, <1>6, <1>7, JobStep

LEMMA ProcessMessageStep ==
    ASSUME IInv, NEW o \in Orders, ProcessMessage(o)
    PROVE  IInv'
  <1>1. PICK t \in Topics, e \in DOMAIN StatusOf :
           /\ Takes("order", t, o, e)
           /\ status' = WithStatus(o, StatusOf[e])
           /\ job' = IF e = "INVENTORY_FAILED" /\ status[o] # "absent"
                       THEN [job EXCEPT !["order"] = Job(o, "REFUND_REQUESTED")] ELSE job
           /\ UNCHANGED <<handler, up, committed, log, ledger, faults>>
    BY DEF ProcessMessage
  <1>2. "order" \in Services
    BY DEF Services
  <1>3. Fact(o, e) /\ e \in Events
    BY <1>1, <1>2, TakenIsTrue
  <1>4. OrdersOK'
    BY <1>1, EventNames DEF IInv, TypeOK, OrdersOK, WithStatus
  <1>5. StatusIsTrue'
    <2>1. ASSUME NEW p \in Orders
          PROVE  /\ status'[p] = "COMPLETED" => charges'[p] > 0 /\ reserved'[p] > 0
                 /\ status'[p] = "COMPENSATED" => refunds'[p] > 0
      <3>1. charges' = charges /\ reserved' = reserved /\ refunds' = refunds
        BY <1>1 DEF ledger
      <3>2. CASE status'[p] = status[p]
        BY <3>1, <3>2 DEF IInv, Causality, StatusIsTrue, CompletedIsDelivered, CompensatedIsRefunded
      <3>3. CASE status'[p] # status[p]
        <4>1. p = o /\ status'[p] = StatusOf[e]
          BY <1>1, <3>3 DEF WithStatus, IInv, TypeOK, OrdersOK
        <4> QED
          BY <1>3, <3>1, <4>1, StatusNames DEF Fact
      <3> QED
        BY <3>2, <3>3
    <2> QED
      BY <2>1 DEF StatusIsTrue, CompletedIsDelivered, CompensatedIsRefunded
  <1>6. \/ UNCHANGED job
        \/ \E st \in Steps : Ground(o, st) /\ job' = [job EXCEPT !["order"] = Job(o, st)]
    <2>1. CASE e = "INVENTORY_FAILED" /\ status[o] # "absent"
      <3>1. Shortage(o)
        <4>1. charges[o] > 0
          BY <1>3, <2>1 DEF Fact
        <4>2. PICK i \in 1 .. Len(log[t][o]) : log[t][o][i] = e /\ TopicOf[e] = t
          BY <1>1, <1>2, TakenIsLogged DEF IInv, TypeOK
        <4> QED
          BY <2>1, <4>1, <4>2 DEF Shortage, Published
      <3>2. "REFUND_REQUESTED" \in Events /\ "REFUND_REQUESTED" \in Steps
        BY EventNames, StepNames
      <3>3. Ground(o, "REFUND_REQUESTED")
        BY <3>1 DEF Ground, Fact
      <3> QED
        BY <1>1, <2>1, <3>2, <3>3
    <2>2. CASE ~(e = "INVENTORY_FAILED" /\ status[o] # "absent")
      BY <1>1, <2>2
    <2> QED
      BY <2>1, <2>2
  <1> QED
    BY <1>1, <1>2, <1>4, <1>5, <1>6, TakeStep

\* The consumers without a status: OrdersOK and StatusIsTrue are theirs for free.
LEMMA StatusKept ==
    ASSUME IInv, UNCHANGED <<status, handler, ledger>>
    PROVE  OrdersOK' /\ StatusIsTrue'
  BY DEF IInv, TypeOK, Causality, OrdersOK, StatusIsTrue, CompletedIsDelivered,
         CompensatedIsRefunded, ledger

LEMMA TakePaymentStep ==
    ASSUME IInv, NEW o \in Orders, TakePayment(o)
    PROVE  IInv'
  <1>1. PICK t \in Topics, e \in {"ORDER_CREATED", "REFUND_REQUESTED"} :
           /\ Takes("payment", t, o, e)
           /\ job' = [job EXCEPT !["payment"] =
                         Job(o, IF e = "ORDER_CREATED" THEN "charge" ELSE "refund")]
           /\ UNCHANGED <<status, handler, up, committed, log, ledger, faults>>
    BY DEF TakePayment
  <1>2. "payment" \in Services
    BY DEF Services
  <1>3. Fact(o, e)
    BY <1>1, <1>2, TakenIsTrue
  <1>4. PICK st \in Steps : /\ st = IF e = "ORDER_CREATED" THEN "charge" ELSE "refund"
                            /\ Ground(o, st)
    BY <1>1, <1>3, StepNames DEF Ground, Fact
  <1>5. job' = [job EXCEPT !["payment"] = Job(o, st)]
    BY <1>1, <1>4
  <1> QED
    BY <1>1, <1>2, <1>4, <1>5, StatusKept, TakeStep

LEMMA TakePaymentResultStep ==
    ASSUME IInv, NEW o \in Orders, TakePaymentResult(o)
    PROVE  IInv'
  <1>1. PICK e \in {"PAYMENT_COMPLETED", "PAYMENT_FAILED"} :
           /\ Takes("inventory", "payment.result", o, e)
           /\ job' = IF e = "PAYMENT_COMPLETED"
                       THEN [job EXCEPT !["inventory"] = Job(o, "reserve")] ELSE job
           /\ UNCHANGED <<status, handler, up, committed, log, ledger, faults>>
    BY DEF TakePaymentResult
  <1>2. "inventory" \in Services /\ "payment.result" \in Topics
    BY DEF Services, Topics, Events, TopicOf
  <1>3. Fact(o, e)
    BY <1>1, <1>2, TakenIsTrue
  <1>4. \/ UNCHANGED job
        \/ \E st \in Steps : Ground(o, st) /\ job' = [job EXCEPT !["inventory"] = Job(o, st)]
    BY <1>1, <1>3, StepNames DEF Ground, Fact
  <1> QED
    BY <1>1, <1>2, <1>4, StatusKept, TakeStep

\* A handler that writes the ledger and gives its service the next step.
LEMMA LedgerStep ==
    ASSUME IInv, NEW s \in Services, NEW o \in Orders, NEW st \in Steps,
           UNCHANGED <<status, handler, up, offsets, log, faults>>,
           job' = [job EXCEPT ![s] = Job(o, st)],
           Grows, LedgerOK', Ground(o, st)', RefundsAnswerShortage'
    PROVE  IInv'
  <1>1. LogStep
    BY DEF LogStep
  <1>2. LogsAreTrue'
    BY <1>1, LogsStayTrue DEF IInv, TypeOK, Causality
  <1>3. ServicesOK' /\ JobsAreGrounded'
    BY JobIsSet DEF IInv, TypeOK, Causality
  <1>4. OffsetsOK' /\ OrdersOK'
    BY DEF IInv, TypeOK, OffsetsOK, OrdersOK, offsets
  <1>5. StatusIsTrue'
    BY StatusStays DEF IInv, Causality
  <1> QED
    BY <1>2, <1>3, <1>4, <1>5, JobStep

LEMMA ChargeStep ==
    ASSUME IInv, NEW o \in Orders, Charge(o)
    PROVE  IInv'
  <1>1. /\ UNCHANGED <<status, handler, up, offsets, log, refunds, reserved, faults>>
        /\ "payment" \in Services
    BY DEF Charge, Services
  <1>2. PICK st \in {"PAYMENT_COMPLETED", "PAYMENT_FAILED"} :
           /\ job' = [job EXCEPT !["payment"] = Job(o, st)]
           /\ charges' = IF st = "PAYMENT_COMPLETED" THEN [charges EXCEPT ![o] = @ + 1] ELSE charges
    BY DEF Charge
  <1>3. \A p \in Orders : charges[p] > 0 => charges'[p] > 0
    BY <1>2 DEF IInv, TypeOK, LedgerOK
  <1>4. Grows
    BY <1>1, <1>3 DEF Grows, Published
  <1>5. LedgerOK'
    BY <1>1, <1>2 DEF IInv, TypeOK, LedgerOK
  <1>6. st \in Steps /\ Ground(o, st)'
    <2>1. st \in Steps
      BY EventNames, StepNames
    <2>2. st = "PAYMENT_COMPLETED" => charges'[o] > 0
      BY <1>2 DEF IInv, TypeOK, LedgerOK
    <2> QED
      BY <2>1, <2>2 DEF Ground, Fact
  <1>7. RefundsAnswerShortage'
    BY <1>1, <1>4, RefundsStay DEF IInv, Causality
  <1> QED
    BY <1>1, <1>2, <1>4, <1>5, <1>6, <1>7, LedgerStep

LEMMA RefundStep ==
    ASSUME IInv, NEW o \in Orders, Refund(o)
    PROVE  IInv'
  <1>1. /\ UNCHANGED <<status, handler, up, offsets, log, charges, reserved, faults>>
        /\ "payment" \in Services /\ job["payment"] = Job(o, "refund")
    BY DEF Refund, Services
  <1>2. PICK st \in {"REFUND_COMPLETED", "REFUND_FAILED"} :
           /\ job' = [job EXCEPT !["payment"] = Job(o, st)]
           /\ refunds' = IF st = "REFUND_COMPLETED" THEN [refunds EXCEPT ![o] = @ + 1] ELSE refunds
    BY DEF Refund
  <1>3. \A p \in Orders : refunds[p] > 0 => refunds'[p] > 0
    BY <1>2 DEF IInv, TypeOK, LedgerOK
  <1>4. Grows
    BY <1>1, <1>3 DEF Grows, Published
  <1>5. LedgerOK'
    BY <1>1, <1>2 DEF IInv, TypeOK, LedgerOK
  <1>6. st \in Steps /\ Ground(o, st)'
    <2>1. st \in Steps
      BY EventNames, StepNames
    <2>2. st = "REFUND_COMPLETED" => refunds'[o] > 0
      BY <1>2 DEF IInv, TypeOK, LedgerOK
    <2> QED
      BY <2>1, <2>2 DEF Ground, Fact
  <1>7. Shortage(o)
    BY <1>1, JobFields DEF IInv, Causality, JobsAreGrounded, Ground
  <1>8. \A p \in Orders : p # o => refunds'[p] = refunds[p]
    BY <1>2 DEF IInv, TypeOK, LedgerOK
  <1>9. RefundsAnswerShortage'
    BY <1>1, <1>7, <1>8 DEF IInv, Causality, RefundsAnswerShortage, Shortage, Published
  <1> QED
    BY <1>1, <1>2, <1>4, <1>5, <1>6, <1>9, LedgerStep

LEMMA ReserveStep ==
    ASSUME IInv, NEW o \in Orders, Reserve(o)
    PROVE  IInv'
  <1>1. /\ UNCHANGED <<status, handler, up, offsets, log, charges, refunds, faults>>
        /\ "inventory" \in Services /\ job["inventory"] = Job(o, "reserve")
    BY DEF Reserve, Services
  <1>2. PICK st \in {"INVENTORY_RESERVED", "INVENTORY_FAILED"} :
           /\ job' = [job EXCEPT !["inventory"] = Job(o, st)]
           /\ reserved' = IF st = "INVENTORY_RESERVED" THEN [reserved EXCEPT ![o] = @ + 1]
                          ELSE reserved
    BY DEF Reserve
  <1>3. \A p \in Orders : reserved[p] > 0 => reserved'[p] > 0
    BY <1>2 DEF IInv, TypeOK, LedgerOK
  <1>4. Grows
    BY <1>1, <1>3 DEF Grows, Published
  <1>5. LedgerOK'
    BY <1>1, <1>2 DEF IInv, TypeOK, LedgerOK
  <1>6. st \in Steps /\ Ground(o, st)'
    <2>1. st \in Steps
      BY EventNames, StepNames
    <2>2. st = "INVENTORY_RESERVED" => reserved'[o] > 0
      BY <1>2 DEF IInv, TypeOK, LedgerOK
    <2>3. charges[o] > 0
      BY <1>1, JobFields DEF IInv, Causality, JobsAreGrounded, Ground
    <2> QED
      BY <1>1, <2>1, <2>2, <2>3 DEF Ground, Fact
  <1>7. RefundsAnswerShortage'
    BY <1>1, <1>4, RefundsStay DEF IInv, Causality
  <1> QED
    BY <1>1, <1>2, <1>4, <1>5, <1>6, <1>7, LedgerStep

LEMMA Stutter ==
    ASSUME IInv, UNCHANGED vars
    PROVE  IInv'
  BY DEF vars, offsets, ledger, IInv, TypeOK, OrdersOK, ServicesOK, LogOK, OffsetsOK, LedgerOK,
         Causality, LogsAreTrue, JobsAreGrounded, Ground, Fact, Shortage, Published, StatusIsTrue,
         CompletedIsDelivered, CompensatedIsRefunded, RefundsAnswerShortage

LEMMA NextIInv ==
    ASSUME IInv, [Next]_vars
    PROVE  IInv'
  <1>1. ASSUME NEW o \in Orders, CreateOrder(o) \/ RequestStep(o) \/ CreateFails(o)
        PROVE  IInv'
    BY <1>1, RequestSteps
  <1>2. ASSUME OrderStep \/ PaymentStep \/ InventoryStep
        PROVE  IInv'
    BY <1>2, PublishStep, ProcessMessageStep, TakePaymentStep, ChargeStep, RefundStep,
       TakePaymentResultStep, ReserveStep DEF OrderStep, PaymentStep, InventoryStep, Services
  <1>3. ASSUME NEW s \in Services,
               AutoCommit(s) \/ Rejoin(s) \/ PublishFails(s) \/ ConsumerEnds(s)
        PROVE  IInv'
    BY <1>3, AutoCommitStep, RejoinStep, PublishFailsStep, ConsumerEndsStep
  <1>4. ASSUME NEW s \in Services, Crash(s) \/ Shutdown(s) \/ Start(s) \/ StartDeaf(s)
        PROVE  IInv'
    BY <1>4, CrashStep, ShutdownStep, StartSteps
  <1>5. CASE UNCHANGED vars
    BY <1>5, Stutter
  <1> QED
    BY <1>1, <1>2, <1>3, <1>4, <1>5 DEF Next

\* The causal invariant holds in every reachable state of the saga, for any
\* orders and any number of failures.
THEOREM Invariance == Spec => []IInv
  <1>1. Init => IInv
    BY InitIInv
  <1>2. IInv /\ [Next]_vars => IInv'
    BY NextIInv
  <1> QED
    BY <1>1, <1>2, PTL DEF Spec

\* The offsets stay within the logs and every record in its topic, through
\* commits, crashes, shutdowns and failed sends.
THEOREM TypeCorrect == Spec => []TypeOK
  <1>1. IInv => TypeOK
    BY DEF IInv
  <1> QED
    BY <1>1, Invariance, PTL

\* COMPLETED is shown only of orders that are paid for and reserved.
THEOREM Delivered == Spec => []CompletedIsDelivered
  <1>1. IInv => CompletedIsDelivered
    BY DEF IInv, Causality, StatusIsTrue
  <1> QED
    BY <1>1, Invariance, PTL

\* COMPENSATED is shown only of orders that are refunded.
THEOREM Refunded == Spec => []CompensatedIsRefunded
  <1>1. IInv => CompensatedIsRefunded
    BY DEF IInv, Causality, StatusIsTrue
  <1> QED
    BY <1>1, Invariance, PTL

\* Every refund answers a shortage of a charged order.
THEOREM RefundsAreAnswers == Spec => []RefundsAnswerShortage
  <1>1. IInv => RefundsAnswerShortage
    BY DEF IInv, Causality
  <1> QED
    BY <1>1, Invariance, PTL

-----------------------------------------------------------------------------
(* Money, while nothing has failed                                         *)

Sent(t, o) == Len(log[t][o])
Read(s, t, o) == position[s][t][o]
Busy(s, o, S) == IF job[s].order = o /\ job[s].step \in S THEN 1 ELSE 0
Told(o, e) == IF Published(o, e) THEN 1 ELSE 0

Charging == {"charge", "PAYMENT_COMPLETED", "PAYMENT_FAILED"}
Reserving == {"reserve", "INVENTORY_RESERVED", "INVENTORY_FAILED"}

\* Each service does what it is to do, and nothing of another service.
StepsBelong ==
    /\ job["order"].step \in {"idle", "REFUND_REQUESTED"}
    /\ job["payment"].step \in Charging \cup {"idle", "refund", "REFUND_COMPLETED", "REFUND_FAILED"}
    /\ job["inventory"].step \in Reserving \cup {"idle"}

\* What comes out of a service, its unfinished work included, has been read before.
Once(o) ==
    /\ Sent("order.created", o) <= IF handler[o] \in {"none", "sending"} THEN 0 ELSE 1
    /\ Sent("payment.result", o) + Busy("payment", o, Charging)
          <= Read("payment", "order.created", o)
    /\ charges[o] + Busy("payment", o, {"charge", "PAYMENT_FAILED"}) + Told(o, "PAYMENT_FAILED")
          <= Read("payment", "order.created", o)
    /\ Sent("inventory.result", o) + Busy("inventory", o, Reserving)
          <= Read("inventory", "payment.result", o)
    /\ reserved[o] + Busy("inventory", o, {"reserve", "INVENTORY_FAILED"}) + Told(o, "INVENTORY_FAILED")
          <= Read("inventory", "payment.result", o)
    /\ Sent("payment.refund-request", o) + Busy("order", o, {"REFUND_REQUESTED"})
          <= Read("order", "inventory.result", o)
    /\ refunds[o] + Busy("payment", o, {"refund", "REFUND_FAILED"}) + Told(o, "REFUND_FAILED")
          <= Read("payment", "payment.refund-request", o)
    /\ reserved[o] > 0 => charges[o] > 0

\* A step that gives service s the step st of order o to do.
Given(s, o, st) ==
    /\ job'[s] = Job(o, st)
    /\ \A r \in Services : r # s => job'[r] = job[r]

Conserved == StepsBelong /\ (faults = 0 => \A o \in Orders : Once(o))

LEMMA Places ==
    /\ "order.created" \in Topics /\ "payment.result" \in Topics
    /\ "inventory.result" \in Topics /\ "payment.refund-request" \in Topics
    /\ "order" \in Services /\ "payment" \in Services /\ "inventory" \in Services
  BY DEF Topics, Events, TopicOf, Services

\* Every count is a number, and no service has read more than was sent.
LEMMA Counts ==
    ASSUME IInv, NEW p \in Orders
    PROVE  /\ \A t \in Topics : Sent(t, p) \in Nat
           /\ \A s \in Services, t \in Topics :
                 Read(s, t, p) \in Nat /\ Read(s, t, p) <= Sent(t, p)
           /\ \A s, S : Busy(s, p, S) \in {0, 1}
           /\ \A f : Told(p, f) \in {0, 1}
           /\ charges[p] \in Nat /\ refunds[p] \in Nat /\ reserved[p] \in Nat
           /\ handler[p] \in {"none", "sending", "stored", "done"}
  <1>1. LogOK /\ OffsetsOK /\ LedgerOK /\ OrdersOK
    BY DEF IInv, TypeOK
  <1>2. \A s \in Services, t \in Topics :
           /\ position[s][t][p] \in Nat /\ Len(log[t][p]) \in Nat
           /\ position[s][t][p] <= Len(log[t][p])
    BY <1>1, OffsetsTyped
  <1>3. "order" \in Services
    BY Places
  <1> QED
    BY <1>1, <1>2, <1>3 DEF Sent, Read, Busy, Told, LedgerOK, OrdersOK

\* An order is announced once, so nothing of it happens twice.
LEMMA AtMostOnce ==
    ASSUME IInv, NEW o \in Orders, Once(o)
    PROVE  /\ Sent("payment.result", o) + Busy("payment", o, Charging) <= 1
           /\ charges[o] + Busy("payment", o, {"charge", "PAYMENT_FAILED"})
                 + Told(o, "PAYMENT_FAILED") <= Sent("order.created", o)
           /\ Sent("order.created", o) <= 1
           /\ Sent("inventory.result", o) + Busy("inventory", o, Reserving) <= 1
           /\ reserved[o] + Busy("inventory", o, {"reserve", "INVENTORY_FAILED"})
                 + Told(o, "INVENTORY_FAILED") <= 1
           /\ refunds[o] + Busy("payment", o, {"refund", "REFUND_FAILED"})
                 + Told(o, "REFUND_FAILED") <= Sent("inventory.result", o)
  <1>1. /\ Sent("order.created", o) \in Nat /\ Sent("payment.result", o) \in Nat
        /\ Sent("inventory.result", o) \in Nat /\ Sent("payment.refund-request", o) \in Nat
        /\ Read("payment", "order.created", o) \in Nat
        /\ Read("payment", "order.created", o) <= Sent("order.created", o)
        /\ Read("inventory", "payment.result", o) \in Nat
        /\ Read("inventory", "payment.result", o) <= Sent("payment.result", o)
        /\ Read("order", "inventory.result", o) \in Nat
        /\ Read("order", "inventory.result", o) <= Sent("inventory.result", o)
        /\ Read("payment", "payment.refund-request", o) \in Nat
        /\ Read("payment", "payment.refund-request", o) <= Sent("payment.refund-request", o)
    BY Counts, Places
  <1>2. /\ \A s, S : Busy(s, o, S) \in {0, 1}
        /\ \A f : Told(o, f) \in {0, 1}
        /\ charges[o] \in Nat /\ refunds[o] \in Nat /\ reserved[o] \in Nat
    BY Counts
  <1>3. /\ Sent("order.created", o) <= 1
        /\ Sent("payment.result", o) + Busy("payment", o, Charging) <= 1
        /\ charges[o] + Busy("payment", o, {"charge", "PAYMENT_FAILED"})
              + Told(o, "PAYMENT_FAILED") <= Sent("order.created", o)
    BY <1>1, <1>2 DEF Once
  <1>4. Read("inventory", "payment.result", o) <= 1
    BY <1>1, <1>2, <1>3
  <1>5. /\ Sent("inventory.result", o) + Busy("inventory", o, Reserving) <= 1
        /\ reserved[o] + Busy("inventory", o, {"reserve", "INVENTORY_FAILED"})
              + Told(o, "INVENTORY_FAILED") <= 1
    BY <1>1, <1>2, <1>4 DEF Once
  <1>6. Sent("payment.refund-request", o) <= Sent("inventory.result", o)
    BY <1>1, <1>2 DEF Once
  <1>7. refunds[o] + Busy("payment", o, {"refund", "REFUND_FAILED"})
           + Told(o, "REFUND_FAILED") <= Sent("inventory.result", o)
    BY <1>1, <1>2, <1>6 DEF Once
  <1> QED
    BY <1>3, <1>5, <1>7

\* While nothing has failed, the charge is for the goods or for the refund.
LEMMA GoodsOrRefund ==
    ASSUME IInv, Conserved, faults = 0, NEW o \in Orders
    PROVE  reserved[o] + refunds[o] <= charges[o]
  <1>1. Once(o)
    BY DEF Conserved
  <1>2. /\ \A s, S : Busy(s, o, S) \in {0, 1}
        /\ \A f : Told(o, f) \in {0, 1}
        /\ Sent("order.created", o) \in Nat /\ Sent("inventory.result", o) \in Nat
        /\ charges[o] \in Nat /\ refunds[o] \in Nat /\ reserved[o] \in Nat
    BY Counts, Places
  <1>3. charges[o] <= 1 /\ refunds[o] <= 1 /\ reserved[o] + Told(o, "INVENTORY_FAILED") <= 1
    BY <1>1, <1>2, AtMostOnce
  <1>4. CASE refunds[o] > 0
    <2>1. charges[o] > 0 /\ Published(o, "INVENTORY_FAILED")
      BY <1>4 DEF IInv, Causality, RefundsAnswerShortage
    <2>2. Told(o, "INVENTORY_FAILED") = 1
      BY <2>1 DEF Told
    <2> QED
      BY <2>1, <2>2, <1>2, <1>3
  <1>5. CASE refunds[o] = 0
    <2>1. reserved[o] <= 1 /\ (reserved[o] > 0 => charges[o] > 0)
      BY <1>1, <1>2, <1>3 DEF Once
    <2> QED
      BY <2>1, <1>2, <1>3, <1>5
  <1> QED
    BY <1>2, <1>4, <1>5

\* An event is one more record of its order and topic.
LEMMA SentMore ==
    ASSUME LogOK, NEW o \in Orders, NEW e \in Events, log' = Logged(o, e),
           NEW t \in Topics, NEW p \in Orders
    PROVE  Sent(t, p)' = IF t = TopicOf[e] /\ p = o THEN Sent(t, p) + 1 ELSE Sent(t, p)
  <1>1. TopicOf[e] \in Topics
    BY EventNames
  <1>2. log'[t][p] = IF t = TopicOf[e] /\ p = o THEN Append(log[t][p], e) ELSE log[t][p]
    BY <1>1 DEF LogOK, Logged
  <1>3. log[t][p] \in Seq(Events)
    BY DEF LogOK
  <1>4. Len(Append(log[t][p], e)) = Len(log[t][p]) + 1
    BY <1>3, AppendProperties
  <1> QED
    BY <1>2, <1>4 DEF Sent

\* What is published stays published, and one event more is.
LEMMA ToldMore ==
    ASSUME LogOK, NEW o \in Orders, NEW e \in Events, log' = Logged(o, e), NEW p \in Orders,
           NEW f \in Events
    PROVE  /\ Published(p, f)' <=> Published(p, f) \/ (p = o /\ f = e)
           /\ Told(p, f)' = IF p = o /\ f = e THEN 1 ELSE Told(p, f)
  <1> DEFINE T == TopicOf[f]
  <1>1. T \in Topics
    BY EventNames
  <1>2. log[T][p] \in Seq(Events)
    BY <1>1 DEF LogOK
  <1>3. log'[T][p] = IF T = TopicOf[e] /\ p = o THEN Append(log[T][p], e) ELSE log[T][p]
    BY <1>1, EventNames DEF LogOK, Logged
  <1>4. LET q == Append(log[T][p], e) IN
        /\ Len(log[T][p]) \in Nat /\ Len(q) = Len(log[T][p]) + 1
        /\ \A i \in 1 .. Len(log[T][p]) : q[i] = log[T][p][i]
        /\ q[Len(log[T][p]) + 1] = e
    BY <1>2, AppendProperties, LenProperties
  <1>5. Published(p, f)' <=> Published(p, f) \/ (p = o /\ f = e)
    <2>1. ASSUME NEW i \in 1 .. Len(log'[T][p]), log'[T][p][i] = f
          PROVE  Published(p, f) \/ (p = o /\ f = e)
      BY <2>1, <1>3, <1>4 DEF Published
    <2>2. ASSUME NEW i \in 1 .. Len(log[T][p]), log[T][p][i] = f
          PROVE  Published(p, f)'
      BY <2>2, <1>3, <1>4 DEF Published
    <2>3. ASSUME p = o /\ f = e
          PROVE  Published(p, f)'
      <3>1. Len(log'[T][p]) \in 1 .. Len(log'[T][p]) /\ log'[T][p][Len(log'[T][p])] = f
        BY <2>3, <1>3, <1>4
      <3> QED
        BY <3>1 DEF Published
    <2> QED
      BY <2>1, <2>2, <2>3 DEF Published
  <1> QED
    BY <1>5 DEF Told

LEMMA ReadMore ==
    ASSUME OffsetsOK, NEW s \in Services, NEW t \in Topics, NEW o \in Orders, NEW e,
           Takes(s, t, o, e), NEW r \in Services, NEW u \in Topics, NEW p \in Orders
    PROVE  Read(r, u, p)' = IF r = s /\ u = t /\ p = o THEN Read(r, u, p) + 1 ELSE Read(r, u, p)
  <1>1. position \in [Services -> [Topics -> [Orders -> Nat]]]
    BY DEF OffsetsOK
  <1>2. position' = [position EXCEPT ![s][t][o] = position[s][t][o] + 1]
    BY DEF Takes
  <1>3. position'[r][u][p] = IF r = s /\ u = t /\ p = o
                               THEN position[s][t][o] + 1 ELSE position[r][u][p]
    BY <1>1, <1>2, OneEntryChanges
  <1> QED
    BY <1>3 DEF Read

\* A service that is given a step, or none, is busy with that one only.
LEMMA BusyWith ==
    ASSUME NEW s \in Services, NEW o \in Orders, NEW st, Given(s, o, st),
           NEW r \in Services, NEW p \in Orders, NEW S
    PROVE  Busy(r, p, S)' = IF r = s THEN (IF p = o /\ st \in S THEN 1 ELSE 0) ELSE Busy(r, p, S)
  BY DEF Given, Busy, Job

LEMMA BusyNoMore ==
    ASSUME ServicesOK, NEW s \in Services, job' = [job EXCEPT ![s] = NoJob],
           NEW r \in Services, NEW p \in Orders, NEW S
    PROVE  Busy(r, p, S)' = IF r = s THEN 0 ELSE Busy(r, p, S)
  BY SagaAssumption DEF ServicesOK, Busy, NoJob

LEMMA IdleIsFree ==
    ASSUME NEW s \in Services, job[s] = NoJob, NEW p \in Orders, NEW S
    PROVE  Busy(s, p, S) = 0
  BY SagaAssumption DEF Busy, NoJob

LEMMA InitConserved == Init => Conserved
  <1> SUFFICES ASSUME Init PROVE Conserved
    OBVIOUS
  <1>1. StepsBelong
    BY Places DEF Init, StepsBelong, NoJob
  <1>2. ASSUME NEW o \in Orders
        PROVE  Once(o)
    <2>1. /\ \A t \in Topics : Sent(t, o) = 0
          /\ \A s \in Services, t \in Topics : Read(s, t, o) = 0
          /\ \A s \in Services : \A S : Busy(s, o, S) = 0
          /\ charges[o] = 0 /\ refunds[o] = 0 /\ reserved[o] = 0 /\ handler[o] = "none"
      BY SagaAssumption DEF Init, Sent, Read, Busy, Nothing, NoJob
    <2>2. \A f \in Events : Told(o, f) = 0
      BY EventNames DEF Init, Told, Published
    <2> QED
      BY <2>1, <2>2, Places, EventNames DEF Once
  <1> QED
    BY <1>1, <1>2 DEF Conserved

-----------------------------------------------------------------------------
(* Money: the steps of the services                                        *)

\* Whatever a step does, faults included, a service is given work of its own.
LEMMA StepsStayBelonging ==
    ASSUME IInv, StepsBelong, [Next]_vars
    PROVE  StepsBelong'
  <1> USE Places
  <1>1. job \in [Services -> [order : Orders, step : Steps] \cup {NoJob}]
    BY DEF IInv, TypeOK, ServicesOK
  <1>2. CASE UNCHANGED job
    BY <1>2 DEF StepsBelong
  <1>3. ASSUME NEW s \in Services, job' = [job EXCEPT ![s] = NoJob]
        PROVE  StepsBelong'
    BY <1>1, <1>3 DEF StepsBelong, NoJob
  <1>4. ASSUME NEW o \in Orders, ProcessMessage(o)
        PROVE  StepsBelong'
    BY <1>1, <1>4 DEF ProcessMessage, StepsBelong, Job
  <1>5. ASSUME NEW o \in Orders, TakePayment(o) \/ Charge(o) \/ Refund(o)
        PROVE  StepsBelong'
    <2>1. PICK st \in Charging \cup {"refund", "REFUND_COMPLETED", "REFUND_FAILED"} :
             job' = [job EXCEPT !["payment"] = Job(o, st)]
      BY <1>5 DEF TakePayment, Charge, Refund, Charging
    <2> QED
      BY <1>1, <2>1 DEF StepsBelong, Job
  <1>6. ASSUME NEW o \in Orders, TakePaymentResult(o) \/ Reserve(o)
        PROVE  StepsBelong'
    <2>1. UNCHANGED job \/ \E st \in Reserving : job' = [job EXCEPT !["inventory"] = Job(o, st)]
      BY <1>6 DEF TakePaymentResult, Reserve, Reserving
    <2> QED
      BY <1>1, <2>1 DEF StepsBelong, Job
  <1>7. ASSUME NEW s \in Services, Publish(s) \/ PublishFails(s) \/ Crash(s) \/ Shutdown(s)
        PROVE  StepsBelong'
    BY <1>3, <1>7 DEF Publish, PublishFails, Crash, Shutdown, Ends
  <1>8. ASSUME NEW o \in Orders, CreateOrder(o) \/ RequestStep(o) \/ CreateFails(o)
        PROVE  UNCHANGED job
    BY <1>8 DEF CreateOrder, RequestStep, StoreCreated, ReturnCreated, CreateFails
  <1>9. ASSUME NEW s \in Services,
               AutoCommit(s) \/ Rejoin(s) \/ ConsumerEnds(s) \/ Start(s) \/ StartDeaf(s)
        PROVE  UNCHANGED job
    BY <1>9 DEF AutoCommit, Rejoin, ConsumerEnds, Start, StartDeaf
  <1>10. UNCHANGED vars => UNCHANGED job
    BY DEF vars
  <1>11. ASSUME Next
         PROVE  \/ \E o \in Orders : CreateOrder(o) \/ RequestStep(o) \/ CreateFails(o)
                \/ \E o \in Orders : ProcessMessage(o)
                \/ \E o \in Orders : TakePayment(o) \/ Charge(o) \/ Refund(o)
                \/ \E o \in Orders : TakePaymentResult(o) \/ Reserve(o)
                \/ \E s \in Services : Publish(s) \/ PublishFails(s) \/ Crash(s) \/ Shutdown(s)
                \/ \E s \in Services : \/ AutoCommit(s) \/ Rejoin(s) \/ ConsumerEnds(s)
                                       \/ Start(s) \/ StartDeaf(s)
    BY <1>11 DEF Next, OrderStep, PaymentStep, InventoryStep
  <1> QED
    BY <1>2, <1>4, <1>5, <1>6, <1>7, <1>8, <1>9, <1>10, <1>11

\* A step that moves no count and keeps or finishes the requests.
LEMMA QuietCounts ==
    ASSUME NEW p \in Orders, Once(p), UNCHANGED <<log, position, job, ledger>>,
           \/ handler'[p] = handler[p]
           \/ handler[p] = "none" /\ handler'[p] = "sending"
           \/ handler[p] = "stored" /\ handler'[p] = "done"
    PROVE  Once(p)'
  BY DEF Once, Sent, Read, Busy, Told, Published, ledger

LEMMA StoreCreatedOnce ==
    ASSUME IInv, NEW o \in Orders, StoreCreated(o), NEW p \in Orders, Once(p)
    PROVE  Once(p)'
  <1>1. log' = Logged(o, "ORDER_CREATED") /\ "ORDER_CREATED" \in Events /\ LogOK
        /\ TopicOf["ORDER_CREATED"] = "order.created"
    BY EventNames DEF StoreCreated, IInv, TypeOK, TopicOf
  <1>2. /\ Sent("order.created", p)' = IF p = o THEN Sent("order.created", p) + 1
                                       ELSE Sent("order.created", p)
        /\ Sent("payment.result", p)' = Sent("payment.result", p)
        /\ Sent("inventory.result", p)' = Sent("inventory.result", p)
        /\ Sent("payment.refund-request", p)' = Sent("payment.refund-request", p)
    BY <1>1, SentMore, Places
  <1>3. \A f \in Events : f # "ORDER_CREATED" => Told(p, f)' = Told(p, f)
    BY <1>1, ToldMore
  <1>4. /\ \A s, t : Read(s, t, p)' = Read(s, t, p)
        /\ \A s, S : Busy(s, p, S)' = Busy(s, p, S)
        /\ charges'[p] = charges[p] /\ refunds'[p] = refunds[p] /\ reserved'[p] = reserved[p]
    BY DEF StoreCreated, offsets, ledger, Read, Busy
  <1>5. handler[o] = "sending" /\ handler'[p] = IF p = o THEN "stored" ELSE handler[p]
    BY DEF StoreCreated, IInv, TypeOK, OrdersOK
  <1>6. Sent("order.created", p) \in Nat 
    BY Counts, Places
  <1> QED
    BY <1>2, <1>3, <1>4, <1>5, <1>6, EventNames DEF Once

\* The result of a service leaves its job for the log.
LEMMA PublishOnce ==
    ASSUME IInv, StepsBelong, NEW s \in Services, Publish(s), NEW p \in Orders, Once(p)
    PROVE  Once(p)'
  <1> DEFINE o == job[s].order
             e == job[s].step
  <1> USE Places
  <1>1. /\ e \in Events /\ o \in Orders /\ log' = Logged(o, e) /\ LogOK /\ ServicesOK
        /\ job' = [job EXCEPT ![s] = NoJob]
    <2>1. "idle" \notin Events
      BY EventNames
    <2> QED
      BY <2>1 DEF Publish, IInv, TypeOK, ServicesOK, NoJob
  <1>2. \A t \in Topics : Sent(t, p)' = IF t = TopicOf[e] /\ p = o THEN Sent(t, p) + 1
                                        ELSE Sent(t, p)
    BY <1>1, SentMore
  <1>3. \A f \in {"PAYMENT_FAILED", "INVENTORY_FAILED", "REFUND_FAILED"} :
           Told(p, f)' = IF p = o /\ f = e THEN 1 ELSE Told(p, f)
    BY <1>1, ToldMore, EventNames
  <1>4. \A r \in Services : \A S : Busy(r, p, S)' = IF r = s THEN 0 ELSE Busy(r, p, S)
    BY <1>1, BusyNoMore
  <1>5. /\ \A r, t : Read(r, t, p)' = Read(r, t, p)
        /\ charges'[p] = charges[p] /\ refunds'[p] = refunds[p] /\ reserved'[p] = reserved[p]
        /\ handler'[p] = handler[p]
    BY DEF Publish, offsets, ledger, Read
  <1>6. /\ \A r \in Services : \A S : Busy(r, p, S) \in {0, 1}
        /\ \A t \in Topics : Sent(t, p) \in Nat
        /\ \A r \in Services, t \in Topics : Read(r, t, p) \in Nat
        /\ \A f : Told(p, f) \in {0, 1}
        /\ charges[p] \in Nat /\ refunds[p] \in Nat /\ reserved[p] \in Nat
    BY Counts
  <1>7. \A S : Busy(s, p, S) = IF p = o /\ e \in S THEN 1 ELSE 0
    BY DEF Busy
  <1>8. CASE s = "order"
    <2>1. e = "REFUND_REQUESTED"
      BY <1>1, <1>8, EventNames DEF StepsBelong
    <2>2. TopicOf[e] = "payment.refund-request"
      BY <2>1 DEF TopicOf
    <2>3. Busy("order", p, {"REFUND_REQUESTED"}) = IF p = o THEN 1 ELSE 0
      BY <1>7, <1>8, <2>1
    <2> QED
      BY <1>2, <1>3, <1>4, <1>5, <1>6, <1>8, <2>1, <2>2, <2>3 DEF Once
  <1>9. CASE s = "payment" /\ e \in {"PAYMENT_COMPLETED", "PAYMENT_FAILED"}
    <2>1. TopicOf[e] = "payment.result"
      BY <1>9 DEF TopicOf
    <2>2. /\ Busy("payment", p, Charging) = IF p = o THEN 1 ELSE 0
          /\ Busy("payment", p, {"charge", "PAYMENT_FAILED"})
                = IF p = o /\ e = "PAYMENT_FAILED" THEN 1 ELSE 0
      BY <1>7, <1>9 DEF Charging
    <2> QED
      BY <1>2, <1>3, <1>4, <1>5, <1>6, <1>9, <2>1, <2>2 DEF Once
  <1>10. CASE s = "payment" /\ e \in {"REFUND_COMPLETED", "REFUND_FAILED"}
    <2>1. TopicOf[e] = "payment.refund-result"
      BY <1>10 DEF TopicOf
    <2>2. Busy("payment", p, {"refund", "REFUND_FAILED"})
             = IF p = o /\ e = "REFUND_FAILED" THEN 1 ELSE 0
      BY <1>7, <1>10
    <2> QED
      BY <1>2, <1>3, <1>4, <1>5, <1>6, <1>10, <2>1, <2>2 DEF Once
  <1>11. CASE s = "inventory"
    <2>1. e \in {"INVENTORY_RESERVED", "INVENTORY_FAILED"}
      BY <1>1, <1>11, EventNames DEF StepsBelong, Reserving
    <2>2. TopicOf[e] = "inventory.result"
      BY <2>1 DEF TopicOf
    <2>3. /\ Busy("inventory", p, Reserving) = IF p = o THEN 1 ELSE 0
          /\ Busy("inventory", p, {"reserve", "INVENTORY_FAILED"})
                = IF p = o /\ e = "INVENTORY_FAILED" THEN 1 ELSE 0
      BY <1>7, <1>11, <2>1 DEF Reserving
    <2> QED
      BY <1>2, <1>3, <1>4, <1>5, <1>6, <1>11, <2>1, <2>2, <2>3 DEF Once
  <1>12. s = "payment" => e \in {"PAYMENT_COMPLETED", "PAYMENT_FAILED",
                                 "REFUND_COMPLETED", "REFUND_FAILED"}
    BY <1>1, EventNames DEF StepsBelong, Charging
  <1> QED
    BY <1>8, <1>9, <1>10, <1>11, <1>12 DEF Services

\* A record that is taken is one more read, and the service was free.
LEMMA TakenCounts ==
    ASSUME IInv, NEW s \in Services, NEW t \in Topics, NEW o \in Orders, NEW e,
           Takes(s, t, o, e), UNCHANGED <<handler, log, ledger>>, NEW p \in Orders
    PROVE  /\ \A r \in Services, u \in Topics :
                 Read(r, u, p)' = IF r = s /\ u = t /\ p = o THEN Read(r, u, p) + 1
                                  ELSE Read(r, u, p)
           /\ \A u : Sent(u, p)' = Sent(u, p)
           /\ \A S : Busy(s, p, S) = 0
           /\ \A f : Told(p, f)' = Told(p, f)
           /\ charges'[p] = charges[p] /\ refunds'[p] = refunds[p] /\ reserved'[p] = reserved[p]
           /\ handler'[p] = handler[p]
           /\ e \in Events /\ TopicOf[e] = t
  <1>1. OffsetsOK /\ LogOK /\ job[s] = NoJob
    BY DEF IInv, TypeOK, Takes
  <1>2. e \in Events /\ TopicOf[e] = t
    BY <1>1, TakenIsLogged
  <1>3. \A f : Told(p, f)' = Told(p, f)
    BY DEF Told, Published
  <1>4. \A r \in Services, u \in Topics :
           Read(r, u, p)' = IF r = s /\ u = t /\ p = o THEN Read(r, u, p) + 1 ELSE Read(r, u, p)
    BY <1>1, ReadMore
  <1>5. \A S : Busy(s, p, S) = 0
    BY <1>1, IdleIsFree
  <1> QED
    BY <1>2, <1>3, <1>4, <1>5 DEF Sent, ledger

LEMMA ProcessMessageOnce ==
    ASSUME IInv, NEW o \in Orders, ProcessMessage(o), NEW p \in Orders, Once(p)
    PROVE  Once(p)'
  <1> USE Places
  <1>1. PICK t \in Topics, e \in DOMAIN StatusOf :
           /\ Takes("order", t, o, e)
           /\ job' = IF e = "INVENTORY_FAILED" /\ status[o] # "absent"
                       THEN [job EXCEPT !["order"] = Job(o, "REFUND_REQUESTED")] ELSE job
           /\ UNCHANGED <<handler, log, ledger>>
    BY DEF ProcessMessage
  <1>2. /\ \A r \in Services, u \in Topics :
              Read(r, u, p)' = IF r = "order" /\ u = t /\ p = o THEN Read(r, u, p) + 1
                               ELSE Read(r, u, p)
        /\ \A u : Sent(u, p)' = Sent(u, p)
        /\ \A S : Busy("order", p, S) = 0
        /\ \A f : Told(p, f)' = Told(p, f)
        /\ charges'[p] = charges[p] /\ refunds'[p] = refunds[p] /\ reserved'[p] = reserved[p]
        /\ handler'[p] = handler[p] /\ TopicOf[e] = t
    BY <1>1, TakenCounts
  <1>3. /\ Busy("order", p, {"REFUND_REQUESTED"})'
              <= IF p = o /\ e = "INVENTORY_FAILED" THEN 1 ELSE 0
        /\ Busy("order", p, {"REFUND_REQUESTED"})' \in {0, 1}
        /\ \A r \in {"payment", "inventory"} : \A S : Busy(r, p, S)' = Busy(r, p, S)
    <2>1. CASE UNCHANGED job
      <3>1. \A r, S : Busy(r, p, S)' = Busy(r, p, S)
        BY <2>1 DEF Busy
      <3> QED
        BY <1>2, <3>1
    <2>2. CASE e = "INVENTORY_FAILED" /\ job' = [job EXCEPT !["order"] = Job(o, "REFUND_REQUESTED")]
      <3>1. Given("order", o, "REFUND_REQUESTED")
        BY <2>2 DEF Given, IInv, TypeOK, ServicesOK
      <3>2. ASSUME NEW r \in Services, NEW S
            PROVE  Busy(r, p, S)' = IF r = "order"
                                      THEN (IF p = o /\ "REFUND_REQUESTED" \in S THEN 1 ELSE 0)
                                      ELSE Busy(r, p, S)
        BY <3>1, BusyWith
      <3> QED
        BY <2>2, <3>2
    <2> QED
      BY <1>1, <2>1, <2>2
  <1>4. e = "INVENTORY_FAILED" => t = "inventory.result"
    BY <1>2, EventNames
  <1>5. \A r \in Services, u \in Topics : Read(r, u, p) \in Nat
    BY Counts
  <1>6. Sent("payment.refund-request", p) \in Nat
    BY Counts
  <1> QED
    BY <1>2, <1>3, <1>4, <1>5, <1>6 DEF Once

LEMMA TakePaymentOnce ==
    ASSUME IInv, NEW o \in Orders, TakePayment(o), NEW p \in Orders, Once(p)
    PROVE  Once(p)'
  <1> USE Places
  <1>1. PICK t \in Topics, e \in {"ORDER_CREATED", "REFUND_REQUESTED"} :
           /\ Takes("payment", t, o, e)
           /\ Given("payment", o, IF e = "ORDER_CREATED" THEN "charge" ELSE "refund")
           /\ UNCHANGED <<handler, log, ledger>>
    BY DEF TakePayment, Given, IInv, TypeOK, ServicesOK
  <1>2. /\ \A r \in Services, u \in Topics :
              Read(r, u, p)' = IF r = "payment" /\ u = t /\ p = o THEN Read(r, u, p) + 1
                               ELSE Read(r, u, p)
        /\ \A u : Sent(u, p)' = Sent(u, p)
        /\ \A S : Busy("payment", p, S) = 0
        /\ \A f : Told(p, f)' = Told(p, f)
        /\ charges'[p] = charges[p] /\ refunds'[p] = refunds[p] /\ reserved'[p] = reserved[p]
        /\ handler'[p] = handler[p] /\ TopicOf[e] = t
    BY <1>1, TakenCounts
  <1>3. ASSUME NEW r \in Services, NEW S
        PROVE  Busy(r, p, S)' = IF r = "payment"
                  THEN (IF p = o /\ (IF e = "ORDER_CREATED" THEN "charge" ELSE "refund") \in S
                          THEN 1 ELSE 0)
                  ELSE Busy(r, p, S)
    BY <1>1, BusyWith
  <1>4. t = IF e = "ORDER_CREATED" THEN "order.created" ELSE "payment.refund-request"
    BY <1>2 DEF TopicOf
  <1>5. /\ \A r \in Services, u \in Topics : Read(r, u, p) \in Nat
        /\ \A u \in Topics : Sent(u, p) \in Nat
        /\ charges[p] \in Nat /\ refunds[p] \in Nat /\ \A f : Told(p, f) \in {0, 1}
    BY Counts
  <1>6. /\ Busy("payment", p, Charging)' = IF p = o /\ e = "ORDER_CREATED" THEN 1 ELSE 0
        /\ Busy("payment", p, {"charge", "PAYMENT_FAILED"})'
              = IF p = o /\ e = "ORDER_CREATED" THEN 1 ELSE 0
        /\ Busy("payment", p, {"refund", "REFUND_FAILED"})' = IF p = o /\ e = "REFUND_REQUESTED" THEN 1 ELSE 0
    BY <1>3 DEF Charging
  <1>7. \A r \in {"order", "inventory"} : \A S : Busy(r, p, S)' = Busy(r, p, S)
    BY <1>3
  <1> QED
    BY <1>2, <1>4, <1>5, <1>6, <1>7 DEF Once

LEMMA TakePaymentResultOnce ==
    ASSUME IInv, NEW o \in Orders, TakePaymentResult(o), NEW p \in Orders, Once(p)
    PROVE  Once(p)'
  <1> USE Places
  <1>1. PICK e \in {"PAYMENT_COMPLETED", "PAYMENT_FAILED"} :
           /\ Takes("inventory", "payment.result", o, e)
           /\ job' = IF e = "PAYMENT_COMPLETED"
                       THEN [job EXCEPT !["inventory"] = Job(o, "reserve")] ELSE job
           /\ UNCHANGED <<handler, log, ledger>>
    BY DEF TakePaymentResult
  <1>2. /\ \A r \in Services, u \in Topics :
              Read(r, u, p)' = IF r = "inventory" /\ u = "payment.result" /\ p = o
                                 THEN Read(r, u, p) + 1 ELSE Read(r, u, p)
        /\ \A u : Sent(u, p)' = Sent(u, p)
        /\ \A S : Busy("inventory", p, S) = 0
        /\ \A f : Told(p, f)' = Told(p, f)
        /\ charges'[p] = charges[p] /\ refunds'[p] = refunds[p] /\ reserved'[p] = reserved[p]
        /\ handler'[p] = handler[p]
    BY <1>1, TakenCounts
  <1>3. /\ \A r \in {"order", "payment"} : \A S : Busy(r, p, S)' = Busy(r, p, S)
        /\ \A S : /\ Busy("inventory", p, S)' \in {0, 1}
                  /\ p # o => Busy("inventory", p, S)' = 0
    <2>1. CASE UNCHANGED job
      <3>1. \A r, S : Busy(r, p, S)' = Busy(r, p, S)
        BY <2>1 DEF Busy
      <3> QED
        BY <1>2, <3>1
    <2>2. CASE job' = [job EXCEPT !["inventory"] = Job(o, "reserve")]
      <3>1. Given("inventory", o, "reserve")
        BY <2>2 DEF Given, IInv, TypeOK, ServicesOK
      <3>2. ASSUME NEW r \in Services, NEW S
            PROVE  Busy(r, p, S)' = IF r = "inventory"
                                      THEN (IF p = o /\ "reserve" \in S THEN 1 ELSE 0)
                                      ELSE Busy(r, p, S)
        BY <3>1, BusyWith
      <3> QED
        BY <3>2
    <2> QED
      BY <1>1, <2>1, <2>2
  <1>4. /\ \A r \in Services, u \in Topics : Read(r, u, p) \in Nat
        /\ \A u \in Topics : Sent(u, p) \in Nat
        /\ reserved[p] \in Nat /\ \A f : Told(p, f) \in {0, 1}
    BY Counts
  <1> QED
    BY <1>2, <1>3, <1>4 DEF Once

\* A handler after its sleep: nothing is sent or read, its service goes on.
LEMMA WorkCounts ==
    ASSUME IInv, NEW s \in Services, NEW o \in Orders, NEW st,
           handler' = handler, position' = position, log' = log,
           Given(s, o, st), NEW p \in Orders
    PROVE  /\ \A r, u : Read(r, u, p)' = Read(r, u, p)
           /\ \A u : Sent(u, p)' = Sent(u, p)
           /\ \A r \in Services : \A S :
                 Busy(r, p, S)' = IF r = s THEN (IF p = o /\ st \in S THEN 1 ELSE 0)
                                  ELSE Busy(r, p, S)
           /\ \A f : Told(p, f)' = Told(p, f)
           /\ handler'[p] = handler[p]
  <1>1. ASSUME NEW r \in Services, NEW S
        PROVE  Busy(r, p, S)' = IF r = s THEN (IF p = o /\ st \in S THEN 1 ELSE 0)
                                ELSE Busy(r, p, S)
    BY BusyWith
  <1>2. \A f : Told(p, f)' = Told(p, f)
    BY DEF Told, Published
  <1> QED
    BY <1>1, <1>2 DEF Read, Sent

\* What a service is busy with is its own order's next step.
LEMMA BusyNow ==
    ASSUME NEW s \in Services, NEW o \in Orders, NEW st, job[s] = Job(o, st),
           NEW p \in Orders, NEW S
    PROVE  Busy(s, p, S) = IF p = o /\ st \in S THEN 1 ELSE 0
  BY DEF Busy, Job

LEMMA ChargeOnce ==
    ASSUME IInv, NEW o \in Orders, Charge(o), NEW p \in Orders, Once(p)
    PROVE  Once(p)'
  <1> USE Places
  <1>1. PICK st \in {"PAYMENT_COMPLETED", "PAYMENT_FAILED"} :
           /\ job["payment"] = Job(o, "charge")
           /\ Given("payment", o, st)
           /\ charges' = IF st = "PAYMENT_COMPLETED" THEN [charges EXCEPT ![o] = @ + 1] ELSE charges
           /\ UNCHANGED <<handler, position, log, refunds, reserved>>
    BY DEF Charge, offsets, Given, IInv, TypeOK, ServicesOK
  <1>2. /\ \A r, u : Read(r, u, p)' = Read(r, u, p)
        /\ \A u : Sent(u, p)' = Sent(u, p)
        /\ \A r \in Services : \A S :
              Busy(r, p, S)' = IF r = "payment" THEN (IF p = o /\ st \in S THEN 1 ELSE 0)
                               ELSE Busy(r, p, S)
        /\ \A f : Told(p, f)' = Told(p, f)
        /\ handler'[p] = handler[p]
    BY <1>1, WorkCounts
  <1>3. \A S : Busy("payment", p, S) = IF p = o /\ "charge" \in S THEN 1 ELSE 0
    BY <1>1, BusyNow
  <1>4. /\ charges[p] \in Nat
        /\ charges'[p] = IF p = o /\ st = "PAYMENT_COMPLETED" THEN charges[p] + 1 ELSE charges[p]
        /\ refunds'[p] = refunds[p] /\ reserved'[p] = reserved[p]
    BY <1>1 DEF IInv, TypeOK, LedgerOK
  <1>5. /\ Busy("payment", p, Charging)' = Busy("payment", p, Charging)
        /\ Busy("payment", p, {"charge", "PAYMENT_FAILED"})'
              = IF p = o /\ st = "PAYMENT_FAILED" THEN 1 ELSE 0
        /\ Busy("payment", p, {"charge", "PAYMENT_FAILED"}) = IF p = o THEN 1 ELSE 0
        /\ Busy("payment", p, {"refund", "REFUND_FAILED"})' = 0
        /\ Busy("payment", p, {"refund", "REFUND_FAILED"}) = 0
    BY <1>2, <1>3 DEF Charging
  <1>6. \A r \in {"order", "inventory"} : \A S : Busy(r, p, S)' = Busy(r, p, S)
    BY <1>2
  <1>7. Read("payment", "order.created", p) \in Nat /\ \A f : Told(p, f) \in {0, 1}
    BY Counts
  <1> QED
    BY <1>2, <1>4, <1>5, <1>6, <1>7 DEF Once

LEMMA RefundOnce ==
    ASSUME IInv, NEW o \in Orders, Refund(o), NEW p \in Orders, Once(p)
    PROVE  Once(p)'
  <1> USE Places
  <1>1. PICK st \in {"REFUND_COMPLETED", "REFUND_FAILED"} :
           /\ job["payment"] = Job(o, "refund")
           /\ Given("payment", o, st)
           /\ refunds' = IF st = "REFUND_COMPLETED" THEN [refunds EXCEPT ![o] = @ + 1] ELSE refunds
           /\ UNCHANGED <<handler, position, log, charges, reserved>>
    BY DEF Refund, offsets, Given, IInv, TypeOK, ServicesOK
  <1>2. /\ \A r, u : Read(r, u, p)' = Read(r, u, p)
        /\ \A u : Sent(u, p)' = Sent(u, p)
        /\ \A r \in Services : \A S :
              Busy(r, p, S)' = IF r = "payment" THEN (IF p = o /\ st \in S THEN 1 ELSE 0)
                               ELSE Busy(r, p, S)
        /\ \A f : Told(p, f)' = Told(p, f)
        /\ handler'[p] = handler[p]
    BY <1>1, WorkCounts
  <1>3. \A S : Busy("payment", p, S) = IF p = o /\ "refund" \in S THEN 1 ELSE 0
    BY <1>1, BusyNow
  <1>4. /\ refunds[p] \in Nat
        /\ refunds'[p] = IF p = o /\ st = "REFUND_COMPLETED" THEN refunds[p] + 1 ELSE refunds[p]
        /\ charges'[p] = charges[p] /\ reserved'[p] = reserved[p]
    BY <1>1 DEF IInv, TypeOK, LedgerOK
  <1>5. /\ Busy("payment", p, Charging)' = 0 /\ Busy("payment", p, Charging) = 0
        /\ Busy("payment", p, {"charge", "PAYMENT_FAILED"})' = 0
        /\ Busy("payment", p, {"charge", "PAYMENT_FAILED"}) = 0
        /\ Busy("payment", p, {"refund", "REFUND_FAILED"})'
              = IF p = o /\ st = "REFUND_FAILED" THEN 1 ELSE 0
        /\ Busy("payment", p, {"refund", "REFUND_FAILED"}) = IF p = o THEN 1 ELSE 0
    BY <1>2, <1>3 DEF Charging
  <1>6. \A r \in {"order", "inventory"} : \A S : Busy(r, p, S)' = Busy(r, p, S)
    BY <1>2
  <1>7. Read("payment", "payment.refund-request", p) \in Nat /\ \A f : Told(p, f) \in {0, 1}
    BY Counts
  <1> QED
    BY <1>2, <1>4, <1>5, <1>6, <1>7 DEF Once

LEMMA ReserveOnce ==
    ASSUME IInv, NEW o \in Orders, Reserve(o), NEW p \in Orders, Once(p)
    PROVE  Once(p)'
  <1> USE Places
  <1>1. PICK st \in {"INVENTORY_RESERVED", "INVENTORY_FAILED"} :
           /\ job["inventory"] = Job(o, "reserve")
           /\ Given("inventory", o, st)
           /\ reserved' = IF st = "INVENTORY_RESERVED" THEN [reserved EXCEPT ![o] = @ + 1]
                          ELSE reserved
           /\ UNCHANGED <<handler, position, log, charges, refunds>>
    BY DEF Reserve, offsets, Given, IInv, TypeOK, ServicesOK
  <1>2. /\ \A r, u : Read(r, u, p)' = Read(r, u, p)
        /\ \A u : Sent(u, p)' = Sent(u, p)
        /\ \A r \in Services : \A S :
              Busy(r, p, S)' = IF r = "inventory" THEN (IF p = o /\ st \in S THEN 1 ELSE 0)
                               ELSE Busy(r, p, S)
        /\ \A f : Told(p, f)' = Told(p, f)
        /\ handler'[p] = handler[p]
    BY <1>1, WorkCounts
  <1>3. \A S : Busy("inventory", p, S) = IF p = o /\ "reserve" \in S THEN 1 ELSE 0
    BY <1>1, BusyNow
  <1>4. /\ reserved[p] \in Nat
        /\ reserved'[p] = IF p = o /\ st = "INVENTORY_RESERVED" THEN reserved[p] + 1
                          ELSE reserved[p]
        /\ charges'[p] = charges[p] /\ refunds'[p] = refunds[p]
    BY <1>1 DEF IInv, TypeOK, LedgerOK
  <1>5. /\ Busy("inventory", p, Reserving)' = Busy("inventory", p, Reserving)
        /\ Busy("inventory", p, {"reserve", "INVENTORY_FAILED"})'
              = IF p = o /\ st = "INVENTORY_FAILED" THEN 1 ELSE 0
        /\ Busy("inventory", p, {"reserve", "INVENTORY_FAILED"}) = IF p = o THEN 1 ELSE 0
    BY <1>2, <1>3 DEF Reserving
  <1>6. \A r \in {"order", "payment"} : \A S : Busy(r, p, S)' = Busy(r, p, S)
    BY <1>2
  <1>7. charges[o] > 0
    BY <1>1, JobFields DEF IInv, Causality, JobsAreGrounded, Ground
  <1>8. (\A f : Told(p, f) \in {0, 1}) /\ Read("inventory", "payment.result", p) \in Nat
    BY Counts
  <1> QED
    BY <1>2, <1>4, <1>5, <1>6, <1>7, <1>8 DEF Once

LEMMA CountsStep ==
    ASSUME IInv, StepsBelong, [Next]_vars, faults = 0, faults' = 0, NEW p \in Orders, Once(p)
    PROVE  Once(p)'
  <1>1. ~Fault
    BY DEF Fault
  <1>2. ASSUME NEW o \in Orders, CreateOrder(o) \/ RequestStep(o) \/ CreateFails(o)
        PROVE  Once(p)'
    <2>1. CASE StoreCreated(o)
      BY <2>1, StoreCreatedOnce
    <2>2. CASE CreateOrder(o) \/ ReturnCreated(o)
      <3>1. UNCHANGED <<log, position, job, ledger>>
        BY <2>2 DEF CreateOrder, ReturnCreated, offsets
      <3>2. \/ handler'[p] = handler[p]
            \/ handler[p] = "none" /\ handler'[p] = "sending"
            \/ handler[p] = "stored" /\ handler'[p] = "done"
        BY <2>2 DEF CreateOrder, ReturnCreated, IInv, TypeOK, OrdersOK
      <3> QED
        BY <3>1, <3>2, QuietCounts
    <2> QED
      BY <1>1, <1>2, <2>1, <2>2 DEF RequestStep, CreateFails
  <1>3. ASSUME OrderStep \/ PaymentStep \/ InventoryStep
        PROVE  Once(p)'
    BY <1>3, PublishOnce, ProcessMessageOnce, TakePaymentOnce, ChargeOnce, RefundOnce,
       TakePaymentResultOnce, ReserveOnce, Places DEF OrderStep, PaymentStep, InventoryStep
  <1>4. ASSUME NEW s \in Services, AutoCommit(s) \/ Start(s)
        PROVE  Once(p)'
    <2>1. UNCHANGED <<log, position, job, ledger>> /\ handler' = handler
      BY <1>4 DEF AutoCommit, Start, offsets
    <2> QED
      BY <2>1, QuietCounts
  <1>5. ASSUME NEW s \in Services,
               \/ Rejoin(s) \/ PublishFails(s) \/ ConsumerEnds(s)
               \/ Crash(s) \/ Shutdown(s) \/ StartDeaf(s)
        PROVE  FALSE
    BY <1>1, <1>5 DEF Rejoin, PublishFails, ConsumerEnds, Crash, Shutdown, StartDeaf
  <1>6. CASE UNCHANGED vars
    <2>1. UNCHANGED <<log, position, job, ledger>> /\ handler' = handler
      BY <1>6 DEF vars, offsets
    <2> QED
      BY <2>1, QuietCounts
  <1> QED
    BY <1>2, <1>3, <1>4, <1>5, <1>6 DEF Next

LEMMA NextConserved ==
    ASSUME IInv, Conserved, [Next]_vars
    PROVE  Conserved'
  <1>1. StepsBelong'
    BY StepsStayBelonging DEF Conserved
  <1>2. ASSUME faults' = 0, NEW p \in Orders
        PROVE  Once(p)'
    <2>1. faults \in Nat
      BY SagaAssumption DEF IInv, TypeOK
    <2>2. faults' \in {faults, faults + 1}
      BY DEF Next, vars, CreateOrder, RequestStep, StoreCreated, ReturnCreated, CreateFails,
             OrderStep, PaymentStep, InventoryStep, Publish, ProcessMessage, TakePayment, Charge,
             Refund, TakePaymentResult, Reserve, AutoCommit, Rejoin, PublishFails, ConsumerEnds,
             Crash, Shutdown, Start, StartDeaf, Fault
    <2>3. faults = 0
      BY <1>2, <2>1, <2>2
    <2>4. Once(p)
      BY <2>3 DEF Conserved
    <2> QED
      BY <1>2, <2>3, <2>4, CountsStep DEF Conserved
  <1> QED
    BY <1>1, <1>2 DEF Conserved

-----------------------------------------------------------------------------
(* Charges, and the faults that repeat them                                *)

\* A charge, made or at hand, answers an announcement that was read, or read
\* again after a fault.
Charged(o) ==
    /\ Sent("order.created", o) <= IF handler[o] \in {"none", "sending"} THEN 0 ELSE 1
    /\ charges[o] + Busy("payment", o, {"charge"}) <= Read("payment", "order.created", o) + faults

ChargesMatch == \A o \in Orders : Charged(o)

\* A request that has sent does not send again.
RequestsMove(p) ==
    handler[p] \in {"stored", "done"} => handler'[p] \in {"stored", "done"}

\* The payment service makes or takes up no charge that it has not just read.
NoNewCharge(p) ==
    charges'[p] + Busy("payment", p, {"charge"})' + Read("payment", "order.created", p)
       <= charges[p] + Busy("payment", p, {"charge"}) + Read("payment", "order.created", p)'

LEMMA LaterCounts ==
    ASSUME IInv', NEW p \in Orders
    PROVE  /\ Sent("order.created", p)' \in Nat /\ Read("payment", "order.created", p)' \in Nat
           /\ charges'[p] \in Nat /\ faults' \in Nat
           /\ Busy("payment", p, {"charge"})' \in {0, 1}
  BY Places, SagaAssumption DEF IInv, TypeOK, LogOK, OffsetsOK, LedgerOK, Sent, Read, Busy

LEMMA FewCharges ==
    ASSUME IInv, NEW p \in Orders
    PROVE  /\ Sent("order.created", p) \in Nat /\ Read("payment", "order.created", p) \in Nat
           /\ Read("payment", "order.created", p) <= Sent("order.created", p)
           /\ charges[p] \in Nat /\ faults \in Nat
           /\ Busy("payment", p, {"charge"}) \in {0, 1}
  BY Counts, Places, SagaAssumption DEF IInv, TypeOK

\* Such steps keep the counts, with a fault or without.
LEMMA ChargesKept ==
    ASSUME IInv, IInv', NEW p \in Orders, Charged(p), RequestsMove(p), NoNewCharge(p),
           Sent("order.created", p)' = Sent("order.created", p), faults' >= faults
    PROVE  Charged(p)'
  <1>1. Sent("order.created", p)' <= IF handler'[p] \in {"none", "sending"} THEN 0 ELSE 1
    BY FewCharges, LaterCounts DEF Charged, RequestsMove, IInv, TypeOK, OrdersOK
  <1>2. charges'[p] + Busy("payment", p, {"charge"})'
           <= Read("payment", "order.created", p)' + faults'
    BY FewCharges, LaterCounts DEF Charged, NoNewCharge
  <1> QED
    BY <1>1, <1>2 DEF Charged

\* The order service announces orders, the others do not.
LEMMA PublishAnnouncesNothing ==
    ASSUME IInv, StepsBelong, NEW s \in Services, Publish(s) \/ PublishFails(s), NEW p \in Orders
    PROVE  Sent("order.created", p)' = Sent("order.created", p)
  <1> DEFINE o == job[s].order
             e == job[s].step
  <1>1. /\ e \in Events /\ o \in Orders /\ LogOK
        /\ log' = log \/ log' = Logged(o, e)
    <2>1. "idle" \notin Events
      BY EventNames
    <2> QED
      BY <2>1 DEF Publish, PublishFails, IInv, TypeOK, ServicesOK, NoJob
  <1>2. e # "ORDER_CREATED"
    BY EventNames DEF StepsBelong, Charging, Reserving, Services
  <1>3. TopicOf[e] # "order.created"
    BY <1>1, <1>2, EventNames DEF TopicOf
  <1> QED
    BY <1>1, <1>3, SentMore, Places DEF Sent

\* Publishing, by success or not, takes a job away and charges nothing.
LEMMA PublishChargesNothing ==
    ASSUME IInv, StepsBelong, NEW s \in Services, Publish(s) \/ PublishFails(s), NEW p \in Orders
    PROVE  /\ RequestsMove(p) /\ NoNewCharge(p)
           /\ Sent("order.created", p)' = Sent("order.created", p)
  <1>1. /\ UNCHANGED <<position, handler, ledger>> /\ ServicesOK
        /\ job' = [job EXCEPT ![s] = NoJob]
    <2>1. CASE Publish(s)
      BY <2>1 DEF Publish, offsets, IInv, TypeOK
    <2>2. CASE PublishFails(s)
      BY <2>2 DEF PublishFails, IInv, TypeOK
    <2> QED
      BY <2>1, <2>2
  <1>2. Busy("payment", p, {"charge"})' <= Busy("payment", p, {"charge"})
    <2>1. Busy("payment", p, {"charge"})'
             = IF "payment" = s THEN 0 ELSE Busy("payment", p, {"charge"})
      BY <1>1, BusyNoMore, Places
    <2> QED
      BY <2>1, FewCharges
  <1>3. Busy("payment", p, {"charge"})' \in {0, 1}
    BY DEF Busy
  <1>4. NoNewCharge(p)
    BY <1>1, <1>2, <1>3, FewCharges DEF NoNewCharge, Read, ledger
  <1> QED
    BY <1>1, <1>4, PublishAnnouncesNothing DEF RequestsMove

\* The handlers of the order and the inventory service leave the payment
\* service alone.
LEMMA OthersChargeNothing ==
    ASSUME IInv, NEW o \in Orders, ProcessMessage(o) \/ TakePaymentResult(o) \/ Reserve(o),
           NEW p \in Orders
    PROVE  /\ RequestsMove(p) /\ NoNewCharge(p)
           /\ Sent("order.created", p)' = Sent("order.created", p)
  <1>1. UNCHANGED <<handler, log, charges>> /\ job'["payment"] = job["payment"]
    <2>1. CASE ProcessMessage(o)
      BY <2>1, Places DEF ProcessMessage, ledger, IInv, TypeOK, ServicesOK
    <2>2. CASE TakePaymentResult(o)
      BY <2>2, Places DEF TakePaymentResult, ledger, IInv, TypeOK, ServicesOK
    <2>3. CASE Reserve(o)
      BY <2>3, Places DEF Reserve, IInv, TypeOK, ServicesOK
    <2> QED
      BY <2>1, <2>2, <2>3
  <1>2. Read("payment", "order.created", p)' = Read("payment", "order.created", p)
    <2>1. CASE Reserve(o)
      BY <2>1 DEF Reserve, offsets, Read
    <2>2. ASSUME NEW s \in {"order", "inventory"}, NEW t \in Topics, NEW e, Takes(s, t, o, e)
          PROVE  Read("payment", "order.created", p)' = Read("payment", "order.created", p)
      BY <2>2, ReadMore, Places DEF IInv, TypeOK
    <2> QED
      BY <2>1, <2>2, Places DEF ProcessMessage, TakePaymentResult
  <1>3. Busy("payment", p, {"charge"})' = Busy("payment", p, {"charge"})
    BY <1>1 DEF Busy
  <1> QED
    BY <1>1, <1>2, <1>3, FewCharges DEF RequestsMove, NoNewCharge, Sent

\* The payment service takes an announcement up, charges for it, or refunds.
LEMMA PaymentCharges ==
    ASSUME IInv, NEW o \in Orders, TakePayment(o) \/ Charge(o) \/ Refund(o), NEW p \in Orders
    PROVE  /\ RequestsMove(p) /\ NoNewCharge(p)
           /\ Sent("order.created", p)' = Sent("order.created", p)
  <1> DEFINE B == Busy("payment", p, {"charge"})
  <1> USE Places
  <1>1. UNCHANGED <<handler, log>>
    BY DEF TakePayment, Charge, Refund
  <1>2. CASE TakePayment(o)
    <2>1. PICK t \in Topics, e \in {"ORDER_CREATED", "REFUND_REQUESTED"} :
             /\ Takes("payment", t, o, e)
             /\ Given("payment", o, IF e = "ORDER_CREATED" THEN "charge" ELSE "refund")
             /\ UNCHANGED <<handler, log, ledger>>
      BY <1>2 DEF TakePayment, Given, IInv, TypeOK, ServicesOK
    <2>2. /\ Read("payment", "order.created", p)'
                = IF t = "order.created" /\ p = o THEN Read("payment", "order.created", p) + 1
                  ELSE Read("payment", "order.created", p)
          /\ B = 0 /\ charges'[p] = charges[p] /\ TopicOf[e] = t
      BY <2>1, TakenCounts
    <2>3. B' = IF p = o /\ e = "ORDER_CREATED" THEN 1 ELSE 0
      BY <2>1, BusyWith
    <2>4. e = "ORDER_CREATED" => t = "order.created"
      BY <2>2 DEF TopicOf
    <2> QED
      BY <1>1, <2>2, <2>3, <2>4, FewCharges DEF RequestsMove, NoNewCharge, Sent
  <1>3. CASE Charge(o)
    <2>1. PICK st \in {"PAYMENT_COMPLETED", "PAYMENT_FAILED"} :
             /\ job["payment"] = Job(o, "charge") /\ Given("payment", o, st)
             /\ charges' = [charges EXCEPT ![o] = @ + 1] \/ charges' = charges
             /\ position' = position
      BY <1>3 DEF Charge, offsets, Given, IInv, TypeOK, ServicesOK
    <2>2. B = IF p = o THEN 1 ELSE 0
      BY <2>1, BusyNow
    <2>3. B' = 0
      BY <2>1, BusyWith
    <2>4. charges'[p] \in Nat /\ charges'[p] <= IF p = o THEN charges[p] + 1 ELSE charges[p]
      BY <2>1 DEF IInv, TypeOK, LedgerOK
    <2>5. Read("payment", "order.created", p)' = Read("payment", "order.created", p)
      BY <2>1 DEF Read
    <2> QED
      BY <1>1, <2>2, <2>3, <2>4, <2>5, FewCharges DEF RequestsMove, NoNewCharge, Sent
  <1>4. CASE Refund(o)
    <2>1. PICK st \in {"REFUND_COMPLETED", "REFUND_FAILED"} :
             Given("payment", o, st) /\ UNCHANGED <<position, charges>>
      BY <1>4 DEF Refund, offsets, Given, IInv, TypeOK, ServicesOK
    <2>2. B' = 0
      BY <2>1, BusyWith
    <2>3. Read("payment", "order.created", p)' = Read("payment", "order.created", p)
      BY <2>1 DEF Read
    <2>4. NoNewCharge(p)
      BY <2>1, <2>2, <2>3, FewCharges DEF NoNewCharge
    <2> QED
      BY <1>1, <2>4 DEF RequestsMove, Sent
  <1> QED
    BY <1>2, <1>3, <1>4

\* The end of a process makes no charge and announces nothing.
LEMMA EndsChargesNothing ==
    ASSUME IInv, NEW s \in Services, Ends(s), NEW p \in Orders
    PROVE  /\ RequestsMove(p)
           /\ Sent("order.created", p)' = Sent("order.created", p)
           /\ charges'[p] = charges[p]
           /\ Busy("payment", p, {"charge"})' <= Busy("payment", p, {"charge"})
           /\ Busy("payment", p, {"charge"})' \in {0, 1}
  <1>1. UNCHANGED <<log, ledger>> /\ job' = [job EXCEPT ![s] = NoJob] /\ ServicesOK
    BY DEF Ends, IInv, TypeOK
  <1>2. RequestsMove(p)
    BY DEF Ends, RequestsMove, IInv, TypeOK, OrdersOK
  <1>3. Busy("payment", p, {"charge"})' \in {0, Busy("payment", p, {"charge"})}
    BY <1>1, BusyNoMore, Places
  <1> QED
    BY <1>1, <1>2, <1>3, FewCharges DEF Sent, ledger

\* A crash lets the payment service read its only record of the order again,
\* and is a fault.
LEMMA CrashCharges ==
    ASSUME IInv, IInv', NEW s \in Services, Crash(s), NEW p \in Orders, Charged(p)
    PROVE  Charged(p)'
  <1> DEFINE R == Read("payment", "order.created", p)
  <1>1. Ends(s) /\ faults' = faults + 1
    BY DEF Crash, Fault
  <1>2. R <= 1
    BY FewCharges DEF Charged
  <1>3. Sent("order.created", p)' <= IF handler'[p] \in {"none", "sending"} THEN 0 ELSE 1
    BY <1>1, EndsChargesNothing, FewCharges DEF Charged, RequestsMove, IInv, TypeOK, OrdersOK
  <1>4. charges'[p] + Busy("payment", p, {"charge"})' <= R' + faults'
    BY <1>1, <1>2, EndsChargesNothing, FewCharges, LaterCounts DEF Charged
  <1> QED
    BY <1>3, <1>4 DEF Charged

\* So does a rejoin, which leaves the charge at work to be made.
LEMMA RejoinCharges ==
    ASSUME IInv, IInv', NEW s \in Services, Rejoin(s), NEW p \in Orders, Charged(p)
    PROVE  Charged(p)'
  <1> DEFINE R == Read("payment", "order.created", p)
  <1>1. UNCHANGED <<handler, job, log, charges>> /\ faults' = faults + 1
    BY DEF Rejoin, Fault, ledger
  <1>2. R <= 1
    BY FewCharges DEF Charged
  <1>3. /\ Sent("order.created", p)' = Sent("order.created", p)
        /\ Busy("payment", p, {"charge"})' = Busy("payment", p, {"charge"})
    BY <1>1 DEF Sent, Busy
  <1>4. charges'[p] + Busy("payment", p, {"charge"})' <= R' + faults'
    BY <1>1, <1>2, <1>3, FewCharges, LaterCounts DEF Charged
  <1> QED
    BY <1>1, <1>3, <1>4 DEF Charged

\* Requests send their announcement once.
LEMMA RequestCharges ==
    ASSUME IInv, IInv', NEW o \in Orders, CreateOrder(o) \/ RequestStep(o) \/ CreateFails(o),
           NEW p \in Orders, Charged(p)
    PROVE  Charged(p)'
  <1>1. /\ UNCHANGED <<position, job, charges>> /\ faults' >= faults
    BY FewCharges DEF CreateOrder, RequestStep, StoreCreated, ReturnCreated, CreateFails, offsets,
       ledger, Fault
  <1>2. charges'[p] + Busy("payment", p, {"charge"})'
           <= Read("payment", "order.created", p)' + faults'
    BY <1>1, FewCharges, LaterCounts DEF Charged, Busy, Read
  <1>3. CASE StoreCreated(o)
    <2>1. log' = Logged(o, "ORDER_CREATED") /\ "ORDER_CREATED" \in Events /\ LogOK
          /\ TopicOf["ORDER_CREATED"] = "order.created"
      BY <1>3, EventNames DEF StoreCreated, IInv, TypeOK, TopicOf
    <2>2. Sent("order.created", p)' = IF p = o THEN Sent("order.created", p) + 1
                                      ELSE Sent("order.created", p)
      BY <2>1, SentMore, Places
    <2>3. handler[o] = "sending" /\ handler'[p] = IF p = o THEN "stored" ELSE handler[p]
      BY <1>3 DEF StoreCreated, IInv, TypeOK, OrdersOK
    <2>4. Sent("order.created", p)' <= IF handler'[p] \in {"none", "sending"} THEN 0 ELSE 1
      BY <2>2, <2>3, FewCharges DEF Charged
    <2> QED
      BY <1>2, <2>4 DEF Charged
  <1>4. CASE CreateOrder(o) \/ ReturnCreated(o) \/ CreateFails(o)
    <2>1. UNCHANGED log /\ RequestsMove(p)
      BY <1>4 DEF CreateOrder, ReturnCreated, CreateFails, RequestsMove, IInv, TypeOK, OrdersOK
    <2>2. NoNewCharge(p)
      BY <1>1, FewCharges DEF NoNewCharge, Busy, Read
    <2> QED
      BY <1>1, <2>1, <2>2, ChargesKept DEF Sent
  <1> QED
    BY <1>3, <1>4 DEF RequestStep

\* Every step keeps the counts of the charges.
LEMMA NextCharges ==
    ASSUME IInv, StepsBelong, ChargesMatch, [Next]_vars
    PROVE  ChargesMatch'
  <1>1. IInv'
    BY NextIInv
  <1> SUFFICES ASSUME NEW p \in Orders
               PROVE  Charged(p)'
    BY DEF ChargesMatch
  <1>2. Charged(p) /\ faults \in Nat /\ faults' \in Nat
    BY <1>1, FewCharges, LaterCounts DEF ChargesMatch
  <1>3. ASSUME NEW o \in Orders, CreateOrder(o) \/ RequestStep(o) \/ CreateFails(o)
        PROVE  Charged(p)'
    BY <1>1, <1>2, <1>3, RequestCharges
  <1>4. ASSUME OrderStep \/ PaymentStep \/ InventoryStep
        PROVE  Charged(p)'
    <2>1. faults' = faults
      BY <1>4 DEF OrderStep, PaymentStep, InventoryStep, Publish, ProcessMessage, TakePayment,
                  Charge, Refund, TakePaymentResult, Reserve
    <2>2. /\ RequestsMove(p) /\ NoNewCharge(p)
          /\ Sent("order.created", p)' = Sent("order.created", p)
      BY <1>4, PublishChargesNothing, OthersChargeNothing, PaymentCharges, Places
         DEF OrderStep, PaymentStep, InventoryStep
    <2> QED
      BY <1>1, <1>2, <2>1, <2>2, ChargesKept
  <1>5. ASSUME NEW s \in Services, PublishFails(s)
        PROVE  Charged(p)'
    <2>1. faults' >= faults
      BY <1>2, <1>5 DEF PublishFails, Fault
    <2> QED
      BY <1>1, <1>2, <1>5, <2>1, PublishChargesNothing, ChargesKept
  <1>6. ASSUME NEW s \in Services, AutoCommit(s) \/ ConsumerEnds(s) \/ Start(s) \/ StartDeaf(s)
        PROVE  Charged(p)'
    <2>1. UNCHANGED <<log, position, job, charges, handler>> /\ faults' >= faults
      BY <1>2, <1>6 DEF AutoCommit, ConsumerEnds, Start, StartDeaf, offsets, ledger, Fault
    <2>2. NoNewCharge(p) /\ RequestsMove(p) /\ Sent("order.created", p)' = Sent("order.created", p)
      BY <2>1, FewCharges DEF NoNewCharge, RequestsMove, Busy, Read, Sent
    <2> QED
      BY <1>1, <1>2, <2>1, <2>2, ChargesKept
  <1>7. ASSUME NEW s \in Services, Shutdown(s)
        PROVE  Charged(p)'
    <2>1. Ends(s) /\ position' = position /\ faults' >= faults
      BY <1>2, <1>7 DEF Shutdown, Fault
    <2>2. /\ RequestsMove(p) /\ NoNewCharge(p)
          /\ Sent("order.created", p)' = Sent("order.created", p)
      BY <2>1, EndsChargesNothing, FewCharges DEF NoNewCharge, Read
    <2> QED
      BY <1>1, <1>2, <2>1, <2>2, ChargesKept
  <1>8. ASSUME NEW s \in Services, Crash(s) \/ Rejoin(s)
        PROVE  Charged(p)'
    BY <1>1, <1>2, <1>8, CrashCharges, RejoinCharges
  <1>9. CASE UNCHANGED vars
    <2>1. UNCHANGED <<log, position, job, charges, handler>> /\ faults' = faults
      BY <1>9 DEF vars, offsets, ledger
    <2>2. NoNewCharge(p) /\ RequestsMove(p) /\ Sent("order.created", p)' = Sent("order.created", p)
      BY <2>1, FewCharges DEF NoNewCharge, RequestsMove, Busy, Read, Sent
    <2> QED
      BY <1>1, <1>2, <2>1, <2>2, ChargesKept
  <1> QED
    BY <1>3, <1>4, <1>5, <1>6, <1>7, <1>8, <1>9 DEF Next

LEMMA InitCharges == Init => ChargesMatch
  <1> SUFFICES ASSUME Init, NEW o \in Orders PROVE Charged(o)
    BY DEF ChargesMatch
  <1>1. /\ Sent("order.created", o) = 0 /\ Read("payment", "order.created", o) = 0
        /\ Busy("payment", o, {"charge"}) = 0 /\ charges[o] = 0 /\ faults = 0
    BY SagaAssumption, Places DEF Init, Sent, Read, Busy, Nothing, NoJob
  <1> QED
    BY <1>1 DEF Charged

\* The counts conserve the money: one charge for the announcement and one for
\* every fault; without faults, the charge for the goods or for the refund.
LEMMA CountsConserve ==
    ASSUME IInv, Conserved, ChargesMatch
    PROVE  MoneyIsConserved
  <1> SUFFICES ASSUME NEW o \in Orders
               PROVE  /\ charges[o] <= 1 + faults
                      /\ faults = 0 => reserved[o] + refunds[o] <= charges[o]
    BY DEF MoneyIsConserved
  <1>1. charges[o] <= 1 + faults
    BY FewCharges DEF ChargesMatch, Charged
  <1> QED
    BY <1>1, GoodsOrRefund

\* An order is charged once and for every fault once more at most; without
\* faults its charge is kept for reserved goods or returned, never both: for
\* any orders, whatever the order in which their events are read.
THEOREM MoneyConserved == Spec => []MoneyIsConserved
  <1>1. Init => Conserved /\ ChargesMatch
    BY InitConserved, InitCharges
  <1>2. IInv /\ Conserved /\ ChargesMatch /\ [Next]_vars => Conserved' /\ ChargesMatch'
    BY NextConserved, NextCharges DEF Conserved
  <1>3. IInv /\ Conserved /\ ChargesMatch => MoneyIsConserved
    BY CountsConserve
  <1> QED
    BY <1>1, <1>2, <1>3, Invariance, PTL DEF Spec

-----------------------------------------------------------------------------
(* The settlement of orders, while nothing fails                           *)

\* A service failed an order with event f, which it has published or is about to.
Ended(o, f) == (\E s \in Services : job[s] = Job(o, f)) \/ Published(o, f)
Failures == {"PAYMENT_FAILED", "REFUND_FAILED"}

placed == {o \in Orders : log["order.created"][o] # <<>>}
paid == {o \in Orders : charges[o] > 0}
refused == {o \in Orders : \E s \in Services : job[s] = Job(o, "PAYMENT_FAILED")}
              \cup {o \in Orders : Published(o, "PAYMENT_FAILED")}
delivered == {o \in Orders : reserved[o] > 0}
returned == {o \in Orders : refunds[o] > 0}
kept == {o \in Orders : \E s \in Services : job[s] = Job(o, "REFUND_FAILED")}
           \cup {o \in Orders : Published(o, "REFUND_FAILED")}
settled == <<placed, paid, refused, delivered, returned, kept>>

LEMMA EndedSets ==
    /\ refused = {o \in Orders : Ended(o, "PAYMENT_FAILED")}
    /\ refused' = {o \in Orders : Ended(o, "PAYMENT_FAILED")'}
    /\ kept = {o \in Orders : Ended(o, "REFUND_FAILED")}
    /\ kept' = {o \in Orders : Ended(o, "REFUND_FAILED")'}
  BY DEF refused, kept, Ended

\* These are the variables of OrderSettlement under the refinement mapping.
LEMMA StutterMapped == UNCHANGED settled => UNCHANGED Settlement!vars
  BY DEF settled, Settlement!vars, placed, paid, refused, delivered, returned, kept

LEMMA PlaceMapped ==
    ASSUME NEW o, o \notin placed, placed' = placed \cup {o},
           UNCHANGED <<paid, refused, delivered, returned, kept>>
    PROVE  Settlement!Place(o)
  BY DEF Settlement!Place, placed, paid, refused, delivered, returned, kept

LEMMA PayMapped ==
    ASSUME NEW o, o \in placed \ (paid \cup refused),
           \/ paid' = paid \cup {o} /\ UNCHANGED refused
           \/ refused' = refused \cup {o} /\ UNCHANGED paid,
           UNCHANGED <<placed, delivered, returned, kept>>
    PROVE  Settlement!Pay(o)
  BY DEF Settlement!Pay, placed, paid, refused, delivered, returned, kept

LEMMA SettleMapped ==
    ASSUME NEW o, o \in paid \ (refused \cup delivered \cup returned \cup kept),
           \/ delivered' = delivered \cup {o} /\ UNCHANGED <<returned, kept>>
           \/ returned' = returned \cup {o} /\ UNCHANGED <<delivered, kept>>
           \/ kept' = kept \cup {o} /\ UNCHANGED <<delivered, returned>>,
           UNCHANGED <<placed, paid, refused>>
    PROVE  Settlement!Settle(o)
  BY DEF Settlement!Settle, Settlement!Closed, placed, paid, refused, delivered, returned, kept

\* Only the payment service fails orders.
LEMMA EndedIsTold ==
    ASSUME IInv, StepsBelong, NEW o \in Orders, NEW f \in Failures, Ended(o, f)
    PROVE  Told(o, f) = 1 \/ Busy("payment", o, {f}) = 1
  <1>1. CASE Published(o, f)
    BY <1>1 DEF Told
  <1>2. ASSUME NEW s \in Services, job[s] = Job(o, f)
        PROVE  Busy("payment", o, {f}) = 1
    <2>1. job[s].order = o /\ job[s].step = f
      BY <1>2, JobFields
    <2>2. s = "payment"
      BY <2>1 DEF StepsBelong, Reserving, Services, Failures
    <2> QED
      BY <2>1, <2>2 DEF Busy
  <1> QED
    BY <1>1, <1>2 DEF Ended

\* A service that was at no failure is given a step, or none.
LEMMA EndedMore ==
    ASSUME ServicesOK, UNCHANGED log, NEW s \in Services, job[s].step \notin Failures,
           NEW o \in Orders, NEW st, job' = [job EXCEPT ![s] = Job(o, st)],
           NEW p \in Orders, NEW f \in Failures
    PROVE  Ended(p, f)' <=> Ended(p, f) \/ (p = o /\ st = f)
  <1>1. Published(p, f)' = Published(p, f)
    BY DEF Published
  <1>2. \A r \in Services : job'[r] = IF r = s THEN Job(o, st) ELSE job[r]
    BY DEF ServicesOK
  <1>3. job[s] # Job(p, f)
    BY JobFields
  <1>4. Job(o, st) = Job(p, f) <=> p = o /\ st = f
    BY DEF Job
  <1> QED
    BY <1>1, <1>2, <1>3, <1>4 DEF Ended

\* The publication of a failure does not end an order again.
LEMMA EndedPublished ==
    ASSUME IInv, NEW s \in Services, Publish(s), NEW p \in Orders, NEW f \in Failures
    PROVE  Ended(p, f)' <=> Ended(p, f)
  <1> DEFINE o == job[s].order
             e == job[s].step
  <1>1. /\ e \in Events /\ o \in Orders /\ log' = Logged(o, e) /\ LogOK /\ ServicesOK
        /\ job[s] = Job(o, e) /\ job' = [job EXCEPT ![s] = NoJob]
    <2>1. "idle" \notin Events
      BY EventNames
    <2>2. ServicesOK /\ LogOK /\ job[s] # NoJob
      BY <2>1 DEF Publish, IInv, TypeOK, NoJob
    <2>3. job[s] \in [order : Orders, step : Steps]
      BY <2>2 DEF ServicesOK
    <2> QED
      BY <2>2, <2>3 DEF Publish, Job
  <1>2. Published(p, f)' <=> Published(p, f) \/ (p = o /\ f = e)
    BY <1>1, ToldMore, EventNames DEF Failures
  <1>3. \A r \in Services : job'[r] = IF r = s THEN NoJob ELSE job[r]
    BY <1>1 DEF ServicesOK
  <1>4. Job(p, f) # NoJob /\ (job[s] = Job(p, f) <=> p = o /\ f = e)
    <2>1. Job(o, e) = Job(p, f) <=> p = o /\ f = e
      BY DEF Job
    <2> QED
      BY <1>1, <2>1, JobFields
  <1> QED
    BY <1>2, <1>3, <1>4 DEF Ended

\* Nothing of the settlement moves unless one of these does.
LEMMA SettledKept ==
    ASSUME UNCHANGED ledger, UNCHANGED placed,
           \A p \in Orders, f \in Failures : Ended(p, f)' <=> Ended(p, f)
    PROVE  UNCHANGED settled
  BY EndedSets DEF settled, ledger, paid, delivered, returned, Failures

\* A consumer that takes a record ends no order.
LEMMA TakesSettlesNothing ==
    ASSUME IInv, NEW s \in Services, job[s] = NoJob, UNCHANGED <<log, ledger>>,
           NEW o \in Orders, NEW st, st \notin Failures,
           UNCHANGED job \/ job' = [job EXCEPT ![s] = Job(o, st)]
    PROVE  UNCHANGED settled
  <1>1. CASE UNCHANGED job
    BY <1>1, SettledKept DEF Ended, Published, placed
  <1>2. CASE job' = [job EXCEPT ![s] = Job(o, st)]
    <2>1. ServicesOK /\ job[s].step \notin Failures
      BY DEF IInv, TypeOK, NoJob, Failures
    <2>2. \A p \in Orders, f \in Failures : Ended(p, f)' <=> Ended(p, f)
      BY <1>2, <2>1, EndedMore
    <2> QED
      BY <2>2, SettledKept DEF placed
  <1> QED
    BY <1>1, <1>2

LEMMA StoreCreatedPlaces ==
    ASSUME IInv, Conserved, faults = 0, NEW o \in Orders, StoreCreated(o)
    PROVE  Settlement!Place(o)
  <1>1. /\ log' = Logged(o, "ORDER_CREATED") /\ LogOK
        /\ "ORDER_CREATED" \in Events \ Failures /\ TopicOf["ORDER_CREATED"] = "order.created"
    BY EventNames DEF StoreCreated, IInv, TypeOK, TopicOf, Failures
  <1>2. \A p \in Orders : log["order.created"][p] \in Seq(Events)
    BY <1>1, Places DEF LogOK
  <1>3. \A p \in Orders : log'["order.created"][p] =
           IF p = o THEN Append(log["order.created"][p], "ORDER_CREATED")
                    ELSE log["order.created"][p]
    BY <1>1, Places DEF LogOK, Logged
  <1>4. log'["order.created"][o] # <<>>
    <2>1. /\ log'["order.created"][o] = Append(log["order.created"][o], "ORDER_CREATED")
          /\ log["order.created"][o] \in Seq(Events) /\ "ORDER_CREATED" \in Events
      BY <1>1, <1>2, <1>3
    <2>2. /\ Len(log'["order.created"][o]) = Len(log["order.created"][o]) + 1
          /\ Len(log["order.created"][o]) \in Nat
      BY <2>1, AppendProperties, LenProperties
    <2>3. Len(<<>>) = 0
      BY EmptySeq
    <2> QED
      BY <2>2, <2>3
  <1>5. Len(log["order.created"][o]) = 0
    <2>1. Once(o) /\ handler[o] = "sending"
      BY DEF Conserved, StoreCreated
    <2>2. Sent("order.created", o) \in Nat
      BY Counts, Places
    <2>3. Sent("order.created", o) <= 0
      BY <2>1 DEF Once
    <2> QED
      BY <2>2, <2>3 DEF Sent
  <1>6. log["order.created"][o] = <<>>
    BY <1>2, <1>5, EmptySeq
  <1>7. ASSUME NEW p \in Orders, NEW f \in Failures
        PROVE  Ended(p, f)' <=> Ended(p, f)
    <2>1. Published(p, f)' <=> Published(p, f)
      BY <1>1, ToldMore, EventNames DEF Failures
    <2> QED
      BY <2>1 DEF Ended, StoreCreated
  <1>8. placed' = placed \cup {o} /\ o \notin placed
    BY <1>3, <1>4, <1>6 DEF placed
  <1>9. UNCHANGED <<paid, refused, delivered, returned, kept>>
    BY <1>7, EndedSets DEF StoreCreated, ledger, paid, delivered, returned, Failures
  <1> QED
    BY <1>8, <1>9, PlaceMapped

LEMMA PublishSettlesNothing ==
    ASSUME IInv, StepsBelong, NEW s \in Services, Publish(s)
    PROVE  UNCHANGED settled
  <1> DEFINE e == job[s].step
  <1>1. \A p \in Orders, f \in Failures : Ended(p, f)' <=> Ended(p, f)
    BY EndedPublished
  <1>2. e \in Events /\ e # "ORDER_CREATED"
    BY DEF Publish, StepsBelong, Charging, Reserving, Services
  <1>3. TopicOf[e] # "order.created"
    BY <1>2 DEF Events, TopicOf
  <1>4. log'["order.created"] = log["order.created"]
    <2> DEFINE T == TopicOf[e]
    <2>1. log' = [log EXCEPT ![T][job[s].order] = Append(@, e)]
      BY DEF Publish, Logged
    <2>2. log \in [Topics -> [Orders -> Seq(Events)]] /\ "order.created" \in Topics
      BY Places DEF IInv, TypeOK, LogOK
    <2> HIDE DEF T, e
    <2> QED
      BY <1>3, <2>1, <2>2 DEF T
  <1> QED
    BY <1>1, <1>4, SettledKept DEF Publish, placed

\* What a service is at, and what that excludes.
LEMMA AtWork ==
    ASSUME IInv, Conserved, faults = 0, NEW o \in Orders
    PROVE  /\ job["payment"] = Job(o, "charge") => o \in placed \ (paid \cup refused)
           /\ job["payment"] = Job(o, "refund") =>
                 o \in paid \ (refused \cup delivered \cup returned \cup kept)
           /\ job["inventory"] = Job(o, "reserve") =>
                 o \in paid \ (refused \cup delivered \cup returned \cup kept)
  <1> USE Places
  <1>1. Once(o) /\ StepsBelong
    BY DEF Conserved
  <1>2. /\ \A s, S : Busy(s, o, S) \in {0, 1}
        /\ \A f : Told(o, f) \in {0, 1}
        /\ Sent("order.created", o) \in Nat /\ Sent("inventory.result", o) \in Nat
        /\ Sent("payment.result", o) \in Nat
        /\ charges[o] \in Nat /\ refunds[o] \in Nat /\ reserved[o] \in Nat
    BY Counts
  <1>3. Sent("order.created", o) > 0 => o \in placed
    BY EmptySeq DEF placed, Sent
  <1>4. /\ o \in refused => Told(o, "PAYMENT_FAILED") = 1 \/ Busy("payment", o, {"PAYMENT_FAILED"}) = 1
        /\ o \in kept => Told(o, "REFUND_FAILED") = 1 \/ Busy("payment", o, {"REFUND_FAILED"}) = 1
    BY <1>1, EndedSets, EndedIsTold DEF Failures
  <1>5. /\ Busy("payment", o, {"PAYMENT_FAILED"}) <= Busy("payment", o, {"charge", "PAYMENT_FAILED"})
        /\ Busy("payment", o, {"REFUND_FAILED"}) <= Busy("payment", o, {"refund", "REFUND_FAILED"})
    BY DEF Busy
  <1>6. ASSUME o \in paid
        PROVE  o \notin refused
    BY <1>1, <1>2, <1>4, <1>5, <1>6, AtMostOnce DEF paid
  <1>7. ASSUME job["payment"] = Job(o, "charge")
        PROVE  o \in placed \ (paid \cup refused)
    <2>1. /\ Busy("payment", o, Charging) = 1 /\ Busy("payment", o, {"charge", "PAYMENT_FAILED"}) = 1
          /\ Busy("payment", o, {"PAYMENT_FAILED"}) = 0
      BY <1>7, BusyNow DEF Charging
    <2>2. charges[o] = 0 /\ Told(o, "PAYMENT_FAILED") = 0 /\ Sent("order.created", o) > 0
      BY <1>1, <1>2, <2>1, AtMostOnce
    <2> QED
      BY <1>3, <1>4, <2>1, <2>2 DEF paid
  <1>8. ASSUME job["payment"] = Job(o, "refund")
        PROVE  o \in paid \ (refused \cup delivered \cup returned \cup kept)
    <2>1. /\ Busy("payment", o, {"refund", "REFUND_FAILED"}) = 1
          /\ Busy("payment", o, {"REFUND_FAILED"}) = 0
      BY <1>8, BusyNow
    <2>2. refunds[o] = 0 /\ Told(o, "REFUND_FAILED") = 0
      BY <1>1, <1>2, <2>1, AtMostOnce
    <2>3. charges[o] > 0 /\ Told(o, "INVENTORY_FAILED") = 1
      BY <1>8, JobFields DEF IInv, Causality, JobsAreGrounded, Ground, Shortage, Told
    <2>4. reserved[o] = 0
      BY <1>1, <1>2, <2>3, AtMostOnce
    <2> QED
      BY <1>4, <1>6, <2>1, <2>2, <2>3, <2>4 DEF paid, delivered, returned
  <1>9. ASSUME job["inventory"] = Job(o, "reserve")
        PROVE  o \in paid \ (refused \cup delivered \cup returned \cup kept)
    <2>1. /\ Busy("inventory", o, Reserving) = 1
          /\ Busy("inventory", o, {"reserve", "INVENTORY_FAILED"}) = 1
      BY <1>9, BusyNow DEF Reserving
    <2>2. reserved[o] = 0 /\ Sent("inventory.result", o) = 0
      BY <1>1, <1>2, <2>1, AtMostOnce
    <2>3. /\ refunds[o] = 0 /\ Told(o, "REFUND_FAILED") = 0
          /\ Busy("payment", o, {"refund", "REFUND_FAILED"}) = 0
      BY <1>1, <1>2, <2>2, AtMostOnce
    <2>4. charges[o] > 0
      BY <1>9, JobFields DEF IInv, Causality, JobsAreGrounded, Ground
    <2> QED
      BY <1>2, <1>4, <1>5, <1>6, <2>2, <2>3, <2>4 DEF paid, delivered, returned
  <1> QED
    BY <1>7, <1>8, <1>9

LEMMA ChargePays ==
    ASSUME IInv, Conserved, faults = 0, NEW o \in Orders, Charge(o)
    PROVE  Settlement!Pay(o)
  <1>1. PICK st \in {"PAYMENT_COMPLETED", "PAYMENT_FAILED"} :
           /\ job["payment"] = Job(o, "charge") /\ job' = [job EXCEPT !["payment"] = Job(o, st)]
           /\ charges' = IF st = "PAYMENT_COMPLETED" THEN [charges EXCEPT ![o] = @ + 1] ELSE charges
           /\ UNCHANGED <<log, refunds, reserved>>
    BY DEF Charge
  <1>2. ServicesOK /\ job["payment"].step \notin Failures /\ charges \in [Orders -> Nat]
    BY <1>1, JobFields DEF IInv, TypeOK, LedgerOK, Failures
  <1>3. \A p \in Orders, f \in Failures : Ended(p, f)' <=> Ended(p, f) \/ (p = o /\ st = f)
    BY <1>1, <1>2, EndedMore, Places
  <1>4. o \in placed \ (paid \cup refused)
    BY <1>1, AtWork
  <1>5. UNCHANGED <<placed, delivered, returned, kept>>
    BY <1>1, <1>3, EndedSets DEF placed, delivered, returned, Failures
  <1>6. paid' = IF st = "PAYMENT_COMPLETED" THEN paid \cup {o} ELSE paid
    BY <1>1, <1>2 DEF paid
  <1>7. refused' = IF st = "PAYMENT_FAILED" THEN refused \cup {o} ELSE refused
    BY <1>3, EndedSets DEF Failures
  <1> QED
    BY <1>4, <1>5, <1>6, <1>7, PayMapped

LEMMA RefundSettles ==
    ASSUME IInv, Conserved, faults = 0, NEW o \in Orders, Refund(o)
    PROVE  Settlement!Settle(o)
  <1>1. PICK st \in {"REFUND_COMPLETED", "REFUND_FAILED"} :
           /\ job["payment"] = Job(o, "refund") /\ job' = [job EXCEPT !["payment"] = Job(o, st)]
           /\ refunds' = IF st = "REFUND_COMPLETED" THEN [refunds EXCEPT ![o] = @ + 1] ELSE refunds
           /\ UNCHANGED <<log, charges, reserved>>
    BY DEF Refund
  <1>2. ServicesOK /\ job["payment"].step \notin Failures /\ refunds \in [Orders -> Nat]
    BY <1>1, JobFields DEF IInv, TypeOK, LedgerOK, Failures
  <1>3. \A p \in Orders, f \in Failures : Ended(p, f)' <=> Ended(p, f) \/ (p = o /\ st = f)
    BY <1>1, <1>2, EndedMore, Places
  <1>4. o \in paid \ (refused \cup delivered \cup returned \cup kept)
    BY <1>1, AtWork
  <1>5. UNCHANGED <<placed, paid, refused, delivered>>
    BY <1>1, <1>3, EndedSets DEF placed, paid, delivered, Failures
  <1>6. returned' = IF st = "REFUND_COMPLETED" THEN returned \cup {o} ELSE returned
    BY <1>1, <1>2 DEF returned
  <1>7. kept' = IF st = "REFUND_FAILED" THEN kept \cup {o} ELSE kept
    BY <1>3, EndedSets DEF Failures
  <1> QED
    BY <1>4, <1>5, <1>6, <1>7, SettleMapped

\* Goods that are reserved settle the order; a shortage settles nothing yet.
LEMMA ReserveSettles ==
    ASSUME IInv, Conserved, faults = 0, NEW o \in Orders, Reserve(o)
    PROVE  Settlement!Settle(o) \/ UNCHANGED settled
  <1>1. PICK st \in {"INVENTORY_RESERVED", "INVENTORY_FAILED"} :
           /\ job["inventory"] = Job(o, "reserve")
           /\ job' = [job EXCEPT !["inventory"] = Job(o, st)]
           /\ reserved' = IF st = "INVENTORY_RESERVED" THEN [reserved EXCEPT ![o] = @ + 1]
                          ELSE reserved
           /\ UNCHANGED <<log, charges, refunds>>
    BY DEF Reserve
  <1>2. ServicesOK /\ job["inventory"].step \notin Failures /\ reserved \in [Orders -> Nat]
    BY <1>1, JobFields DEF IInv, TypeOK, LedgerOK, Failures
  <1>3. \A p \in Orders, f \in Failures : Ended(p, f)' <=> Ended(p, f)
    <2>1. \A p \in Orders, f \in Failures : Ended(p, f)' <=> Ended(p, f) \/ (p = o /\ st = f)
      BY <1>1, <1>2, EndedMore, Places
    <2>2. st \notin Failures
      BY DEF Failures
    <2> QED
      BY <2>1, <2>2
  <1>4. o \in paid \ (refused \cup delivered \cup returned \cup kept)
    BY <1>1, AtWork
  <1>5. UNCHANGED <<placed, paid, refused, returned, kept>>
    BY <1>1, <1>3, EndedSets DEF placed, paid, returned, Failures
  <1>6. delivered' = IF st = "INVENTORY_RESERVED" THEN delivered \cup {o} ELSE delivered
    BY <1>1, <1>2 DEF delivered
  <1> QED
    BY <1>4, <1>5, <1>6, SettleMapped DEF settled

LEMMA StepSettles ==
    ASSUME IInv, Conserved, [Next]_vars, faults = 0, faults' = 0
    PROVE  [Settlement!Next]_(Settlement!vars)
  <1> USE Places
  <1>1. ~Fault /\ StepsBelong
    BY DEF Fault, Conserved
  <1>2. ASSUME UNCHANGED <<log, job, ledger>>
        PROVE  UNCHANGED settled
    BY <1>2, SettledKept DEF Ended, Published, placed
  <1>3. ASSUME NEW o \in Orders, StoreCreated(o) \/ Charge(o) \/ Refund(o) \/ Reserve(o)
        PROVE  Settlement!Next \/ UNCHANGED settled
    BY <1>3, StoreCreatedPlaces, ChargePays, RefundSettles, ReserveSettles DEF Settlement!Next
  <1>4. ASSUME NEW o \in Orders, ProcessMessage(o) \/ TakePayment(o) \/ TakePaymentResult(o)
        PROVE  UNCHANGED settled
    <2>1. \E s \in Services : \E st :
             /\ st \notin Failures /\ job[s] = NoJob /\ UNCHANGED <<log, ledger>>
             /\ UNCHANGED job \/ job' = [job EXCEPT ![s] = Job(o, st)]
      BY <1>4 DEF ProcessMessage, TakePayment, TakePaymentResult, Takes, Failures
    <2> QED
      BY <2>1, TakesSettlesNothing
  <1>5. ASSUME NEW s \in Services, Publish(s)
        PROVE  UNCHANGED settled
    BY <1>1, <1>5, PublishSettlesNothing
  <1>6. ASSUME NEW o \in Orders, CreateOrder(o) \/ ReturnCreated(o)
        PROVE  UNCHANGED settled
    BY <1>2, <1>6 DEF CreateOrder, ReturnCreated
  <1>7. ASSUME NEW s \in Services, AutoCommit(s) \/ Start(s)
        PROVE  UNCHANGED settled
    BY <1>2, <1>7 DEF AutoCommit, Start
  <1>8. UNCHANGED vars => UNCHANGED settled
    BY <1>2 DEF vars
  <1>9. ASSUME Next
        PROVE  \/ \E o \in Orders : StoreCreated(o) \/ Charge(o) \/ Refund(o) \/ Reserve(o)
               \/ \E o \in Orders : ProcessMessage(o) \/ TakePayment(o) \/ TakePaymentResult(o)
               \/ \E s \in Services : Publish(s)
               \/ \E o \in Orders : CreateOrder(o) \/ ReturnCreated(o)
               \/ \E s \in Services : AutoCommit(s) \/ Start(s)
    BY <1>1, <1>9 DEF Next, RequestStep, CreateFails, OrderStep, PaymentStep, InventoryStep,
       Rejoin, PublishFails, ConsumerEnds, Crash, Shutdown, StartDeaf
  <1>10. Settlement!Next \/ UNCHANGED settled
    BY <1>3, <1>4, <1>5, <1>6, <1>7, <1>8, <1>9
  <1> QED
    BY <1>10, StutterMapped

LEMMA InitSettles == Init => Settlement!Init
  <1> SUFFICES ASSUME Init PROVE Settlement!Init
    OBVIOUS
  <1>1. \A p \in Orders, f \in Failures : ~Ended(p, f)
    BY EventNames, JobFields DEF Init, Ended, Published, Failures
  <1>2. refused = {} /\ kept = {}
    BY <1>1, EndedSets DEF Failures
  <1>3. placed = {} /\ paid = {} /\ delivered = {} /\ returned = {}
    BY Places DEF Init, placed, paid, delivered, returned
  <1> QED
    BY <1>2, <1>3 DEF Settlement!Init, placed, paid, refused, delivered, returned, kept

\* While nothing fails the choreography does what OrderSettlement promises:
\* every order is refused, or charged once and then delivered, refunded or kept
\* for manual work, and never two of these.
THEOREM Refinement == Spec /\ [](faults = 0) => Settlement!Spec
  <1>1. Init => Settlement!Init
    BY InitSettles
  <1>2. Init => Conserved
    BY InitConserved
  <1>3. IInv /\ Conserved /\ [Next]_vars => Conserved'
    BY NextConserved
  <1>4. IInv /\ Conserved /\ faults = 0 /\ (faults = 0)' /\ [Next]_vars
           => [Settlement!Next]_(Settlement!vars)
    BY StepSettles
  <1> QED
    BY <1>1, <1>2, <1>3, <1>4, Invariance, PTL DEF Spec, Settlement!Spec

=============================================================================
