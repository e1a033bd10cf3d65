--------------------------- MODULE DeadLetterProofs ---------------------------
(***************************************************************************)
(* Theorems about DeadLetter for any payments, retries and bounds. The     *)
(* inductive invariant adds to TypeOK what the offsets have passed         *)
(* (Reached), how far the outcomes may be ahead of them (Counted) and what *)
(* the lists owe to the records taken so far (Listed).                     *)
(***************************************************************************)
EXTENDS DeadLetter, FiniteSetTheorems, TLAPS

\* The records below an offset have an outcome.
Behind(n) ==
    \A i \in 1..n :
        /\ i \in DOMAIN log
        /\ log[i] \in completed \cup lost \/ Holds(letters, log[i])

\* A running loop is one payment away from the committed offset, on either side, and its
\* payment is the next one or the last that was committed.
Reached ==
    /\ Behind(committed)
    /\ loop = "up" => position <= committed + 1 /\ committed <= position + 1
    /\ (loop = "up" /\ step = "receive") => position <= committed
    /\ step = "try" =>
           /\ committed <= position
           /\ \E i \in {committed, committed + 1} \cap DOMAIN log :
                  current = log[i] /\ (position = committed + 1 => i = position)
    /\ step = "commit" =>
           /\ committed <= position
           /\ request \in {committed, committed + 1} /\ Behind(request)
           /\ position = committed + 1 => request = position

\* An assignment leaves the loop one outcome short of its position, and a payment that is
\* tried leaves it two short.
Counted ==
    /\ committed <= outcomes /\ outcomes <= committed + sessions
    /\ loop = "up" => outcomes <= position + sessions - (IF step = "try" THEN 2 ELSE 1)
    /\ step = "commit" => outcomes >= committed + 1

Right(p) == p \notin Rejected /\ maxRetries > 0

\* How often the first n records of a topic are p.
UpTo(topic, n, p) == Cardinality({i \in 1..n : topic[i] = p})

\* The payment that is tried is taken, but not listed.
Tried(p) == IF step = "try" /\ p = current THEN 1 ELSE 0

\* Only what cannot be processed runs out of attempts.
LettersAreWrong ==
    /\ \A i \in DOMAIN letters : ~Right(letters[i])
    /\ (step = "try" /\ current \notin Rejected) => attempt = 0

\* /processed against the records taken from payments: a fault repeats one of them.
ProcessedListed ==
    /\ committed <= Len(log) /\ position <= Len(log)
    /\ \A p \in Payments :
           /\ Right(p) => processed[p] + Tried(p) <= UpTo(log, position, p) + faults
           /\ (~Right(p) \/ loop \in {"starting", "down"}) => processed[p] = 0

\* /failed against the records taken from payments-dlq: a fault repeats any of them.
FailedListed ==
    /\ read <= Len(letters) /\ dlqPosition <= Len(letters)
    /\ \A p \in Payments :
           /\ ~Right(p) =>
                  failed[p] <= UpTo(letters, dlqPosition, p) + faults * Copies(letters, p)
           /\ (Right(p) \/ dlqLoop \in {"starting", "down"}) => failed[p] = 0

\* The process takes both tasks with it.
DownTogether == loop = "down" => dlqLoop = "down"

IInv ==
    /\ DownTogether
    /\ TypeOK /\ Reached /\ Counted /\ LettersAreWrong /\ ProcessedListed /\ FailedListed

-----------------------------------------------------------------------------
(* Topics                                                                  *)

\* An append to a topic leaves its records alone.
LEMMA AppendKeeps ==
  ASSUME NEW topic \in Seq(Payments), NEW p \in Payments
  PROVE  /\ Append(topic, p) \in Seq(Payments)
         /\ Len(Append(topic, p)) = Len(topic) + 1
         /\ Append(topic, p)[Len(topic) + 1] = p
         /\ \A i \in DOMAIN topic :
                i \in DOMAIN Append(topic, p) /\ Append(topic, p)[i] = topic[i]
  OBVIOUS

\* The record with the number n + 1 counts for the payment it carries.
LEMMA UpToNext ==
  ASSUME NEW topic, NEW n \in Nat, NEW p
  PROVE  /\ UpTo(topic, n, p) \in Nat
         /\ UpTo(topic, n + 1, p) = UpTo(topic, n, p) + (IF topic[n + 1] = p THEN 1 ELSE 0)
  <1> DEFINE S(m) == {i \in 1..m : topic[i] = p}
  <1>1. IsFiniteSet(1..n)
    BY FS_Interval
  <1>2. IsFiniteSet(S(n)) /\ Cardinality(S(n)) \in Nat
    BY <1>1, FS_Subset, FS_CardinalityType
  <1>3. n + 1 \notin S(n)
    OBVIOUS
  <1>4. S(n + 1) = IF topic[n + 1] = p THEN S(n) \cup {n + 1} ELSE S(n)
    OBVIOUS
  <1>5. Cardinality(S(n) \cup {n + 1}) = Cardinality(S(n)) + 1
    BY <1>2, <1>3, FS_AddElement
  <1> QED
    BY <1>2, <1>4, <1>5 DEF UpTo

\* A prefix holds a payment at least as often as a shorter one, and as the whole topic does.
LEMMA UpToMonotone ==
  ASSUME NEW topic \in Seq(Payments), NEW m \in Nat, NEW n \in Nat, NEW p
  PROVE  /\ m <= n => UpTo(topic, m, p) <= UpTo(topic, n, p)
         /\ n <= Len(topic) => UpTo(topic, n, p) <= Copies(topic, p)
         /\ Copies(topic, p) \in Nat
  <1> DEFINE S(k) == {i \in 1..k : topic[i] = p}
  <1>1. ASSUME NEW k \in Nat PROVE IsFiniteSet(S(k)) /\ Cardinality(S(k)) \in Nat
    <2>1. IsFiniteSet(1..k)
      BY FS_Interval
    <2> QED
      BY <2>1, FS_Subset, FS_CardinalityType
  <1>2. ASSUME NEW k \in Nat, NEW l \in Nat, k <= l PROVE Cardinality(S(k)) <= Cardinality(S(l))
    <2>1. S(k) \subseteq S(l)
      BY <1>2
    <2> QED
      BY <1>1, <2>1, FS_Subset
  <1>3. Copies(topic, p) = Cardinality(S(Len(topic))) /\ Len(topic) \in Nat
    <2>1. DOMAIN topic = 1..Len(topic) /\ Len(topic) \in Nat
      OBVIOUS
    <2> QED
      BY <2>1 DEF Copies
  <1> QED
    BY <1>1, <1>2, <1>3 DEF UpTo

\* An append does not change the counts of a prefix.
LEMMA UpToAppend ==
  ASSUME NEW topic \in Seq(Payments), NEW q \in Payments, NEW n \in Nat, n <= Len(topic), NEW p
  PROVE  UpTo(Append(topic, q), n, p) = UpTo(topic, n, p)
  <1>1. {i \in 1..n : Append(topic, q)[i] = p} = {i \in 1..n : topic[i] = p}
    OBVIOUS
  <1> QED
    BY <1>1 DEF UpTo

-----------------------------------------------------------------------------
(* Types                                                                   *)

LEMMA InitIInv == Init => IInv
  <1> SUFFICES ASSUME Init PROVE IInv
    OBVIOUS
  <1>1. TypeOK
    BY ConstantsAssumption DEF Init, TypeOK, PaymentsOK, DlqOK, NoneListed
  <1>2. Reached /\ Counted /\ LettersAreWrong /\ DownTogether
    BY DEF Init, DownTogether, Reached, Behind, Counted, LettersAreWrong
  <1>3. \A p \in Payments : UpTo(log, 0, p) \in Nat /\ UpTo(letters, 0, p) \in Nat
    BY UpToNext
  <1>4. ProcessedListed
    BY <1>3 DEF Init, ProcessedListed, Tried, NoneListed
  <1>5. FailedListed
    <2>1. \A p \in Payments : Copies(letters, p) \in Nat
      BY <1>1, UpToMonotone DEF TypeOK
    <2> QED
      BY <1>3, <2>1 DEF Init, FailedListed, NoneListed
  <1> QED
    BY <1>1, <1>2, <1>4, <1>5 DEF IInv

\* What an append of current to letters gives.
LEMMA SentLetter ==
  ASSUME TypeOK, DeadLetterSent
  PROVE  current \in Payments /\ letters' = Append(letters, current) /\ letters' \in Seq(Payments)
  BY AppendKeeps DEF TypeOK, PaymentsOK, DeadLetterSent, Exhausted

\* The three ways a payment that is tried comes to its end.
Settles == ProcessPayment \/ DeadLetterSent \/ DeadLetterLost

\* What they have in common: the payment has an outcome, and its commit is requested.
LEMMA SettlesRequests ==
  ASSUME Settles
  PROVE  /\ step = "try" /\ step' = "commit" /\ request' = position /\ outcomes' = outcomes + 1
         /\ UNCHANGED <<maxRetries, log, loop, position, current, attempt, committed, sessions,
                        lives, dlqVars, failed, shown>>
  BY DEF Settles, ProcessPayment, DeadLetterSent, DeadLetterLost, RequestCommit, Exhausted

\* Each step keeps the types.
LEMMA StepTypes == TypeOK /\ [Next]_vars => TypeOK'
  <1> SUFFICES ASSUME TypeOK, [Next]_vars PROVE TypeOK'
    OBVIOUS
  <1> USE DEF TypeOK, PaymentsOK, DlqOK, NoneListed
  <1>1. ASSUME NEW p \in Payments, CreatePayment(p) PROVE TypeOK'
    <2>1. log' \in Seq(Payments)
      BY <1>1, AppendKeeps DEF CreatePayment
    <2> QED
      BY <1>1, <2>1 DEF CreatePayment, payVars, dlqVars, listVars, historyVars
  <1>2. CASE StoredTwice
    <2>1. \A p \in Payments :
              Append(log, p) \in Seq(Payments) /\ Append(letters, p) \in Seq(Payments)
      BY AppendKeeps
    <2>2. log' \in Seq(Payments) /\ letters' \in Seq(Payments)
      BY <1>2, <2>1 DEF StoredTwice
    <2>3. faults' \in Nat
      BY <1>2 DEF StoredTwice, Fault
    <2> QED
      BY <1>2, <2>2, <2>3 DEF StoredTwice, payVars, dlqVars, listVars, historyVars
  <1>3. CASE StartPayments \/ RejoinPayments \/ AttemptFails \/ Commit
    <2>1. UNCHANGED <<maxRetries, topicVars, dlqVars, listVars, outcomes, completed, shown,
                      lost, lives>>
          /\ sessions' \in Nat /\ faults' \in Nat
      BY <1>3 DEF StartPayments, RejoinPayments, AttemptFails, Commit, Fault, historyVars
    <2>2. PaymentsOK'
      BY <1>3 DEF StartPayments, RejoinPayments, AttemptFails, Commit
    <2> QED
      BY <2>1, <2>2 DEF topicVars, dlqVars, listVars
  <1>4. CASE Receive
    BY <1>4 DEF Receive, topicVars, dlqVars, listVars, historyVars
  <1>5. CASE ProcessPayment
    BY <1>5 DEF ProcessPayment, RequestCommit, dlqVars
  <1>6. CASE DeadLetterSent
    BY <1>6, SentLetter DEF DeadLetterSent, RequestCommit, Exhausted, dlqVars
  <1>7. CASE DeadLetterLost
    BY <1>7 DEF DeadLetterLost, RequestCommit, Exhausted, Fault, dlqVars
  <1>8. CASE PaymentsFail
    BY <1>8 DEF PaymentsFail, Fault, topicVars, dlqVars, listVars, historyVars
  <1>9. CASE StartDlq \/ AutoCommit
    BY <1>9 DEF StartDlq, AutoCommit, topicVars, payVars, listVars, historyVars
  <1>10. CASE ListLetter
    <2> DEFINE q == letters[dlqPosition + 1]
    <2>1. q \in Payments
      BY <1>10 DEF ListLetter
    <2>2. failed' = [failed EXCEPT ![q] = @ + 1] /\ shown' = shown \cup {q}
      BY <1>10 DEF ListLetter
    <2>3. DlqOK' /\ UNCHANGED <<maxRetries, topicVars, payVars, processed, outcomes, sessions,
                               completed, lost, lives, faults>>
      BY <1>10 DEF ListLetter
    <2>4. PaymentsOK'
      BY <2>3 DEF payVars
    <2> HIDE DEF q, PaymentsOK, DlqOK
    <2>5. failed' \in [Payments -> Nat] /\ shown' \subseteq Payments
      BY <2>1, <2>2
    <2> QED
      BY <2>3, <2>4, <2>5 DEF topicVars
  <1>11. CASE RejoinDlq \/ DlqFails
    <2>1. DlqOK' /\ faults' \in Nat
          /\ UNCHANGED <<maxRetries, topicVars, payVars, listVars, historyVars>>
      BY <1>11 DEF RejoinDlq, DlqFails, Fault
    <2> QED
      BY <2>1 DEF topicVars, payVars, listVars, historyVars
  <1>12. CASE Stop \/ Start
    <2>1. UNCHANGED <<maxRetries, topicVars, outcomes, sessions, completed, shown, lost, faults>>
          /\ lives' \in Nat
      BY <1>12 DEF Stop, Start, historyVars
    <2>2. ASSUME Stop PROVE PaymentsOK' /\ DlqOK'
      BY <2>2 DEF Stop
    <2>3. ASSUME Start PROVE PaymentsOK' /\ DlqOK'
      BY <2>3 DEF Start
    <2>4. processed' \in [Payments -> Nat] /\ failed' \in [Payments -> Nat]
      BY <1>12 DEF Stop, Start, listVars
    <2>5. PaymentsOK' /\ DlqOK'
      BY <1>12, <2>2, <2>3
    <2> QED
      BY <2>1, <2>4, <2>5 DEF topicVars
  <1>13. CASE UNCHANGED vars
    BY <1>13 DEF vars, topicVars, payVars, dlqVars, listVars, historyVars
  <1> QED
    BY <1>1, <1>2, <1>3, <1>4, <1>5, <1>6, <1>7, <1>8, <1>9, <1>10, <1>11, <1>12, <1>13
       DEF Next, PaymentsStep, DlqStep

-----------------------------------------------------------------------------
(* Outcomes                                                                *)

\* What has an outcome keeps it: topics and outcomes only grow.
LEMMA BehindStays ==
  ASSUME NEW n, Behind(n),
         \A i \in DOMAIN log : i \in DOMAIN log' /\ log'[i] = log[i],
         \A i \in DOMAIN letters : i \in DOMAIN letters' /\ letters'[i] = letters[i],
         completed \subseteq completed', lost \subseteq lost'
  PROVE  \A i \in 1..n :
             /\ i \in DOMAIN log'
             /\ log'[i] \in completed' \cup lost' \/ Holds(letters', log'[i])
  BY DEF Behind, Holds

\* Every step leaves the records of both topics where they are, and outcomes stand.
LEMMA StepGrows ==
  ASSUME TypeOK, [Next]_vars
  PROVE  /\ \A i \in DOMAIN log : i \in DOMAIN log' /\ log'[i] = log[i]
         /\ \A i \in DOMAIN letters : i \in DOMAIN letters' /\ letters'[i] = letters[i]
         /\ completed \subseteq completed' /\ lost \subseteq lost'
  <1>0. log \in Seq(Payments) /\ letters \in Seq(Payments)
    BY DEF TypeOK
  <1>1. ASSUME NEW p \in Payments, CreatePayment(p)
        PROVE  log' = Append(log, p) /\ UNCHANGED <<letters, completed, lost>>
    BY <1>1 DEF CreatePayment, historyVars
  <1>2. CASE StoredTwice
    BY <1>0, <1>2, AppendKeeps DEF StoredTwice, historyVars
  <1>3. CASE DeadLetterSent
    BY <1>0, <1>3, SentLetter, AppendKeeps DEF DeadLetterSent, RequestCommit
  <1>4. CASE ProcessPayment \/ DeadLetterLost
    BY <1>4 DEF ProcessPayment, DeadLetterLost, RequestCommit
  <1>5. CASE StartPayments \/ RejoinPayments \/ Receive \/ AttemptFails \/ Commit \/ PaymentsFail
    BY <1>5
       DEF StartPayments, RejoinPayments, Receive, AttemptFails, Commit, PaymentsFail, topicVars,
           historyVars
  <1>6. CASE StartDlq \/ ListLetter \/ AutoCommit \/ RejoinDlq \/ DlqFails
    BY <1>6 DEF StartDlq, ListLetter, AutoCommit, RejoinDlq, DlqFails, topicVars, historyVars
  <1>7. CASE Stop \/ Start
    BY <1>7 DEF Stop, Start, topicVars, historyVars
  <1>8. CASE UNCHANGED vars
    BY <1>8 DEF vars, topicVars, historyVars
  <1>9. CASE \E p \in Payments : CreatePayment(p)
    <2>1. PICK p \in Payments : CreatePayment(p)
      BY <1>9
    <2>2. log' = Append(log, p) /\ UNCHANGED <<letters, completed, lost>>
      BY <1>1, <2>1
    <2>3. \A i \in DOMAIN log : i \in DOMAIN log' /\ log'[i] = log[i]
      BY <1>0, <2>2, AppendKeeps
    <2> QED
      BY <2>2, <2>3
  <1> QED
    BY <1>2, <1>3, <1>4, <1>5, <1>6, <1>7, <1>8, <1>9 DEF Next, PaymentsStep, DlqStep

\* The steps of Next that leave the payments consumer and the count of outcomes alone.
Elsewhere ==
    \/ \E p \in Payments : CreatePayment(p)
    \/ StoredTwice \/ DlqStep \/ AutoCommit \/ RejoinDlq \/ DlqFails
    \/ UNCHANGED vars

\* They do.
LEMMA ElsewhereQuiet ==
  ASSUME Elsewhere
  PROVE  UNCHANGED <<maxRetries, loop, position, current, attempt, step, request, committed,
                     outcomes, sessions, lives, processed>>
  <1>1. CASE (\E p \in Payments : CreatePayment(p)) \/ StoredTwice
    BY <1>1 DEF CreatePayment, StoredTwice, payVars, listVars, historyVars
  <1>2. CASE DlqStep \/ AutoCommit \/ RejoinDlq \/ DlqFails
    BY <1>2
       DEF DlqStep, StartDlq, ListLetter, AutoCommit, RejoinDlq, DlqFails, payVars, listVars,
           historyVars
  <1>3. CASE UNCHANGED vars
    BY <1>3 DEF vars, payVars, listVars, historyVars
  <1> QED
    BY <1>1, <1>2, <1>3 DEF Elsewhere

\* Faults are counted, and never forgotten.
LEMMA FaultsGrow == TypeOK /\ [Next]_vars => faults \in Nat /\ faults' \in Nat /\ faults <= faults'
  <1> SUFFICES ASSUME TypeOK, [Next]_vars PROVE faults' \in Nat /\ faults <= faults'
    BY DEF TypeOK
  <1>1. faults \in Nat
    BY DEF TypeOK
  <1>2. CASE \/ StoredTwice \/ DeadLetterLost \/ RejoinPayments \/ PaymentsFail
             \/ RejoinDlq \/ DlqFails
    BY <1>1, <1>2
       DEF StoredTwice, DeadLetterLost, RejoinPayments, PaymentsFail, RejoinDlq, DlqFails, Fault
  <1>3. CASE \/ \E p \in Payments : CreatePayment(p)
             \/ PaymentsStep \/ DlqStep \/ AutoCommit \/ Stop \/ Start \/ UNCHANGED vars
    BY <1>1, <1>3
       DEF CreatePayment, PaymentsStep, StartPayments, Receive, ProcessPayment, AttemptFails,
           DeadLetterSent, Commit, DlqStep, StartDlq, ListLetter, AutoCommit, Stop, Start, vars
  <1> QED
    BY <1>2, <1>3 DEF Next

\* Each step keeps the outcomes ahead of the offsets.
LEMMA StepReached == IInv /\ [Next]_vars => Reached'
  <1> SUFFICES ASSUME IInv, [Next]_vars PROVE Reached'
    OBVIOUS
  <1>0. TypeOK /\ Reached /\ PaymentsOK /\ log \in Seq(Payments)
    BY DEF IInv, TypeOK
  <1>1. \A n : Behind(n) => Behind(n)'
    BY <1>0, StepGrows, BehindStays DEF Behind
  <1>2. \A i \in DOMAIN log : i \in DOMAIN log' /\ log'[i] = log[i]
    BY <1>0, StepGrows
  <1>3. /\ position \in Nat /\ committed \in Nat /\ request \in Nat
        /\ step # "receive" => loop = "up"
        /\ step \in {"receive", "try", "commit"}
    BY <1>0 DEF PaymentsOK
  <1>4. CASE Elsewhere \/ AttemptFails
    <2>1. UNCHANGED <<loop, position, current, step, request, committed>>
      BY <1>4, ElsewhereQuiet DEF AttemptFails
    <2>2. Behind(committed)' /\ (step' = "commit" => Behind(request)')
      BY <1>0, <1>1, <2>1 DEF Reached, Behind
    <2>3. ASSUME NEW i \in {committed, committed + 1} \cap DOMAIN log
          PROVE  i \in {committed', committed' + 1} \cap DOMAIN log' /\ log'[i] = log[i]
      BY <1>2, <2>1
    <2> QED
      BY <1>0, <2>1, <2>2, <2>3 DEF Reached
  <1>5. CASE StartPayments
    <2>1. loop = "starting" /\ position' = committed /\ UNCHANGED <<step, committed>>
      BY <1>5 DEF StartPayments
    <2>2. step = "receive" /\ Behind(committed)'
      BY <1>0, <1>1, <1>3, <2>1 DEF Reached, Behind
    <2> QED
      BY <1>3, <2>1, <2>2 DEF Reached
  <1>6. CASE RejoinPayments
    <2>1. /\ loop = "up" /\ position' = committed
          /\ UNCHANGED <<topicVars, completed, lost, current, step, request, committed>>
      BY <1>6 DEF RejoinPayments
    <2> QED
      BY <1>0, <1>3, <2>1 DEF Reached, Behind, Holds, topicVars
  <1>7. CASE Receive
    <2>1. /\ loop = "up" /\ step = "receive" /\ position < Len(log)
          /\ position' = position + 1 /\ current' = log[position + 1] /\ step' = "try"
          /\ UNCHANGED <<topicVars, completed, lost, loop, committed>>
      BY <1>0, <1>7 DEF Receive, historyVars
    <2>2. position \in {committed - 1, committed} /\ position + 1 \in DOMAIN log
      BY <1>0, <1>3, <2>1 DEF Reached
    <2> QED
      BY <1>0, <1>3, <2>1, <2>2 DEF Reached, Behind, Holds, topicVars
  <1>8. CASE Settles
    <2>1. /\ step = "try" /\ step' = "commit" /\ request' = position
          /\ UNCHANGED <<log, loop, position, committed>>
      BY <1>8, SettlesRequests
    <2>2. current \in completed' \cup lost' \/ Holds(letters', current)
      <3>1. CASE DeadLetterSent
        <4>1. /\ current \in Payments /\ letters \in Seq(Payments)
              /\ letters' = Append(letters, current)
          BY <1>0, <3>1, SentLetter DEF TypeOK
        <4>2. Len(letters) + 1 \in DOMAIN letters' /\ letters'[Len(letters) + 1] = current
          BY <4>1
        <4> QED
          BY <4>2 DEF Holds
      <3>2. CASE ProcessPayment \/ DeadLetterLost
        BY <3>2 DEF ProcessPayment, DeadLetterLost
      <3> QED
        BY <1>8, <3>1, <3>2 DEF Settles
    <2>3. /\ committed <= position /\ position <= committed + 1
          /\ position = committed + 1 => position \in DOMAIN log /\ current = log[position]
      BY <1>0, <1>3, <2>1 DEF Reached
    <2>4. \A i \in 1..committed :
              /\ i \in DOMAIN log'
              /\ log'[i] \in completed' \cup lost' \/ Holds(letters', log'[i])
      BY <1>0, StepGrows, BehindStays DEF Reached
    <2>5. \A i \in 1..position :
              /\ i \in DOMAIN log'
              /\ log'[i] \in completed' \cup lost' \/ Holds(letters', log'[i])
      <3>1. ASSUME NEW i \in 1..position PROVE i \in 1..committed \/ (i = position /\ i = committed + 1)
        BY <1>3, <2>3
      <3> QED
        BY <2>1, <2>2, <2>3, <2>4, <3>1
    <2>6. Behind(committed)' /\ Behind(request)'
      BY <2>1, <2>4, <2>5 DEF Behind
    <2>7. position \in {committed, committed + 1}
      BY <1>3, <2>3
    <2> QED
      BY <1>3, <2>1, <2>3, <2>6, <2>7 DEF Reached
  <1>9. CASE Commit
    <2>1. /\ loop = "up" /\ step = "commit" /\ step' = "receive" /\ committed' = request
          /\ UNCHANGED <<topicVars, completed, lost, loop, position>>
      BY <1>3, <1>9 DEF Commit, historyVars
    <2>2. /\ committed <= position /\ position <= committed + 1
          /\ request \in {committed, committed + 1}
          /\ position = committed + 1 => request = position
      BY <1>0, <2>1 DEF Reached
    <2>3. position <= request /\ request <= position + 1
      BY <1>3, <2>2
    <2> QED
      BY <1>0, <1>3, <2>1, <2>3 DEF Reached, Behind, Holds, topicVars
  <1>10. CASE PaymentsFail
    <2>1. /\ loop' = "deaf" /\ step' = "receive"
          /\ committed' = committed \/ (step = "commit" /\ committed' = request)
          /\ UNCHANGED <<topicVars, completed, lost>>
      BY <1>10 DEF PaymentsFail, historyVars
    <2> QED
      BY <1>0, <2>1 DEF Reached, Behind, Holds, topicVars
  <1>11. CASE Stop \/ Start
    <2>1. /\ loop' # "up" /\ step' = "receive"
          /\ UNCHANGED <<topicVars, completed, lost, committed>>
      BY <1>3, <1>11 DEF Stop, Start, historyVars
    <2> QED
      BY <1>0, <2>1 DEF Reached, Behind, Holds, topicVars
  <1> QED
    BY <1>4, <1>5, <1>6, <1>7, <1>8, <1>9, <1>10, <1>11
       DEF Next, PaymentsStep, DlqStep, Elsewhere, Settles

\* Each step keeps the count of outcomes close to the offset.
LEMMA StepCounted == IInv /\ [Next]_vars => Counted'
  <1> SUFFICES ASSUME IInv, [Next]_vars PROVE Counted'
    OBVIOUS
  <1>0. /\ Counted /\ outcomes \in Nat /\ sessions \in Nat
        /\ position \in Nat /\ committed \in Nat /\ request \in Nat
        /\ step # "receive" => loop = "up"
        /\ step \in {"receive", "try", "commit"}
    BY DEF IInv, TypeOK, PaymentsOK
  <1>1. /\ loop = "up" => position <= committed + 1 /\ committed <= position + 1
        /\ (loop = "up" /\ step = "receive") => position <= committed
        /\ step = "commit" => committed <= request /\ request <= committed + 1
    BY <1>0 DEF IInv, Reached
  <1>2. CASE Elsewhere \/ AttemptFails
    <2>1. UNCHANGED <<loop, step, position, committed, outcomes, sessions>>
      BY <1>2, ElsewhereQuiet DEF AttemptFails, historyVars
    <2> QED
      BY <1>0, <2>1 DEF Counted
  <1>3. CASE StartPayments
    <2>1. /\ loop = "starting" /\ position' = committed /\ sessions' = sessions + 1
          /\ UNCHANGED <<step, committed, outcomes>>
      BY <1>3 DEF StartPayments
    <2> QED
      BY <1>0, <2>1 DEF Counted
  <1>4. CASE RejoinPayments
    <2>1. /\ loop = "up" /\ position' = committed /\ sessions' = sessions + 1
          /\ UNCHANGED <<step, committed, outcomes>>
      BY <1>4 DEF RejoinPayments
    <2> QED
      BY <1>0, <1>1, <2>1 DEF Counted
  <1>5. CASE Receive
    <2>1. /\ loop = "up" /\ step = "receive" /\ step' = "try" /\ position' = position + 1
          /\ UNCHANGED <<committed, outcomes, sessions>>
      BY <1>5 DEF Receive, historyVars
    <2> QED
      BY <1>0, <2>1 DEF Counted
  <1>6. CASE Settles
    <2>1. /\ step = "try" /\ step' = "commit" /\ outcomes' = outcomes + 1
          /\ UNCHANGED <<loop, position, committed, sessions>>
      BY <1>6, SettlesRequests
    <2>2. outcomes <= position + sessions - 2 /\ position <= committed + 1
      BY <1>0, <1>1, <2>1 DEF Counted
    <2> QED
      BY <1>0, <2>1, <2>2 DEF Counted
  <1>7. CASE Commit
    <2>1. /\ step = "commit" /\ step' = "receive" /\ committed' = request
          /\ UNCHANGED <<loop, position, outcomes, sessions>>
      BY <1>7 DEF Commit, historyVars
    <2> QED
      BY <1>0, <1>1, <2>1 DEF Counted
  <1>8. CASE PaymentsFail
    <2>1. /\ loop' = "deaf" /\ step' = "receive" /\ UNCHANGED <<outcomes, sessions>>
          /\ committed' = committed \/ (step = "commit" /\ committed' = request)
      BY <1>8 DEF PaymentsFail, historyVars
    <2> QED
      BY <1>0, <1>1, <2>1 DEF Counted
  <1>9. CASE Stop \/ Start
    <2>1. /\ loop' # "up" /\ step' = "receive" /\ UNCHANGED <<committed, outcomes, sessions>>
      BY <1>0, <1>9 DEF Stop, Start, historyVars
    <2> QED
      BY <1>0, <2>1 DEF Counted
  <1> QED
    BY <1>2, <1>3, <1>4, <1>5, <1>6, <1>7, <1>8, <1>9
       DEF Next, PaymentsStep, DlqStep, Elsewhere, Settles

-----------------------------------------------------------------------------
(* The lists                                                               *)

\* MAX_RETRIES does not change.
LEMMA StepRetries == [Next]_vars => maxRetries' = maxRetries
  <1>1. CASE Elsewhere
    BY <1>1, ElsewhereQuiet
  <1>2. CASE Settles
    BY <1>2, SettlesRequests
  <1>3. CASE StartPayments \/ RejoinPayments \/ Receive \/ AttemptFails \/ Commit
    BY <1>3 DEF StartPayments, RejoinPayments, Receive, AttemptFails, Commit
  <1>4. CASE PaymentsFail \/ Stop \/ Start
    BY <1>4 DEF PaymentsFail, Stop, Start
  <1> QED
    BY <1>1, <1>2, <1>3, <1>4 DEF Next, PaymentsStep, Elsewhere, Settles

\* A dead letter is of a payment that no attempt could process.
LEMMA StepLetters == IInv /\ [Next]_vars => LettersAreWrong'
  <1> SUFFICES ASSUME IInv, [Next]_vars PROVE LettersAreWrong'
    OBVIOUS
  <1>0. /\ TypeOK /\ PaymentsOK /\ LettersAreWrong
        /\ log \in Seq(Payments) /\ letters \in Seq(Payments) /\ maxRetries \in Nat
    BY ConstantsAssumption DEF IInv, TypeOK
  <1>1. maxRetries' = maxRetries
    BY StepRetries
  <1>2. CASE StoredTwice
    <2>1. UNCHANGED <<step, current, attempt>>
      BY <1>2 DEF StoredTwice, payVars
    <2>2. CASE letters' = letters
      BY <1>0, <1>1, <2>1, <2>2 DEF LettersAreWrong, Right
    <2>3. ASSUME NEW p \in Payments, Holds(letters, p), letters' = Append(letters, p)
          PROVE  LettersAreWrong'
      <3>1. ~Right(p)
        BY <1>0, <2>3 DEF LettersAreWrong, Holds
      <3> QED
        BY <1>0, <1>1, <2>1, <2>3, <3>1 DEF LettersAreWrong, Right
    <2> QED
      BY <1>2, <2>2, <2>3 DEF StoredTwice
  <1>3. CASE DeadLetterSent
    <2>1. /\ current \in Payments /\ letters' = Append(letters, current) /\ step' = "commit"
          /\ step = "try" /\ attempt >= maxRetries
      BY <1>0, <1>3, SentLetter DEF DeadLetterSent, RequestCommit, Exhausted
    <2>2. ~Right(current)
      BY <1>0, <2>1 DEF LettersAreWrong, Right
    <2> QED
      BY <1>0, <1>1, <2>1, <2>2 DEF LettersAreWrong, Right
  <1>4. CASE Elsewhere /\ ~StoredTwice
    <2>1. UNCHANGED <<step, current, attempt>>
      BY <1>4, ElsewhereQuiet
    <2>2. letters' = letters
      BY <1>4
         DEF Elsewhere, CreatePayment, DlqStep, StartDlq, ListLetter, AutoCommit, RejoinDlq,
             DlqFails, vars, topicVars
    <2> QED
      BY <1>0, <1>1, <2>1, <2>2 DEF LettersAreWrong, Right
  <1>5. CASE Receive \/ AttemptFails
    <2>1. /\ letters' = letters
          /\ attempt' = 0 \/ (current' = current /\ current \in Rejected)
      BY <1>5 DEF Receive, AttemptFails, topicVars
    <2> QED
      BY <1>0, <1>1, <2>1 DEF LettersAreWrong, Right
  <1>6. CASE StartPayments \/ ProcessPayment \/ DeadLetterLost \/ Commit \/ PaymentsFail
                 \/ Stop \/ Start
    <2>1. letters' = letters /\ step' # "try"
      BY <1>0, <1>6
         DEF StartPayments, ProcessPayment, DeadLetterLost, RequestCommit, Commit, PaymentsFail,
             Stop, Start, PaymentsOK, topicVars
    <2> QED
      BY <1>0, <1>1, <2>1 DEF LettersAreWrong, Right
  <1>7. CASE RejoinPayments
    <2>1. UNCHANGED <<letters, step, current, attempt>>
      BY <1>7 DEF RejoinPayments, topicVars
    <2> QED
      BY <1>0, <1>1, <2>1 DEF LettersAreWrong, Right
  <1> QED
    BY <1>2, <1>3, <1>4, <1>5, <1>6, <1>7 DEF Next, PaymentsStep, Elsewhere

\* The counts of a prefix survive an append and grow with the prefix.
LEMMA UpToGrows ==
  ASSUME NEW topic \in Seq(Payments), NEW later, NEW n \in Nat, n <= Len(topic), NEW p,
         later = topic \/ \E q \in Payments : later = Append(topic, q)
  PROVE  /\ n <= Len(later)
         /\ UpTo(later, n, p) = UpTo(topic, n, p)
         /\ UpTo(topic, n, p) \in Nat
  <1>1. UpTo(topic, n, p) \in Nat
    BY UpToNext
  <1>2. CASE later = topic
    BY <1>1, <1>2
  <1>3. ASSUME NEW q \in Payments, later = Append(topic, q)
        PROVE  n <= Len(later) /\ UpTo(later, n, p) = UpTo(topic, n, p)
    BY <1>3, UpToAppend
  <1> QED
    BY <1>1, <1>2, <1>3

\* Each step appends one record to a topic at most.
LEMMA StepTopics ==
  ASSUME TypeOK, [Next]_vars
  PROVE  /\ log' = log \/ \E q \in Payments : log' = Append(log, q)
         /\ letters' = letters \/ \E q \in Payments : letters' = Append(letters, q)
  <1>1. CASE Elsewhere
    <2>1. CASE (\E p \in Payments : CreatePayment(p)) \/ StoredTwice
      BY <2>1 DEF CreatePayment, StoredTwice
    <2>2. CASE DlqStep \/ AutoCommit \/ RejoinDlq \/ DlqFails
      BY <2>2 DEF DlqStep, StartDlq, ListLetter, AutoCommit, RejoinDlq, DlqFails, topicVars
    <2>3. CASE UNCHANGED vars
      BY <2>3 DEF vars, topicVars
    <2> QED
      BY <1>1, <2>1, <2>2, <2>3 DEF Elsewhere
  <1>2. CASE DeadLetterSent
    BY <1>2, SentLetter DEF DeadLetterSent, RequestCommit
  <1>3. CASE ProcessPayment \/ DeadLetterLost
    BY <1>3 DEF ProcessPayment, DeadLetterLost, RequestCommit
  <1>4. CASE (PaymentsStep /\ ~DeadLetterSent /\ ~ProcessPayment)
                 \/ RejoinPayments \/ PaymentsFail \/ Stop \/ Start
    BY <1>4
       DEF PaymentsStep, StartPayments, RejoinPayments, Receive, AttemptFails, Commit,
           PaymentsFail, Stop, Start, topicVars
  <1> QED
    BY <1>1, <1>2, <1>3, <1>4 DEF Next, PaymentsStep, Elsewhere

\* Each step lists a payment at most as often as it was taken, but for the faults.
LEMMA StepProcessed == IInv /\ [Next]_vars => ProcessedListed'
  <1> SUFFICES ASSUME IInv, [Next]_vars PROVE ProcessedListed'
    OBVIOUS
  <1>0. /\ TypeOK /\ PaymentsOK /\ ProcessedListed
        /\ log \in Seq(Payments) /\ processed \in [Payments -> Nat]
        /\ maxRetries \in Nat /\ maxRetries' = maxRetries
        /\ position \in Nat /\ committed \in Nat
        /\ faults \in Nat /\ faults' \in Nat /\ faults <= faults'
    BY ConstantsAssumption, StepRetries, FaultsGrow DEF IInv, TypeOK, PaymentsOK
  <1>1. \A n \in Nat, p \in Payments : n <= Len(log) =>
            n <= Len(log') /\ UpTo(log', n, p) = UpTo(log, n, p) /\ UpTo(log, n, p) \in Nat
    BY <1>0, StepTopics, UpToGrows
  <1>2. /\ position <= Len(log) /\ committed <= Len(log)
        /\ \A p \in Payments : processed[p] \in Nat /\ Tried(p) \in Nat
        /\ \A p \in Payments : UpTo(log, position, p) \in Nat /\ UpTo(log, committed, p) \in Nat
    BY <1>0, <1>1 DEF ProcessedListed, Tried
  <1>3. step # "receive" => loop = "up"
    BY <1>0 DEF PaymentsOK
  <1>4. CASE Elsewhere \/ AttemptFails
    <2>1. UNCHANGED <<position, step, current, committed, loop, processed>>
      BY <1>4, ElsewhereQuiet DEF AttemptFails, listVars
    <2>2. ASSUME NEW p \in Payments, Right(p)
          PROVE  processed'[p] + Tried(p)' <= UpTo(log', position', p) + faults'
      <3>1. Tried(p)' = Tried(p)
        BY <2>1 DEF Tried
      <3>2. /\ processed[p] + Tried(p) <= UpTo(log, position, p) + faults
            /\ processed[p] \in Nat /\ Tried(p) \in Nat /\ UpTo(log, position, p) \in Nat
        BY <1>0, <1>2, <2>2 DEF ProcessedListed
      <3>3. UpTo(log', position', p) = UpTo(log, position, p)
        BY <1>0, <1>1, <1>2, <2>1
      <3> QED
        BY <1>0, <2>1, <3>1, <3>2, <3>3
    <2>3. committed' <= Len(log') /\ position' <= Len(log')
      BY <1>0, <1>1, <1>2, <2>1
    <2> QED
      BY <1>0, <2>1, <2>2, <2>3 DEF ProcessedListed, Right
  <1>5. CASE StartPayments
    <2>1. /\ loop = "starting" /\ loop' = "up" /\ position' = committed
          /\ UNCHANGED <<log, committed, step, processed>>
      BY <1>5 DEF StartPayments, topicVars, listVars
    <2>2. \A p \in Payments : Tried(p)' = 0 /\ processed[p] = 0
      BY <1>0, <1>3, <2>1 DEF Tried, ProcessedListed
    <2> QED
      BY <1>0, <1>2, <2>1, <2>2 DEF ProcessedListed, Right
  <1>6. CASE RejoinPayments
    <2>1. /\ loop = "up" /\ position' = committed /\ faults' = faults + 1
          /\ UNCHANGED <<log, committed, step, current, loop, processed>>
      BY <1>6 DEF RejoinPayments, Fault, topicVars, listVars
    <2>2. \A p \in Payments : Tried(p)' = Tried(p)
      BY <2>1 DEF Tried
    <2>3. \A p \in Payments : UpTo(log, position, p) <= UpTo(log, committed, p) + 1
      <3>1. position <= committed + 1
        BY <2>1 DEF IInv, Reached
      <3>2. committed + 1 \in Nat
        BY <1>0
      <3>3. \A p \in Payments : UpTo(log, position, p) <= UpTo(log, committed + 1, p)
        BY <1>0, <3>1, <3>2, UpToMonotone
      <3>4. \A p \in Payments :
                UpTo(log, committed + 1, p)
                       = UpTo(log, committed, p) + (IF log[committed + 1] = p THEN 1 ELSE 0)
        BY <1>0, UpToNext
      <3> QED
        BY <1>2, <3>3, <3>4
    <2>4. ASSUME NEW p \in Payments, Right(p)
          PROVE  processed[p] + Tried(p) <= UpTo(log, committed, p) + faults + 1
      <3>1. processed[p] + Tried(p) <= UpTo(log, position, p) + faults
        BY <1>0, <2>4 DEF ProcessedListed
      <3>2. /\ processed[p] + Tried(p) \in Nat /\ UpTo(log, position, p) \in Nat
            /\ UpTo(log, committed, p) \in Nat /\ faults \in Nat
            /\ UpTo(log, position, p) <= UpTo(log, committed, p) + 1
        BY <1>0, <1>2, <2>3
      <3> QED
        BY <3>1, <3>2
    <2> QED
      BY <1>0, <1>2, <2>1, <2>2, <2>4 DEF ProcessedListed, Right
  <1>7. CASE Receive
    <2>1. /\ loop = "up" /\ step = "receive" /\ position' = position + 1 /\ step' = "try"
          /\ position < Len(log) /\ current' = log[position + 1]
          /\ UNCHANGED <<log, committed, loop, processed, faults>>
      BY <1>7 DEF Receive, topicVars, listVars
    <2>2. \A p \in Payments :
              /\ Tried(p) = 0 /\ Tried(p)' = IF log[position + 1] = p THEN 1 ELSE 0
              /\ UpTo(log, position + 1, p) = UpTo(log, position, p) + Tried(p)'
      BY <1>0, <2>1, UpToNext DEF Tried
    <2>3. ASSUME NEW p \in Payments, Right(p)
          PROVE  processed[p] + Tried(p)' <= UpTo(log, position + 1, p) + faults
      <3>1. Tried(p)' \in Nat /\ processed[p] + Tried(p) <= UpTo(log, position, p) + faults
        BY <1>0, <2>2, <2>3 DEF ProcessedListed
      <3> QED
        BY <1>0, <1>2, <2>2, <3>1
    <2> QED
      BY <1>0, <1>2, <2>1, <2>3 DEF ProcessedListed, Right
  <1>8. CASE Settles
    <2>1. /\ step = "try" /\ step' = "commit" /\ loop = "up"
          /\ UNCHANGED <<log, committed, loop, position>>
      BY <1>3, <1>8, SettlesRequests
    <2>2. ASSUME NEW p \in Payments
          PROVE  /\ Right(p) => processed'[p] <= processed[p] + Tried(p)
                 /\ ~Right(p) => processed'[p] = 0
                 /\ processed'[p] \in Nat
      <3>0. processed[p] \in Nat /\ Tried(p) \in Nat
        BY <1>2
      <3>1. CASE ProcessPayment
        <4>1. /\ processed' = [processed EXCEPT ![current] = @ + 1]
              /\ current \notin Rejected /\ maxRetries > 0
          BY <1>0, <3>1 DEF ProcessPayment, PaymentsOK
        <4>2. Right(current) /\ current \in Payments
          BY <1>0, <2>1, <4>1 DEF Right, PaymentsOK
        <4> QED
          BY <1>0, <1>2, <2>1, <4>1, <4>2 DEF Tried, ProcessedListed
      <3>2. CASE DeadLetterSent \/ DeadLetterLost
        <4>1. processed' = processed
          BY <3>2 DEF DeadLetterSent, DeadLetterLost
        <4>2. ~Right(p) => processed[p] = 0
          BY <1>0 DEF ProcessedListed
        <4> QED
          BY <3>0, <4>1, <4>2
      <3> QED
        BY <1>8, <3>1, <3>2 DEF Settles
    <2>3. ASSUME NEW p \in Payments, Right(p)
          PROVE  processed'[p] + Tried(p)' <= UpTo(log, position, p) + faults'
      <3>1. /\ processed[p] + Tried(p) <= UpTo(log, position, p) + faults
            /\ processed'[p] <= processed[p] + Tried(p)
        BY <1>0, <2>2, <2>3 DEF ProcessedListed
      <3>2. Tried(p)' = 0
        BY <2>1 DEF Tried
      <3>3. /\ processed[p] \in Nat /\ processed'[p] \in Nat /\ Tried(p) \in Nat
            /\ UpTo(log, position, p) \in Nat
        BY <1>2, <2>2
      <3> QED
        BY <1>0, <3>1, <3>2, <3>3
    <2> QED
      BY <1>0, <1>2, <2>1, <2>2, <2>3 DEF ProcessedListed, Right
  <1>9. CASE Commit \/ PaymentsFail
    <2>1. /\ step # "try" /\ step' = "receive"
          /\ committed' = committed \/ (step = "commit" /\ committed' = request)
          /\ loop' = loop \/ loop' = "deaf"
          /\ UNCHANGED <<log, position, processed>>
      BY <1>9 DEF Commit, PaymentsFail, topicVars, listVars
    <2>2. step = "commit" => request <= Len(log)
      <3>1. ASSUME step = "commit", request # committed PROVE request \in DOMAIN log
        <4>1. request \in 1..request /\ Behind(request)
          BY <1>0, <3>1 DEF IInv, Reached
        <4> QED
          BY <4>1 DEF Behind
      <3> QED
        BY <1>0, <1>2, <3>1
    <2>3. ASSUME NEW p \in Payments, Right(p)
          PROVE  processed[p] + Tried(p)' <= UpTo(log, position, p) + faults'
      <3>1. Tried(p)' = 0 /\ processed[p] + Tried(p) <= UpTo(log, position, p) + faults
        BY <1>0, <2>1, <2>3 DEF Tried, ProcessedListed
      <3>2. processed[p] \in Nat /\ Tried(p) \in Nat /\ UpTo(log, position, p) \in Nat
        BY <1>2
      <3> QED
        BY <1>0, <3>1, <3>2
    <2> QED
      BY <1>0, <1>2, <2>1, <2>2, <2>3 DEF ProcessedListed, Right
  <1>10. CASE Stop
    <2>1. /\ loop' = "down" /\ position' = 0 /\ step' = "receive" /\ processed' = NoneListed
          /\ UNCHANGED <<log, committed>>
      BY <1>10 DEF Stop, topicVars
    <2>2. \A p \in Payments : UpTo(log, 0, p) \in Nat /\ Tried(p)' = 0
      BY <2>1, UpToNext DEF Tried
    <2> QED
      BY <1>0, <1>2, <2>1, <2>2 DEF ProcessedListed, Right, NoneListed
  <1>11. CASE Start
    <2>1. /\ loop = "down" /\ loop' = "starting"
          /\ UNCHANGED <<log, committed, position, step, current, processed>>
      BY <1>11 DEF Start, topicVars, listVars
    <2>2. \A p \in Payments : Tried(p)' = 0 /\ processed[p] = 0
      BY <1>0, <1>3, <2>1 DEF Tried, ProcessedListed
    <2> QED
      BY <1>0, <1>2, <2>1, <2>2 DEF ProcessedListed, Right
  <1> QED
    BY <1>4, <1>5, <1>6, <1>7, <1>8, <1>9, <1>10, <1>11
       DEF Next, PaymentsStep, DlqStep, Elsewhere, Settles

\* Products of natural numbers grow with their factors.
LEMMA ProductGrows ==
  ASSUME NEW f \in Nat, NEW g \in Nat, f <= g, NEW c \in Nat, NEW d \in Nat, c <= d
  PROVE  f * c \in Nat /\ g * d \in Nat /\ f * c <= g * d
  <1>1. f * c \in Nat /\ g * d \in Nat /\ f * d \in Nat
    OBVIOUS
  <1>2. f * c <= f * d
    OBVIOUS
  <1>3. f * d <= g * d
    OBVIOUS
  <1> QED
    BY <1>1, <1>2, <1>3

\* A topic never holds a payment less often than before.
LEMMA CopiesGrow ==
  ASSUME NEW topic \in Seq(Payments), NEW later \in Seq(Payments), NEW p,
         later = topic \/ \E q \in Payments : later = Append(topic, q)
  PROVE  /\ Copies(topic, p) \in Nat /\ Copies(later, p) \in Nat
         /\ Copies(topic, p) <= Copies(later, p)
  <1>1. Len(topic) \in Nat /\ Len(topic) <= Len(topic)
    OBVIOUS
  <1>2. Copies(topic, p) = UpTo(topic, Len(topic), p)
    <2>1. DOMAIN topic = 1..Len(topic)
      OBVIOUS
    <2> QED
      BY <2>1 DEF Copies, UpTo
  <1>3. Len(topic) <= Len(later) /\ UpTo(later, Len(topic), p) = UpTo(topic, Len(topic), p)
    BY <1>1, UpToGrows
  <1>4. UpTo(later, Len(topic), p) <= Copies(later, p)
    BY <1>1, <1>3, UpToMonotone
  <1>5. Copies(topic, p) \in Nat /\ Copies(later, p) \in Nat
    BY <1>1, UpToMonotone
  <1> QED
    BY <1>2, <1>3, <1>4, <1>5

\* Each step lists a letter at most as often as it was taken, and once more for each fault
\* and each copy of it.
LEMMA StepFailed == IInv /\ [Next]_vars => FailedListed'
  <1> SUFFICES ASSUME IInv, [Next]_vars PROVE FailedListed'
    OBVIOUS
  <1>0. /\ TypeOK /\ FailedListed /\ LettersAreWrong
        /\ letters \in Seq(Payments) /\ letters' \in Seq(Payments)
        /\ failed \in [Payments -> Nat]
        /\ maxRetries \in Nat /\ maxRetries' = maxRetries
        /\ dlqPosition \in Nat /\ read \in Nat
        /\ faults \in Nat /\ faults' \in Nat /\ faults <= faults'
    BY ConstantsAssumption, StepRetries, StepTypes, FaultsGrow DEF IInv, TypeOK, DlqOK
  <1>1. \A n \in Nat, p \in Payments : n <= Len(letters) =>
            /\ n <= Len(letters')
            /\ UpTo(letters', n, p) = UpTo(letters, n, p) /\ UpTo(letters, n, p) \in Nat
    BY <1>0, StepTopics, UpToGrows
  <1>2. dlqPosition <= Len(letters) /\ \A p \in Payments : failed[p] \in Nat
    BY <1>0 DEF FailedListed
  <1> DEFINE Repeats(p) == faults * Copies(letters, p)
  <1>3. ASSUME NEW p \in Payments
        PROVE  Repeats(p) \in Nat /\ Repeats(p)' \in Nat /\ Repeats(p) <= Repeats(p)'
    <2>1. /\ Copies(letters, p) \in Nat /\ Copies(letters', p) \in Nat
          /\ Copies(letters, p) <= Copies(letters', p)
      BY <1>0, StepTopics, CopiesGrow
    <2> QED
      BY <1>0, <2>1, ProductGrows
  <1>4. \A p \in Payments :
            /\ ~Right(p) => failed[p] <= UpTo(letters, dlqPosition, p) + Repeats(p)
            /\ (Right(p) \/ dlqLoop \in {"starting", "down"}) => failed[p] = 0
    BY <1>0 DEF FailedListed
  <1>5. ASSUME read' <= Len(letters'), dlqPosition' <= Len(letters'),
               \A p \in Payments :
                   /\ ~Right(p) => failed'[p] <= UpTo(letters', dlqPosition', p) + Repeats(p)'
                   /\ (Right(p) \/ dlqLoop' \in {"starting", "down"}) => failed'[p] = 0
        PROVE  FailedListed'
    BY <1>0, <1>5 DEF FailedListed, Right
  <1>6. ASSUME UNCHANGED <<dlqPosition, failed>>, read' \in {read, dlqPosition},
               dlqLoop' \in {"starting", "down"} => dlqLoop \in {"starting", "down"}
        PROVE  FailedListed'
    <2>1. read' <= Len(letters') /\ dlqPosition' <= Len(letters')
      BY <1>0, <1>1, <1>2, <1>6 DEF FailedListed
    <2>2. ASSUME NEW p \in Payments
          PROVE  /\ ~Right(p) => failed'[p] <= UpTo(letters', dlqPosition', p) + Repeats(p)'
                 /\ (Right(p) \/ dlqLoop' \in {"starting", "down"}) => failed'[p] = 0
      <3>1. /\ UpTo(letters', dlqPosition', p) = UpTo(letters, dlqPosition, p)
            /\ UpTo(letters, dlqPosition, p) \in Nat
        BY <1>0, <1>1, <1>2, <1>6
      <3>2. Repeats(p) \in Nat /\ Repeats(p)' \in Nat /\ Repeats(p) <= Repeats(p)'
        BY <1>3
      <3> HIDE DEF Repeats
      <3> QED
        BY <1>2, <1>4, <1>6, <3>1, <3>2
    <2> QED
      BY <1>5, <2>1, <2>2
  <1>7. CASE (\E p \in Payments : CreatePayment(p)) \/ StoredTwice \/ UNCHANGED vars
    BY <1>6, <1>7 DEF CreatePayment, StoredTwice, vars, dlqVars, listVars
  <1>8. CASE PaymentsStep \/ DeadLetterLost \/ RejoinPayments \/ PaymentsFail
    <2>1. CASE Settles
      BY <1>6, <2>1, SettlesRequests DEF dlqVars
    <2>2. CASE StartPayments \/ RejoinPayments \/ Receive \/ AttemptFails \/ Commit
                   \/ PaymentsFail
      BY <1>6, <2>2
         DEF StartPayments, RejoinPayments, Receive, AttemptFails, Commit, PaymentsFail,
             dlqVars, listVars
    <2> QED
      BY <1>8, <2>1, <2>2 DEF PaymentsStep, Settles
  <1>9. CASE AutoCommit \/ DlqFails
    <2>1. /\ read' \in {read, dlqPosition} /\ dlqLoop' \in {dlqLoop, "deaf"}
          /\ UNCHANGED <<dlqPosition, failed>>
      BY <1>9 DEF AutoCommit, DlqFails, listVars
    <2> QED
      BY <1>6, <2>1
  <1>10. CASE StartDlq
    <2>1. /\ dlqLoop = "starting" /\ dlqLoop' = "up" /\ dlqPosition' = read
          /\ UNCHANGED <<letters, read, failed>>
      BY <1>10 DEF StartDlq, topicVars, listVars
    <2>2. read <= Len(letters) /\ \A p \in Payments : UpTo(letters, read, p) \in Nat
      BY <1>0, <1>1 DEF FailedListed
    <2>3. \A p \in Payments : failed[p] = 0 /\ Repeats(p)' \in Nat
      BY <1>3, <1>4, <2>1
    <2> HIDE DEF Repeats
    <2>4. \A p \in Payments :
              /\ failed'[p] <= UpTo(letters', dlqPosition', p) + Repeats(p)'
              /\ failed'[p] = 0
      BY <2>1, <2>2, <2>3
    <2> QED
      BY <1>5, <2>1, <2>2, <2>4
  <1>11. CASE RejoinDlq
    <2>1. /\ dlqLoop = "up" /\ dlqPosition' = read /\ faults' = faults + 1
          /\ UNCHANGED <<letters, read, failed, dlqLoop>>
      BY <1>11 DEF RejoinDlq, Fault, topicVars, listVars
    <2>2. read <= Len(letters)
      BY <1>0 DEF FailedListed
    <2>3. ASSUME NEW p \in Payments, ~Right(p)
          PROVE  failed[p] <= UpTo(letters, read, p) + Repeats(p)'
      <3>1. /\ UpTo(letters, dlqPosition, p) <= Copies(letters, p)
            /\ Copies(letters, p) \in Nat /\ UpTo(letters, read, p) \in Nat
            /\ UpTo(letters, dlqPosition, p) \in Nat
        BY <1>0, <1>1, <1>2, <2>2, UpToMonotone
      <3>2. Repeats(p)' = Repeats(p) + Copies(letters, p)
        BY <1>0, <2>1, <3>1
      <3>3. Repeats(p) \in Nat /\ failed[p] <= UpTo(letters, dlqPosition, p) + Repeats(p)
        BY <1>3, <1>4, <2>3
      <3> HIDE DEF Repeats
      <3> QED
        BY <1>2, <3>1, <3>2, <3>3
    <2> HIDE DEF Repeats
    <2> QED
      BY <1>4, <1>5, <2>1, <2>2, <2>3
  <1>12. CASE ListLetter
    <2> DEFINE q == letters[dlqPosition + 1]
    <2>1. /\ dlqLoop = "up" /\ dlqPosition < Len(letters) /\ dlqPosition' = dlqPosition + 1
          /\ failed' = [failed EXCEPT ![q] = @ + 1]
          /\ UNCHANGED <<letters, read, dlqLoop, faults>>
      BY <1>12 DEF ListLetter, topicVars
    <2>2. dlqPosition + 1 \in DOMAIN letters /\ q \in Payments /\ ~Right(q)
      BY <1>0, <2>1 DEF LettersAreWrong
    <2>3. ASSUME NEW p \in Payments
          PROVE  /\ ~Right(p) => failed'[p] <= UpTo(letters, dlqPosition + 1, p) + Repeats(p)
                 /\ Right(p) => failed'[p] = 0
      <3>1. failed'[p] = IF p = q THEN failed[p] + 1 ELSE failed[p]
        BY <1>0, <2>1
      <3>2. /\ UpTo(letters, dlqPosition, p) \in Nat
            /\ UpTo(letters, dlqPosition + 1, p)
                   = UpTo(letters, dlqPosition, p) + (IF q = p THEN 1 ELSE 0)
        BY <1>0, UpToNext
      <3>3. Right(p) => failed[p] = 0 /\ p # q
        BY <1>4, <2>2
      <3>4. ~Right(p) => failed[p] <= UpTo(letters, dlqPosition, p) + Repeats(p)
        BY <1>4
      <3>5. Repeats(p) \in Nat
        BY <1>3
      <3> HIDE DEF q, Repeats
      <3> QED
        BY <1>2, <3>1, <3>2, <3>3, <3>4, <3>5
    <2>4. \A p \in Payments : Repeats(p)' = Repeats(p)
      BY <2>1
    <2>5. read' <= Len(letters') /\ dlqPosition' <= Len(letters')
      BY <1>0, <2>1 DEF FailedListed
    <2> HIDE DEF q, Repeats
    <2> QED
      BY <1>5, <2>1, <2>3, <2>4, <2>5
  <1>13. CASE Stop
    <2>1. /\ dlqLoop' = "down" /\ dlqPosition' = 0 /\ failed' = NoneListed
          /\ read' \in {read, dlqPosition} /\ letters' = letters
      BY <1>13 DEF Stop, topicVars
    <2>2. \A p \in Payments : UpTo(letters, 0, p) \in Nat /\ Repeats(p)' \in Nat
      BY <1>3, UpToNext
    <2>3. read' <= Len(letters') /\ dlqPosition' <= Len(letters')
      BY <1>0, <1>2, <2>1 DEF FailedListed
    <2> HIDE DEF Repeats
    <2>4. \A p \in Payments : failed'[p] = 0 /\ failed'[p] <= UpTo(letters', dlqPosition', p) + Repeats(p)'
      BY <2>1, <2>2 DEF NoneListed
    <2> QED
      BY <1>5, <2>3, <2>4
  <1>14. CASE Start
    <2>1. /\ dlqLoop = "down" /\ dlqLoop' = "starting" /\ UNCHANGED <<read, dlqPosition, failed>>
      BY <1>14 DEF Start, listVars, IInv, DownTogether
    <2> QED
      BY <1>6, <2>1
  <1> QED
    BY <1>7, <1>8, <1>9, <1>10, <1>11, <1>12, <1>13, <1>14 DEF Next, DlqStep

\* Each step keeps the tasks with their process.
LEMMA StepDown == IInv /\ [Next]_vars => DownTogether'
  <1> SUFFICES ASSUME IInv, [Next]_vars PROVE DownTogether'
    OBVIOUS
  <1>0. DownTogether /\ PaymentsOK
    BY DEF IInv, TypeOK
  <1>1. CASE (\E p \in Payments : CreatePayment(p)) \/ StoredTwice \/ UNCHANGED vars
    BY <1>0, <1>1 DEF CreatePayment, StoredTwice, vars, dlqVars, payVars, DownTogether
  <1>2. CASE Settles
    BY <1>0, <1>2, SettlesRequests DEF dlqVars, DownTogether
  <1>3. CASE StartPayments \/ RejoinPayments \/ Receive \/ AttemptFails \/ Commit \/ PaymentsFail
    BY <1>0, <1>3
       DEF StartPayments, RejoinPayments, Receive, AttemptFails, Commit, PaymentsFail,
           PaymentsOK, dlqVars, DownTogether
  <1>4. CASE DlqStep \/ AutoCommit \/ RejoinDlq \/ DlqFails
    BY <1>0, <1>4
       DEF DlqStep, StartDlq, ListLetter, AutoCommit, RejoinDlq, DlqFails, payVars, DownTogether
  <1>5. CASE Stop \/ Start
    BY <1>5 DEF Stop, Start, DownTogether
  <1> QED
    BY <1>1, <1>2, <1>3, <1>4, <1>5 DEF Next, PaymentsStep, Settles

-----------------------------------------------------------------------------

LEMMA StepIInv == IInv /\ [Next]_vars => IInv'
  BY StepTypes, StepReached, StepCounted, StepLetters, StepProcessed, StepFailed, StepDown
     DEF IInv

\* IInv holds in every reachable state.
THEOREM Invariance == Spec => []IInv
  BY InitIInv, StepIInv, PTL DEF Spec

\* The variables stay in their domains, and only a running loop holds a payment.
THEOREM TypeCorrect == Spec => []TypeOK
  BY Invariance, PTL DEF IInv

\* No payment is committed without having been processed, stored on the dead letter
\* topic, or given up by send_to_dlq, whatever MAX_RETRIES is and wherever the process
\* or a commit fails.
THEOREM CommittedAccounted == Spec => []CommittedIsAccounted
  <1>1. IInv => CommittedIsAccounted
    BY DEF IInv, Reached, Behind, CommittedIsAccounted
  <1> QED
    BY <1>1, Invariance, PTL

\* Outcomes and committed offset differ by the number of assignments at most.
THEOREM OutcomesFollow == Spec => []OutcomesFollowOffsets
  <1>1. IInv => OutcomesFollowOffsets
    BY DEF IInv, Counted, OutcomesFollowOffsets
  <1> QED
    BY <1>1, Invariance, PTL

\* No life lists a payment on the wrong side, or more often than its topic holds it without
\* a fault that accounts for it.
THEOREM ListsRight == Spec => []ListsAreRight
  <1>1. ASSUME IInv PROVE ListsAreRight
    <2>0. /\ log \in Seq(Payments) /\ letters \in Seq(Payments)
          /\ position \in Nat /\ position <= Len(log)
          /\ dlqPosition \in Nat /\ dlqPosition <= Len(letters)
          /\ faults \in Nat
      BY <1>1 DEF IInv, TypeOK, PaymentsOK, DlqOK, ProcessedListed, FailedListed
    <2>1. ASSUME NEW p \in Payments
          PROVE  /\ processed[p] <= IF Right(p) THEN Copies(log, p) + faults ELSE 0
                 /\ failed[p] <= IF Right(p) THEN 0 ELSE Copies(letters, p) * (1 + faults)
      <3>1. /\ UpTo(log, position, p) <= Copies(log, p) /\ Copies(log, p) \in Nat
            /\ UpTo(letters, dlqPosition, p) <= Copies(letters, p)
            /\ Copies(letters, p) \in Nat
        BY <2>0, UpToMonotone
      <3>2. /\ processed[p] \in Nat /\ failed[p] \in Nat /\ Tried(p) \in {0, 1}
            /\ UpTo(log, position, p) \in Nat /\ UpTo(letters, dlqPosition, p) \in Nat
        BY <1>1, <2>0, UpToNext DEF IInv, TypeOK, Tried
      <3>3. /\ Right(p) => processed[p] + Tried(p) <= UpTo(log, position, p) + faults
            /\ ~Right(p) => processed[p] = 0
        BY <1>1 DEF IInv, ProcessedListed
      <3>4. /\ Right(p) => failed[p] = 0
            /\ ~Right(p) =>
                   failed[p] <= UpTo(letters, dlqPosition, p) + faults * Copies(letters, p)
        BY <1>1 DEF IInv, FailedListed
      <3>5. /\ faults * Copies(letters, p) \in Nat
            /\ Copies(letters, p) * (1 + faults) = Copies(letters, p) + faults * Copies(letters, p)
        BY <2>0, <3>1
      <3>6. failed[p] <= IF Right(p) THEN 0 ELSE Copies(letters, p) * (1 + faults)
        BY <3>1, <3>2, <3>4, <3>5
      <3> QED
        BY <2>0, <3>1, <3>2, <3>3, <3>6
    <2> QED
      BY <2>1 DEF ListsAreRight, Right
  <1> QED
    BY <1>1, Invariance, PTL

-----------------------------------------------------------------------------
(* What PaymentTriage sees of the two consumers                            *)

Fit == IF maxRetries > 0 THEN Payments \ Rejected ELSE {}
Shelf == {letters[i] : i \in DOMAIN letters}

\* The payment that is tried is the first that is not committed or the last that is, and a
\* letter on its way is for a payment that cannot be processed.
LEMMA TurnIsCurrent ==
  ASSUME IInv, step = "try"
  PROVE  /\ current \in Triage!Turns /\ current \in Payments
         /\ (attempt < maxRetries /\ current \notin Rejected) => current \in Fit
         /\ Exhausted => current \notin Fit
  <1>0. TypeOK /\ PaymentsOK /\ Reached /\ LettersAreWrong
    BY DEF IInv, TypeOK
  <1>1. current \in Payments
    BY <1>0 DEF PaymentsOK
  <1>2. current \in Triage!Turns
    BY <1>0 DEF Reached, Triage!Turns
  <1>3. maxRetries \in Nat /\ attempt \in Nat
    BY <1>0, ConstantsAssumption DEF TypeOK, PaymentsOK
  <1>4. Exhausted => current \notin Fit
    BY <1>0, <1>3 DEF Exhausted, LettersAreWrong, Fit
  <1>5. (attempt < maxRetries /\ current \notin Rejected) => current \in Fit
    BY <1>1, <1>3 DEF Fit
  <1> QED
    BY <1>1, <1>2, <1>4, <1>5

\* A letter more is a payment more on the shelf, unless it was there.
LEMMA ShelfGrows ==
  ASSUME NEW p \in Payments, letters \in Seq(Payments), letters' = Append(letters, p)
  PROVE  Shelf' = Shelf \cup {p}
  <1>1. ASSUME NEW q \in Shelf' PROVE q \in Shelf \cup {p}
    <2>1. PICK i \in DOMAIN letters' : q = letters'[i]
      BY DEF Shelf
    <2>2. i \in DOMAIN letters \/ i = Len(letters) + 1
      BY <2>1
    <2> QED
      BY <2>1, <2>2 DEF Shelf
  <1>2. ASSUME NEW q \in Shelf \cup {p} PROVE q \in Shelf'
    <2>1. CASE q = p
      <3>1. Len(letters) + 1 \in DOMAIN letters' /\ letters'[Len(letters) + 1] = p
        OBVIOUS
      <3> QED
        BY <2>1, <3>1 DEF Shelf
    <2>2. CASE q \in Shelf
      <3>1. PICK i \in DOMAIN letters : q = letters[i]
        BY <2>2 DEF Shelf
      <3>2. i \in DOMAIN letters' /\ letters'[i] = q
        BY <3>1
      <3> QED
        BY <3>2 DEF Shelf
    <2> QED
      BY <2>1, <2>2
  <1> QED
    BY <1>1, <1>2

\* A record that arrives is sent, another copy of a letter changes nothing.
LEMMA TopicsRefine ==
  ASSUME IInv, (\E p \in Payments : CreatePayment(p)) \/ StoredTwice
  PROVE  Triage!Next \/ UNCHANGED Triage!vars
  <1>0. letters \in Seq(Payments)
    BY DEF IInv, TypeOK
  <1>1. UNCHANGED <<maxRetries, committed, completed, lost, shown>>
    BY DEF CreatePayment, StoredTwice, payVars, historyVars
  <1>2. CASE \E p \in Payments : log' = Append(log, p) /\ letters' = letters
    <2>1. PICK p \in Payments : log' = Append(log, p) /\ letters' = letters
      BY <1>2
    <2>2. Triage!Send(p)
      BY <1>1, <2>1 DEF Triage!Send, Triage!outcomeVars
    <2> QED
      BY <2>2 DEF Triage!Next
  <1>3. CASE \E p \in Payments : Holds(letters, p) /\ letters' = Append(letters, p) /\ log' = log
    <2>1. PICK p \in Payments : Holds(letters, p) /\ letters' = Append(letters, p) /\ log' = log
      BY <1>3
    <2>2. Shelf' = Shelf
      BY <1>0, <2>1, ShelfGrows DEF Shelf, Holds
    <2> QED
      BY <1>1, <2>1, <2>2 DEF Triage!vars, Triage!outcomeVars, Shelf
  <1> QED
    BY <1>2, <1>3 DEF CreatePayment, StoredTwice

\* The three ends of a payment.
LEMMA OutcomeRefines ==
  ASSUME IInv, Settles
  PROVE  Triage!Next
  <1>0. letters \in Seq(Payments) /\ TypeOK
    BY DEF IInv, TypeOK
  <1>1. step = "try" /\ UNCHANGED <<maxRetries, log, committed, shown>>
    BY SettlesRequests
  <1>2. current \in Triage!Turns /\ current \in Payments
    BY <1>1, TurnIsCurrent
  <1>3. CASE ProcessPayment
    <2>1. /\ attempt < maxRetries /\ current \notin Rejected
          /\ completed' = completed \cup {current} /\ UNCHANGED <<letters, lost>>
      BY <1>3 DEF ProcessPayment
    <2>2. current \in Fit
      BY <1>1, <2>1, TurnIsCurrent
    <2>3. Triage!Process(current)
      BY <1>1, <1>2, <2>1, <2>2 DEF Triage!Process, Fit
    <2>4. \E p \in Payments : Triage!Process(p)
      BY <1>2, <2>3
    <2> QED
      BY <2>4 DEF Triage!Next
  <1>4. CASE DeadLetterSent
    <2>1. Exhausted /\ letters' = Append(letters, current) /\ UNCHANGED <<completed, lost>>
      BY <1>4 DEF DeadLetterSent
    <2>2. current \notin Fit
      BY <1>1, <2>1, TurnIsCurrent
    <2>3. Shelf' = Shelf \cup {current}
      BY <1>0, <1>2, <2>1, ShelfGrows
    <2>4. Triage!Shelve(current)
      BY <1>1, <1>2, <2>1, <2>2, <2>3 DEF Triage!Shelve, Fit, Shelf
    <2>5. \E p \in Payments : Triage!Shelve(p)
      BY <1>2, <2>4
    <2> QED
      BY <2>5 DEF Triage!Next
  <1>5. CASE DeadLetterLost
    <2>1. Exhausted /\ lost' = lost \cup {current} /\ UNCHANGED <<letters, completed>>
      BY <1>5 DEF DeadLetterLost
    <2>2. current \notin Fit
      BY <1>1, <2>1, TurnIsCurrent
    <2>3. Triage!Lose(current)
      BY <1>1, <1>2, <2>1, <2>2 DEF Triage!Lose, Fit
    <2>4. \E p \in Payments : Triage!Lose(p)
      BY <1>2, <2>3
    <2> QED
      BY <2>4 DEF Triage!Next
  <1> QED
    BY <1>3, <1>4, <1>5 DEF Settles

\* A commit, also one whose answer is lost or that a new assignment has overtaken, confirms
\* a payment that was settled, or nothing.
LEMMA CommitRefines ==
  ASSUME IInv, Commit \/ PaymentsFail
  PROVE  Triage!Next \/ UNCHANGED Triage!vars
  <1>0. TypeOK /\ Reached /\ committed \in Nat /\ request \in Nat
    BY DEF IInv, TypeOK, PaymentsOK
  <1>1. /\ UNCHANGED <<maxRetries, log, letters, completed, lost, shown>>
        /\ committed' = committed \/ (step = "commit" /\ committed' = request)
    BY DEF Commit, PaymentsFail, topicVars, historyVars
  <1>2. CASE committed' = committed
    BY <1>1, <1>2 DEF Triage!vars, Triage!outcomeVars
  <1>3. CASE step = "commit" /\ committed' = request /\ request # committed
    <2>1. request = committed + 1 /\ Behind(request)
      BY <1>0, <1>3 DEF Reached
    <2>2. request \in 1..request
      BY <1>0, <2>1
    <2>3. /\ request \in DOMAIN log
          /\ log[request] \in completed \cup lost \/ Holds(letters, log[request])
      BY <2>1, <2>2 DEF Behind
    <2>4. committed < Len(log)
      <3>1. log \in Seq(Payments)
        BY <1>0 DEF TypeOK
      <3> QED
        BY <1>0, <2>1, <2>3, <3>1
    <2>5. log[committed + 1] \in completed \cup Shelf \cup lost
      BY <2>1, <2>3 DEF Holds, Shelf
    <2>6. Triage!Confirm
      BY <1>1, <1>3, <2>1, <2>4, <2>5 DEF Triage!Confirm, Triage!outcomeVars, Shelf
    <2> QED
      BY <2>6 DEF Triage!Next
  <1> QED
    BY <1>1, <1>2, <1>3

\* A letter that is listed is seen.
LEMMA ListRefines == ASSUME IInv, ListLetter PROVE Triage!Next
  <1>0. letters \in Seq(Payments) /\ dlqPosition \in Nat
    BY DEF IInv, TypeOK, DlqOK
  <1> DEFINE p == letters[dlqPosition + 1]
  <1>1. /\ dlqPosition + 1 \in DOMAIN letters /\ shown' = shown \cup {p}
        /\ UNCHANGED <<maxRetries, log, letters, committed, completed, lost>>
    BY <1>0 DEF ListLetter, topicVars, payVars
  <1>2. p \in Payments /\ p \in Shelf
    BY <1>0, <1>1 DEF Shelf
  <1>3. Triage!Inspect(p)
    BY <1>1, <1>2 DEF Triage!Inspect, Triage!outcomeVars, Shelf
  <1> QED
    BY <1>2, <1>3 DEF Triage!Next

\* Attempts, positions, assignments, starts and stops are not seen.
Unseen ==
    \/ StartPayments \/ RejoinPayments \/ Receive \/ AttemptFails
    \/ StartDlq \/ AutoCommit \/ RejoinDlq \/ DlqFails \/ Stop \/ Start
    \/ UNCHANGED vars

LEMMA QuietRefines == Unseen => UNCHANGED Triage!vars
  <1> SUFFICES ASSUME Unseen PROVE UNCHANGED Triage!vars
    OBVIOUS
  <1>1. UNCHANGED <<maxRetries, log, letters, committed, completed, lost, shown>>
    BY DEF Unseen, StartPayments, RejoinPayments, Receive, AttemptFails, StartDlq, AutoCommit,
           RejoinDlq, DlqFails, Stop, Start, vars, topicVars, payVars, historyVars
  <1> QED
    BY <1>1 DEF Triage!vars, Triage!outcomeVars

LEMMA NextRefines == IInv /\ [Next]_vars => [Triage!Next]_(Triage!vars)
  <1> SUFFICES ASSUME IInv, [Next]_vars PROVE Triage!Next \/ UNCHANGED Triage!vars
    OBVIOUS
  <1>1. CASE (\E p \in Payments : CreatePayment(p)) \/ StoredTwice
    BY <1>1, TopicsRefine
  <1>2. CASE Settles
    BY <1>2, OutcomeRefines
  <1>3. CASE Commit \/ PaymentsFail
    BY <1>3, CommitRefines
  <1>4. CASE ListLetter
    BY <1>4, ListRefines
  <1>5. CASE Unseen
    BY <1>5, QuietRefines
  <1> QED
    BY <1>1, <1>2, <1>3, <1>4, <1>5 DEF Next, PaymentsStep, DlqStep, Settles, Unseen

\* Both consumers together, with attempts, lost letters, commits that fail, sessions that
\* expire and processes that end anywhere, settle and confirm the payments of the topic one
\* by one.
THEOREM TriageImplemented == Spec => ImplementsTriage
  <1>1. Init => Triage!Init
    <2>1. ASSUME Init PROVE Shelf = {} /\ Fit \in SUBSET Payments
      BY <2>1 DEF Init, Shelf, Fit
    <2> QED
      BY <2>1 DEF Init, Triage!Init, Shelf, Fit
  <1>2. IInv /\ [Next]_vars => [Triage!Next]_(Triage!vars)
    BY NextRefines
  <1> QED
    BY <1>1, <1>2, Invariance, PTL DEF Spec, ImplementsTriage, Triage!Spec

=============================================================================
