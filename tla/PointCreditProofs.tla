-------------------------- MODULE PointCreditProofs --------------------------
(***************************************************************************)
(* Theorems about PointCredit for any keys and any bounds. The inductive   *)
(* invariant adds to TypeOK one conjunct for each question: how credits    *)
(* and expirations stand to each other (Balanced), how they do so in the   *)
(* first life (Matched), and what the offsets have passed (Reached).       *)
(***************************************************************************)
EXTENDS PointCredit, TLAPS

\* The event whose credit is in the balances and whose key is not in Redis yet.
Unmarked(k) == step = "mark" /\ current = k

\* Once the loop has met a credited event it lets it in again only if its key
\* has expired since; a loop that has ended lets nothing in.
Balanced ==
    \A k \in Keys :
        /\ credits[k] <= 1 + expired[k]
        /\ loop \in {"down", "starting"} => credits[k] = 0
        /\ (loop = "up" /\ k \notin keys /\ ~Unmarked(k)) => credits[k] <= expired[k]

\* In the first life every key in Redis is a credit of this life.
Matched ==
    lives = 1 =>
        /\ loop = "starting" =>
               \A k \in Keys : k \notin keys /\ credits[k] = 0 /\ expired[k] = 0
        /\ loop = "up" =>
               \A k \in Keys :
                   /\ Unmarked(k) => k \notin keys
                   /\ credits[k] = expired[k] + (IF k \in keys \/ Unmarked(k) THEN 1 ELSE 0)

\* The records below an offset are in the log and their events are credited.
Passed(n) == \A i \in 1..n : i \in DOMAIN log /\ log[i] \in earned

Reached ==
    /\ keys \subseteq earned
    /\ Passed(committed)
    /\ loop = "up" => Passed(position)
    /\ step # "receive" => current \in earned
    /\ step = "commit" => Passed(request)

IInv == TypeOK /\ lives >= 1 /\ Balanced /\ Matched /\ Reached

-----------------------------------------------------------------------------
(* Types                                                                   *)

LEMMA InitIInv == Init => IInv
  BY ConstantsAssumption
     DEF Init, IInv, TypeOK, TaskOK, Balanced, Matched, Unmarked, Reached, Passed

\* The first unread record carries a key.
LEMMA HeadIsKey ==
  ASSUME TypeOK, Ready
  PROVE  Head1 \in Keys /\ position + 1 \in DOMAIN log
  BY DEF TypeOK, TaskOK, Ready, Head1

\* A send appends one key and leaves the rest of the log alone.
LEMMA SendKeepsLog ==
  ASSUME TypeOK, NEW k \in Keys, SendPointEvent(k)
  PROVE  /\ log' \in Seq(Keys)
         /\ \A i \in DOMAIN log : i \in DOMAIN log' /\ log'[i] = log[i]
  BY DEF TypeOK, SendPointEvent

\* Each step keeps the types and the count of lives.
LEMMA StepTypes == IInv /\ [Next]_vars => TypeOK' /\ lives' >= 1
  <1> SUFFICES ASSUME IInv, [Next]_vars PROVE TypeOK' /\ lives' >= 1
    OBVIOUS
  <1>0. TypeOK /\ lives >= 1 /\ lives \in Nat /\ faults \in Nat
    BY DEF IInv, TypeOK
  <1>1. ASSUME NEW k \in Keys, Post(k) \/ DuplicateTest(k) \/ SecondSend(k)
        PROVE  TypeOK' /\ lives' >= 1
    <2>1. SendPointEvent(k) /\ second' \subseteq Keys
      BY <1>0, <1>1 DEF Post, DuplicateTest, SecondSend, TypeOK
    <2>2. log' \in Seq(Keys)
      BY <1>0, <2>1, SendKeepsLog
    <2> QED
      BY <1>0, <2>1, <2>2 DEF SendPointEvent, TypeOK, TaskOK, taskVars, historyVars
  <1>2. ASSUME NEW k \in Keys, Expire(k) PROVE TypeOK' /\ lives' >= 1
    BY <1>0, <1>2 DEF Expire, Fault, TypeOK, TaskOK, taskVars
  <1>3. CASE StartConsumer \/ Rejoin \/ MarkProcessed \/ Commit
    BY <1>0, <1>3
       DEF StartConsumer, Rejoin, Fault, MarkProcessed, Commit, TypeOK, TaskOK, historyVars
  <1>4. CASE SkipDuplicate \/ Credit
    <2>1. Ready /\ Head1 \in Keys
      BY <1>0, <1>4, HeadIsKey DEF SkipDuplicate, Credit
    <2>2. position \in Nat /\ loop = "up"
      BY <1>0, <2>1 DEF TypeOK, TaskOK, Ready
    <2> QED
      BY <1>0, <1>4, <2>1, <2>2 DEF SkipDuplicate, Credit, TypeOK, TaskOK, historyVars
  <1>5. CASE StartConsumerFails \/ CheckFails \/ MarkFails \/ CommitFails
    BY <1>0, <1>5
       DEF StartConsumerFails, CheckFails, MarkFails, CommitFails, EndLoop, Fault,
           TypeOK, TaskOK
  <1>6. CASE Stop \/ Start
    BY <1>0, <1>6 DEF Stop, Start, TypeOK, TaskOK, historyVars
  <1>7. CASE UNCHANGED vars
    BY <1>0, <1>7 DEF vars, taskVars, historyVars, TypeOK, TaskOK
  <1> QED
    BY <1>1, <1>2, <1>3, <1>4, <1>5, <1>6, <1>7 DEF Next, Work

-----------------------------------------------------------------------------
(* Credits, keys and expirations                                           *)

Accounts == <<keys, credits, expired>>

\* Steps that touch neither an account nor the loop, nor an event before its mark.
LEMMA QuietBalance ==
  ASSUME Balanced, Matched, UNCHANGED <<Accounts, loop, lives>>,
         \A k \in Keys : Unmarked(k)' <=> Unmarked(k)
  PROVE  Balanced' /\ Matched'
  BY DEF Balanced, Matched, Accounts

\* The loop ends: whatever became of the SET, nothing is credited any more.
LEMMA EndBalance ==
  ASSUME Balanced, loop' = "deaf", UNCHANGED <<credits, expired>>
  PROVE  Balanced' /\ Matched'
  BY DEF Balanced, Matched

\* A credit of a new event, or its mark.
LEMMA HandleBalance ==
  ASSUME TypeOK, Balanced, Matched, Credit \/ MarkProcessed
  PROVE  Balanced' /\ Matched'
  <1>0. \A k \in Keys : credits[k] \in Nat /\ expired[k] \in Nat
    BY DEF TypeOK
  <1>1. CASE Credit
    <2>1. /\ Head1 \in Keys /\ Head1 \notin keys /\ loop = "up" /\ step = "receive"
          /\ UNCHANGED <<keys, expired, loop, lives>>
      BY <1>1, HeadIsKey DEF Credit, IsProcessed, Ready, historyVars
    <2>2. \A k \in Keys : ~Unmarked(k) /\ (Unmarked(k)' <=> k = Head1)
      BY <1>1, <2>1 DEF Credit, Unmarked
    <2>3. \A k \in Keys : credits'[k] = IF k = Head1 THEN credits[k] + 1 ELSE credits[k]
      BY <1>1 DEF Credit, TypeOK
    <2> QED
      BY <1>0, <2>1, <2>2, <2>3 DEF Balanced, Matched
  <1>2. CASE MarkProcessed
    <2>1. /\ loop = "up" /\ keys' = keys \cup {current}
          /\ UNCHANGED <<credits, expired, loop, lives>>
      BY <1>2 DEF MarkProcessed, TypeOK, TaskOK, historyVars
    <2>2. \A k \in Keys : ~Unmarked(k)' /\ (Unmarked(k) <=> k = current)
      BY <1>2 DEF MarkProcessed, Unmarked
    <2> QED
      BY <1>0, <2>1, <2>2 DEF Balanced, Matched
  <1> QED
    BY <1>1, <1>2

\* Each step keeps the accounts.
LEMMA StepBalance == IInv /\ [Next]_vars => Balanced' /\ Matched'
  <1> SUFFICES ASSUME IInv, [Next]_vars PROVE Balanced' /\ Matched'
    OBVIOUS
  <1>0. TypeOK /\ Balanced /\ Matched /\ lives >= 1 /\ lives \in Nat
    BY DEF IInv, TypeOK
  <1>1. CASE \E k \in Keys : Post(k) \/ DuplicateTest(k) \/ SecondSend(k)
    BY <1>0, <1>1, QuietBalance
       DEF Post, DuplicateTest, SecondSend, SendPointEvent, taskVars, historyVars,
           Accounts, Unmarked
  <1>2. CASE SkipDuplicate \/ Commit \/ Rejoin
    BY <1>0, <1>2, QuietBalance
       DEF SkipDuplicate, Commit, Rejoin, Ready, historyVars, Accounts, Unmarked
  <1>3. CASE Credit \/ MarkProcessed
    BY <1>0, <1>3, HandleBalance
  <1>4. CASE StartConsumerFails \/ CheckFails \/ MarkFails \/ CommitFails
    BY <1>0, <1>4, EndBalance
       DEF StartConsumerFails, CheckFails, MarkFails, CommitFails, EndLoop
  <1>5. ASSUME NEW x \in Keys, Expire(x) PROVE Balanced' /\ Matched'
    <2>1. /\ keys' = keys \ {x} /\ x \in keys /\ UNCHANGED <<credits, loop, lives>>
          /\ \A k \in Keys : Unmarked(k)' <=> Unmarked(k)
      BY <1>5 DEF Expire, taskVars, Unmarked
    <2>2. \A k \in Keys : /\ credits[k] \in Nat /\ expired[k] \in Nat
                          /\ expired'[k] = IF k = x THEN expired[k] + 1 ELSE expired[k]
      BY <1>0, <1>5 DEF Expire, TypeOK
    <2> QED
      BY <1>0, <2>1, <2>2 DEF Balanced, Matched
  <1>6. CASE StartConsumer
    <2>1. loop = "starting" /\ loop' = "up" /\ step = "receive" /\ step' = "receive"
          /\ UNCHANGED <<keys, credits, expired, lives>>
      BY <1>0, <1>6 DEF StartConsumer, TypeOK, TaskOK, historyVars
    <2>2. \A k \in Keys : expired[k] \in Nat
      BY <1>0 DEF TypeOK
    <2> QED
      BY <1>0, <2>1, <2>2 DEF Balanced, Matched, Unmarked
  <1>7. CASE Stop
    BY <1>0, <1>7 DEF Stop, Balanced, Matched, historyVars
  <1>8. CASE Start
    BY <1>0, <1>8 DEF Start, Balanced, Matched
  <1>9. CASE UNCHANGED vars
    BY <1>0, <1>9, QuietBalance DEF vars, taskVars, historyVars, Accounts, Unmarked
  <1> QED
    BY <1>1, <1>2, <1>3, <1>4, <1>5, <1>6, <1>7, <1>8, <1>9 DEF Next, Work

-----------------------------------------------------------------------------
(* Offsets                                                                 *)

\* What is passed stays passed: the log and the credited events only grow.
LEMMA PassedStays ==
  ASSUME NEW n, Passed(n), earned \subseteq earned',
         \A i \in DOMAIN log : i \in DOMAIN log' /\ log'[i] = log[i]
  PROVE  \A i \in 1..n : i \in DOMAIN log' /\ log'[i] \in earned'
  BY DEF Passed

\* Each step keeps the offsets behind the credits.
LEMMA StepReached == IInv /\ [Next]_vars => Reached'
  <1> SUFFICES ASSUME IInv, [Next]_vars PROVE Reached'
    OBVIOUS
  <1>0. TypeOK /\ Reached /\ position \in Nat /\ committed \in Nat
    BY DEF IInv, TypeOK, TaskOK
  <1>1. ASSUME NEW k \in Keys, SendPointEvent(k) PROVE Reached'
    <2>1. \A i \in DOMAIN log : i \in DOMAIN log' /\ log'[i] = log[i]
      BY <1>0, <1>1, SendKeepsLog
    <2>2. UNCHANGED <<committed, keys, loop, position, current, step, request, earned>>
      BY <1>1 DEF SendPointEvent, taskVars, historyVars
    <2> QED
      BY <1>0, <2>1, <2>2 DEF Reached, Passed
  <1>2. CASE SkipDuplicate \/ Credit
    <2>1. Ready /\ position + 1 \in DOMAIN log /\ position' = position + 1
      BY <1>0, <1>2, HeadIsKey DEF SkipDuplicate, Credit
    <2>2. /\ UNCHANGED <<log, committed, keys, loop>> /\ loop = "up"
          /\ earned \subseteq earned' /\ log[position + 1] \in earned'
          /\ current' = log[position + 1]
          /\ step' = "commit" => request' = position + 1
      BY <1>0, <1>2, <2>1
         DEF SkipDuplicate, Credit, IsProcessed, Ready, Head1, Reached, historyVars
    <2>3. \A i \in 1..(position + 1) : i \in 1..position \/ i = position + 1
      BY <1>0
    <2> QED
      BY <1>0, <2>1, <2>2, <2>3 DEF Reached, Passed
  <1>3. CASE StartConsumer \/ Rejoin \/ Commit
    BY <1>0, <1>3
       DEF StartConsumer, Rejoin, Commit, Reached, Passed, TypeOK, TaskOK, historyVars
  <1>4. CASE MarkProcessed \/ MarkFails
    <2>1. current \in earned /\ loop = "up"
      BY <1>0, <1>4 DEF MarkProcessed, MarkFails, Reached, TypeOK, TaskOK
    <2> QED
      BY <1>0, <1>4, <2>1
         DEF MarkProcessed, MarkFails, EndLoop, Reached, Passed, historyVars
  <1>5. CASE StartConsumerFails \/ CheckFails \/ CommitFails
    BY <1>0, <1>5
       DEF StartConsumerFails, CheckFails, CommitFails, EndLoop, Reached, Passed,
           TypeOK, TaskOK
  <1>6. CASE Stop \/ Start
    BY <1>0, <1>6 DEF Stop, Start, Reached, Passed, historyVars
  <1>7. CASE \E k \in Keys : Expire(k)
    BY <1>0, <1>7 DEF Expire, Reached, Passed, taskVars
  <1>8. CASE UNCHANGED vars
    BY <1>0, <1>8 DEF vars, taskVars, historyVars, Reached, Passed
  <1> QED
    BY <1>1, <1>2, <1>3, <1>4, <1>5, <1>6, <1>7, <1>8
       DEF Next, Work, Post, DuplicateTest, SecondSend

-----------------------------------------------------------------------------

LEMMA StepIInv == IInv /\ [Next]_vars => IInv'
  BY StepTypes, StepBalance, StepReached DEF IInv

\* IInv holds in every reachable state.
THEOREM Invariance == Spec => []IInv
  BY InitIInv, StepIInv, PTL DEF Spec

\* The variables of the broker, of Redis and of the consumer task stay in their
\* domains, and only a running loop holds a message.
THEOREM TypeCorrect == Spec => []TypeOK
  BY Invariance, PTL DEF IInv

\* The balances of one life hold an event at most once, and once more for each
\* expiration of its key: however many copies the topic has, and wherever
\* is_processed, mark_processed or commit fails.
THEOREM CreditedOnce == Spec => []CreditedOncePerKey
  <1>1. IInv => CreditedOncePerKey
    BY DEF IInv, Balanced, CreditedOncePerKey
  <1> QED
    BY <1>1, Invariance, PTL

\* Until the process restarts, the keys in Redis and the balances agree between
\* two messages.
THEOREM BalancesAgree == Spec => []BalancesMatchKeys
  <1>1. IInv => BalancesMatchKeys
    BY DEF IInv, Matched, BalancesMatchKeys, Unmarked
  <1> QED
    BY <1>1, Invariance, PTL

\* No offset is committed past an event that was never credited.
THEOREM CommittedCredited == Spec => []CommittedIsCredited
  <1>1. IInv => CommittedIsCredited
    BY DEF IInv, Reached, Passed, CommittedIsCredited
  <1> QED
    BY <1>1, Invariance, PTL

-----------------------------------------------------------------------------
(* The receiver that knows what it credits                                 *)

\* A key is not in Redis before its mark. The loop commits after each record, so
\* position and committed offset stay within one record of each other, whichever
\* of them a rejoin during the message has left behind, and a commit() asks for
\* the committed offset or the one after it.
Orderly ==
    /\ \A k \in Keys : Unmarked(k) => k \notin keys
    /\ loop = "up" =>
         /\ step = "receive" => committed - 1 <= position /\ position <= committed
         /\ step = "mark" => committed <= position /\ position <= committed + 1
         /\ step = "commit" => /\ committed <= position /\ position <= request
                              /\ committed <= request /\ request <= committed + 1

LEMMA StepOrderly == IInv /\ Orderly /\ [Next]_vars => Orderly'
  <1> SUFFICES ASSUME IInv, Orderly, [Next]_vars PROVE Orderly'
    OBVIOUS
  <1>0. TypeOK /\ TaskOK /\ position \in Nat /\ committed \in Nat /\ request \in Nat
    BY DEF IInv, TypeOK, TaskOK
  <1>1. CASE \E k \in Keys : Post(k) \/ DuplicateTest(k) \/ SecondSend(k)
    BY <1>1 DEF Post, DuplicateTest, SecondSend, SendPointEvent, taskVars, Orderly, Unmarked
  <1>2. CASE SkipDuplicate \/ Credit
    BY <1>0, <1>2 DEF SkipDuplicate, Credit, Ready, IsProcessed, Orderly, Unmarked
  <1>3. CASE StartConsumer \/ Rejoin \/ MarkProcessed \/ Commit
    BY <1>0, <1>3 DEF StartConsumer, Rejoin, MarkProcessed, Commit, Orderly, Unmarked, TaskOK
  <1>4. CASE StartConsumerFails \/ CheckFails \/ MarkFails \/ CommitFails
    BY <1>4
       DEF StartConsumerFails, CheckFails, MarkFails, CommitFails, EndLoop, Orderly, Unmarked
  <1>5. CASE Stop \/ Start
    BY <1>0, <1>5 DEF Stop, Start, Orderly, Unmarked, TaskOK
  <1>6. CASE \E k \in Keys : Expire(k)
    BY <1>6 DEF Expire, taskVars, Orderly, Unmarked
  <1>7. CASE UNCHANGED vars
    BY <1>7 DEF vars, taskVars, Orderly, Unmarked
  <1> QED
    BY <1>1, <1>2, <1>3, <1>4, <1>5, <1>6, <1>7 DEF Next, Work

LEMMA OrderlyAlways == Spec => []Orderly
  <1>1. Init => Orderly
    BY DEF Init, Orderly, Unmarked
  <1> QED
    BY <1>1, StepOrderly, Invariance, PTL DEF Spec

\* What EffectivelyOnce sees of the service.
Sent == {log[i] : i \in DOMAIN log}
Known == keys \cup {k \in Keys : step = "mark" /\ current = k}
Phase ==
    CASE loop \in {"starting", "up"} -> "open"
      [] loop = "deaf" -> "closed"
      [] loop = "down" -> "ended"
Confirmed == {log[i] : i \in 1..committed}

LEMMA PhaseValues ==
  /\ loop \in {"starting", "up"} => Phase = "open"
  /\ loop = "deaf" => Phase = "closed"
  /\ loop = "down" => Phase = "ended"
  BY DEF Phase

\* An event is known before its mark and from then on.
LEMMA KnownValues ==
  ASSUME TypeOK
  PROVE  /\ step # "mark" => Known = keys
         /\ step = "mark" => current \in Keys /\ Known = keys \cup {current}
  BY DEF TypeOK, TaskOK, Known

LEMMA SendRefines ==
  ASSUME IInv, NEW k \in Keys, SendPointEvent(k) PROVE Receiver!Send(k)
  <1>1. TypeOK /\ Passed(committed)
    BY DEF IInv, Reached
  <1>2. /\ log \in Seq(Keys) /\ log' = Append(log, k)
        /\ UNCHANGED <<keys, loop, step, current, credits, expired, earned, committed>>
    BY <1>1 DEF SendPointEvent, taskVars, historyVars, TypeOK
  <1>3. /\ DOMAIN log' = DOMAIN log \cup {Len(log) + 1} /\ log'[Len(log) + 1] = k
        /\ \A i \in DOMAIN log : log'[i] = log[i]
    BY <1>2
  <1>4. Sent' = Sent \cup {k}
    BY <1>3 DEF Sent
  <1>5. Confirmed' = Confirmed
    BY <1>1, <1>2, <1>3 DEF Confirmed, Passed
  <1> QED
    BY <1>2, <1>4, <1>5 DEF Receiver!Send, Sent, Confirmed

LEMMA CreditRefines == ASSUME IInv, Credit PROVE \E k \in Keys : Receiver!Credit(k)
  <1>1. TypeOK /\ Ready /\ Head1 \in Keys /\ position + 1 \in DOMAIN log
    BY HeadIsKey DEF IInv, Credit
  <1>2. /\ Head1 \notin keys /\ step # "mark" /\ loop = "up"
        /\ current' = Head1 /\ step' = "mark"
        /\ credits' = [credits EXCEPT ![Head1] = @ + 1] /\ earned' = earned \cup {Head1}
        /\ UNCHANGED <<log, committed, keys, loop, expired>>
    BY <1>1 DEF Credit, IsProcessed, Ready
  <1>3. Head1 \in Sent
    BY <1>1 DEF Sent, Head1
  <1>4. Known = keys /\ Known' = keys \cup {Head1}
    BY <1>1, <1>2 DEF Known
  <1>5. Phase = "open"
    BY <1>2, PhaseValues
  <1>6. PICK k \in Keys : k = Head1
    BY <1>1
  <1>7. Receiver!Credit(k)
    BY <1>2, <1>3, <1>4, <1>5, <1>6 DEF Receiver!Credit, Sent, Known, Phase
  <1> QED
    BY <1>6, <1>7

LEMMA ForgetRefines ==
  ASSUME IInv, Orderly, NEW k \in Keys, Expire(k) PROVE Receiver!Forget(k)
  <1>1. /\ k \in keys /\ keys' = keys \ {k} /\ expired' = [expired EXCEPT ![k] = @ + 1]
        /\ UNCHANGED <<log, committed, loop, step, current, credits, earned>>
    BY DEF Expire, taskVars
  <1>2. k \in Known /\ Known' = Known \ {k}
    BY <1>1 DEF Known, Orderly, Unmarked
  <1> QED
    BY <1>1, <1>2 DEF Receiver!Forget, Known

\* Offsets confirm what was credited, and no event of an earlier offset is lost.
LEMMA Confirms ==
  ASSUME IInv, step = "commit", committed' = request, UNCHANGED <<log, earned>>, Orderly
  PROVE  Confirmed \subseteq Confirmed' /\ Confirmed' \subseteq earned
  <1> DEFINE n == request
  <1>1. committed \in Nat /\ n \in Nat /\ committed <= n
    BY DEF IInv, TypeOK, TaskOK, Orderly
  <1>2. 1..committed \subseteq 1..n /\ Passed(n)
    BY <1>1 DEF IInv, Reached
  <1> QED
    BY <1>2 DEF Confirmed, Passed

LEMMA CommitRefines == ASSUME IInv, Orderly, Commit PROVE Receiver!Confirm
  <1>1. /\ step = "commit" /\ loop = "up" /\ step' = "receive" /\ committed' = request
        /\ UNCHANGED <<log, keys, loop, credits, expired, earned>>
    BY DEF Commit, historyVars, IInv, TypeOK, TaskOK
  <1>2. Confirmed \subseteq Confirmed' /\ Confirmed' \subseteq earned
    BY <1>1, Confirms
  <1>3. Known' = Known
    BY <1>1 DEF Known
  <1>4. Phase = "open"
    BY <1>1, PhaseValues
  <1> QED
    BY <1>1, <1>2, <1>3, <1>4
       DEF Receiver!Confirm, Receiver!Confirmation, Confirmed, Known, Phase

\* Whichever call fails, the receiver closes; it may have forgotten the event at hand.
LEMMA FailureRefines ==
  ASSUME IInv, Orderly, StartConsumerFails \/ CheckFails \/ MarkFails \/ CommitFails
  PROVE  Receiver!Close
  <1>0. TypeOK /\ TaskOK /\ (step # "receive" => current \in earned /\ current \in Keys)
    BY DEF IInv, Reached, TypeOK, TaskOK
  <1>1. /\ loop \in {"starting", "up"} /\ loop' = "deaf" /\ step' = "receive"
        /\ committed' = committed \/ (step = "commit" /\ committed' = request)
        /\ UNCHANGED <<log, credits, expired, earned>>
    BY <1>0
       DEF StartConsumerFails, CheckFails, MarkFails, CommitFails, EndLoop, Ready, TaskOK
  <1>2. Known' = Known \/ \E k \in earned : Known' = Known \ {k}
    <2>1. Known' = keys'
      BY <1>1 DEF Known
    <2>2. CASE step = "mark"
      <3>1. /\ Known = keys \cup {current} /\ current \notin keys /\ current \in earned
            /\ keys' \in {keys, keys \cup {current}}
        BY <1>0, <2>2, KnownValues
           DEF StartConsumerFails, CheckFails, MarkFails, CommitFails, Orderly, Unmarked, Ready
      <3>2. keys = Known \ {current}
        BY <3>1
      <3> QED
        BY <2>1, <3>1, <3>2
    <2>3. CASE step # "mark"
      BY <1>0, <2>1, <2>3, KnownValues
         DEF StartConsumerFails, CheckFails, MarkFails, CommitFails
    <2> QED
      BY <2>2, <2>3
  <1>3. Confirmed \subseteq Confirmed' /\ Confirmed' \subseteq earned
    <2>1. CASE committed' = committed
      BY <1>1, <2>1 DEF IInv, Reached, Passed, Confirmed
    <2>2. CASE step = "commit" /\ committed' = request
      BY <1>1, <2>2, Confirms
    <2> QED
      BY <1>1, <2>1, <2>2
  <1>4. Phase = "open" /\ Phase' = "closed"
    BY <1>1, PhaseValues DEF Phase
  <1> QED
    BY <1>1, <1>2, <1>3, <1>4
       DEF Receiver!Close, Receiver!Leaves, Receiver!Confirmation, Sent, Known, Phase,
           Confirmed

LEMMA StopRefines == ASSUME IInv, Orderly, Stop PROVE Receiver!End
  <1>0. TypeOK /\ TaskOK /\ (step = "mark" => current \in earned /\ current \in Keys)
    BY DEF IInv, Reached, TypeOK, TaskOK
  <1>1. /\ loop # "down" /\ loop' = "down" /\ step' = "receive"
        /\ credits' = [k \in Keys |-> 0] /\ expired' = [k \in Keys |-> 0]
        /\ UNCHANGED <<log, committed, keys, earned>>
    BY DEF Stop, historyVars
  <1>2. Known' = keys
    BY <1>1 DEF Known
  <1>3. CASE step = "mark"
    <2>1. Known = keys \cup {current} /\ current \notin keys
      BY <1>0, <1>3, KnownValues DEF Orderly, Unmarked
    <2>2. Known' = Known \ {current} /\ Phase = "open"
      BY <1>0, <1>2, <1>3, <2>1, PhaseValues DEF TaskOK
    <2> QED
      BY <1>0, <1>1, <1>3, <2>2, PhaseValues
         DEF Receiver!End, Receiver!Leaves, Receiver!Zero, Sent, Known, Phase, Confirmed
  <1>4. CASE step # "mark"
    <2>1. Known' = Known /\ Phase \in {"open", "closed"}
      BY <1>0, <1>1, <1>2, <1>4, KnownValues, PhaseValues DEF TaskOK
    <2> QED
      BY <1>1, <2>1
         DEF Receiver!End, Receiver!Leaves, Receiver!Zero, Sent, Known, Phase, Confirmed
  <1> QED
    BY <1>3, <1>4

LEMMA StartRefines == ASSUME IInv, Start PROVE Receiver!Reopen
  <1>1. /\ loop = "down" /\ loop' = "starting"
        /\ UNCHANGED <<log, committed, keys, step, current, credits, expired, earned>>
    BY DEF Start
  <1>2. Phase = "ended" /\ Phase' = "open"
    BY <1>1 DEF Phase
  <1> QED
    BY <1>1, <1>2 DEF Receiver!Reopen, Phase

\* The mark, the start of the loop, a rejoin and a skipped duplicate are not seen.
LEMMA QuietRefines ==
  ASSUME IInv, MarkProcessed \/ SkipDuplicate \/ StartConsumer \/ Rejoin \/ UNCHANGED vars
  PROVE  UNCHANGED Receiver!vars
  <1>0. TypeOK
    BY DEF IInv
  <1>1. /\ UNCHANGED <<log, committed, credits, expired, earned>>
        /\ loop' = loop \/ (loop = "starting" /\ loop' = "up")
    BY DEF MarkProcessed, SkipDuplicate, StartConsumer, Rejoin, vars, taskVars, historyVars
  <1>2. Known' = Known
    <2>1. CASE MarkProcessed
      BY <1>0, <2>1, KnownValues DEF MarkProcessed, Known
    <2>2. CASE SkipDuplicate \/ StartConsumer \/ Rejoin \/ UNCHANGED vars
      BY <1>0, <2>2 DEF SkipDuplicate, StartConsumer, Rejoin, Ready, vars, taskVars, Known
    <2> QED
      BY <2>1, <2>2
  <1>3. Phase' = Phase
    BY <1>1 DEF Phase
  <1> QED
    BY <1>1, <1>2, <1>3 DEF Receiver!vars, Known, Phase

LEMMA NextRefines == IInv /\ Orderly /\ [Next]_vars => [Receiver!Next]_(Receiver!vars)
  <1> SUFFICES ASSUME IInv, Orderly, [Next]_vars
               PROVE  Receiver!Next \/ UNCHANGED Receiver!vars
    OBVIOUS
  <1>1. ASSUME NEW k \in Keys, Post(k) \/ DuplicateTest(k) \/ SecondSend(k) \/ Expire(k)
        PROVE  Receiver!Next
    BY <1>1, SendRefines, ForgetRefines DEF Post, DuplicateTest, SecondSend, Receiver!Next
  <1>2. CASE Credit \/ Commit
    BY <1>2, CreditRefines, CommitRefines DEF Receiver!Next
  <1>3. CASE StartConsumerFails \/ CheckFails \/ MarkFails \/ CommitFails
    BY <1>3, FailureRefines DEF Receiver!Next
  <1>4. CASE Stop \/ Start
    BY <1>4, StopRefines, StartRefines DEF Receiver!Next
  <1>5. CASE MarkProcessed \/ SkipDuplicate \/ StartConsumer \/ Rejoin \/ UNCHANGED vars
    BY <1>5, QuietRefines
  <1> QED
    BY <1>1, <1>2, <1>3, <1>4, <1>5 DEF Next, Work

\* With its steps apart, and Redis, Kafka or the process failing between any two of
\* them, the consumer is a receiver that credits and knows an event in one step.
THEOREM EffectivelyOnceImplemented == Spec => ImplementsEffectivelyOnce
  <1>1. Init => Receiver!Init
    <2> SUFFICES ASSUME Init PROVE Receiver!Init
      OBVIOUS
    <2>1. /\ log = <<>> /\ committed = 0 /\ keys = {} /\ loop = "starting"
          /\ step = "receive" /\ earned = {}
          /\ credits = [k \in Keys |-> 0] /\ expired = [k \in Keys |-> 0]
      BY DEF Init
    <2>2. Sent = {} /\ Confirmed = {}
      BY <2>1 DEF Sent, Confirmed
    <2>3. Known = {} /\ Phase = "open"
      BY <2>1 DEF Known, Phase
    <2> QED
      BY <2>1, <2>2, <2>3
         DEF Receiver!Init, Receiver!Zero, Sent, Known, Phase, Confirmed
  <1>2. IInv /\ Orderly /\ [Next]_vars => [Receiver!Next]_(Receiver!vars)
    BY NextRefines
  <1> QED
    BY <1>1, <1>2, Invariance, OrderlyAlways, PTL
       DEF Spec, ImplementsEffectivelyOnce, Receiver!Spec

=============================================================================
