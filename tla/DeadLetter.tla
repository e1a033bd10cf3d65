----------------------------- MODULE DeadLetter -----------------------------
(***************************************************************************)
(* 07-error-handling-and-retry: one process that accepts payments, handles *)
(* them in a background task with retries and a manual commit, moves those *)
(* that keep failing to a dead letter topic, and lists that topic in a     *)
(* second task, which commits automatically.                               *)
(*                                                                         *)
(* A payment stands for its payment_id. Both topics have one partition.    *)
(***************************************************************************)
EXTENDS Integers, Sequences, FiniteSets

CONSTANTS
    Payments,     \* the payments clients may send
    Rejected,     \* those with amount 10, which process_payment always refuses
    RetryLimits,  \* the values of MAX_RETRIES to consider
    MaxFaults,    \* bound: failed calls, repeated records and expired sessions
    MaxLives,     \* bound: starts of the process
    None          \* "no payment"

ASSUME ConstantsAssumption ==
    /\ Rejected \subseteq Payments
    /\ RetryLimits \subseteq Nat
    /\ MaxFaults \in Nat /\ MaxLives \in Nat
    /\ None \notin Payments

VARIABLES
    maxRetries,  \* MAX_RETRIES of this deployment
    \* Kafka
    log,         \* topic payments
    committed,   \* committed offset of payments-group
    letters,     \* topic payments-dlq
    read,        \* committed offset of payments-dlq-group
    \* consume_payments
    loop,        \* "starting", "up", "deaf" (ended, the process lives), "down"
    position,    \* records taken, counted from the start of the topic
    current,     \* payment being handled, or None
    attempt,     \* attempts of retry_with_backoff that have failed
    step,        \* "receive", "try", "commit"
    request,     \* offset of the commit() under way, 0 without one
    \* consume_dlq
    dlqLoop,     \* as loop
    dlqPosition,
    \* the lists of this life
    processed,   \* processed_payments: how often each payment is in it
    failed,      \* failed_payments, likewise
    \* history
    outcomes,    \* payments handled to an end, counted with repeats
    sessions,    \* how often consume_payments was assigned its partition
    completed,   \* payments that processed_payments has held in some life
    shown,       \* payments that failed_payments has held in some life
    lost,        \* payments whose dead letter was not stored
    lives, faults

topicVars == <<log, letters>>
payVars == <<loop, position, current, attempt, step, request, committed>>
dlqVars == <<dlqLoop, dlqPosition, read>>
listVars == <<processed, failed>>
historyVars == <<outcomes, sessions, completed, shown, lost, lives>>
vars == <<maxRetries, topicVars, payVars, dlqVars, listVars, historyVars, faults>>

NoneListed == [p \in Payments |-> 0]

Init ==
    /\ maxRetries \in RetryLimits
    /\ log = <<>> /\ committed = 0 /\ letters = <<>> /\ read = 0
    /\ loop = "starting" /\ position = 0
    /\ current = None /\ attempt = 0 /\ step = "receive" /\ request = 0
    /\ dlqLoop = "starting" /\ dlqPosition = 0
    /\ processed = NoneListed /\ failed = NoneListed
    /\ outcomes = 0 /\ sessions = 0 /\ completed = {} /\ shown = {} /\ lost = {}
    /\ lives = 1 /\ faults = 0

Fault == faults < MaxFaults /\ faults' = faults + 1

Holds(topic, p) == \E i \in DOMAIN topic : topic[i] = p
Copies(topic, p) == Cardinality({i \in DOMAIN topic : topic[i] = p})

-----------------------------------------------------------------------------
(* POST /payments                                                          *)

\* The record is stored, whether or not the client hears 200. A send that is
\* not stored changes nothing.
CreatePayment(p) ==
    /\ loop # "down"
    /\ ~Holds(log, p)
    /\ log' = Append(log, p)
    /\ UNCHANGED <<maxRetries, letters, payVars, dlqVars, listVars, historyVars, faults>>

\* The producer is not idempotent: its own retry after a lost answer stores
\* the record again, on either topic.
StoredTwice ==
    /\ loop # "down"
    /\ Fault
    /\ \/ \E p \in Payments : Holds(log, p) /\ log' = Append(log, p) /\ UNCHANGED letters
       \/ \E p \in Payments : Holds(letters, p) /\ letters' = Append(letters, p) /\ UNCHANGED log
    /\ UNCHANGED <<maxRetries, payVars, dlqVars, listVars, historyVars>>

-----------------------------------------------------------------------------
(* consume_payments                                                        *)

\* consumer.start() is retried until it succeeds.
StartPayments ==
    /\ loop = "starting"
    /\ loop' = "up"
    /\ position' = committed
    /\ sessions' = sessions + 1
    /\ UNCHANGED <<maxRetries, topicVars, committed, current, attempt, step, request, dlqVars,
                   listVars, outcomes, completed, shown, lost, lives, faults>>

\* The session expires, during a backoff for instance, and aiokafka joins again in the
\* background: the position is the committed offset, and the handler goes on with its
\* payment. Neither it nor a commit() that waits for its answer hears of it.
RejoinPayments ==
    /\ loop = "up"
    /\ Fault
    /\ position' = committed
    /\ sessions' = sessions + 1
    /\ UNCHANGED <<maxRetries, topicVars, committed, loop, current, attempt, step, request,
                   dlqVars, listVars, outcomes, completed, shown, lost, lives>>

\* Defect: the attempts of the previous payment are not forgotten.
ReceiveCounting ==
    /\ loop = "up" /\ step = "receive" /\ position < Len(log)
    /\ position' = position + 1
    /\ current' = log[position + 1] /\ step' = "try"
    /\ UNCHANGED <<maxRetries, topicVars, attempt, request, committed, loop, dlqVars, listVars,
                   historyVars, faults>>

Receive ==
    /\ loop = "up" /\ step = "receive" /\ position < Len(log)
    /\ position' = position + 1
    /\ current' = log[position + 1] /\ attempt' = 0 /\ step' = "try"
    /\ UNCHANGED <<maxRetries, topicVars, request, committed, loop, dlqVars, listVars,
                   historyVars, faults>>

\* No await lies between the outcome and commit(), which asks for the position to be stored.
RequestCommit ==
    /\ outcomes' = outcomes + 1
    /\ step' = "commit" /\ request' = position
    /\ UNCHANGED <<maxRetries, log, loop, position, current, attempt, committed, dlqVars,
                   failed, sessions, shown, lives>>

\* The attempt succeeds and its result is listed.
ProcessPayment ==
    /\ step = "try" /\ attempt < maxRetries /\ current \notin Rejected
    /\ processed' = [processed EXCEPT ![current] = @ + 1]
    /\ completed' = completed \cup {current}
    /\ RequestCommit
    /\ UNCHANGED <<letters, lost, faults>>

\* The attempt fails; unless it was the last one, the backoff is slept.
AttemptFails ==
    /\ step = "try" /\ attempt < maxRetries /\ current \in Rejected
    /\ attempt' = attempt + 1
    /\ UNCHANGED <<maxRetries, topicVars, loop, position, current, step, request, committed,
                   dlqVars, listVars, historyVars, faults>>

\* Every attempt has failed, or there was none: range(0) leaves last_exception
\* None, and raising it is a TypeError that the same except clause catches.
Exhausted == step = "try" /\ attempt >= maxRetries

\* Defect: a payment that keeps failing is logged and dropped.
DeadLetterSkipped ==
    /\ Exhausted
    /\ RequestCommit
    /\ UNCHANGED <<letters, processed, completed, lost, faults>>

\* Defect: only a processed payment is committed.
DeadLetterUncommitted ==
    /\ Exhausted
    /\ letters' = Append(letters, current)
    /\ outcomes' = outcomes + 1
    /\ step' = "receive" /\ current' = None
    /\ UNCHANGED <<maxRetries, log, loop, position, attempt, request, committed, dlqVars,
                   listVars, sessions, completed, shown, lost, lives, faults>>

\* send_to_dlq: the letter is stored, whatever its sender hears of it.
DeadLetterSent ==
    /\ Exhausted
    /\ letters' = Append(letters, current)
    /\ RequestCommit
    /\ UNCHANGED <<processed, completed, lost, faults>>

\* The letter is not stored. send_to_dlq swallows the error and the handling goes on.
DeadLetterLost ==
    /\ Exhausted /\ Fault
    /\ lost' = lost \cup {current}
    /\ RequestCommit
    /\ UNCHANGED <<letters, processed, completed>>

\* The coordinator stores the offset that was asked for, also after a rejoin.
Commit ==
    /\ step = "commit"
    /\ committed' = request
    /\ current' = None /\ step' = "receive" /\ request' = 0
    /\ UNCHANGED <<maxRetries, topicVars, loop, position, attempt, dlqVars, listVars,
                   historyVars, faults>>

\* commit() or the next fetch raises, the first also when the group has expelled the
\* consumer. Nothing but a cancellation is caught here: the task ends and the process
\* goes on without it.
PaymentsFail ==
    /\ loop = "up" /\ step \in {"receive", "commit"} /\ Fault
    /\ loop' = "deaf" /\ current' = None /\ step' = "receive" /\ request' = 0
    /\ committed' \in IF step = "commit" THEN {committed, request} ELSE {committed}
    /\ UNCHANGED <<maxRetries, topicVars, position, attempt, dlqVars, listVars, historyVars>>

-----------------------------------------------------------------------------
(* consume_dlq                                                             *)

\* Defect: the group starts at the end of the topic.
StartDlqAtLatest ==
    /\ dlqLoop = "starting"
    /\ dlqLoop' = "up"
    /\ dlqPosition' = Len(letters)
    /\ UNCHANGED <<maxRetries, topicVars, payVars, read, listVars, historyVars, faults>>

StartDlq ==
    /\ dlqLoop = "starting"
    /\ dlqLoop' = "up"
    /\ dlqPosition' = read
    /\ UNCHANGED <<maxRetries, topicVars, payVars, read, listVars, historyVars, faults>>

\* No await separates the message from the append.
ListLetter ==
    /\ dlqLoop = "up" /\ dlqPosition < Len(letters)
    /\ dlqPosition' = dlqPosition + 1
    /\ failed' = [failed EXCEPT ![letters[dlqPosition + 1]] = @ + 1]
    /\ shown' = shown \cup {letters[dlqPosition + 1]}
    /\ UNCHANGED <<maxRetries, topicVars, payVars, dlqLoop, read, processed, outcomes,
                   sessions, completed, lost, lives, faults>>

\* aiokafka commits the position every few seconds.
AutoCommit ==
    /\ dlqLoop = "up" /\ read # dlqPosition
    /\ read' = dlqPosition
    /\ UNCHANGED <<maxRetries, topicVars, payVars, dlqLoop, dlqPosition, listVars,
                   historyVars, faults>>

\* Its session expires as well, and records that were not committed are read again.
RejoinDlq ==
    /\ dlqLoop = "up" /\ Fault
    /\ dlqPosition' = read
    /\ UNCHANGED <<maxRetries, topicVars, payVars, dlqLoop, read, listVars, historyVars>>

\* The fetch raises: stop() commits the position if it can, the task ends.
DlqFails ==
    /\ dlqLoop = "up" /\ Fault
    /\ dlqLoop' = "deaf"
    /\ read' \in {read, dlqPosition}
    /\ UNCHANGED <<maxRetries, topicVars, payVars, dlqPosition, listVars, historyVars>>

-----------------------------------------------------------------------------
(* lifespan                                                                *)

\* A crash, or the shutdown that cancels both tasks: only the DLQ consumer
\* commits as it stops, and the two lists go with the process.
Stop ==
    /\ loop # "down"
    /\ loop' = "down" /\ position' = 0 /\ current' = None /\ step' = "receive" /\ request' = 0
    /\ dlqLoop' = "down" /\ dlqPosition' = 0
    /\ read' \in IF dlqLoop = "up" THEN {read, dlqPosition} ELSE {read}
    /\ processed' = NoneListed /\ failed' = NoneListed
    /\ UNCHANGED <<maxRetries, topicVars, attempt, committed, historyVars, faults>>

Start ==
    /\ loop = "down"
    /\ lives < MaxLives
    /\ lives' = lives + 1
    /\ loop' = "starting" /\ dlqLoop' = "starting"
    /\ UNCHANGED <<maxRetries, topicVars, position, current, attempt, step, request, committed,
                   dlqPosition, read, listVars, outcomes, sessions, completed, shown, lost,
                   faults>>

PaymentsStep ==
    StartPayments \/ Receive \/ ProcessPayment \/ AttemptFails \/ DeadLetterSent \/ Commit

DlqStep == StartDlq \/ ListLetter

Next ==
    \/ \E p \in Payments : CreatePayment(p)
    \/ PaymentsStep
    \/ DlqStep
    \/ StoredTwice \/ DeadLetterLost \/ RejoinPayments \/ PaymentsFail
    \/ AutoCommit \/ RejoinDlq \/ DlqFails
    \/ Stop \/ Start

\* The event loop runs both tasks, and Kafka answers. Nothing is fair about
\* clients, faults, automatic commits, shutdowns and restarts.
Fairness == WF_vars(PaymentsStep) /\ WF_vars(DlqStep)

Spec == Init /\ [][Next]_vars /\ Fairness

-----------------------------------------------------------------------------
(* Properties                                                              *)

PaymentsOK ==
    /\ loop \in {"starting", "up", "deaf", "down"}
    /\ position \in Nat /\ committed \in Nat /\ attempt \in Nat /\ request \in Nat
    /\ current \in Payments \cup {None}
    /\ step \in {"receive", "try", "commit"}
    /\ step # "receive" => loop = "up" /\ current \in Payments

DlqOK ==
    /\ dlqLoop \in {"starting", "up", "deaf", "down"}
    /\ dlqPosition \in Nat /\ read \in Nat

\* The variables have their types, and a payment is handled only by a running loop.
TypeOK ==
    /\ maxRetries \in RetryLimits
    /\ log \in Seq(Payments) /\ letters \in Seq(Payments)
    /\ PaymentsOK /\ DlqOK
    /\ processed \in [Payments -> Nat] /\ failed \in [Payments -> Nat]
    /\ shown \subseteq Payments /\ completed \subseteq Payments /\ lost \subseteq Payments
    /\ outcomes \in Nat /\ sessions \in Nat /\ lives \in Nat /\ faults \in Nat

\* The offset is committed only past payments with an outcome: processed by some life,
\* on the dead letter topic, or given up because the dead letter could not be sent. The
\* last of these is in neither list of any life. This follows from ImplementsTriage.
CommittedIsAccounted ==
    \A i \in 1..committed :
        /\ i \in DOMAIN log
        /\ log[i] \in completed \cup lost \/ Holds(letters, log[i])

Triage == INSTANCE PaymentTriage WITH
    fit <- IF maxRetries > 0 THEN Payments \ Rejected ELSE {},
    topic <- log,
    confirmed <- committed,
    processed <- completed,
    shelved <- {letters[i] : i \in DOMAIN letters},
    inspected <- shown

\* Attempts, dead letters and commits, wherever they fail or the process ends, settle
\* and confirm one payment after the other: none is skipped, a restart or an expired session
\* goes back by one payment at most, none that fails gets through, and one that could be
\* processed is never on the dead letter topic.
ImplementsTriage == Triage!Spec

\* The committed offset and the outcomes keep up with each other: the assignment of the
\* partition, at a start or after an expired session, repeats at most the one payment
\* whose offset was not stored by then, and a commit that fails is never followed by
\* another payment.
OutcomesFollowOffsets ==
    committed <= outcomes /\ outcomes <= committed + sessions

\* What /processed and /failed show: each payment on the side it belongs to, what could be
\* processed on the other side only where MAX_RETRIES is 0. What the topic holds once shows
\* twice only after a fault: an expired session repeats one payment, but all letters since
\* the last automatic commit.
ListsAreRight ==
    \A p \in Payments :
        LET right == p \notin Rejected /\ maxRetries > 0
        IN  /\ processed[p] <= IF right THEN Copies(log, p) + faults ELSE 0
            /\ failed[p] <= IF right THEN 0 ELSE Copies(letters, p) * (1 + faults)

\* Every payment on the topic shows in /processed or /failed at some time, unless its
\* dead letter was lost, through restarts and repeats and as long as neither consumer
\* stays away for good.
EveryPaymentSettled ==
    ([]<>(loop = "up") /\ []<>(dlqLoop = "up")) =>
        \A p \in Payments : Holds(log, p) ~> p \in completed \cup shown \cup lost

=============================================================================
