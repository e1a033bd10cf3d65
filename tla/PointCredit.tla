----------------------------- MODULE PointCredit -----------------------------
(***************************************************************************)
(* The idempotent consumer of 08-exactly-once-and-idempotency: POST /points *)
(* sends point events, a background task of the same process credits them  *)
(* to balances held in memory, remembers their idempotency keys in Redis   *)
(* with a time to live, and commits the offset last.                       *)
(*                                                                         *)
(* A key stands for the event that carries it: its user and its points.    *)
(* The topic has the single partition of an auto-created topic.            *)
(***************************************************************************)
EXTENDS Integers, Sequences

CONSTANTS
    Keys,        \* the idempotency keys clients use
    MaxRecords,  \* bound: records of the topic
    MaxFaults,   \* bound: expired keys, expired sessions and failed calls of one behaviour
    MaxLives,    \* bound: starts of the process
    None         \* "no event"

ASSUME ConstantsAssumption ==
    /\ MaxRecords \in Nat /\ MaxFaults \in Nat /\ MaxLives \in Nat
    /\ None \notin Keys

VARIABLES
    log,        \* records of point-events: the key each one carries
    committed,  \* committed offset of point-consumer-group
    keys,       \* keys that Redis holds
    loop,       \* consumer task: "starting", "up", "deaf" (ended, the process
                \* still serves requests), "down" (no process)
    position,   \* records the consumer of this life has taken, from the start
    current,    \* event in _process_message, or None
    step,       \* what it waits for: "mark", "commit"; "receive" without an event
    request,    \* offset of the commit() under way, 0 without one
    credits,    \* credits of each event in the balances of this life
    second,     \* duplicate tests that sleep between their two sends
    earned,     \* history: events credited in some life
    expired,    \* history: expirations of each key in this life
    lives,      \* starts so far, for MaxLives
    faults      \* faults so far, for MaxFaults

taskVars == <<loop, position, current, step, request>>
historyVars == <<earned, lives, faults>>
vars == <<log, committed, keys, taskVars, credits, second, expired, historyVars>>

Init ==
    /\ log = <<>> /\ committed = 0 /\ keys = {}
    /\ loop = "starting" /\ position = 0 /\ current = None /\ step = "receive" /\ request = 0
    /\ credits = [k \in Keys |-> 0]
    /\ second = {} /\ earned = {}
    /\ expired = [k \in Keys |-> 0]
    /\ lives = 1 /\ faults = 0

Fault == faults < MaxFaults /\ faults' = faults + 1

-----------------------------------------------------------------------------
(* PointProducer and the endpoints that send                               *)

\* The broker appends a record once, whatever the producer retries. A send
\* that is not stored changes nothing, and the handler answers 500 either way.
SendPointEvent(k) ==
    /\ loop # "down"
    /\ Len(log) < MaxRecords
    /\ log' = Append(log, k)
    /\ UNCHANGED <<committed, keys, taskVars, credits, expired, historyVars>>

\* POST /points, from a client that repeats a key as it likes.
Post(k) == SendPointEvent(k) /\ UNCHANGED second

\* POST /points/duplicate-test up to its sleep.
DuplicateTest(k) == SendPointEvent(k) /\ second' = second \cup {k}

\* The same event again after the sleep.
SecondSend(k) == k \in second /\ SendPointEvent(k) /\ second' = second \ {k}

-----------------------------------------------------------------------------
(* The consumer task                                                       *)

\* Defect: the consumer resumes at the end of the log.
StartAtLatest ==
    /\ loop = "starting"
    /\ loop' = "up"
    /\ position' = Len(log)
    /\ UNCHANGED <<log, committed, keys, current, step, request, credits, second, expired,
                   historyVars>>

\* consumer.start() joins the group at the committed offset.
StartConsumer ==
    /\ loop = "starting"
    /\ loop' = "up"
    /\ position' = committed
    /\ UNCHANGED <<log, committed, keys, current, step, request, credits, second, expired,
                   historyVars>>

\* The session expires and aiokafka joins again in the background, at the committed
\* offset. Neither the message at work nor a commit() under way is disturbed.
Rejoin ==
    /\ loop = "up" /\ Fault
    /\ position' = committed
    /\ UNCHANGED <<log, committed, keys, loop, current, step, request, credits, second,
                   expired, earned, lives>>

\* Defect: enable_auto_commit is left on, so stop() commits the position.
EndLoopCommitting(offsets) ==
    /\ loop' = "deaf" /\ current' = None /\ step' = "receive" /\ request' = 0
    /\ position' = position
    /\ committed' = IF loop = "up" /\ step = "receive" THEN position + 1 ELSE committed

\* Defect: the exception is caught for each message and the loop goes on.
EndLoopNever(offsets) ==
    /\ loop' = "up" /\ current' = None /\ step' = "receive" /\ request' = 0
    /\ position' = position
    /\ committed' \in offsets

\* An exception leaves the async for; stop() commits nothing and nobody
\* starts the task again.
EndLoop(offsets) ==
    /\ loop' = "deaf" /\ current' = None /\ step' = "receive" /\ request' = 0
    /\ position' = position
    /\ committed' \in offsets

\* consumer.start() raises: the task ends before its try block.
StartConsumerFails ==
    /\ loop = "starting" /\ Fault
    /\ EndLoop({committed})
    /\ UNCHANGED <<log, keys, credits, second, expired, earned, lives>>

Ready == loop = "up" /\ step = "receive" /\ position < Len(log)
Head1 == log[position + 1]
IsProcessed(k) == k \in keys

\* The key is known: only the commit is left.
SkipDuplicate ==
    /\ Ready /\ IsProcessed(Head1)
    /\ position' = position + 1
    /\ current' = Head1 /\ step' = "commit" /\ request' = position + 1
    /\ UNCHANGED <<log, committed, keys, loop, credits, second, expired, historyVars>>

\* The key is new. No await separates the answer of Redis from the credit, and
\* nobody else writes keys.
Credit ==
    /\ Ready /\ ~IsProcessed(Head1)
    /\ position' = position + 1
    /\ current' = Head1 /\ step' = "mark"
    /\ credits' = [credits EXCEPT ![Head1] = @ + 1]
    /\ earned' = earned \cup {Head1}
    /\ UNCHANGED <<log, committed, keys, loop, request, second, expired, lives, faults>>

\* Redis cannot be asked.
CheckFails ==
    /\ Ready /\ Fault
    /\ EndLoop({committed})
    /\ UNCHANGED <<log, keys, credits, second, expired, earned, lives>>

\* Defect: the key is written under another prefix than the one read.
MarkElsewhere ==
    /\ step = "mark"
    /\ step' = "commit" /\ request' = position
    /\ UNCHANGED <<log, committed, keys, loop, position, current, credits, second,
                   expired, historyVars>>

\* SET key "1" EX ttl; then commit() asks for the position to be stored.
MarkProcessed ==
    /\ step = "mark"
    /\ keys' = keys \cup {current}
    /\ step' = "commit" /\ request' = position
    /\ UNCHANGED <<log, committed, loop, position, current, credits, second, expired,
                   historyVars>>

\* SET raises, with or without effect.
MarkFails ==
    /\ step = "mark" /\ Fault
    /\ keys' \in {keys, keys \cup {current}}
    /\ EndLoop({committed})
    /\ UNCHANGED <<log, credits, second, expired, earned, lives>>

\* The coordinator stores the offset that was asked for, also after a rejoin.
Commit ==
    /\ step = "commit"
    /\ committed' = request
    /\ current' = None /\ step' = "receive" /\ request' = 0
    /\ UNCHANGED <<log, keys, loop, position, credits, second, expired, historyVars>>

\* commit() raises, with or without effect.
CommitFails ==
    /\ step = "commit" /\ Fault
    /\ EndLoop({committed, request})
    /\ UNCHANGED <<log, keys, credits, second, expired, earned, lives>>

-----------------------------------------------------------------------------
(* Time to live, shutdown, crash and restart                               *)

\* Redis drops a key after idempotency_ttl seconds.
Expire(k) ==
    /\ k \in keys /\ Fault
    /\ keys' = keys \ {k}
    /\ expired' = [expired EXCEPT ![k] = @ + 1]
    /\ UNCHANGED <<log, committed, taskVars, credits, second, earned, lives>>

\* A crash, or the end of lifespan: the task is cancelled wherever it waits.
\* The balances and the sleeping handlers go with the process; a SET on its
\* way is MarkProcessed before this step, or it is lost.
Stop ==
    /\ loop # "down"
    /\ loop' = "down" /\ position' = 0 /\ current' = None /\ step' = "receive" /\ request' = 0
    /\ credits' = [k \in Keys |-> 0]
    /\ expired' = [k \in Keys |-> 0]
    /\ second' = {}
    /\ UNCHANGED <<log, committed, keys, historyVars>>

\* The head of lifespan: Redis answers the ping, the producer starts, the
\* consumer task is created. A failed start leaves the process down.
Start ==
    /\ loop = "down"
    /\ lives < MaxLives
    /\ lives' = lives + 1
    /\ loop' = "starting"
    /\ UNCHANGED <<log, committed, keys, position, current, step, request, credits, second,
                   expired, earned, faults>>

Work == StartConsumer \/ SkipDuplicate \/ Credit \/ MarkProcessed \/ Commit

Next ==
    \/ Work
    \/ \E k \in Keys : Post(k) \/ DuplicateTest(k) \/ SecondSend(k) \/ Expire(k)
    \/ StartConsumerFails \/ Rejoin \/ CheckFails \/ MarkFails \/ CommitFails
    \/ Stop \/ Start

\* The event loop runs the task, and Kafka and Redis answer. Nothing is fair
\* about clients, faults, shutdowns and restarts.
Fairness == WF_vars(Work)

Spec == Init /\ [][Next]_vars /\ Fairness

-----------------------------------------------------------------------------
(* Properties                                                              *)

TaskOK ==
    /\ loop \in {"starting", "up", "deaf", "down"}
    /\ position \in Nat /\ request \in Nat
    /\ current \in Keys \cup {None}
    /\ step \in {"receive", "mark", "commit"}
    /\ step # "receive" => loop = "up" /\ current \in Keys

\* The variables have their types, and a message is handled only by a running loop.
TypeOK ==
    /\ log \in Seq(Keys) /\ committed \in Nat
    /\ keys \subseteq Keys /\ second \subseteq Keys /\ earned \subseteq Keys
    /\ TaskOK
    /\ credits \in [Keys -> Nat] /\ expired \in [Keys -> Nat]
    /\ lives \in Nat /\ faults \in Nat

\* The chapter's effectively-once: the balances of one life hold the points of an
\* event once, and once more for each time its key expired in that life, however
\* often the event is sent or read again and wherever Redis or the commit fails. It
\* holds because every failure between the credit and the key ends the loop, and an
\* expired session, which does not, lets the message at work write its key first.
CreditedOncePerKey == \A k \in Keys : credits[k] <= 1 + expired[k]

\* What GET /balances and GET /processed-keys show when no message is being handled,
\* as long as the process has not restarted and its loop runs: exactly the keys in
\* Redis have their points in the balances, plus a credit for each expiration.
BalancesMatchKeys ==
    (lives = 1 /\ loop = "up" /\ step = "receive") =>
        \A k \in Keys : credits[k] = expired[k] + (IF k \in keys THEN 1 ELSE 0)

\* A point is never lost before it is credited: the event of every committed record
\* was credited by some life, skipped duplicates included. This follows from
\* ImplementsEffectivelyOnce.
CommittedIsCredited ==
    \A i \in 1..committed : i \in DOMAIN log /\ log[i] \in earned

Receiver == INSTANCE EffectivelyOnce WITH
    sent <- {log[i] : i \in DOMAIN log},
    known <- keys \cup {k \in Keys : step = "mark" /\ current = k},
    phase <- CASE loop \in {"starting", "up"} -> "open"
               [] loop = "deaf" -> "closed"
               [] loop = "down" -> "ended",
    forgotten <- expired,
    confirmed <- {log[i] : i \in 1..committed}

\* Test, credit, mark and commit, with their failures, do what a receiver does that
\* credits an event and knows it in one step: until the key is written the step itself
\* stands for it, and a SET that fails closes the receiver before it can matter.
ImplementsEffectivelyOnce == Receiver!Spec

\* Every record in the topic has its event credited in the end, through crashes and
\* expirations, unless the consumer stays away for good: down or deaf.
EveryPointCredited ==
    ([]<>(loop = "up")) => \A k \in Keys :
        (\E i \in DOMAIN log : log[i] = k) ~> k \in earned

=============================================================================
