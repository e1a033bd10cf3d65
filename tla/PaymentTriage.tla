---------------------------- MODULE PaymentTriage ----------------------------
(***************************************************************************)
(* What the payment consumer of 07-error-handling-and-retry promises: it   *)
(* settles the first payment of the topic that is not confirmed, and       *)
(* confirms it before it turns to the next.  When the confirmation was     *)
(* slow, the payment before that one may be settled once more.  A payment  *)
(* that can be processed is processed and nothing else; any other is       *)
(* shelved, or lost when the shelf is out of reach.  There are no          *)
(* attempts, positions or tasks, and nothing shows that a payment was      *)
(* settled twice.                                                          *)
(***************************************************************************)
EXTENDS Integers, Sequences

CONSTANT Payments

VARIABLES
    fit,         \* payments that can be processed
    topic,       \* payments sent, in order, some more than once
    confirmed,   \* how many of them are done with
    processed,   \* payments processed
    shelved,     \* payments put aside for somebody to look at
    lost,        \* payments that could not even be put aside
    inspected    \* shelved payments that somebody has seen

outcomeVars == <<processed, shelved, lost>>
vars == <<fit, topic, confirmed, outcomeVars, inspected>>

Init ==
    /\ fit \in SUBSET Payments
    /\ topic = <<>> /\ confirmed = 0
    /\ processed = {} /\ shelved = {} /\ lost = {} /\ inspected = {}

Send(p) ==
    /\ topic' = Append(topic, p)
    /\ UNCHANGED <<fit, confirmed, outcomeVars, inspected>>

\* The payments whose turn it is: the first that is not confirmed, and the last that is.
Turns == {topic[i] : i \in {confirmed, confirmed + 1} \cap DOMAIN topic}

Process(p) ==
    /\ p \in Turns \cap fit
    /\ processed' = processed \cup {p}
    /\ UNCHANGED <<fit, topic, confirmed, shelved, lost, inspected>>

Shelve(p) ==
    /\ p \in Turns \ fit
    /\ shelved' = shelved \cup {p}
    /\ UNCHANGED <<fit, topic, confirmed, processed, lost, inspected>>

Lose(p) ==
    /\ p \in Turns \ fit
    /\ lost' = lost \cup {p}
    /\ UNCHANGED <<fit, topic, confirmed, processed, shelved, inspected>>

Confirm ==
    /\ confirmed < Len(topic)
    /\ topic[confirmed + 1] \in processed \cup shelved \cup lost
    /\ confirmed' = confirmed + 1
    /\ UNCHANGED <<fit, topic, outcomeVars, inspected>>

Inspect(p) ==
    /\ p \in shelved
    /\ inspected' = inspected \cup {p}
    /\ UNCHANGED <<fit, topic, confirmed, outcomeVars>>

Next ==
    \/ \E p \in Payments : Send(p) \/ Process(p) \/ Shelve(p) \/ Lose(p) \/ Inspect(p)
    \/ Confirm

Spec == Init /\ [][Next]_vars

=============================================================================
