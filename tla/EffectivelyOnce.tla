--------------------------- MODULE EffectivelyOnce ---------------------------
(***************************************************************************)
(* What the point consumer of 08-exactly-once-and-idempotency promises: a  *)
(* receiver that credits an event it does not know and knows it from then  *)
(* on, in one step.  There is no Redis call between the two, no position   *)
(* and no offset; what may go wrong is that the receiver closes, forgets   *)
(* the last event as it does so, and starts anew with empty balances.      *)
(***************************************************************************)
EXTENDS Naturals

CONSTANT Keys

VARIABLES
    sent,        \* events on the topic
    known,       \* events that the receiver passes over
    phase,       \* "open"; "closed": it takes no more; "ended": its process too
    credits,     \* credits of each event in this life
    forgotten,   \* how often each event was forgotten in this life
    earned,      \* events credited in some life
    confirmed    \* events that will not be read again

vars == <<sent, known, phase, credits, forgotten, earned, confirmed>>

Zero == [k \in Keys |-> 0]

Init ==
    /\ sent = {} /\ known = {} /\ phase = "open"
    /\ credits = Zero /\ forgotten = Zero
    /\ earned = {} /\ confirmed = {}

Send(k) ==
    /\ sent' = sent \cup {k}
    /\ UNCHANGED <<known, phase, credits, forgotten, earned, confirmed>>

Credit(k) ==
    /\ phase = "open"
    /\ k \in sent \ known
    /\ known' = known \cup {k}
    /\ credits' = [credits EXCEPT ![k] = @ + 1]
    /\ earned' = earned \cup {k}
    /\ UNCHANGED <<sent, phase, forgotten, confirmed>>

Forget(k) ==
    /\ k \in known
    /\ known' = known \ {k}
    /\ forgotten' = [forgotten EXCEPT ![k] = @ + 1]
    /\ UNCHANGED <<sent, phase, credits, earned, confirmed>>

Confirmation == confirmed \subseteq confirmed' /\ confirmed' \subseteq earned

Confirm ==
    /\ phase = "open"
    /\ Confirmation
    /\ UNCHANGED <<sent, known, phase, credits, forgotten, earned>>

\* The event at hand may not be known any more.
Leaves == phase = "open" /\ (known' = known \/ \E k \in earned : known' = known \ {k})

Close ==
    /\ Leaves
    /\ phase' = "closed"
    /\ Confirmation
    /\ UNCHANGED <<sent, credits, forgotten, earned>>

End ==
    /\ Leaves \/ (phase = "closed" /\ UNCHANGED known)
    /\ phase' = "ended"
    /\ credits' = Zero /\ forgotten' = Zero
    /\ UNCHANGED <<sent, earned, confirmed>>

Reopen ==
    /\ phase = "ended"
    /\ phase' = "open"
    /\ UNCHANGED <<sent, known, credits, forgotten, earned, confirmed>>

Next ==
    \/ \E k \in Keys : Send(k) \/ Credit(k) \/ Forget(k)
    \/ Confirm \/ Close \/ End \/ Reopen

Spec == Init /\ [][Next]_vars

=============================================================================
