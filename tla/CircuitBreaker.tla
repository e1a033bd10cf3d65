---------------------------- MODULE CircuitBreaker ----------------------------
(***************************************************************************)
(* The circuit breaker of 13-resilience-patterns: one CircuitBreaker       *)
(* object shared by every coroutine that calls the guarded service.  The   *)
(* sections under its asyncio.Lock contain no await, so each is one step;  *)
(* the call of func lies between them, and any number of calls may be      *)
(* inside func when the state changes.                                     *)
(***************************************************************************)
EXTENDS Integers

CONSTANTS
    Calls,       \* the coroutines that may be inside call() at the same time
    Threshold,   \* failure_threshold
    MaxCount     \* bound: _failure_count is not counted beyond it

\* Above Threshold the code only asks whether the count reaches Threshold, so
\* a count that stops at MaxCount behaves as one that goes on.
ASSUME BreakerAssumption ==
    /\ Threshold \in Nat \ {0}
    /\ MaxCount \in Nat
    /\ Threshold <= MaxCount

VARIABLES
    state,          \* _state
    failureCount,   \* _failure_count
    openedAt,       \* _opened_at: "never" (None), "recent", or "due" once
                    \* recovery_timeout has passed
    inside,         \* the calls that wait for the result of func
    sick,           \* those whose func may fail
    healthy         \* the service answers every call that starts now

breakerVars == <<state, failureCount, openedAt>>
serviceVars == <<sick, healthy>>
vars == <<breakerVars, inside, serviceVars>>

BreakerInit == state = "CLOSED" /\ failureCount = 0 /\ openedAt = "never"

Init ==
    /\ BreakerInit
    /\ inside = {} /\ sick = {}
    /\ healthy = TRUE

-----------------------------------------------------------------------------
(* The sections under the lock                                             *)

\* _should_attempt_recovery
RecoveryDue == openedAt \in {"never", "due"}

\* Defect: an open circuit lets calls through before the timeout.
PassAlways ==
    /\ state' = IF state = "OPEN" THEN "HALF_OPEN" ELSE state
    /\ UNCHANGED <<failureCount, openedAt>>

\* Defect: HALF_OPEN holds everybody up until the trial has a verdict, which
\* it never has if it ends with an unexpected exception.
PassTrialOnly ==
    \/ state = "CLOSED" /\ UNCHANGED breakerVars
    \/ state = "OPEN" /\ RecoveryDue
       /\ state' = "HALF_OPEN" /\ UNCHANGED <<failureCount, openedAt>>

\* Defect: nobody starts a trial; whoever finds the timeout over waits for the circuit.
PassClosedOnly == state = "CLOSED" /\ UNCHANGED breakerVars

\* _before_call without an exception: only OPEN is held up, and the call that
\* finds the timeout over turns it into HALF_OPEN.
BeforeCall ==
    \/ state # "OPEN" /\ UNCHANGED breakerVars
    \/ state = "OPEN" /\ RecoveryDue
       /\ state' = "HALF_OPEN" /\ UNCHANGED <<failureCount, openedAt>>

\* _before_call raises CircuitBreakerOpenError.
Rejects == state = "OPEN" /\ ~RecoveryDue

\* _on_success closes the circuit from whatever state it is in by now.
OnSuccess == state' = "CLOSED" /\ failureCount' = 0 /\ openedAt' = "never"

\* _open
Open == state' = "OPEN" /\ openedAt' = "recent"

Counted == IF failureCount < MaxCount THEN failureCount + 1 ELSE failureCount

\* Defect: > instead of >= in the comparison with the threshold.
OpenTooLate ==
    \/ state = "HALF_OPEN" /\ Open /\ UNCHANGED failureCount
    \/ /\ state # "HALF_OPEN"
       /\ failureCount' = Counted
       /\ IF Counted > Threshold THEN Open ELSE UNCHANGED <<state, openedAt>>

\* _on_failure: a failure in HALF_OPEN opens at once and is not counted; one
\* that comes back in OPEN counts, and starts the timeout anew.
OnFailure ==
    \/ state = "HALF_OPEN" /\ Open /\ UNCHANGED failureCount
    \/ /\ state # "HALF_OPEN"
       /\ failureCount' = Counted
       /\ IF Counted >= Threshold THEN Open ELSE UNCHANGED <<state, openedAt>>

-----------------------------------------------------------------------------
(* call()                                                                  *)

Enter(c) ==
    /\ c \notin inside
    /\ BeforeCall
    /\ inside' = inside \cup {c}
    /\ sick' \in IF healthy THEN {sick} ELSE {sick, sick \cup {c}}
    /\ UNCHANGED healthy

Leave(c) ==
    /\ c \in inside
    /\ inside' = inside \ {c}
    /\ sick' = sick \ {c}
    /\ UNCHANGED healthy

\* func returns; a sick service may answer too.
Succeed(c) == Leave(c) /\ OnSuccess

\* func raises expected_exception.
Fail(c) == c \in sick /\ Leave(c) /\ OnFailure

\* func raises anything else: no section runs and the breaker stays as it is.
Escape(c) == c \in sick /\ Leave(c) /\ UNCHANGED breakerVars

\* recovery_timeout seconds have passed since _opened_at.
TimeoutPasses ==
    /\ openedAt = "recent"
    /\ openedAt' = "due"
    /\ UNCHANGED <<state, failureCount, inside, serviceVars>>

\* The service breaks down; calls under way may be hit.
ServiceFails ==
    /\ healthy
    /\ healthy' = FALSE
    /\ \E hit \in SUBSET inside : sick' = sick \cup hit
    /\ UNCHANGED <<breakerVars, inside>>

ServiceRecovers ==
    /\ ~healthy
    /\ healthy' = TRUE
    /\ UNCHANGED <<breakerVars, inside, sick>>

Returns(c) == Succeed(c) \/ Fail(c) \/ Escape(c)

Next ==
    \/ \E c \in Calls : Enter(c) \/ Returns(c)
    \/ TimeoutPasses \/ ServiceFails \/ ServiceRecovers

Spec == Init /\ [][Next]_vars

\* func ends, by the timeout of the HTTP client at the latest, and time passes.
Fairness == WF_vars(TimeoutPasses) /\ \A c \in Calls : WF_vars(Returns(c))

FairSpec == Spec /\ Fairness

-----------------------------------------------------------------------------
(* Properties                                                              *)

\* Every variable stays in its domain.
TypeOK ==
    /\ state \in {"CLOSED", "OPEN", "HALF_OPEN"}
    /\ failureCount \in 0 .. MaxCount
    /\ openedAt \in {"never", "recent", "due"}
    /\ inside \subseteq Calls
    /\ sick \subseteq inside
    /\ healthy \in BOOLEAN

\* The circuit is closed exactly while fewer than Threshold failures are
\* counted, although calls of an earlier state bring their result in any
\* later one.
ClosedBelowThreshold == state = "CLOSED" <=> failureCount < Threshold

\* A circuit that is not closed knows when it was opened, so the branch of
\* _should_attempt_recovery for a missing time is never taken.
OpeningIsDated == state = "CLOSED" <=> openedAt = "never"

\* If the service stays healthy and calls keep coming, the circuit closes for
\* good: late failures, which re-open it and restart its timeout, run out.
Recovers ==
    (WF_vars(\E c \in Calls : Enter(c)) /\ <>[]healthy) => <>[](state = "CLOSED")

=============================================================================
