---------------------------- MODULE ResilientCharge ----------------------------
(***************************************************************************)
(* POST /payments of 13-resilience-patterns: retry around the circuit      *)
(* breaker around an HTTP call with a timeout, against the gateway of      *)
(* gateway_main.py, whose mode is switched while requests are under way.   *)
(* The breaker is the one of module CircuitBreaker.                        *)
(***************************************************************************)
EXTENDS Integers, FiniteSets

CONSTANTS
    Payments,     \* the requests POST /payments
    MaxAttempts,  \* RETRY_MAX_ATTEMPTS
    Threshold,    \* CB_FAILURE_THRESHOLD
    MaxCount      \* bound of the breaker's counter

ASSUME ChargeAssumption ==
    /\ IsFiniteSet(Payments)
    /\ MaxAttempts \in Nat \ {0}
    /\ Threshold \in Nat \ {0}
    /\ MaxCount \in Nat
    /\ Threshold <= MaxCount

VARIABLES
    state, failureCount, openedAt,   \* gateway_breaker
    attempt,     \* attempt of retry_with_backoff
    call,        \* the HTTP call under way: "none", or how the gateway will treat it
    answer,      \* "none", "waiting", "paid" (200), "unavailable" (503), "failed" (502)
    mode,        \* state["mode"] of the gateway
    lagging,     \* state["latency_ms"] exceeds REQUEST_TIMEOUT_SEC
    late,        \* charges the gateway still works on after their caller timed out
    approvals,   \* charges the gateway has approved
    \* history
    requests,    \* calls sent since a call last succeeded, and those out by then
    expiries     \* how often recovery_timeout has passed since then

breakerVars == <<state, failureCount, openedAt>>
clientVars == <<attempt, call, answer>>
gatewayVars == <<mode, lagging>>
historyVars == <<requests, expiries>>
vars == <<breakerVars, clientVars, gatewayVars, late, approvals, historyVars>>

\* The payments whose call waits for its result.
Inside == {p \in Payments : call[p] # "none"}

Modes == {"HEALTHY", "SLOW", "DEAD", "FLAKY"}

Breaker == INSTANCE CircuitBreaker WITH
    Calls <- Payments,
    inside <- Inside,
    sick <- {p \in Payments : call[p] \in {"late", "error"}},
    healthy <- (mode = "HEALTHY" /\ ~lagging)

Init ==
    /\ Breaker!BreakerInit
    /\ attempt = [p \in Payments |-> 0]
    /\ call = [p \in Payments |-> "none"]
    /\ answer = [p \in Payments |-> "none"]
    /\ mode = "HEALTHY" /\ lagging = FALSE
    /\ late = [p \in Payments |-> 0]
    /\ approvals = [p \in Payments |-> 0]
    /\ requests = 0 /\ expiries = 0

-----------------------------------------------------------------------------
(* The payment client                                                      *)

\* create_payment calls charge, which starts the retry loop.
CreatePayment(p) ==
    /\ answer[p] = "none"
    /\ answer' = [answer EXCEPT ![p] = "waiting"]
    /\ attempt' = [attempt EXCEPT ![p] = 1]
    /\ UNCHANGED <<breakerVars, call, gatewayVars, late, approvals, historyVars>>

\* What the gateway's handler makes of a request that arrives now: an approval
\* in time ("quick"), one after the client's timeout ("late"), or status 500.
Treatments ==
    {t \in {"quick", "late", "error"} :
        \/ t = "quick" /\ mode \in {"HEALTHY", "FLAKY"} /\ ~lagging
        \/ t = "late" /\ (mode = "SLOW" \/ (mode # "DEAD" /\ lagging))
        \/ t = "error" /\ mode \in {"DEAD", "FLAKY"}}

\* An iteration of the retry loop, after its backoff: the breaker lets the
\* call through and the request reaches the gateway.
Attempt(p) ==
    /\ answer[p] = "waiting" /\ call[p] = "none"
    /\ Breaker!BeforeCall
    /\ \E t \in Treatments : call' = [call EXCEPT ![p] = t]
    /\ requests' = requests + 1
    /\ UNCHANGED <<attempt, answer, gatewayVars, late, approvals, expiries>>

\* CircuitBreakerOpenError is not retried and becomes a 503.
ShortCircuit(p) ==
    /\ answer[p] = "waiting" /\ call[p] = "none"
    /\ Breaker!Rejects
    /\ answer' = [answer EXCEPT ![p] = "unavailable"]
    /\ UNCHANGED <<breakerVars, attempt, call, gatewayVars, late, approvals, historyVars>>

\* The gateway approves and the client has the response in time.
Approved(p) ==
    /\ call[p] = "quick"
    /\ approvals' = [approvals EXCEPT ![p] = @ + 1]
    /\ Breaker!OnSuccess
    /\ call' = [call EXCEPT ![p] = "none"]
    /\ answer' = [answer EXCEPT ![p] = "paid"]
    /\ requests' = Cardinality(Inside \ {p}) /\ expiries' = 0
    /\ UNCHANGED <<attempt, gatewayVars, late>>

\* The except clause of the retry loop: sleep for another attempt, or give the
\* error up to create_payment, which answers 502.
Retry(p) ==
    \/ /\ attempt[p] < MaxAttempts
       /\ attempt' = [attempt EXCEPT ![p] = @ + 1]
       /\ UNCHANGED answer
    \/ /\ attempt[p] >= MaxAttempts
       /\ answer' = [answer EXCEPT ![p] = "failed"]
       /\ UNCHANGED attempt

\* Status 500: raise_for_status raises.
Refused(p) ==
    /\ call[p] = "error"
    /\ Breaker!OnFailure
    /\ call' = [call EXCEPT ![p] = "none"]
    /\ Retry(p)
    /\ UNCHANGED <<gatewayVars, late, approvals, historyVars>>

\* Defect: the HTTP client sends the request again on its own.
TimedOutAndResent(p) ==
    /\ call[p] = "late"
    /\ late' = [late EXCEPT ![p] = @ + 1]
    /\ UNCHANGED <<breakerVars, clientVars, gatewayVars, approvals, historyVars>>

\* Defect: a timeout opens the circuit by itself.
TimedOutOpens(p) ==
    /\ call[p] = "late"
    /\ late' = [late EXCEPT ![p] = @ + 1]
    /\ Breaker!Open
    /\ call' = [call EXCEPT ![p] = "none"]
    /\ Retry(p)
    /\ UNCHANGED <<failureCount, gatewayVars, approvals, historyVars>>

\* The HTTP client gives up; the gateway's handler is still asleep and goes on.
TimedOut(p) ==
    /\ call[p] = "late"
    /\ late' = [late EXCEPT ![p] = @ + 1]
    /\ Breaker!OnFailure
    /\ call' = [call EXCEPT ![p] = "none"]
    /\ Retry(p)
    /\ UNCHANGED <<gatewayVars, approvals, historyVars>>

\* recovery_timeout passes.
TimeoutPasses ==
    /\ openedAt = "recent"
    /\ openedAt' = "due"
    /\ expiries' = expiries + 1
    /\ UNCHANGED <<state, failureCount, clientVars, gatewayVars, late, approvals, requests>>

-----------------------------------------------------------------------------
(* The gateway                                                             *)

\* POST /admin/mode; it does not touch the requests under way.
SetMode ==
    /\ mode' \in Modes
    /\ lagging' \in BOOLEAN
    /\ UNCHANGED <<breakerVars, clientVars, late, approvals, historyVars>>

\* A handler whose caller has gone wakes up and approves.
LateApproval(p) ==
    /\ late[p] > 0
    /\ late' = [late EXCEPT ![p] = @ - 1]
    /\ approvals' = [approvals EXCEPT ![p] = @ + 1]
    /\ UNCHANGED <<breakerVars, clientVars, gatewayVars, historyVars>>

-----------------------------------------------------------------------------

ClientStep(p) ==
    \/ Attempt(p) \/ ShortCircuit(p)
    \/ Approved(p) \/ Refused(p) \/ TimedOut(p)

Next ==
    \/ \E p \in Payments : CreatePayment(p) \/ ClientStep(p) \/ LateApproval(p)
    \/ TimeoutPasses \/ SetMode

Spec == Init /\ [][Next]_vars

\* The event loop of the client runs on, every HTTP call ends by its timeout
\* and every backoff is finite. Users and operators owe nothing.
Fairness == WF_vars(TimeoutPasses) /\ \A p \in Payments : WF_vars(ClientStep(p))

FairSpec == Spec /\ Fairness

-----------------------------------------------------------------------------
(* Properties                                                              *)

\* Every variable stays in its domain; no payment has more attempts than allowed.
TypeOK ==
    /\ state \in {"CLOSED", "OPEN", "HALF_OPEN"}
    /\ failureCount \in 0 .. MaxCount
    /\ openedAt \in {"never", "recent", "due"}
    /\ attempt \in [Payments -> 0 .. MaxAttempts]
    /\ call \in [Payments -> {"none", "quick", "late", "error"}]
    /\ answer \in [Payments -> {"none", "waiting", "paid", "unavailable", "failed"}]
    /\ mode \in Modes
    /\ lagging \in BOOLEAN
    /\ late \in [Payments -> Nat]
    /\ approvals \in [Payments -> Nat]
    /\ requests \in Nat /\ expiries \in Nat

\* Attempts of p that have reached the gateway and come back: the current
\* one has not while it waits for the breaker or for the gateway, nor if the
\* breaker rejected it.
Spent(p) == IF answer[p] \in {"none", "paid", "failed"} THEN attempt[p] ELSE attempt[p] - 1

\* One POST /payments is charged at most once per attempt the breaker let
\* through, and an attempt it rejected is never charged: retries after
\* timeouts may repeat a charge, but no more often than they were sent.
ChargesWithinAttempts ==
    \A p \in Payments : approvals[p] + late[p] <= Spent(p)

\* gateway_breaker is closed exactly while it counts fewer than Threshold failures,
\* although results of earlier attempts come back in any of its states.
CircuitInStep == Breaker!ClosedBelowThreshold

\* A gateway that does not recover is spared: until a call succeeds, it gets one request of
\* each payment and Threshold - 1 more, and one of each payment again whenever
\* recovery_timeout has passed. Retries, results that come back after the opening and calls
\* that enter together while the circuit is on trial do not add up to more.
GatewayIsSpared ==
    requests <= Threshold - 1 + Cardinality(Payments) * (1 + expiries)

\* Every POST /payments is answered, however the gateway behaves.
EveryPaymentAnswered ==
    \A p \in Payments : answer[p] = "waiting" ~> answer[p] \in {"paid", "unavailable", "failed"}

\* What retry, HTTP client and gateway do to the breaker are the steps of
\* module CircuitBreaker, its fairness included.
ImplementsBreaker == Breaker!FairSpec

=============================================================================
