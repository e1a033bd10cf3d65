------------------------ MODULE ResilientChargeProofs ------------------------
(***************************************************************************)
(* Theorems about ResilientCharge for any payments, attempts and threshold,*)
(* and about CircuitBreaker for any calls, which are the payments of the   *)
(* instance Breaker: its Spec lets any of them call at any time and leaves *)
(* retries and gateway out.                                                *)
(***************************************************************************)
EXTENDS ResilientCharge, FiniteSetTheorems, TLAPS

ClientOK ==
    /\ attempt \in [Payments -> 0 .. MaxAttempts]
    /\ call \in [Payments -> {"none", "quick", "late", "error"}]
    /\ answer \in [Payments -> {"none", "waiting", "paid", "unavailable", "failed"}]

GatewayOK == mode \in Modes /\ lagging \in BOOLEAN

ChargesOK == late \in [Payments -> Nat] /\ approvals \in [Payments -> Nat]

HistoryOK == requests \in Nat /\ expiries \in Nat

BreakerOK ==
    /\ state \in {"CLOSED", "OPEN", "HALF_OPEN"}
    /\ failureCount \in 0 .. MaxCount
    /\ openedAt \in {"never", "recent", "due"}

\* Only a waiting payment has a call under way, and a submitted one has begun
\* an attempt: without it Spent could count a call that never was.
CallsAreAttempts ==
    \A p \in Payments :
        /\ call[p] # "none" => answer[p] = "waiting"
        /\ answer[p] = "waiting" => attempt[p] >= 1
        /\ answer[p] = "none" => attempt[p] = 0

IInv ==
    /\ TypeOK
    /\ CallsAreAttempts
    /\ ChargesWithinAttempts

LEMMA TypeParts == TypeOK <=> BreakerOK /\ ClientOK /\ GatewayOK /\ ChargesOK /\ HistoryOK
  BY DEF TypeOK, BreakerOK, ClientOK, GatewayOK, ChargesOK, HistoryOK

\* The calls under way are finitely many, and no more than there are payments.
LEMMA InsideFinite ==
    /\ Cardinality(Payments) \in Nat
    /\ IsFiniteSet(Inside) /\ Cardinality(Inside) \in Nat
    /\ Cardinality(Inside) <= Cardinality(Payments)
  <1>1. IsFiniteSet(Payments) /\ Inside \subseteq Payments
    BY ChargeAssumption DEF Inside
  <1> QED
    BY <1>1, FS_Subset, FS_CardinalityType

-----------------------------------------------------------------------------
(* Types                                                                   *)

LEMMA BreakerSectionOK ==
    ASSUME BreakerOK, Breaker!BeforeCall \/ Breaker!OnSuccess \/ Breaker!OnFailure
    PROVE  BreakerOK'
  <1>1. CASE Breaker!BeforeCall
    BY <1>1 DEF BreakerOK, Breaker!BeforeCall, Breaker!breakerVars
  <1>2. CASE Breaker!OnSuccess
    BY <1>2, ChargeAssumption DEF BreakerOK, Breaker!OnSuccess
  <1>3. CASE Breaker!OnFailure
    BY <1>3, ChargeAssumption
       DEF BreakerOK, Breaker!OnFailure, Breaker!Counted, Breaker!Open
  <1> QED
    BY <1>1, <1>2, <1>3

LEMMA RetryOK ==
    ASSUME ClientOK, NEW p \in Payments, Retry(p),
           call' = [call EXCEPT ![p] = "none"]
    PROVE  ClientOK'
  BY ChargeAssumption DEF ClientOK, Retry

LEMMA Frame ==
    /\ BreakerOK /\ UNCHANGED breakerVars => BreakerOK'
    /\ ClientOK /\ UNCHANGED clientVars => ClientOK'
    /\ GatewayOK /\ UNCHANGED gatewayVars => GatewayOK'
    /\ ChargesOK /\ UNCHANGED <<late, approvals>> => ChargesOK'
  <1>1. GatewayOK /\ UNCHANGED gatewayVars => GatewayOK'
    <2>1. UNCHANGED gatewayVars => mode' = mode /\ lagging' = lagging
      BY DEF gatewayVars
    <2> QED
      BY <2>1, Zenon DEF GatewayOK, Modes
  <1> QED
    BY <1>1 DEF breakerVars, clientVars, BreakerOK, ClientOK, ChargesOK

LEMMA InitIInv == Init => IInv
  <1> SUFFICES ASSUME Init PROVE IInv
    OBVIOUS
  <1>1. TypeOK
    <2>1. BreakerOK
      BY ChargeAssumption DEF Init, Breaker!BreakerInit, BreakerOK
    <2>2. ClientOK /\ ChargesOK
      BY ChargeAssumption DEF Init, ClientOK, ChargesOK
    <2>4. HistoryOK
      BY DEF Init, HistoryOK
    <2>3. GatewayOK
      BY Zenon DEF Init, GatewayOK, Modes
    <2> QED
      BY <2>1, <2>2, <2>3, <2>4, TypeParts
  <1>2. CallsAreAttempts /\ ChargesWithinAttempts
    BY DEF Init, CallsAreAttempts, ChargesWithinAttempts, Spent
  <1> QED
    BY <1>1, <1>2 DEF IInv

\* What each step does to the two counts of the history.
LEMMA StepHistory ==
    ASSUME [Next]_vars
    PROVE  \/ /\ \E p \in Payments : Attempt(p)
              /\ requests' = requests + 1 /\ UNCHANGED expiries
           \/ \E p \in Payments :
                  /\ Approved(p)
                  /\ requests' = Cardinality(Inside \ {p}) /\ expiries' = 0
           \/ TimeoutPasses /\ expiries' = expiries + 1 /\ UNCHANGED requests
           \/ UNCHANGED historyVars
  <1>1. ASSUME NEW p \in Payments, ClientStep(p), ~Attempt(p), ~Approved(p)
        PROVE  UNCHANGED historyVars
    BY <1>1 DEF ClientStep, ShortCircuit, Refused, TimedOut
  <1>2. ASSUME NEW p \in Payments, CreatePayment(p) \/ LateApproval(p)
        PROVE  UNCHANGED historyVars
    BY <1>2 DEF CreatePayment, LateApproval
  <1>3. ASSUME NEW p \in Payments, Attempt(p)
        PROVE  requests' = requests + 1 /\ UNCHANGED expiries
    BY <1>3 DEF Attempt
  <1>4. ASSUME NEW p \in Payments, Approved(p)
        PROVE  requests' = Cardinality(Inside \ {p}) /\ expiries' = 0
    BY <1>4 DEF Approved
  <1>5. CASE TimeoutPasses
    BY <1>5 DEF TimeoutPasses
  <1>6. CASE SetMode \/ UNCHANGED vars
    BY <1>6 DEF SetMode, vars
  <1> QED
    BY <1>1, <1>2, <1>3, <1>4, <1>5, <1>6 DEF Next

LEMMA StepHistoryOK == HistoryOK /\ [Next]_vars => HistoryOK'
  <1> SUFFICES ASSUME HistoryOK, [Next]_vars PROVE HistoryOK'
    OBVIOUS
  <1>1. ASSUME NEW p \in Payments PROVE Cardinality(Inside \ {p}) \in Nat
    BY InsideFinite, FS_Difference, FS_Subset, FS_CardinalityType
  <1>2. requests \in Nat /\ expiries \in Nat
    BY DEF HistoryOK
  <1>3. CASE requests' = requests + 1 /\ UNCHANGED expiries
    BY <1>2, <1>3 DEF HistoryOK
  <1>4. CASE \E p \in Payments : requests' = Cardinality(Inside \ {p}) /\ expiries' = 0
    BY <1>1, <1>4 DEF HistoryOK
  <1>5. CASE expiries' = expiries + 1 /\ UNCHANGED requests
    BY <1>2, <1>5 DEF HistoryOK
  <1>6. CASE UNCHANGED historyVars
    BY <1>2, <1>6 DEF HistoryOK, historyVars
  <1> QED
    BY <1>3, <1>4, <1>5, <1>6, StepHistory

LEMMA StepTypeOK == TypeOK /\ [Next]_vars => TypeOK'
  <1> SUFFICES ASSUME TypeOK, [Next]_vars
               PROVE  BreakerOK' /\ ClientOK' /\ GatewayOK' /\ ChargesOK' /\ HistoryOK'
    BY DEF TypeOK, BreakerOK, ClientOK, GatewayOK, ChargesOK, HistoryOK
  <1>0. HistoryOK'
    BY TypeParts, StepHistoryOK
  <1>1. BreakerOK /\ ClientOK /\ GatewayOK /\ ChargesOK
    BY TypeParts
  <1>2. CASE \E p \in Payments : CreatePayment(p)
    <2>1. ClientOK'
      BY <1>1, <1>2, ChargeAssumption DEF CreatePayment, ClientOK
    <2> QED
      BY <1>0, <1>1, <1>2, <2>1, Frame DEF CreatePayment
  <1>3. CASE \E p \in Payments : Attempt(p)
    <2>1. Treatments \subseteq {"quick", "late", "error"}
      BY DEF Treatments
    <2>2. BreakerOK'
      BY <1>1, <1>3, BreakerSectionOK DEF Attempt
    <2>3. ClientOK'
      BY <1>1, <1>3, <2>1 DEF Attempt, ClientOK
    <2> QED
      BY <1>0, <1>1, <1>3, <2>2, <2>3, Frame DEF Attempt
  <1>4. CASE \E p \in Payments : ShortCircuit(p)
    <2>1. ClientOK'
      BY <1>1, <1>4 DEF ShortCircuit, ClientOK
    <2> QED
      BY <1>0, <1>1, <1>4, <2>1, Frame DEF ShortCircuit
  <1>5. CASE \E p \in Payments : Approved(p)
    <2>1. BreakerOK'
      BY <1>1, <1>5, BreakerSectionOK DEF Approved
    <2>2. ClientOK' /\ ChargesOK'
      BY <1>1, <1>5 DEF Approved, ClientOK, ChargesOK
    <2> QED
      BY <1>0, <1>1, <1>5, <2>1, <2>2, Frame DEF Approved
  <1>6. CASE \E p \in Payments : Refused(p)
    <2>1. BreakerOK'
      BY <1>1, <1>6, BreakerSectionOK DEF Refused
    <2>2. ClientOK'
      BY <1>1, <1>6, RetryOK DEF Refused
    <2> QED
      BY <1>0, <1>1, <1>6, <2>1, <2>2, Frame DEF Refused
  <1>7. CASE \E p \in Payments : TimedOut(p)
    <2>1. BreakerOK'
      BY <1>1, <1>7, BreakerSectionOK DEF TimedOut
    <2>2. ClientOK'
      BY <1>1, <1>7, RetryOK DEF TimedOut
    <2>3. ChargesOK'
      BY <1>1, <1>7 DEF TimedOut, ChargesOK
    <2> QED
      BY <1>0, <1>1, <1>7, <2>1, <2>2, <2>3, Frame DEF TimedOut
  <1>8. CASE \E p \in Payments : LateApproval(p)
    <2>1. ChargesOK'
      BY <1>1, <1>8 DEF LateApproval, ChargesOK
    <2> QED
      BY <1>0, <1>1, <1>8, <2>1, Frame DEF LateApproval
  <1>9. CASE TimeoutPasses
    <2>1. BreakerOK'
      BY <1>1, <1>9 DEF TimeoutPasses, BreakerOK
    <2> QED
      BY <1>0, <1>1, <1>9, <2>1, Frame DEF TimeoutPasses
  <1>10. CASE SetMode
    <2>1. GatewayOK'
      BY <1>10, Zenon DEF SetMode, GatewayOK, Modes
    <2> QED
      BY <1>0, <1>1, <1>10, <2>1, Frame DEF SetMode
  <1>11. CASE UNCHANGED vars
    BY <1>0, <1>1, <1>11, Frame DEF vars
  <1> QED
    BY <1>0, <1>2, <1>3, <1>4, <1>5, <1>6, <1>7, <1>8, <1>9, <1>10, <1>11 DEF Next, ClientStep

-----------------------------------------------------------------------------
(* Charges                                                                 *)

\* The part of IInv that speaks of one payment.
Accounted(p) ==
    /\ call[p] # "none" => answer[p] = "waiting"
    /\ answer[p] = "waiting" => attempt[p] >= 1
    /\ answer[p] = "none" => attempt[p] = 0
    /\ approvals[p] + late[p] <= Spent(p)

LEMMA IInvParts == IInv <=> TypeOK /\ \A p \in Payments : Accounted(p)
  BY DEF IInv, CallsAreAttempts, ChargesWithinAttempts, Accounted

\* A payment that the step does not touch keeps its account.
LEMMA OthersAccounted ==
    ASSUME NEW q \in Payments, Accounted(q),
           attempt'[q] = attempt[q], call'[q] = call[q], answer'[q] = answer[q],
           late'[q] = late[q], approvals'[q] = approvals[q]
    PROVE  Accounted(q)'
  BY DEF Accounted, Spent

\* Whatever the retry loop decides, the attempt it has just counted covers
\* the charge that the abandoned call may still become.
LEMMA RetryAccounted ==
    ASSUME ClientOK, ChargesOK, NEW p \in Payments, Accounted(p), call[p] # "none",
           Retry(p), call' = [call EXCEPT ![p] = "none"], UNCHANGED approvals,
           late'[p] \in {late[p], late[p] + 1}
    PROVE  Accounted(p)'
  <1>1. /\ answer[p] = "waiting" /\ attempt[p] \in Nat /\ attempt[p] >= 1
        /\ approvals[p] + late[p] <= attempt[p] - 1
        /\ approvals[p] \in Nat /\ late[p] \in Nat
    BY DEF Accounted, Spent, ClientOK, ChargesOK
  <1>2. CASE /\ attempt' = [attempt EXCEPT ![p] = @ + 1]
             /\ UNCHANGED answer
    BY <1>1, <1>2 DEF Accounted, Spent, ClientOK
  <1>3. CASE /\ answer' = [answer EXCEPT ![p] = "failed"]
             /\ UNCHANGED attempt
    BY <1>1, <1>3 DEF Accounted, Spent, ClientOK
  <1> QED
    BY <1>2, <1>3 DEF Retry

LEMMA StepAccounted ==
    ASSUME TypeOK, \A p \in Payments : Accounted(p), [Next]_vars,
           NEW q \in Payments
    PROVE  Accounted(q)'
  <1>1. ClientOK /\ ChargesOK /\ Accounted(q)
    BY TypeParts
  <1>2. /\ answer[q] = "waiting" => approvals[q] + late[q] <= attempt[q] - 1
        /\ attempt[q] \in Nat /\ approvals[q] \in Nat /\ late[q] \in Nat
    BY <1>1 DEF Accounted, Spent, ClientOK, ChargesOK
  <1>3. ASSUME NEW p \in Payments, CreatePayment(p) \/ ClientStep(p) \/ LateApproval(p),
               p # q
        PROVE  Accounted(q)'
    BY <1>1, <1>3, OthersAccounted
       DEF CreatePayment, ClientStep, LateApproval, Attempt, ShortCircuit, Approved, Refused,
           TimedOut, Retry, clientVars, ClientOK, ChargesOK
  <1>4. CASE CreatePayment(q)
    BY <1>1, <1>2, <1>4 DEF CreatePayment, Accounted, Spent, ClientOK
  <1>5. CASE Attempt(q) \/ ShortCircuit(q)
    BY <1>1, <1>2, <1>5 DEF Attempt, ShortCircuit, Accounted, Spent, ClientOK
  <1>6. CASE Approved(q)
    BY <1>1, <1>2, <1>6 DEF Approved, Accounted, Spent, ClientOK, ChargesOK
  <1>7. CASE Refused(q)
    BY <1>1, <1>7, RetryAccounted DEF Refused
  <1>8. CASE TimedOut(q)
    BY <1>1, <1>8, RetryAccounted DEF TimedOut, ChargesOK
  <1>9. CASE LateApproval(q)
    <2>1. late'[q] = late[q] - 1 /\ approvals'[q] = approvals[q] + 1
      BY <1>1, <1>9 DEF LateApproval, ChargesOK
    <2>2. UNCHANGED <<attempt, call, answer>>
      BY <1>9 DEF LateApproval, clientVars
    <2> QED
      BY <1>1, <1>2, <2>1, <2>2 DEF Accounted, Spent
  <1>10. CASE TimeoutPasses \/ SetMode \/ UNCHANGED vars
    BY <1>1, <1>10, OthersAccounted DEF TimeoutPasses, SetMode, vars, clientVars
  <1> QED
    BY <1>3, <1>4, <1>5, <1>6, <1>7, <1>8, <1>9, <1>10 DEF Next, ClientStep

-----------------------------------------------------------------------------

\* IInv holds in every reachable state.
THEOREM Invariance == Spec => []IInv
  <1>1. IInv /\ [Next]_vars => IInv'
    <2> SUFFICES ASSUME IInv, [Next]_vars PROVE IInv'
      OBVIOUS
    <2>1. TypeOK /\ \A p \in Payments : Accounted(p)
      BY IInvParts
    <2>2. TypeOK'
      BY <2>1, StepTypeOK
    <2>3. \A p \in Payments : Accounted(p)'
      BY <2>1, StepAccounted
    <2> QED
      BY <2>2, <2>3
         DEF IInv, CallsAreAttempts, ChargesWithinAttempts, Accounted
  <1> QED
    BY <1>1, InitIInv, PTL DEF Spec

\* The variables stay in their domains; no payment goes beyond MaxAttempts.
THEOREM TypeCorrect == Spec => []TypeOK
  BY Invariance, PTL DEF IInv

\* No payment is charged, now or by a late gateway, more often than the
\* breaker let an attempt of it through.
THEOREM ChargesBounded == Spec => []ChargesWithinAttempts
  BY Invariance, PTL DEF IInv

-----------------------------------------------------------------------------
(* Refinement of the breaker                                               *)

\* Every step of the client and of the gateway is a step of the breaker with
\* the payments as its calls, or leaves breaker and calls as they are.
LEMMA StepRefines == TypeOK /\ [Next]_vars => [Breaker!Next]_(Breaker!vars)
  <1> SUFFICES ASSUME TypeOK, [Next]_vars PROVE [Breaker!Next]_(Breaker!vars)
    OBVIOUS
  <1>1. ClientOK /\ GatewayOK
    BY TypeParts
  <1> USE DEF Inside
  <1> DEFINE In == Inside
             Sick == {p \in Payments : call[p] \in {"late", "error"}}
             Well == mode = "HEALTHY" /\ ~lagging
  <1>2. ASSUME NEW p \in Payments, Attempt(p) PROVE Breaker!Enter(p)
    <2>1. PICK t \in Treatments : call' = [call EXCEPT ![p] = t]
      BY <1>2 DEF Attempt
    <2>2. t \in {"quick", "late", "error"} /\ (Well => t = "quick")
      BY <2>1, <1>1 DEF Treatments, GatewayOK, Modes
    <2>3. \A q \in Payments : call'[q] = IF q = p THEN t ELSE call[q]
      BY <2>1, <1>1 DEF ClientOK
    <2>4. p \notin In /\ In' = In \cup {p}
      BY <1>2, <2>2, <2>3 DEF Attempt
    <2>5. Sick' = Sick \/ (~Well /\ Sick' = Sick \cup {p})
      BY <1>2, <2>2, <2>3 DEF Attempt
    <2>6. UNCHANGED Well
      BY <1>2 DEF Attempt, gatewayVars
    <2> QED
      BY <1>2, <2>4, <2>5, <2>6 DEF Attempt, Breaker!Enter
  <1>3. ASSUME NEW p \in Payments, call[p] # "none",
               call' = [call EXCEPT ![p] = "none"], UNCHANGED gatewayVars
        PROVE  Breaker!Leave(p)
    <2>1. \A q \in Payments : call'[q] = IF q = p THEN "none" ELSE call[q]
      BY <1>1, <1>3 DEF ClientOK
    <2>2. p \in In /\ In' = In \ {p}
      BY <1>3, <2>1
    <2>3. Sick' = Sick \ {p}
      BY <1>3, <2>1
    <2>4. UNCHANGED Well
      BY <1>3 DEF gatewayVars
    <2> QED
      BY <2>2, <2>3, <2>4 DEF Breaker!Leave
  <1>4. ASSUME NEW p \in Payments, Approved(p) PROVE Breaker!Succeed(p)
    BY <1>3, <1>4 DEF Approved, Breaker!Succeed, gatewayVars
  <1>5. ASSUME NEW p \in Payments, Refused(p) \/ TimedOut(p) PROVE Breaker!Fail(p)
    <2>1. p \in Sick /\ call[p] # "none" /\ Breaker!OnFailure
      BY <1>5 DEF Refused, TimedOut
    <2>2. Breaker!Leave(p)
      BY <1>3, <1>5, <2>1 DEF Refused, TimedOut, gatewayVars
    <2> QED
      BY <2>1, <2>2 DEF Breaker!Fail
  <1>6. CASE TimeoutPasses
    <2>1. UNCHANGED <<state, failureCount, call, mode, lagging>>
      BY <1>6 DEF TimeoutPasses, clientVars, gatewayVars
    <2> QED
      BY <1>6, <2>1 DEF TimeoutPasses, Breaker!TimeoutPasses, Breaker!serviceVars, Breaker!Next
  <1>7. CASE SetMode
    <2>1. UNCHANGED <<state, failureCount, openedAt, call>>
      BY <1>7 DEF SetMode, breakerVars, clientVars
    <2>2. CASE UNCHANGED Well
      BY <2>1, <2>2 DEF Breaker!vars, Breaker!breakerVars, Breaker!serviceVars
    <2>3. CASE Well /\ ~Well'
      <3>1. {} \in SUBSET In /\ Sick' = Sick \cup {}
        BY <2>1
      <3>2. UNCHANGED In /\ UNCHANGED Breaker!breakerVars
        BY <2>1 DEF Breaker!breakerVars
      <3> QED
        BY <2>3, <3>1, <3>2 DEF Breaker!ServiceFails, Breaker!Next
    <2>4. CASE ~Well /\ Well'
      BY <2>1, <2>4 DEF Breaker!ServiceRecovers, Breaker!Next, Breaker!breakerVars
    <2> QED
      BY <2>2, <2>3, <2>4
  <1>8. ASSUME UNCHANGED <<state, failureCount, openedAt, call, mode, lagging>>
        PROVE  UNCHANGED Breaker!vars
    BY <1>8 DEF Breaker!vars, Breaker!breakerVars, Breaker!serviceVars
  <1>9. ASSUME NEW p \in Payments, CreatePayment(p) \/ ShortCircuit(p) \/ LateApproval(p)
        PROVE  UNCHANGED <<state, failureCount, openedAt, call, mode, lagging>>
    BY <1>9 DEF CreatePayment, ShortCircuit, LateApproval, breakerVars, clientVars, gatewayVars
  <1>10. CASE UNCHANGED vars
    BY <1>8, <1>10 DEF vars, breakerVars, clientVars, gatewayVars
  <1> QED
    BY <1>2, <1>4, <1>5, <1>6, <1>7, <1>8, <1>9, <1>10
       DEF Next, ClientStep, Breaker!Next, Breaker!Returns

\* The payment client drives the breaker as module CircuitBreaker says, so what
\* is proved there holds of gateway_breaker; fairness aside.
THEOREM Refinement == Spec => Breaker!Spec
  <1>1. Init => Breaker!Init
    BY DEF Init, Inside, Breaker!Init
  <1> QED
    BY <1>1, StepRefines, TypeCorrect, PTL DEF Spec, Breaker!Spec

-----------------------------------------------------------------------------
(* The breaker on its own                                                  *)

\* The inductive invariant of the breaker: the domains, and what the count and
\* the time of opening say about the state. The domain of state is what lets
\* "not closed" stand for "open or half open" in every case of _on_failure.
InStep == BreakerOK /\ Breaker!ClosedBelowThreshold /\ Breaker!OpeningIsDated

\* Letting a call in keeps count, time and state in step.
LEMMA BeforeCallInStep == ASSUME InStep, Breaker!BeforeCall PROVE InStep'
  BY DEF InStep, BreakerOK, Breaker!BeforeCall, Breaker!breakerVars,
         Breaker!ClosedBelowThreshold, Breaker!OpeningIsDated

\* A success closes, resets and forgets the opening, in any state.
LEMMA OnSuccessInStep == ASSUME Breaker!OnSuccess PROVE InStep'
  BY ChargeAssumption
     DEF InStep, BreakerOK, Breaker!OnSuccess, Breaker!ClosedBelowThreshold,
         Breaker!OpeningIsDated

\* A failure opens the circuit exactly when the count reaches the threshold,
\* or when the circuit was not closed already.
LEMMA OnFailureInStep == ASSUME InStep, Breaker!OnFailure PROVE InStep'
  <1> USE DEF InStep, BreakerOK, Breaker!ClosedBelowThreshold, Breaker!OpeningIsDated
  <1>1. CASE state = "HALF_OPEN"
    BY <1>1 DEF Breaker!OnFailure, Breaker!Open
  <1>2. CASE state # "HALF_OPEN"
    <2>1. /\ failureCount' = Breaker!Counted /\ Breaker!Counted \in 0 .. MaxCount
          /\ Breaker!Counted >= failureCount
      BY <1>2, ChargeAssumption DEF Breaker!OnFailure, Breaker!Counted
    <2>2. CASE Breaker!Counted >= Threshold
      <3>1. Breaker!Open
        BY <1>2, <2>2 DEF Breaker!OnFailure
      <3> QED
        BY <2>1, <2>2, <3>1, ChargeAssumption DEF Breaker!Open
    <2>3. CASE ~(Breaker!Counted >= Threshold)
      <3>1. UNCHANGED <<state, openedAt>>
        BY <1>2, <2>3 DEF Breaker!OnFailure
      <3>2. failureCount < Threshold /\ failureCount' < Threshold
        BY <2>1, <2>3, ChargeAssumption
      <3> QED
        BY <2>1, <3>1, <3>2
    <2> QED
      BY <2>2, <2>3
  <1> QED
    BY <1>1, <1>2

LEMMA BreakerStepInStep == InStep /\ [Breaker!Next]_(Breaker!vars) => InStep'
  <1> SUFFICES ASSUME InStep, [Breaker!Next]_(Breaker!vars) PROVE InStep'
    OBVIOUS
  <1>1. ASSUME UNCHANGED <<state, failureCount, openedAt>> PROVE InStep'
    BY <1>1 DEF InStep, BreakerOK, Breaker!ClosedBelowThreshold, Breaker!OpeningIsDated
  <1>2. ASSUME NEW p \in Payments, Breaker!Enter(p) PROVE InStep'
    BY <1>2, BeforeCallInStep DEF Breaker!Enter
  <1>3. ASSUME NEW p \in Payments, Breaker!Returns(p) PROVE InStep'
    BY <1>1, <1>3, OnSuccessInStep, OnFailureInStep
       DEF Breaker!Returns, Breaker!Succeed, Breaker!Fail, Breaker!Escape, Breaker!breakerVars
  <1>4. CASE Breaker!TimeoutPasses
    BY <1>4 DEF Breaker!TimeoutPasses, InStep, BreakerOK, Breaker!ClosedBelowThreshold,
                Breaker!OpeningIsDated
  <1>5. CASE Breaker!ServiceFails \/ Breaker!ServiceRecovers
    BY <1>1, <1>5 DEF Breaker!ServiceFails, Breaker!ServiceRecovers, Breaker!breakerVars
  <1>6. CASE UNCHANGED Breaker!vars
    BY <1>1, <1>6 DEF Breaker!vars, Breaker!breakerVars
  <1> QED
    BY <1>2, <1>3, <1>4, <1>5, <1>6 DEF Breaker!Next

LEMMA BreakerInStep == Breaker!Spec => []InStep
  <1>1. Breaker!Init => InStep
    BY ChargeAssumption
       DEF Breaker!Init, Breaker!BreakerInit, InStep, BreakerOK, Breaker!ClosedBelowThreshold,
           Breaker!OpeningIsDated
  <1> QED
    BY <1>1, BreakerStepInStep, PTL DEF Breaker!Spec

\* The variables of the breaker and of its callers stay in their domains.
THEOREM BreakerTyped == Breaker!Spec => []Breaker!TypeOK
  <1>1. InStep => Breaker!TypeOK
    <2>1. (mode = "HEALTHY" /\ ~lagging) \in BOOLEAN
      BY Zenon
    <2> QED
      BY <2>1 DEF InStep, BreakerOK, Inside, Breaker!TypeOK
  <1> QED
    BY <1>1, BreakerInStep, PTL

\* CLOSED and a count below the threshold are the same thing, however late
\* the results of the calls come back: _on_success and _on_failure never
\* leave the two out of step.
THEOREM ClosedMeansBelow == Breaker!Spec => []Breaker!ClosedBelowThreshold
  BY BreakerInStep, PTL DEF InStep

\* _opened_at is set exactly while the circuit is not closed.
THEOREM OpeningDated == Breaker!Spec => []Breaker!OpeningIsDated
  BY BreakerInStep, PTL DEF InStep

\* This holds of gateway_breaker between the retry loops and the gateway: count and state
\* stay in step.
THEOREM GatewayInStep == Spec => []CircuitInStep
  BY Refinement, ClosedMeansBelow, PTL DEF CircuitInStep

-----------------------------------------------------------------------------
(* What a gateway that does not recover is spared                          *)

N == Cardinality(Payments)

\* Requests against the failures counted and the calls under way. A closed circuit has one
\* of the two for each request; opening it leaves N - 1 calls under way at most, which is
\* what the timeout pays for before it lets N more calls in.
Spared ==
    /\ state = "CLOSED" => expiries = 0 /\ requests <= failureCount + Cardinality(Inside)
    /\ (state = "OPEN" /\ openedAt = "recent") => requests <= Threshold - 1 + N + N * expiries
    /\ (state = "OPEN" /\ openedAt = "due") => requests <= Threshold - 1 + N * expiries
    /\ state = "HALF_OPEN" =>
           openedAt = "due" /\ requests <= Threshold - 1 + N * expiries + Cardinality(Inside)

\* The products that occur are natural numbers, and one timeout adds N.
LEMMA Products ==
    ASSUME NEW n \in Nat, NEW e \in Nat
    PROVE  /\ n * e \in Nat /\ n * (e + 1) = n * e + n /\ n * (1 + e) = n + n * e
           /\ n * 0 = 0
  OBVIOUS

\* A call that enters or leaves.
LEMMA InsideCounts ==
    ASSUME ClientOK, NEW p \in Payments, NEW t \in {"none", "quick", "late", "error"},
           call' = [call EXCEPT ![p] = t]
    PROVE  /\ call[p] = "none" /\ t # "none" =>
                  Cardinality(Inside') = Cardinality(Inside) + 1
           /\ call[p] # "none" /\ t = "none" =>
                  Inside' = Inside \ {p} /\ Cardinality(Inside') = Cardinality(Inside) - 1
  <1>1. \A q \in Payments : call'[q] = IF q = p THEN t ELSE call[q]
    BY DEF ClientOK
  <1>2. CASE call[p] = "none" /\ t # "none"
    <2>1. p \notin Inside /\ Inside' = Inside \cup {p}
      BY <1>1, <1>2 DEF Inside
    <2> QED
      BY <1>2, <2>1, InsideFinite, FS_AddElement
  <1>3. CASE call[p] # "none" /\ t = "none"
    <2>1. p \in Inside /\ Inside' = Inside \ {p}
      BY <1>1, <1>3 DEF Inside
    <2> QED
      BY <1>3, <2>1, InsideFinite, FS_RemoveElement
  <1> QED
    BY <1>2, <1>3

\* Each step keeps the requests within what failures, calls and timeouts account for.
LEMMA StepSpared == TypeOK /\ InStep /\ Spared /\ [Next]_vars => Spared'
  <1> SUFFICES ASSUME TypeOK, InStep, Spared, [Next]_vars PROVE Spared'
    OBVIOUS
  <1> DEFINE in == Cardinality(Inside)
             paid == N * expiries
  <1>1. /\ ClientOK /\ BreakerOK /\ HistoryOK
        /\ Threshold \in Nat \ {0} /\ MaxCount \in Nat /\ Threshold <= MaxCount
    BY TypeParts, ChargeAssumption
  <1>2. /\ N \in Nat /\ in \in Nat /\ in <= N /\ paid \in Nat
        /\ requests \in Nat /\ expiries \in Nat /\ failureCount \in Nat
        /\ state \in {"CLOSED", "OPEN", "HALF_OPEN"} /\ openedAt \in {"never", "recent", "due"}
    BY <1>1, InsideFinite, Products DEF BreakerOK, HistoryOK, N
  <1>3. /\ state = "CLOSED" <=> failureCount < Threshold
        /\ state = "CLOSED" <=> openedAt = "never"
    BY DEF InStep, Breaker!ClosedBelowThreshold, Breaker!OpeningIsDated
  <1>4. /\ state = "CLOSED" => expiries = 0 /\ requests <= failureCount + in
        /\ (state = "OPEN" /\ openedAt = "recent") => requests <= Threshold - 1 + N + paid
        /\ (state = "OPEN" /\ openedAt = "due") => requests <= Threshold - 1 + paid
        /\ state = "HALF_OPEN" => openedAt = "due" /\ requests <= Threshold - 1 + paid + in
        /\ state = "CLOSED" => paid = 0
    BY <1>2, Products DEF Spared
  <1>5. ASSUME NEW p \in Payments, Attempt(p) PROVE Spared'
    <2>1. PICK t \in {"quick", "late", "error"} : call' = [call EXCEPT ![p] = t]
      BY <1>5 DEF Attempt, Treatments
    <2>2. in' = in + 1
      BY <1>1, <1>5, <2>1, InsideCounts DEF Attempt
    <2>3. /\ requests' = requests + 1 /\ UNCHANGED <<expiries, failureCount, openedAt>>
          /\ \/ state # "OPEN" /\ state' = state
             \/ state = "OPEN" /\ openedAt = "due" /\ state' = "HALF_OPEN"
      BY <1>3, <1>5
         DEF Attempt, Breaker!BeforeCall, Breaker!RecoveryDue, Breaker!breakerVars
    <2>4. paid' = paid
      BY <2>3 DEF N
    <2> HIDE DEF in, paid
    <2>5. /\ state' = "CLOSED" => expiries' = 0 /\ requests' <= failureCount' + in'
          /\ state' # "OPEN"
          /\ state' = "HALF_OPEN" =>
                 openedAt' = "due" /\ requests' <= Threshold - 1 + paid' + in'
      BY <1>1, <1>2, <1>3, <1>4, <2>2, <2>3, <2>4
    <2> QED
      BY <2>5 DEF Spared, in, paid, N
  <1>6. ASSUME NEW p \in Payments, Approved(p) PROVE Spared'
    <2>1. /\ requests' = Cardinality(Inside \ {p}) /\ expiries' = 0
          /\ state' = "CLOSED" /\ failureCount' = 0
          /\ call[p] # "none" /\ call' = [call EXCEPT ![p] = "none"]
      BY <1>6 DEF Approved, Breaker!OnSuccess
    <2>2. Inside' = Inside \ {p}
      BY <1>1, <2>1, InsideCounts
    <2>3. requests' = Cardinality(Inside') /\ Cardinality(Inside') \in Nat
      <3>1. IsFiniteSet(Inside \ {p})
        BY InsideFinite, FS_Difference
      <3> QED
        BY <2>1, <2>2, <3>1, FS_CardinalityType
    <2> QED
      BY <2>1, <2>3 DEF Spared
  <1>7. ASSUME NEW p \in Payments, Refused(p) \/ TimedOut(p) PROVE Spared'
    <2>1. /\ call[p] # "none" /\ call' = [call EXCEPT ![p] = "none"]
          /\ UNCHANGED <<requests, expiries>> /\ Breaker!OnFailure
      BY <1>7 DEF Refused, TimedOut, historyVars
    <2>2. in' = in - 1 /\ paid' = paid
      BY <1>1, <2>1, InsideCounts DEF N
    <2>3. \/ state = "HALF_OPEN" /\ state' = "OPEN" /\ openedAt' = "recent"
          \/ state = "OPEN" /\ state' = "OPEN" /\ openedAt' = "recent"
          \/ /\ state = "CLOSED" /\ failureCount' = failureCount + 1
             /\ \/ state' = "CLOSED"
                \/ state' = "OPEN" /\ openedAt' = "recent" /\ failureCount + 1 <= Threshold
      <3>1. CASE state = "HALF_OPEN"
        BY <2>1, <3>1 DEF Breaker!OnFailure, Breaker!Open
      <3>2. CASE state = "OPEN"
        <4>1. Breaker!Counted >= Threshold
          BY <1>1, <1>2, <1>3, <3>2 DEF Breaker!Counted
        <4> QED
          BY <2>1, <3>2, <4>1 DEF Breaker!OnFailure, Breaker!Open
      <3>3. CASE state = "CLOSED"
        <4>1. Breaker!Counted = failureCount + 1 /\ failureCount + 1 <= Threshold
          BY <1>1, <1>2, <1>3, <3>3 DEF Breaker!Counted
        <4> QED
          BY <2>1, <3>3, <4>1 DEF Breaker!OnFailure, Breaker!Open
      <3> QED
        BY <1>2, <3>1, <3>2, <3>3
    <2> HIDE DEF in, paid
    <2>4. /\ state' = "CLOSED" => expiries' = 0 /\ requests' <= failureCount' + in'
          /\ state' = "OPEN" => openedAt' = "recent" /\ requests' <= Threshold - 1 + N + paid'
          /\ state' # "HALF_OPEN"
      BY <1>1, <1>2, <1>3, <1>4, <2>1, <2>2, <2>3
    <2> QED
      BY <2>4 DEF Spared, in, paid, N
  <1>8. CASE TimeoutPasses
    <2>1. /\ openedAt = "recent" /\ openedAt' = "due" /\ expiries' = expiries + 1
          /\ UNCHANGED <<state, failureCount, requests, call>>
      BY <1>8 DEF TimeoutPasses, clientVars
    <2>2. paid' = paid + N
      BY <1>2, <2>1, Products DEF N
    <2>3. state = "OPEN"
      BY <1>2, <1>3, <1>4, <2>1
    <2> HIDE DEF in, paid
    <2>4. requests' <= Threshold - 1 + paid'
      BY <1>1, <1>2, <1>4, <2>1, <2>2, <2>3
    <2> QED
      BY <2>1, <2>3, <2>4 DEF Spared, paid, N
  <1>9. ASSUME UNCHANGED <<state, failureCount, openedAt, requests, expiries, call>>
        PROVE  Spared'
    BY <1>9 DEF Spared, Inside, N
  <1>10. ASSUME NEW p \in Payments, CreatePayment(p) \/ ShortCircuit(p) \/ LateApproval(p)
         PROVE  Spared'
    BY <1>9, <1>10
       DEF CreatePayment, ShortCircuit, LateApproval, breakerVars, clientVars, historyVars
  <1>11. CASE SetMode \/ UNCHANGED vars
    BY <1>9, <1>11 DEF SetMode, vars, breakerVars, clientVars, historyVars
  <1> QED
    BY <1>5, <1>6, <1>7, <1>8, <1>10, <1>11 DEF Next, ClientStep

\* Until a call succeeds, the gateway gets one request of each payment and Threshold - 1
\* more, and one of each payment again for each recovery_timeout: any number of retry
\* loops, late results and calls that enter during a trial do not add up to more.
THEOREM Sparing == Spec => []GatewayIsSpared
  <1>1. Init => Spared
    <2> SUFFICES ASSUME Init PROVE Spared
      OBVIOUS
    <2>1. Inside = {}
      BY DEF Init, Inside
    <2>2. Cardinality(Inside) = 0
      BY <2>1, FS_EmptySet
    <2>3. state = "CLOSED" /\ failureCount = 0 /\ requests = 0 /\ expiries = 0
      BY DEF Init, Breaker!BreakerInit
    <2> QED
      BY <2>2, <2>3 DEF Spared
  <1>2. TypeOK /\ InStep /\ Spared /\ [Next]_vars => Spared'
    BY StepSpared
  <1>3. Spec => []TypeOK /\ []InStep
    BY TypeCorrect, Refinement, BreakerInStep, PTL
  <1>4. ASSUME TypeOK, InStep, Spared PROVE GatewayIsSpared
    <2>1. /\ N \in Nat /\ Cardinality(Inside) \in Nat /\ Cardinality(Inside) <= N
          /\ Threshold \in Nat \ {0} /\ requests \in Nat /\ expiries \in Nat
          /\ failureCount \in Nat
      BY <1>4, InsideFinite, TypeParts, ChargeAssumption DEF N, HistoryOK, BreakerOK
    <2>2. N * expiries \in Nat /\ N * (1 + expiries) = N + N * expiries
      BY <2>1, Products
    <2>3. requests <= Threshold - 1 + N + N * expiries
      <3>1. CASE state = "CLOSED"
        <4>1. failureCount < Threshold /\ requests <= failureCount + Cardinality(Inside)
          BY <1>4, <3>1 DEF InStep, Breaker!ClosedBelowThreshold, Spared
        <4> QED
          BY <2>1, <2>2, <4>1
      <3>2. CASE state = "OPEN" /\ openedAt = "recent"
        BY <1>4, <3>2 DEF Spared
      <3>3. CASE state = "OPEN" /\ openedAt = "due"
        <4>1. requests <= Threshold - 1 + N * expiries
          BY <1>4, <3>3 DEF Spared
        <4> QED
          BY <2>1, <2>2, <4>1
      <3>4. CASE state = "HALF_OPEN"
        <4>1. requests <= Threshold - 1 + N * expiries + Cardinality(Inside)
          BY <1>4, <3>4 DEF Spared
        <4> QED
          BY <2>1, <2>2, <4>1
      <3>5. /\ state \in {"CLOSED", "OPEN", "HALF_OPEN"}
            /\ state # "CLOSED" => openedAt \in {"recent", "due"}
        BY <1>4 DEF InStep, BreakerOK, Breaker!OpeningIsDated
      <3> QED
        BY <3>1, <3>2, <3>3, <3>4, <3>5
    <2> QED
      BY <2>1, <2>2, <2>3 DEF GatewayIsSpared, N
  <1> QED
    BY <1>1, <1>2, <1>3, <1>4, PTL DEF Spec

=============================================================================
