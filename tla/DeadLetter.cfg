\* One payment that can be processed and two that cannot, with no attempt at all and
\* with two: the dead letters queue up behind each other. A fault and a restart strike
\* at any point.
CONSTANTS
    Payments = {g1, b1, b2}
    Rejected = {b1, b2}
    RetryLimits = {0, 2}
    MaxFaults = 1
    MaxLives = 2
    None = None
SPECIFICATION Spec
\* The system stops when every payment is settled and no client or fault comes.
CHECK_DEADLOCK FALSE
INVARIANTS
    OutcomesFollowOffsets ListsAreRight
PROPERTIES
    EveryPaymentSettled ImplementsTriage
