\* Two payments with up to three attempts each, around a threshold of two.
SPECIFICATION FairSpec
CONSTANTS
    Payments = {p1, p2}
    MaxAttempts = 3
    Threshold = 2
    MaxCount = 6
INVARIANTS
    ChargesWithinAttempts
    GatewayIsSpared
    CircuitInStep
PROPERTIES
    EveryPaymentAnswered
    ImplementsBreaker
