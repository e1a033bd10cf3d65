\* Two events and four records: each of two keys twice, or one of them repeated. The
\* process may restart twice and two faults strike at any point.
CONSTANTS
    Keys = {k1, k2}
    MaxRecords = 4
    MaxFaults = 2
    MaxLives = 3
    None = None
SPECIFICATION Spec
\* The system stops when every record is handled and no client or fault comes.
CHECK_DEADLOCK FALSE
INVARIANTS
    CreditedOncePerKey BalancesMatchKeys
PROPERTIES
    ImplementsEffectivelyOnce EveryPointCredited
