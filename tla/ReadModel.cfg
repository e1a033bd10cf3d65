\* One order with any two decisions, contradictory ones too, and one fault; the
\* properties under PROPERTIES are about the runs without a fault.
SPECIFICATION FairSpec
CONSTANTS
    Orders = {o1}
    MaxFaults = 1
    MaxDecisions = 2
INVARIANTS
    ViewJoins
    ViewIsTrue
    NotifiedOncePerAssignment
PROPERTIES
    EveryEventNotified
    ViewCatchesUp
\* The system stops when every record is read and no order comes.
CHECK_DEADLOCK FALSE
