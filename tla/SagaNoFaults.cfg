\* Two orders that share the three services; no faults.
SPECIFICATION FairSpec
CONSTANTS
    Orders = {o1, o2}
    MaxFaults = 0
    None = None
PROPERTY ImplementsSettlement
\* The system stops when every message is handled and no order is left to place.
CHECK_DEADLOCK FALSE
