SPECIFICATION Spec
CONSTANTS
    Orders = {o1}
    MaxFaults = 0
    None = None
INVARIANT BothResultsComplete
\* The system stops when every message is handled and no order is left to place.
CHECK_DEADLOCK FALSE
