\* One order and two faults of any kind at any moment; EveryOrderJudged is
\* about the runs without one.
SPECIFICATION FairSpec
CONSTANTS
    Orders = {o1}
    MaxFaults = 2
    None = None
INVARIANTS
    StatusIsTrue
    RepeatsCostFaults
PROPERTIES
    EveryOrderJudged
    ImplementsFeed
\* The system stops when every message is handled and no order is left to place.
CHECK_DEADLOCK FALSE
