\* Liveness and refinement: two relays, two partitions, faults at any point.
CONSTANTS
    o1 = o1  o2 = o2  o3 = o3  p1 = p1  p2 = p2  r1 = r1  r2 = r2
    None = None
    Orders = {o1, o2}
    Relays = {r1, r2}
    Partitions = {p1, p2}
    PartitionOf <- TwoPartitions
    BatchSize = 1
    MaxFaults = 1
SPECIFICATION FairSpec
\* The system stops when every event is published and handled and no client comes.
CHECK_DEADLOCK FALSE
PROPERTIES
    AcceptedIsPublished ImplementsDelivery
