\* Three orders for two relays with batches of two: the LIMIT cuts, claims race. A
\* fault of any kind strikes at any point.
CONSTANTS
    o1 = o1  o2 = o2  o3 = o3  p1 = p1  p2 = p2  r1 = r1  r2 = r2
    None = None
    Orders = {o1, o2, o3}
    Relays = {r1, r2}
    Partitions = {p1}
    PartitionOf <- OnePartition
    BatchSize = 2
    MaxFaults = 1
SYMMETRY OrderRelaySymmetry
SPECIFICATION Spec
\* The system stops when every event is published and handled and no client comes.
CHECK_DEADLOCK FALSE
INVARIANTS
    MarkedIsPublished ExclusiveClaim DuplicatesNeedFaults HandledAtMostOnce
    CommittedIsReceived
