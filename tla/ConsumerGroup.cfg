\* Two members of chapter 05, the single consumers of 03, 04 and 06, and the consumer of
\* 10 with its lag check, each on two partitions and two records, with two faults.
CONSTANTS
    m1 = m1  m2 = m2  p1 = p1  p2 = p2
    None = None
    Members = {m1, m2}
    Deployments <- EachChapter
    Partitions = {p1, p2}
    MaxRecords = 2
    MaxFaults = 2
SPECIFICATION Spec
\* The system stops when every message is handled and no client or fault comes.
CHECK_DEADLOCK FALSE
INVARIANTS
    OncePerGeneration LagCoversBacklog
PROPERTIES
    ImplementsReception GroupCatchesUp
