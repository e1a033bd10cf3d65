---------------------------- MODULE ConsumerGroup ----------------------------
(***************************************************************************)
(* The consumers that keep what they receive in a list: the members of one *)
(* group with a commit per message (chapter 05), the single consumers that *)
(* commit automatically (03, 04, 06, 10), and the lag check of chapter 10, *)
(* which joins the group it measures. They differ in when they commit, in  *)
(* what ends their loop and in what a shutdown still does; the group that  *)
(* Kafka runs for them is the same.                                        *)
(*                                                                         *)
(* A record is its offset, counted from 1; positions and offsets count the *)
(* records before them.                                                    *)
(***************************************************************************)
EXTENDS Integers, FiniteSets

CONSTANTS
    Members,
    Deployments,  \* what the members run: "03", "04", "05", "06", "10" for the
                  \* consumer of a chapter, "lag" for the check, "none"
    Partitions,
    MaxRecords,   \* bound: records of all partitions together
    MaxFaults,    \* bound: faults, shutdowns and lag checks of one behaviour
    None          \* "no owner", "no end offset", "no partitions yet"

ASSUME ConstantsAssumption ==
    /\ Deployments \subseteq [Members -> {"03", "04", "05", "06", "10", "lag", "none"}]
    /\ IsFiniteSet(Members) /\ IsFiniteSet(Partitions)
    /\ MaxRecords \in Nat /\ MaxFaults \in Nat
    /\ None \notin Members \cup Nat /\ \A S \in SUBSET Partitions : S # None

VARIABLES
    runs,        \* the deployment
    \* Kafka
    end,         \* records of each partition
    committed,   \* committed offset of the group
    generation,  \* generation of the group, 0 before the first
    joined,      \* members of this generation
    owner,       \* member that each partition is assigned to
    \* the consumers
    status,      \* "up", "deaf" (loop over, consumer still in the group),
                 \* "ended" (consumer stopped, process alive), "down"
    gen,         \* generation whose assignment a consumer works with, 0 for none
    position,    \* records it has taken of each partition of its assignment()
    request,     \* offsets of the commit() it waits for, empty without one
    \* the lag check
    todo,        \* partitions it still has to ask for, None before it has joined
    endSeen,     \* end offset of the partition it is asking for, or None
    lagInfo,     \* lag_info["partitions"]
    \* history
    handled,     \* how often each record was put in a list
    faults       \* for MaxFaults

groupVars == <<generation, joined, owner>>
memberVars == <<status, gen, position, request>>
checkVars == <<todo, endSeen, lagInfo>>
vars == <<runs, end, committed, groupVars, memberVars, checkVars, handled, faults>>

NoOffsets == [p \in {} |-> 0]
Idle(m) == request[m] = NoOffsets
IsCheck(m) == runs[m] = "lag"
IsConsumer(m) == runs[m] \notin {"lag", "none"}
Runs(m, chapter) == runs[m] = chapter /\ status[m] = "up"
Fault == faults < MaxFaults /\ faults' = faults + 1

Init ==
    /\ runs \in Deployments
    /\ end = [p \in Partitions |-> 0] /\ committed = [p \in Partitions |-> 0]
    /\ generation = 0 /\ joined = {} /\ owner = [p \in Partitions |-> None]
    /\ status = [m \in Members |->
                    IF IsConsumer(m) THEN "up" ELSE "down"]
    /\ gen = [m \in Members |-> 0]
    /\ position = [m \in Members |-> NoOffsets] /\ request = [m \in Members |-> NoOffsets]
    /\ todo = None /\ endSeen = None /\ lagInfo = {}
    /\ handled = [p \in Partitions |-> [i \in 1..MaxRecords |-> 0]]
    /\ faults = 0

-----------------------------------------------------------------------------
(* Producers: POST /messages, /orders, /bulk-orders, /users                *)

\* One record of a partition, which its key picks. A send that is not stored
\* changes nothing.
Appended(p) ==
    /\ Cardinality({r \in Partitions \X (1..MaxRecords) : r[2] <= end[r[1]]}) < MaxRecords
    /\ end' = [end EXCEPT ![p] = @ + 1]
    /\ UNCHANGED <<runs, committed, groupVars, memberVars, checkVars, handled, faults>>

Deployed(chapter) == \E m \in Members : runs[m] = chapter
Serves(chapter) == \E m \in Members : runs[m] = chapter /\ status[m] # "down"

\* In 03 and 05 the producer is a service of its own. A bulk request is several of
\* these steps, and an error after some of them leaves their records on the topic.
SendMessage03(p) == Deployed("03") /\ Appended(p)
SendOrder05(p) == Deployed("05") /\ Appended(p)

\* In 04, 06 and 10 it shares the process of the consumer, whatever has become of
\* the loop. In 06 partitions are those of two topics.
CreateOrder04(p) == Serves("04") /\ Appended(p)
CreateUser06(p) == Serves("06") /\ Appended(p)
CreateOrder06(p) == Serves("06") /\ Appended(p)
SendMessage10(p) == Serves("10") /\ Appended(p)

SendStep(p) ==
    \/ SendMessage03(p) \/ CreateOrder04(p) \/ SendOrder05(p)
    \/ CreateUser06(p) \/ CreateOrder06(p) \/ SendMessage10(p)

-----------------------------------------------------------------------------
(* The group                                                               *)

\* The results of an assignor: no member has two partitions more than another.
Assignments(J) ==
    IF J = {} THEN {[p \in Partitions |-> None]}
    ELSE {f \in [Partitions -> J] : \A a, b \in J :
             Cardinality({p \in Partitions : f[p] = a})
                 <= Cardinality({p \in Partitions : f[p] = b}) + 1}

NewGeneration(J) ==
    /\ joined' = J
    /\ generation' = generation + 1
    /\ owner' \in Assignments(J)

\* Whoever runs is let in; a consumer whose loop is over stays until it has not
\* polled for max_poll_interval_ms.
Rebalance ==
    /\ \E J \in SUBSET {m \in Members : status[m] = "up" \/ (status[m] = "deaf" /\ m \in joined)} :
           /\ {m \in Members : status[m] = "up"} \subseteq J
           /\ J # joined \/ \E p \in Partitions : owner[p] \notin J \cup {None}
           /\ NewGeneration(J)
    /\ UNCHANGED <<runs, end, committed, memberVars, checkVars, handled, faults>>

\* The session of a member times out while it works on.
Expel(m) ==
    /\ m \in joined /\ status[m] = "up"
    /\ Fault
    /\ NewGeneration(joined \ {m})
    /\ UNCHANGED <<runs, end, committed, memberVars, checkVars, handled>>

Assigned(m) == {p \in Partitions : owner[p] = m}

\* Defect: positions start at the end of the partitions.
LearnAtLatest(m) ==
    /\ status[m] = "up" /\ m \in joined /\ gen[m] # generation
    /\ gen' = [gen EXCEPT ![m] = generation]
    /\ position' = [position EXCEPT ![m] = [p \in Assigned(m) |-> end[p]]]
    /\ UNCHANGED <<runs, end, committed, groupVars, status, request, checkVars,
                   handled, faults>>

\* The consumer gets its assignment and the committed offsets. A commit it
\* waits for is still to come.
Learn(m) ==
    /\ status[m] = "up" /\ m \in joined /\ gen[m] # generation
    /\ gen' = [gen EXCEPT ![m] = generation]
    /\ position' = [position EXCEPT ![m] = [p \in Assigned(m) |-> committed[p]]]
    /\ UNCHANGED <<runs, end, committed, groupVars, status, request, checkVars,
                   handled, faults>>

IsCurrent(m) == m \in joined /\ gen[m] = generation
With(offsets) ==
    [p \in Partitions |-> IF p \in DOMAIN offsets THEN offsets[p] ELSE committed[p]]

-----------------------------------------------------------------------------
(* The loops                                                               *)

\* The next message of a partition goes to the list. A member that has been
\* expelled takes messages until it learns of it.
Take(m, p) ==
    /\ Idle(m)
    /\ p \in DOMAIN position[m]
    /\ position[m][p] < end[p]
    /\ position' = [position EXCEPT ![m][p] = @ + 1]
    /\ handled' = [handled EXCEPT ![p][position[m][p] + 1] = @ + 1]
    /\ UNCHANGED <<runs, end, committed, groupVars, status, gen, checkVars, faults>>

\* Defect: everything fetched so far is committed, not what was taken.
RequestFetched(m) == request' = [request EXCEPT ![m] = [p \in DOMAIN position[m] |-> end[p]]]

\* commit() without arguments: the positions of all assigned partitions.
RequestCommit(m) ==
    request' = [request EXCEPT ![m] = position'[m]]

Consume05(m, p) == Runs(m, "05") /\ Take(m, p) /\ RequestCommit(m)
Consume03(m, p) == Runs(m, "03") /\ Take(m, p) /\ UNCHANGED request
Consume04(m, p) == Runs(m, "04") /\ Take(m, p) /\ UNCHANGED request
Consume06(m, p) == Runs(m, "06") /\ Take(m, p) /\ UNCHANGED request
Consume10(m, p) == Runs(m, "10") /\ Take(m, p) /\ UNCHANGED request

\* The coordinator takes the offsets of any current member, also of one that was
\* assigned other partitions since it computed them.
CommitStored(m) ==
    /\ status[m] = "up" /\ ~Idle(m) /\ IsCurrent(m)
    /\ committed' = With(request[m])
    /\ request' = [request EXCEPT ![m] = NoOffsets]
    /\ UNCHANGED <<runs, end, groupVars, status, gen, position, checkVars,
                   handled, faults>>

\* Defect: the loop reads the uncommitted messages again and goes on.
CommitRefusedRetrying(m) ==
    /\ status[m] = "up" /\ ~Idle(m)
    /\ Fault
    /\ request' = [request EXCEPT ![m] = NoOffsets]
    /\ position' = [position EXCEPT ![m] = [p \in DOMAIN @ |-> committed[p]]]
    /\ UNCHANGED <<runs, end, committed, groupVars, status, gen, checkVars, handled>>

\* commit() raises: the member is of an old generation, or the call fails with or
\* without effect. The loop ends, and its consumer is left in the group.
CommitRefused(m) ==
    /\ status[m] = "up" /\ ~Idle(m)
    /\ \/ ~IsCurrent(m) /\ UNCHANGED <<committed, faults>>
       \/ IsCurrent(m) /\ Fault /\ committed' \in {committed, With(request[m])}
    /\ status' = [status EXCEPT ![m] = "deaf"]
    /\ request' = [request EXCEPT ![m] = NoOffsets]
    /\ UNCHANGED <<runs, end, groupVars, gen, position, checkVars, handled>>

\* Every few seconds, before a rebalance, and from a consumer whose loop is over.
AutoCommit(m) ==
    /\ runs[m] \in {"03", "04", "06", "10"} /\ status[m] \in {"up", "deaf"} /\ IsCurrent(m)
    /\ With(position[m]) # committed
    /\ committed' = With(position[m])
    /\ UNCHANGED <<runs, end, groupVars, memberVars, checkVars, handled, faults>>

\* The last commit of stop(), which only a current member gets through.
LastCommit(m) ==
    committed' \in {committed} \cup
        IF status[m] \in {"up", "deaf"} /\ IsCurrent(m) THEN {With(position[m])} ELSE {}

Forget(S, state) ==
    /\ status' = [m \in Members |-> IF m \in S THEN state ELSE status[m]]
    /\ gen' = [m \in Members |-> IF m \in S THEN 0 ELSE gen[m]]
    /\ position' = [m \in Members |-> IF m \in S THEN NoOffsets ELSE position[m]]
    /\ request' = [m \in Members |-> IF m \in S THEN NoOffsets ELSE request[m]]

\* An error in the async for of 03, 04, 05 and 10: caught and logged in some, not
\* in others, the task ends and nobody stops the consumer.
LoopEnds(m) ==
    /\ runs[m] \in {"03", "04", "05", "10"} /\ status[m] = "up" /\ Idle(m)
    /\ Fault
    /\ status' = [status EXCEPT ![m] = "deaf"]
    /\ UNCHANGED <<runs, end, committed, groupVars, gen, position, request,
                   checkVars, handled>>

\* In 06 the same task stops its consumer; it also gives up after 30 failed starts.
LoopEnds06(m) ==
    /\ Runs(m, "06")
    /\ Fault
    /\ LastCommit(m)
    /\ Forget({m}, "ended")
    /\ UNCHANGED <<runs, end, groupVars, checkVars, handled>>

-----------------------------------------------------------------------------
(* The lag check                                                           *)

\* GET /metrics or /health/kafka: a consumer joins the group.
StartCheck(m) ==
    /\ IsCheck(m) /\ status[m] = "down"
    /\ \E a \in Members : runs[a] = "10" /\ status[a] # "down"
    /\ Fault
    /\ status' = [status EXCEPT ![m] = "up"]
    /\ joined' = joined \ {m}
    /\ todo' = None /\ endSeen' = None /\ lagInfo' = {}
    /\ UNCHANGED <<runs, end, committed, generation, owner, gen, position,
                   request, handled>>

\* consumer.start() returns with the first assignment.
Snapshot(m) ==
    /\ Runs(m, "lag") /\ todo = None /\ gen[m] # 0
    /\ todo' = DOMAIN position[m]
    /\ UNCHANGED <<runs, end, committed, groupVars, memberVars, endSeen, lagInfo,
                   handled, faults>>

ReadEnd(m, p) ==
    /\ Runs(m, "lag") /\ todo # None /\ p \in todo
    /\ endSeen = None
    /\ endSeen' = [partition |-> p, end |-> end[p]]
    /\ UNCHANGED <<runs, end, committed, groupVars, memberVars, todo, lagInfo,
                   handled, faults>>

\* Defect: without a committed offset the lag is taken to be 0.
ReadCommittedOrEnd(m) ==
    /\ Runs(m, "lag") /\ endSeen # None
    /\ LET p == endSeen.partition IN
           /\ lagInfo' = lagInfo \cup
                  {[partition |-> p, end |-> endSeen.end,
                    committed |-> IF committed[p] = 0 THEN endSeen.end ELSE committed[p]]}
           /\ todo' = todo \ {p}
    /\ endSeen' = None
    /\ UNCHANGED <<runs, end, committed, groupVars, memberVars, handled, faults>>

ReadCommitted(m) ==
    /\ Runs(m, "lag") /\ endSeen # None
    /\ LET p == endSeen.partition IN
           /\ lagInfo' = lagInfo \cup
                  {[partition |-> p, end |-> endSeen.end, committed |-> committed[p]]}
           /\ todo' = todo \ {p}
    /\ endSeen' = None
    /\ UNCHANGED <<runs, end, committed, groupVars, memberVars, handled, faults>>

\* The check stops its consumer: all partitions are read, or an error ends it.
EndCheck(m) ==
    /\ Runs(m, "lag")
    /\ \/ todo = {} /\ UNCHANGED faults
       \/ Fault
    /\ Forget({m}, "down")
    /\ todo' = None /\ endSeen' = None
    /\ UNCHANGED <<runs, end, committed, groupVars, lagInfo, handled>>

-----------------------------------------------------------------------------
(* Shutdown, crash and restart                                             *)

Process(m) == {m} \cup IF runs[m] = "10" THEN {h \in Members : IsCheck(h)} ELSE {}

Gone(m) ==
    /\ IsConsumer(m) /\ status[m] # "down"
    /\ Fault
    /\ Forget(Process(m), "down")
    /\ todo' = None /\ endSeen' = None
    /\ UNCHANGED <<runs, end, groupVars, lagInfo, handled>>

\* The position is lost; a commit on its way was CommitStored before this step or
\* is lost too. The shutdown of 05 does no more.
Crash(m) == Gone(m) /\ UNCHANGED committed

\* stop() after the task. In 03 the error of a task that has died is raised again
\* by the await, and stop() is not reached.
Shutdown03(m) == runs[m] = "03" /\ status[m] # "deaf" /\ Gone(m) /\ LastCommit(m)
Shutdown04(m) == runs[m] = "04" /\ Gone(m) /\ LastCommit(m)
Shutdown06(m) == runs[m] = "06" /\ Gone(m) /\ LastCommit(m)
Shutdown10(m) == runs[m] = "10" /\ Gone(m) /\ LastCommit(m)

Start(m) ==
    /\ IsConsumer(m) /\ status[m] = "down"
    /\ status' = [status EXCEPT ![m] = "up"]
    /\ joined' = joined \ {m}
    /\ UNCHANGED <<runs, end, committed, generation, owner, gen, position,
                   request, checkVars, handled, faults>>

\* A failed start leaves the process down, but for 06, whose task starts its
\* consumer while the process already serves requests.
Start03(m) == runs[m] = "03" /\ Start(m)
Start04(m) == runs[m] = "04" /\ Start(m)
Start05(m) == runs[m] = "05" /\ Start(m)
Start06(m) == runs[m] = "06" /\ Start(m)
Start10(m) == runs[m] = "10" /\ Start(m)

StartStep(m) == Start03(m) \/ Start04(m) \/ Start05(m) \/ Start06(m) \/ Start10(m)

Consume(m, p) ==
    Consume03(m, p) \/ Consume04(m, p) \/ Consume05(m, p) \/ Consume06(m, p) \/ Consume10(m, p)

MemberStep(m) ==
    \/ Learn(m) \/ CommitStored(m) \/ CommitRefused(m)
    \/ \E p \in Partitions : Consume(m, p)

CheckStep(m) ==
    \/ Snapshot(m) \/ ReadCommitted(m) \/ EndCheck(m)
    \/ \E p \in Partitions : ReadEnd(m, p)

Next ==
    \/ Rebalance
    \/ \E p \in Partitions : SendStep(p)
    \/ \E m \in Members :
           \/ MemberStep(m) \/ CheckStep(m) \/ AutoCommit(m)
           \/ Expel(m) \/ LoopEnds(m) \/ LoopEnds06(m) \/ StartCheck(m) \/ StartStep(m)
           \/ Crash(m) \/ Shutdown03(m) \/ Shutdown04(m) \/ Shutdown06(m) \/ Shutdown10(m)

\* The coordinator settles the group, and every event loop runs its tasks. Nothing is
\* fair about producers, faults, automatic commits, requests and restarts.
Fairness ==
    /\ WF_vars(Rebalance)
    /\ \A m \in Members : WF_vars(MemberStep(m) \/ CheckStep(m))

Spec == Init /\ [][Next]_vars /\ Fairness

-----------------------------------------------------------------------------
(* Properties                                                              *)

\* Offsets of some of the partitions.
IsOffsets(f) == DOMAIN f \subseteq Partitions /\ f \in [DOMAIN f -> Nat]

LogOK ==
    /\ end \in [Partitions -> 0..MaxRecords]
    /\ committed \in [Partitions -> Nat]
    /\ handled \in [Partitions -> [1..MaxRecords -> Nat]]

GroupOK ==
    /\ generation \in Nat
    /\ joined \subseteq Members
    /\ owner \in [Partitions -> Members \cup {None}]

MembersOK ==
    /\ runs \in Deployments
    /\ status \in [Members -> {"up", "deaf", "ended", "down"}]
    /\ gen \in [Members -> Nat]
    /\ position = [m \in Members |-> position[m]] /\ \A m \in Members : IsOffsets(position[m])
    /\ request = [m \in Members |-> request[m]] /\ \A m \in Members : IsOffsets(request[m])

CheckOK ==
    /\ todo \in {None} \cup SUBSET Partitions
    /\ endSeen \in {None} \cup [partition : Partitions, end : Nat]
    /\ endSeen # None => todo # None
    /\ lagInfo \subseteq [partition : Partitions, end : Nat, committed : Nat]

\* Every variable stays in its domain.
TypeOK == LogOK /\ GroupOK /\ MembersOK /\ CheckOK /\ faults \in 0..MaxFaults

Handled(p, i) == handled[p][i] > 0

\* At least once: whatever the group does between a message and its commit, no offset
\* is committed past a message that no list has received. Offsets may go back, when
\* a commit computed before a rebalance arrives after it. This follows from
\* ImplementsReception.
CommittedIsHandled ==
    \A p \in Partitions : \A i \in 1..committed[p] : i <= end[p] /\ Handled(p, i)

Reception == INSTANCE GroupReception WITH
    received <- [p \in Partitions |-> {i \in 1..MaxRecords : Handled(p, i)}]

\* The group receives every partition in the order of its log and skips nothing: a
\* message that somebody receives for the first time is the next one after those received
\* before, whoever owned the partition then, and commits stay behind it. What else the
\* members, the coordinator and the lag check do is not seen on the partitions.
ImplementsReception == Reception!Spec

\* A message is received again only after a rebalance: once for each generation at most,
\* although an expelled member and its successor read the same partition side by side.
OncePerGeneration ==
    \A p \in Partitions, i \in 1..MaxRecords : handled[p][i] <= generation

\* The lag that the check reports for a partition counts every message below the
\* reported end that nobody has received, although the group goes on between the two
\* reads and the check takes its partitions away. It may count others as well, and is
\* negative when a partition is taken from the check and committed between them.
LagCoversBacklog ==
    \A r \in lagInfo : \A i \in 1..r.end :
        ~Handled(r.partition, i) => i > r.committed

\* The group always catches up with producers that pause (MaxRecords makes them): every
\* message is received, through crashes, expelled members and lag checks, unless every
\* loop stays away for good. A member whose loop has ended keeps its partitions only for
\* a while, and so does a lag check.
GroupCatchesUp ==
    ([]<>(\E m \in Members : status[m] = "up" /\ IsConsumer(m))) =>
        []<>(\A p \in Partitions : \A i \in 1..end[p] : Handled(p, i))

=============================================================================
