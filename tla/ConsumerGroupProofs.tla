------------------------- MODULE ConsumerGroupProofs -------------------------
(***************************************************************************)
(* Theorems about ConsumerGroup for any members, deployments, partitions   *)
(* and number of records and faults.  Every offset that is held anywhere,  *)
(* as a position, in a commit on its way, on the broker or in the report   *)
(* of the lag check, covers messages that were received; and a message is  *)
(* received once per generation because the members that may still take it *)
(* are counted against the generations as well.                            *)
(***************************************************************************)
EXTENDS ConsumerGroup, FiniteSetTheorems, TLAPS

-----------------------------------------------------------------------------
(* The inductive invariant                                                 *)

\* Offsets f lie within the partitions of length e and only cover messages
\* that are in a list by h.
Covers(f, e, h) ==
    \A p \in DOMAIN f : f[p] <= e[p] /\ \A i \in 1..f[p] : h[p][i] > 0

OffsetsCover ==
    /\ Covers(committed, end, handled)
    /\ \A m \in Members : Covers(position[m], end, handled)
    /\ \A m \in Members : Covers(request[m], end, handled)

ReportCovers ==
    \A r \in lagInfo :
        r.committed <= MaxRecords /\ \A i \in 1..r.committed : handled[r.partition][i] > 0

\* The members that may take message i of partition p with what they have now.
Able(p, i) == {m \in Members : p \in DOMAIN position[m] /\ position[m][p] < i}

\* The owner of the partition is still to learn that it is.
Coming(p) ==
    IF owner[p] \in joined /\ status[owner[p]] = "up" /\ gen[owner[p]] # generation THEN 1 ELSE 0

Counted ==
    \A p \in Partitions, i \in 1..MaxRecords :
        handled[p][i] + Cardinality(Able(p, i)) + Coming(p) <= generation

IInv == TypeOK /\ OffsetsCover /\ ReportCovers /\ Counted

-----------------------------------------------------------------------------
(* Offsets                                                                 *)

LEMMA NoOffsetsOK ==
    /\ IsOffsets(NoOffsets) /\ DOMAIN NoOffsets = {}
    /\ \A e, h : Covers(NoOffsets, e, h)
  BY DEF IsOffsets, NoOffsets, Covers

\* What is covered stays covered when logs and lists grow.
LEMMA CoversStay ==
    ASSUME NEW f, NEW e, NEW e2, NEW h, NEW h2, IsOffsets(f), Covers(f, e, h),
           \A p \in Partitions : e[p] \in Nat /\ e2[p] \in Nat /\ e[p] <= e2[p],
           \A p \in Partitions : \A i \in 1..e[p] : h[p][i] > 0 => h2[p][i] > 0
    PROVE  Covers(f, e2, h2)
  <1> SUFFICES ASSUME NEW p \in DOMAIN f
               PROVE  f[p] <= e2[p] /\ \A i \in 1..f[p] : h2[p][i] > 0
    BY DEF Covers
  <1>1. p \in Partitions /\ f[p] \in Nat
    BY DEF IsOffsets
  <1>2. f[p] <= e[p] /\ \A i \in 1..f[p] : h[p][i] > 0
    BY DEF Covers
  <1> QED
    BY <1>1, <1>2

\* A commit replaces offsets by offsets of the same kind.
LEMMA WithCovers ==
    ASSUME LogOK, NEW f, IsOffsets(f), Covers(f, end, handled), Covers(committed, end, handled)
    PROVE  With(f) \in [Partitions -> Nat] /\ Covers(With(f), end, handled)
  <1>1. \A p \in DOMAIN f : f[p] \in Nat
    BY DEF IsOffsets
  <1>2. With(f) \in [Partitions -> Nat]
    BY <1>1 DEF With, LogOK
  <1>3. DOMAIN committed = Partitions /\ DOMAIN With(f) = Partitions
    BY <1>2 DEF LogOK
  <1>4. \A p \in Partitions : With(f)[p] = IF p \in DOMAIN f THEN f[p] ELSE committed[p]
    BY DEF With
  <1> QED
    BY <1>2, <1>3, <1>4 DEF Covers

-----------------------------------------------------------------------------
(* Counts                                                                  *)

LEMMA CountsTyped ==
    ASSUME TypeOK, NEW p \in Partitions, NEW i \in 1..MaxRecords
    PROVE  /\ IsFiniteSet(Able(p, i)) /\ Cardinality(Able(p, i)) \in Nat
           /\ handled[p][i] \in Nat /\ generation \in Nat /\ Coming(p) \in {0, 1}
  <1>1. IsFiniteSet(Able(p, i))
    BY ConstantsAssumption, FS_Subset DEF Able
  <1>2. handled[p][i] \in Nat /\ generation \in Nat
    BY DEF TypeOK, LogOK, GroupOK
  <1> QED
    BY <1>1, <1>2, FS_CardinalityType DEF Coming

\* Counts go down when nobody new may take a message and nobody does.
LEMMA CountedKept ==
    ASSUME TypeOK, Counted, UNCHANGED <<handled, generation>>,
           \A p \in Partitions, i \in 1..MaxRecords : Able(p, i)' \subseteq Able(p, i),
           \A p \in Partitions : Coming(p)' = 1 => Coming(p) = 1
    PROVE  Counted'
  <1> SUFFICES ASSUME NEW p \in Partitions, NEW i \in 1..MaxRecords
               PROVE  handled'[p][i] + Cardinality(Able(p, i)') + Coming(p)' <= generation'
    BY DEF Counted
  <1> DEFINE now == Able(p, i)
             next == Able(p, i)'
  <1>1. /\ IsFiniteSet(now) /\ Cardinality(now) \in Nat /\ handled[p][i] \in Nat
        /\ generation \in Nat /\ Coming(p) \in {0, 1}
    BY CountsTyped
  <1>2. next \in SUBSET now
    OBVIOUS
  <1>3. handled[p][i] + Cardinality(now) + Coming(p) <= generation
    BY DEF Counted
  <1>4. Coming(p)' \in {0, 1}
    BY DEF Coming
  <1> HIDE DEF now, next
  <1>5. IsFiniteSet(next) /\ Cardinality(next) <= Cardinality(now)
    BY <1>1, <1>2, FS_Subset
  <1>6. Cardinality(next) \in Nat
    BY <1>5, FS_CardinalityType
  <1>7. handled'[p][i] = handled[p][i] /\ generation' = generation
    OBVIOUS
  <1>8. Coming(p)' <= Coming(p)
    BY <1>1, <1>4
  <1> QED
    BY <1>1, <1>3, <1>4, <1>5, <1>6, <1>7, <1>8 DEF next

\* Nothing moves but commits, the check and who is let in or gone.
LEMMA CountedQuiet ==
    ASSUME TypeOK, Counted, UNCHANGED <<handled, generation, owner, gen, position>>,
           \A m \in Members : m \in joined' /\ status'[m] = "up" => m \in joined /\ status[m] = "up",
           joined' \subseteq Members
    PROVE  Counted'
  <1>1. \A p \in Partitions, i \in 1..MaxRecords : Able(p, i)' \subseteq Able(p, i)
    BY DEF Able
  <1>2. \A p \in Partitions : Coming(p)' = 1 => Coming(p) = 1
    BY DEF Coming
  <1> QED
    BY <1>1, <1>2, CountedKept

-----------------------------------------------------------------------------
(* Steps that leave the lists, the logs and the generation alone           *)

Rest == <<runs, end, handled, generation, owner>>

LEMMA OffsetsKept ==
    ASSUME UNCHANGED <<end, handled>>,
           Covers(committed', end, handled),
           \A m \in Members : Covers(position'[m], end, handled),
           \A m \in Members : Covers(request'[m], end, handled)
    PROVE  OffsetsCover'
  BY DEF OffsetsCover

LEMMA FaultsOK == ASSUME faults \in 0..MaxFaults, Fault \/ UNCHANGED faults
                  PROVE  faults' \in 0..MaxFaults
  BY ConstantsAssumption DEF Fault

\* A commit of offsets that cover, or none.
LEMMA CommitOK ==
    ASSUME IInv, NEW m \in Members,
           committed' \in {committed, With(request[m]), With(position[m])}
    PROVE  committed' \in [Partitions -> Nat] /\ Covers(committed', end, handled)
  <1>1. /\ LogOK /\ IsOffsets(request[m]) /\ IsOffsets(position[m])
        /\ Covers(committed, end, handled)
        /\ Covers(request[m], end, handled) /\ Covers(position[m], end, handled)
        /\ committed \in [Partitions -> Nat]
    BY DEF IInv, TypeOK, LogOK, MembersOK, OffsetsCover
  <1> QED
    BY <1>1, WithCovers

\* The consumers of S lose their offsets.
LEMMA ForgetOK ==
    ASSUME IInv, NEW m \in Members, NEW S \in SUBSET Members, NEW st \in {"ended", "down"},
           Forget(S, st), UNCHANGED <<Rest, joined>>,
           committed' \in {committed, With(request[m]), With(position[m])},
           CheckOK', Fault \/ UNCHANGED faults,
           \A r \in lagInfo' : r \in lagInfo
    PROVE  IInv'
  <1>1. TypeOK /\ OffsetsCover /\ ReportCovers /\ Counted /\ MembersOK
    BY DEF IInv, TypeOK
  <1>2. committed' \in [Partitions -> Nat] /\ Covers(committed', end, handled)
    BY CommitOK
  <1>3. /\ \A n \in Members : position'[n] = IF n \in S THEN NoOffsets ELSE position[n]
        /\ \A n \in Members : request'[n] = IF n \in S THEN NoOffsets ELSE request[n]
        /\ \A n \in Members : status'[n] = IF n \in S THEN st ELSE status[n]
        /\ \A n \in Members : gen'[n] = IF n \in S THEN 0 ELSE gen[n]
    BY DEF Forget
  <1>4. MembersOK'
    <2>1. status' \in [Members -> {"up", "deaf", "ended", "down"}]
      BY <1>1 DEF Forget, MembersOK
    <2>2. gen' \in [Members -> Nat]
      BY <1>1 DEF Forget, MembersOK
    <2>3. /\ position' = [n \in Members |-> position'[n]]
          /\ \A n \in Members : IsOffsets(position'[n])
      BY <1>1, <1>3, NoOffsetsOK DEF Forget, MembersOK
    <2>4. /\ request' = [n \in Members |-> request'[n]]
          /\ \A n \in Members : IsOffsets(request'[n])
      BY <1>1, <1>3, NoOffsetsOK DEF Forget, MembersOK
    <2>5. runs' \in Deployments
      BY <1>1 DEF Rest, MembersOK
    <2> QED
      BY <2>1, <2>2, <2>3, <2>4, <2>5 DEF MembersOK, IsOffsets
  <1>5. TypeOK'
    <2>1. LogOK' /\ GroupOK'
      BY <1>1, <1>2 DEF TypeOK, LogOK, GroupOK, Rest
    <2>2. faults' \in 0..MaxFaults
      BY <1>1, FaultsOK DEF TypeOK
    <2> QED
      BY <1>4, <2>1, <2>2 DEF TypeOK
  <1>6. OffsetsCover'
    <2>1. /\ \A n \in Members : Covers(position'[n], end, handled)
          /\ \A n \in Members : Covers(request'[n], end, handled)
      BY <1>1, <1>3, NoOffsetsOK DEF OffsetsCover
    <2> QED
      BY <1>2, <2>1, OffsetsKept DEF Rest
  <1>7. ReportCovers'
    BY <1>1 DEF ReportCovers, Rest
  <1>8. Counted'
    <2>1. \A p \in Partitions, i \in 1..MaxRecords : Able(p, i)' \subseteq Able(p, i)
      BY <1>3, NoOffsetsOK DEF Able
    <2>2. \A p \in Partitions : Coming(p)' = 1 => Coming(p) = 1
      BY <1>1, <1>3 DEF Coming, Rest, TypeOK, GroupOK
    <2> QED
      BY <1>1, <2>1, <2>2, CountedKept DEF Rest
  <1> QED
    BY <1>5, <1>6, <1>7, <1>8 DEF IInv

\* The state of members changes, no offset but by a commit.
LEMMA StatusOK ==
    ASSUME IInv, UNCHANGED Rest, UNCHANGED <<gen, position>>, CheckOK',
           status' \in [Members -> {"up", "deaf", "ended", "down"}],
           joined' \subseteq Members,
           \A n \in Members : n \in joined' /\ status'[n] = "up" => n \in joined /\ status[n] = "up",
           request' = [n \in Members |-> request'[n]],
           \A n \in Members : request'[n] = request[n] \/ request'[n] = NoOffsets,
           \E m \in Members : committed' \in {committed, With(request[m]), With(position[m])},
           Fault \/ UNCHANGED faults,
           ReportCovers'
    PROVE  IInv'
  <1>1. TypeOK /\ OffsetsCover /\ Counted /\ MembersOK
    BY DEF IInv, TypeOK
  <1>2. committed' \in [Partitions -> Nat] /\ Covers(committed', end, handled)
    BY CommitOK
  <1>3. MembersOK'
    <2>1. \A n \in Members : IsOffsets(request'[n])
      BY <1>1, NoOffsetsOK DEF MembersOK
    <2>2. /\ position' = [n \in Members |-> position'[n]]
          /\ \A n \in Members : IsOffsets(position'[n])
      BY <1>1 DEF MembersOK
    <2>3. runs' \in Deployments /\ gen' \in [Members -> Nat]
      BY <1>1 DEF Rest, MembersOK
    <2> QED
      BY <2>1, <2>2, <2>3 DEF MembersOK, IsOffsets
  <1>4. TypeOK'
    <2>1. LogOK' /\ GroupOK'
      BY <1>1, <1>2 DEF TypeOK, LogOK, GroupOK, Rest
    <2>2. faults' \in 0..MaxFaults
      BY <1>1, FaultsOK DEF TypeOK
    <2> QED
      BY <1>3, <2>1, <2>2 DEF TypeOK
  <1>5. OffsetsCover'
    <2>1. \A n \in Members : Covers(request'[n], end, handled)
      BY <1>1, NoOffsetsOK DEF OffsetsCover
    <2>2. \A n \in Members : Covers(position'[n], end, handled)
      BY <1>1 DEF OffsetsCover
    <2> QED
      BY <1>2, <2>1, <2>2, OffsetsKept DEF Rest
  <1>6. Counted'
    BY <1>1, CountedQuiet DEF Rest
  <1> QED
    BY <1>4, <1>5, <1>6 DEF IInv

LEMMA CommitStoredStep == ASSUME IInv, NEW m \in Members, CommitStored(m) PROVE IInv'
  <1>1. /\ UNCHANGED Rest /\ UNCHANGED <<gen, position, status, joined, faults, checkVars>>
        /\ committed' = With(request[m]) /\ request' = [request EXCEPT ![m] = NoOffsets]
    BY DEF CommitStored, Rest, groupVars
  <1>2. MembersOK /\ GroupOK /\ CheckOK /\ ReportCovers
    BY DEF IInv, TypeOK
  <1>3. CheckOK' /\ ReportCovers'
    BY <1>1, <1>2 DEF CheckOK, ReportCovers, checkVars, Rest
  <1>4. /\ request' = [n \in Members |-> request'[n]]
        /\ \A n \in Members : request'[n] = request[n] \/ request'[n] = NoOffsets
    BY <1>1, <1>2 DEF MembersOK
  <1> QED
    BY <1>1, <1>2, <1>3, <1>4, StatusOK DEF MembersOK, GroupOK

LEMMA CommitRefusedStep == ASSUME IInv, NEW m \in Members, CommitRefused(m) PROVE IInv'
  <1>1. /\ UNCHANGED Rest /\ UNCHANGED <<gen, position, joined, checkVars>>
        /\ Fault \/ UNCHANGED faults
        /\ committed' \in {committed, With(request[m])}
        /\ request' = [request EXCEPT ![m] = NoOffsets]
        /\ status' = [status EXCEPT ![m] = "deaf"]
    BY DEF CommitRefused, Rest, groupVars
  <1>2. MembersOK /\ GroupOK /\ CheckOK /\ ReportCovers
    BY DEF IInv, TypeOK
  <1>3. CheckOK' /\ ReportCovers'
    BY <1>1, <1>2 DEF CheckOK, ReportCovers, checkVars, Rest
  <1>4. /\ request' = [n \in Members |-> request'[n]]
        /\ \A n \in Members : request'[n] = request[n] \/ request'[n] = NoOffsets
    BY <1>1, <1>2 DEF MembersOK
  <1>5. /\ status' \in [Members -> {"up", "deaf", "ended", "down"}]
        /\ \A n \in Members : status'[n] = "up" => status[n] = "up"
    BY <1>1, <1>2 DEF MembersOK
  <1> QED
    BY <1>1, <1>2, <1>3, <1>4, <1>5, StatusOK DEF GroupOK

LEMMA AutoCommitStep == ASSUME IInv, NEW m \in Members, AutoCommit(m) PROVE IInv'
  <1>1. /\ UNCHANGED Rest /\ UNCHANGED <<gen, position, status, request, joined, checkVars, faults>>
        /\ committed' = With(position[m])
    BY DEF AutoCommit, Rest, groupVars, memberVars
  <1>2. MembersOK /\ GroupOK /\ CheckOK /\ ReportCovers
    BY DEF IInv, TypeOK
  <1>3. CheckOK' /\ ReportCovers'
    BY <1>1, <1>2 DEF CheckOK, ReportCovers, checkVars, Rest
  <1> QED
    BY <1>1, <1>2, <1>3, StatusOK DEF MembersOK, GroupOK

LEMMA LoopEndsStep == ASSUME IInv, NEW m \in Members, LoopEnds(m) PROVE IInv'
  <1>1. /\ UNCHANGED Rest /\ UNCHANGED <<gen, position, request, joined, checkVars, committed>>
        /\ Fault /\ status' = [status EXCEPT ![m] = "deaf"]
    BY DEF LoopEnds, Rest, groupVars
  <1>2. MembersOK /\ GroupOK /\ CheckOK /\ ReportCovers
    BY DEF IInv, TypeOK
  <1>3. CheckOK' /\ ReportCovers'
    BY <1>1, <1>2 DEF CheckOK, ReportCovers, checkVars, Rest
  <1>4. /\ status' \in [Members -> {"up", "deaf", "ended", "down"}]
        /\ \A n \in Members : status'[n] = "up" => status[n] = "up"
    BY <1>1, <1>2 DEF MembersOK
  <1> QED
    BY <1>1, <1>2, <1>3, <1>4, StatusOK DEF MembersOK, GroupOK

\* A process that starts, or a lag check, is not in the group yet.
LEMMA StartStepOK ==
    ASSUME IInv, NEW m \in Members, Start(m) \/ StartCheck(m)
    PROVE  IInv'
  <1>1. /\ UNCHANGED Rest /\ UNCHANGED <<gen, position, request, committed>>
        /\ Fault \/ UNCHANGED faults
        /\ status' = [status EXCEPT ![m] = "up"] /\ joined' = joined \ {m}
        /\ UNCHANGED checkVars \/ (todo' = None /\ endSeen' = None /\ lagInfo' = {})
    BY DEF Start, StartCheck, Rest
  <1>2. MembersOK /\ GroupOK /\ CheckOK /\ ReportCovers
    BY DEF IInv, TypeOK
  <1>3. CheckOK' /\ ReportCovers'
    BY <1>1, <1>2 DEF CheckOK, ReportCovers, checkVars, Rest
  <1>4. /\ status' \in [Members -> {"up", "deaf", "ended", "down"}]
        /\ joined' \subseteq Members
        /\ \A n \in Members : n \in joined' /\ status'[n] = "up" => n \in joined /\ status[n] = "up"
    BY <1>1, <1>2 DEF MembersOK, GroupOK
  <1> QED
    BY <1>1, <1>2, <1>3, <1>4, StatusOK DEF MembersOK

LEMMA CheckStepOK ==
    ASSUME IInv, NEW m \in Members, UNCHANGED <<Rest, joined, memberVars, committed, faults>>,
           CheckOK', ReportCovers'
    PROVE  IInv'
  <1>1. UNCHANGED Rest /\ UNCHANGED <<gen, position, status, request, joined, committed, faults>>
    BY DEF memberVars
  <1>2. MembersOK /\ GroupOK
    BY DEF IInv, TypeOK
  <1> QED
    BY <1>1, <1>2, StatusOK DEF MembersOK, GroupOK

LEMMA SnapshotStep == ASSUME IInv, NEW m \in Members, Snapshot(m) PROVE IInv'
  <1>1. /\ UNCHANGED <<Rest, joined, memberVars, committed, faults>>
        /\ todo' = DOMAIN position[m] /\ UNCHANGED <<endSeen, lagInfo>>
    BY DEF Snapshot, Rest, groupVars
  <1>2. MembersOK /\ CheckOK /\ ReportCovers
    BY DEF IInv, TypeOK
  <1>3. CheckOK' /\ ReportCovers'
    BY <1>1, <1>2, ConstantsAssumption DEF CheckOK, ReportCovers, MembersOK, IsOffsets, Rest
  <1> QED
    BY <1>1, <1>3, CheckStepOK

LEMMA ReadEndStep ==
    ASSUME IInv, NEW m \in Members, NEW p \in Partitions, ReadEnd(m, p)
    PROVE  IInv'
  <1>1. /\ UNCHANGED <<Rest, joined, memberVars, committed, faults>>
        /\ endSeen' = [partition |-> p, end |-> end[p]] /\ UNCHANGED <<todo, lagInfo>>
        /\ todo # None
    BY DEF ReadEnd, Rest, groupVars
  <1>2. LogOK /\ CheckOK /\ ReportCovers
    BY DEF IInv, TypeOK
  <1>3. end[p] \in Nat
    BY <1>2, ConstantsAssumption DEF LogOK
  <1>4. CheckOK' /\ ReportCovers'
    BY <1>1, <1>2, <1>3 DEF CheckOK, ReportCovers, Rest
  <1> QED
    BY <1>1, <1>4, CheckStepOK

\* The check reports a committed offset, which covers what was received.
LEMMA ReadCommittedStep == ASSUME IInv, NEW m \in Members, ReadCommitted(m) PROVE IInv'
  <1> DEFINE p == endSeen.partition
             row == [partition |-> p, end |-> endSeen.end, committed |-> committed[p]]
  <1>1. /\ UNCHANGED <<Rest, joined, memberVars, committed, faults>>
        /\ lagInfo' = lagInfo \cup {row} /\ todo' = todo \ {p} /\ endSeen' = None
        /\ endSeen # None /\ Runs(m, "lag")
    BY DEF ReadCommitted, Rest, groupVars
  <1>2. LogOK /\ CheckOK /\ ReportCovers /\ OffsetsCover
    BY DEF IInv, TypeOK
  <1>3. p \in Partitions /\ endSeen.end \in Nat /\ committed[p] \in Nat
    BY <1>1, <1>2 DEF CheckOK, LogOK
  <1>4. committed[p] <= MaxRecords /\ \A i \in 1..committed[p] : handled[p][i] > 0
    BY <1>2, <1>3, ConstantsAssumption DEF OffsetsCover, Covers, LogOK
  <1>5. ReportCovers'
    BY <1>1, <1>2, <1>4 DEF ReportCovers, Rest
  <1>6. CheckOK'
    BY <1>1, <1>2, <1>3 DEF CheckOK
  <1> QED
    BY <1>1, <1>5, <1>6, CheckStepOK

-----------------------------------------------------------------------------
(* Consumers that stop                                                     *)

LEMMA LastCommitOK ==
    ASSUME NEW m \in Members, LastCommit(m) \/ UNCHANGED committed
    PROVE  committed' \in {committed, With(request[m]), With(position[m])}
  BY DEF LastCommit

LEMMA LoopEnds06Step == ASSUME IInv, NEW m \in Members, LoopEnds06(m) PROVE IInv'
  <1>1. /\ Forget({m}, "ended") /\ UNCHANGED <<Rest, joined>> /\ UNCHANGED checkVars /\ Fault
        /\ committed' \in {committed, With(request[m]), With(position[m])}
    BY LastCommitOK DEF LoopEnds06, Rest, groupVars
  <1>2. CheckOK'
    BY <1>1 DEF IInv, TypeOK, CheckOK, checkVars
  <1>3. lagInfo' = lagInfo
    BY <1>1 DEF checkVars
  <1> QED
    BY <1>1, <1>2, <1>3, ForgetOK

LEMMA EndCheckStep == ASSUME IInv, NEW m \in Members, EndCheck(m) PROVE IInv'
  <1>1. /\ Forget({m}, "down") /\ UNCHANGED <<Rest, joined>>
        /\ Fault \/ UNCHANGED faults
        /\ committed' = committed /\ todo' = None /\ endSeen' = None /\ lagInfo' = lagInfo
    BY DEF EndCheck, Rest, groupVars
  <1>2. CheckOK'
    BY <1>1 DEF IInv, TypeOK, CheckOK
  <1>3. {m} \in SUBSET Members /\ (\A r \in lagInfo' : r \in lagInfo)
    BY <1>1
  <1>4. committed' \in {committed, With(request[m]), With(position[m])}
    BY <1>1
  <1> QED
    BY <1>1, <1>2, <1>3, <1>4, ForgetOK

LEMMA GoneStep ==
    ASSUME IInv, NEW m \in Members, Gone(m), LastCommit(m) \/ UNCHANGED committed
    PROVE  IInv'
  <1>1. /\ Forget(Process(m), "down") /\ UNCHANGED <<Rest, joined>> /\ Fault
        /\ todo' = None /\ endSeen' = None /\ lagInfo' = lagInfo
    BY DEF Gone, Rest, groupVars
  <1>2. committed' \in {committed, With(request[m]), With(position[m])}
    BY LastCommitOK
  <1>3. CheckOK' /\ Process(m) \in SUBSET Members
    BY <1>1 DEF IInv, TypeOK, CheckOK, Process
  <1> QED
    BY <1>1, <1>2, <1>3, ForgetOK

-----------------------------------------------------------------------------
(* Producers and the group                                                 *)

\* A full partition alone would use up all records.
LEMMA RoomLeft ==
    ASSUME LogOK, NEW p \in Partitions,
           Cardinality({r \in Partitions \X (1..MaxRecords) : r[2] <= end[r[1]]}) < MaxRecords
    PROVE  end[p] < MaxRecords
  <1> DEFINE S == {r \in Partitions \X (1..MaxRecords) : r[2] <= end[r[1]]}
             T == {p} \X (1..MaxRecords)
  <1>1. MaxRecords \in Nat /\ IsFiniteSet(Partitions) /\ end[p] \in 0..MaxRecords
    BY ConstantsAssumption DEF LogOK
  <1>2. IsFiniteSet(1..MaxRecords) /\ Cardinality(1..MaxRecords) = MaxRecords
    BY <1>1, FS_Interval
  <1>3. IsFiniteSet(Partitions \X (1..MaxRecords))
    BY <1>1, <1>2, FS_Product
  <1>4. S \in SUBSET (Partitions \X (1..MaxRecords))
    OBVIOUS
  <1>5. IsFiniteSet(S)
    BY <1>3, <1>4, FS_Subset
  <1>6. Cardinality(T) = MaxRecords
    <2>1. IsFiniteSet({p}) /\ Cardinality({p}) = 1
      BY FS_Singleton
    <2>2. Cardinality(T) = Cardinality({p}) * Cardinality(1..MaxRecords)
      BY <1>2, <2>1, FS_Product
    <2> HIDE DEF T
    <2> QED
      BY <1>1, <1>2, <2>1, <2>2
  <1>7. ASSUME end[p] = MaxRecords
        PROVE  FALSE
    <2>1. T \in SUBSET S
      BY <1>1, <1>7
    <2>2. Cardinality(T) <= Cardinality(S)
      BY <1>5, <2>1, FS_Subset
    <2>3. Cardinality(S) \in Nat
      BY <1>5, FS_CardinalityType
    <2>4. Cardinality(S) < MaxRecords
      OBVIOUS
    <2> HIDE DEF S, T
    <2> QED
      BY <1>1, <1>6, <2>2, <2>3, <2>4
  <1> QED
    BY <1>1, <1>7

LEMMA AppendedStep == ASSUME IInv, NEW p \in Partitions, Appended(p) PROVE IInv'
  <1>1. /\ end' = [end EXCEPT ![p] = @ + 1]
        /\ UNCHANGED <<runs, committed, generation, joined, owner, status, gen, position, request,
                       todo, endSeen, lagInfo, handled, faults>>
    BY DEF Appended, groupVars, memberVars, checkVars
  <1>2. LogOK /\ MembersOK /\ OffsetsCover
    BY DEF IInv, TypeOK
  <1>3. end[p] < MaxRecords
    BY <1>2, RoomLeft DEF Appended
  <1>4. end' \in [Partitions -> 0..MaxRecords]
    BY <1>1, <1>2, <1>3, ConstantsAssumption DEF LogOK
  <1>5. \A q \in Partitions : end[q] \in Nat /\ end'[q] \in Nat /\ end[q] <= end'[q]
    BY <1>1, <1>2, <1>4, ConstantsAssumption DEF LogOK
  <1>6. TypeOK'
    BY <1>1, <1>4 DEF IInv, TypeOK, LogOK, GroupOK, MembersOK, CheckOK, IsOffsets
  <1>7. OffsetsCover'
    <2>1. IsOffsets(committed)
      BY <1>2 DEF IsOffsets, LogOK
    <2>2. Covers(committed, end', handled)
      BY <1>2, <1>5, <2>1, CoversStay DEF OffsetsCover
    <2>3. ASSUME NEW m \in Members
          PROVE  Covers(position[m], end', handled) /\ Covers(request[m], end', handled)
      BY <1>2, <1>5, CoversStay DEF OffsetsCover, MembersOK
    <2> QED
      BY <1>1, <2>2, <2>3 DEF OffsetsCover
  <1>8. ReportCovers' /\ Counted'
    BY <1>1 DEF IInv, ReportCovers, Counted, Able, Coming
  <1> QED
    BY <1>6, <1>7, <1>8 DEF IInv

\* A new generation lets every partition be learnt of once more.
LEMMA NewGenerationStep ==
    ASSUME IInv, NEW J \in SUBSET Members, NewGeneration(J),
           UNCHANGED <<runs, end, committed, memberVars, checkVars, handled>>,
           Fault \/ UNCHANGED faults
    PROVE  IInv'
  <1>1. /\ joined' = J /\ generation' = generation + 1 /\ owner' \in Assignments(J)
        /\ UNCHANGED <<runs, end, committed, status, gen, position, request,
                       todo, endSeen, lagInfo, handled>>
    BY DEF NewGeneration, memberVars, checkVars
  <1>2. TypeOK /\ Counted
    BY DEF IInv
  <1>3. owner' \in [Partitions -> Members \cup {None}]
    <2>1. CASE J = {}
      BY <1>1, <2>1 DEF Assignments
    <2>2. CASE J # {}
      BY <1>1, <2>2 DEF Assignments
    <2> QED
      BY <2>1, <2>2
  <1>4. GroupOK'
    BY <1>1, <1>2, <1>3 DEF TypeOK, GroupOK
  <1>5. TypeOK'
    <2>1. faults' \in 0..MaxFaults
      BY <1>2, FaultsOK DEF TypeOK
    <2>2. LogOK' /\ MembersOK' /\ CheckOK'
      BY <1>1, <1>2 DEF TypeOK, LogOK, MembersOK, CheckOK, IsOffsets
    <2> QED
      BY <1>4, <2>1, <2>2 DEF TypeOK
  <1>6. OffsetsCover' /\ ReportCovers'
    BY <1>1 DEF IInv, OffsetsCover, ReportCovers
  <1>7. Counted'
    <2> SUFFICES ASSUME NEW p \in Partitions, NEW i \in 1..MaxRecords
                 PROVE  handled'[p][i] + Cardinality(Able(p, i)') + Coming(p)' <= generation'
      BY DEF Counted
    <2>1. Able(p, i)' = Able(p, i)
      BY <1>1 DEF Able
    <2>2. Coming(p)' \in {0, 1}
      BY DEF Coming
    <2>3. handled[p][i] + Cardinality(Able(p, i)) + Coming(p) <= generation
      BY <1>2 DEF Counted
    <2>4. /\ Cardinality(Able(p, i)) \in Nat /\ handled[p][i] \in Nat
          /\ generation \in Nat /\ Coming(p) \in {0, 1}
      BY <1>2, CountsTyped
    <2> QED
      BY <1>1, <2>1, <2>2, <2>3, <2>4
  <1> QED
    BY <1>5, <1>6, <1>7 DEF IInv

LEMMA RebalanceStep == ASSUME IInv, Rebalance PROVE IInv'
  <1>1. PICK J \in SUBSET {m \in Members : status[m] = "up" \/ (status[m] = "deaf" /\ m \in joined)} :
           NewGeneration(J)
    BY DEF Rebalance
  <1>2. J \in SUBSET Members
    OBVIOUS
  <1> QED
    BY <1>1, <1>2, NewGenerationStep DEF Rebalance

LEMMA ExpelStep == ASSUME IInv, NEW m \in Members, Expel(m) PROVE IInv'
  <1>1. joined \ {m} \in SUBSET Members
    BY DEF IInv, TypeOK, GroupOK
  <1> QED
    BY <1>1, NewGenerationStep DEF Expel

-----------------------------------------------------------------------------
(* Consumers that take messages                                            *)

\* The owner learns of its partitions: it may take what it was coming for.
LEMMA LearnStep == ASSUME IInv, NEW m \in Members, Learn(m) PROVE IInv'
  <1> DEFINE new == [p \in Assigned(m) |-> committed[p]]
  <1>1. /\ status[m] = "up" /\ m \in joined /\ gen[m] # generation
        /\ gen' = [gen EXCEPT ![m] = generation]
        /\ position' = [position EXCEPT ![m] = new]
        /\ UNCHANGED <<runs, end, committed, generation, joined, owner, status, request,
                       todo, endSeen, lagInfo, handled, faults>>
    BY DEF Learn, groupVars, checkVars
  <1>2. LogOK /\ GroupOK /\ MembersOK /\ OffsetsCover /\ TypeOK /\ Counted
    BY DEF IInv, TypeOK
  <1>3. Assigned(m) \subseteq Partitions
    BY DEF Assigned
  <1>4. \A p \in Assigned(m) : new[p] = committed[p] /\ committed[p] \in Nat
    BY <1>2, <1>3 DEF LogOK
  <1>5. IsOffsets(new) /\ Covers(new, end, handled)
    <2>1. IsOffsets(new)
      BY <1>3, <1>4 DEF IsOffsets
    <2>2. Covers(committed, end, handled) /\ DOMAIN committed = Partitions
      BY <1>2 DEF OffsetsCover, LogOK
    <2> QED
      BY <1>3, <1>4, <2>1, <2>2 DEF Covers
  <1>6. \A n \in Members : position'[n] = IF n = m THEN new ELSE position[n]
    BY <1>1, <1>2 DEF MembersOK
  <1>7. MembersOK'
    <2>1. gen' \in [Members -> Nat] /\ status' \in [Members -> {"up", "deaf", "ended", "down"}]
      BY <1>1, <1>2 DEF MembersOK, GroupOK
    <2>2. /\ position' = [n \in Members |-> position'[n]]
          /\ \A n \in Members : IsOffsets(position'[n])
      BY <1>1, <1>2, <1>5, <1>6 DEF MembersOK
    <2>3. /\ request' = [n \in Members |-> request'[n]]
          /\ \A n \in Members : IsOffsets(request'[n])
      BY <1>1, <1>2 DEF MembersOK
    <2>4. runs' \in Deployments
      BY <1>1, <1>2 DEF MembersOK
    <2> QED
      BY <2>1, <2>2, <2>3, <2>4 DEF MembersOK, IsOffsets
  <1>8. TypeOK'
    BY <1>1, <1>2, <1>7 DEF TypeOK, LogOK, GroupOK, CheckOK
  <1>9. OffsetsCover' /\ ReportCovers'
    BY <1>1, <1>2, <1>5, <1>6 DEF IInv, OffsetsCover, ReportCovers
  <1>10. Counted'
    <2> SUFFICES ASSUME NEW p \in Partitions, NEW i \in 1..MaxRecords
                 PROVE  handled'[p][i] + Cardinality(Able(p, i)') + Coming(p)' <= generation'
      BY DEF Counted
    <2>1. handled[p][i] + Cardinality(Able(p, i)) + Coming(p) <= generation
      BY <1>2 DEF Counted
    <2>2. /\ IsFiniteSet(Able(p, i)) /\ Cardinality(Able(p, i)) \in Nat /\ handled[p][i] \in Nat
          /\ generation \in Nat /\ Coming(p) \in {0, 1}
      BY <1>2, CountsTyped
    <2>3. handled' = handled /\ generation' = generation
      BY <1>1
    <2>4. CASE owner[p] = m
      <3>1. Coming(p) = 1
        BY <1>1, <2>4 DEF Coming
      <3>2. Coming(p)' = 0
        BY <1>1, <1>2, <2>4 DEF Coming, MembersOK
      <3>3. Able(p, i)' \in SUBSET (Able(p, i) \cup {m})
        BY <1>6 DEF Able
      <3>4. /\ IsFiniteSet(Able(p, i) \cup {m})
            /\ Cardinality(Able(p, i) \cup {m}) \in Nat
            /\ Cardinality(Able(p, i) \cup {m}) <= Cardinality(Able(p, i)) + 1
        <4>1. /\ IsFiniteSet(Able(p, i) \cup {m})
              /\ Cardinality(Able(p, i) \cup {m}) =
                    IF m \in Able(p, i) THEN Cardinality(Able(p, i)) ELSE Cardinality(Able(p, i)) + 1
          BY <2>2, FS_AddElement
        <4> QED
          BY <2>2, <4>1
      <3>5. IsFiniteSet(Able(p, i)') /\ Cardinality(Able(p, i)') <= Cardinality(Able(p, i) \cup {m})
        BY <3>3, <3>4, FS_Subset
      <3>6. Cardinality(Able(p, i)') \in Nat
        BY <3>5, FS_CardinalityType
      <3> QED
        BY <2>1, <2>2, <2>3, <3>1, <3>2, <3>4, <3>5, <3>6
    <2>5. CASE owner[p] # m
      <3>1. p \notin Assigned(m)
        BY <2>5 DEF Assigned
      <3>2. Able(p, i)' \in SUBSET Able(p, i)
        BY <1>6, <3>1 DEF Able
      <3>3. IsFiniteSet(Able(p, i)') /\ Cardinality(Able(p, i)') <= Cardinality(Able(p, i))
        BY <2>2, <3>2, FS_Subset
      <3>4. Cardinality(Able(p, i)') \in Nat
        BY <3>3, FS_CardinalityType
      <3>5. Coming(p)' = Coming(p)
        BY <1>1, <1>2, <2>5 DEF Coming, MembersOK, GroupOK
      <3> QED
        BY <2>1, <2>2, <2>3, <3>3, <3>4, <3>5
    <2> QED
      BY <2>4, <2>5
  <1> QED
    BY <1>8, <1>9, <1>10 DEF IInv

\* A message goes to a list: whoever takes it may not take it again.
LEMMA TakeStep ==
    ASSUME IInv, NEW m \in Members, NEW p \in Partitions, Take(m, p),
           RequestCommit(m) \/ UNCHANGED request
    PROVE  IInv'
  <1> DEFINE x == position[m][p]
             new == [position[m] EXCEPT ![p] = @ + 1]
  <1>1. /\ p \in DOMAIN position[m] /\ x < end[p]
        /\ position' = [position EXCEPT ![m][p] = @ + 1]
        /\ handled' = [handled EXCEPT ![p][x + 1] = @ + 1]
        /\ UNCHANGED <<runs, end, committed, generation, joined, owner, status, gen,
                       todo, endSeen, lagInfo, faults>>
    BY DEF Take, groupVars, checkVars
  <1>2. LogOK /\ GroupOK /\ MembersOK /\ CheckOK /\ OffsetsCover /\ TypeOK /\ Counted /\ ReportCovers
    BY DEF IInv, TypeOK
  <1>3. IsOffsets(position[m]) /\ Covers(position[m], end, handled)
    BY <1>2 DEF MembersOK, OffsetsCover
  <1>4. x \in Nat /\ end[p] \in 0..MaxRecords /\ MaxRecords \in Nat
    BY <1>1, <1>2, <1>3, ConstantsAssumption DEF IsOffsets, LogOK
  <1>5. x + 1 \in 1..MaxRecords /\ x + 1 <= end[p]
    BY <1>1, <1>4
  <1>6. \A q \in Partitions, i \in 1..MaxRecords :
            /\ handled[q][i] \in Nat
            /\ handled'[q][i] = IF q = p /\ i = x + 1 THEN handled[q][i] + 1 ELSE handled[q][i]
    BY <1>1, <1>2, <1>5 DEF LogOK
  <1>7. handled' \in [Partitions -> [1..MaxRecords -> Nat]]
    <2>1. handled[p] \in [1..MaxRecords -> Nat] /\ handled[p][x + 1] + 1 \in Nat
      BY <1>2, <1>5, <1>6 DEF LogOK
    <2>2. [handled[p] EXCEPT ![x + 1] = @ + 1] \in [1..MaxRecords -> Nat]
      BY <1>5, <2>1
    <2> QED
      BY <1>1, <1>2, <2>2 DEF LogOK
  <1>8. \A n \in Members : position'[n] = IF n = m THEN new ELSE position[n]
    BY <1>1, <1>2 DEF MembersOK
  <1>9. /\ DOMAIN new = DOMAIN position[m]
        /\ \A q \in DOMAIN position[m] : new[q] = IF q = p THEN x + 1 ELSE position[m][q]
    BY <1>1
  <1>10. IsOffsets(new)
    <2>1. /\ DOMAIN position[m] \subseteq Partitions
          /\ \A q \in DOMAIN position[m] : position[m][q] \in Nat
      BY <1>3 DEF IsOffsets
    <2>2. x + 1 \in Nat
      BY <1>4
    <2>3. new = [q \in DOMAIN position[m] |-> IF q = p THEN x + 1 ELSE position[m][q]]
      OBVIOUS
    <2>4. new \in [DOMAIN position[m] -> Nat]
      BY <2>1, <2>2, <2>3
    <2> QED
      BY <1>9, <2>1, <2>4 DEF IsOffsets
  <1>11. \A q \in Partitions : /\ end[q] \in Nat /\ end[q] <= end[q]
                                /\ \A i \in 1..end[q] : handled[q][i] > 0 => handled'[q][i] > 0
    <2> SUFFICES ASSUME NEW q \in Partitions, NEW i \in 1..end[q], handled[q][i] > 0
                 PROVE  end[q] \in Nat /\ handled'[q][i] > 0
      BY <1>2, <1>4 DEF LogOK
    <2>1. end[q] \in 0..MaxRecords
      BY <1>2 DEF LogOK
    <2>2. i \in 1..MaxRecords
      BY <1>4, <2>1
    <2> QED
      BY <1>6, <2>1, <2>2
  <1>12. Covers(new, end, handled')
    <2>1. Covers(position[m], end, handled')
      BY <1>3, <1>11, CoversStay
    <2> SUFFICES ASSUME NEW q \in DOMAIN new
                 PROVE  new[q] <= end[q] /\ \A i \in 1..new[q] : handled'[q][i] > 0
      BY DEF Covers
    <2>2. CASE q # p
      BY <1>9, <2>1, <2>2 DEF Covers
    <2>3. CASE q = p
      <3>1. \A i \in 1..x : handled'[p][i] > 0
        BY <1>1, <2>1 DEF Covers
      <3>2. handled'[p][x + 1] > 0
        BY <1>5, <1>6
      <3>3. \A i \in 1..(x + 1) : i \in 1..x \/ i = x + 1
        BY <1>4
      <3> QED
        BY <1>1, <1>5, <1>9, <2>3, <3>1, <3>2, <3>3
    <2> QED
      BY <2>2, <2>3
  <1>13. \A n \in Members : IsOffsets(position'[n]) /\ Covers(position'[n], end, handled')
    <2> SUFFICES ASSUME NEW n \in Members, n # m
                 PROVE  IsOffsets(position[n]) /\ Covers(position[n], end, handled')
      BY <1>8, <1>10, <1>12
    <2>1. IsOffsets(position[n]) /\ Covers(position[n], end, handled)
      BY <1>2 DEF MembersOK, OffsetsCover
    <2> QED
      BY <1>11, <2>1, CoversStay
  <1>14. /\ request' = [n \in Members |-> request'[n]]
         /\ \A n \in Members : request'[n] = request[n] \/ request'[n] = position'[n]
    BY <1>2 DEF RequestCommit, MembersOK
  <1>15. \A n \in Members : IsOffsets(request'[n]) /\ Covers(request'[n], end, handled')
    <2> SUFFICES ASSUME NEW n \in Members
                 PROVE  IsOffsets(request[n]) /\ Covers(request[n], end, handled')
      BY <1>13, <1>14
    <2>1. IsOffsets(request[n]) /\ Covers(request[n], end, handled)
      BY <1>2 DEF MembersOK, OffsetsCover
    <2> QED
      BY <1>11, <2>1, CoversStay
  <1>16. TypeOK'
    <2>1. position' = [n \in Members |-> position'[n]]
      BY <1>1, <1>2 DEF MembersOK
    <2>2. MembersOK'
      BY <1>1, <1>2, <1>13, <1>14, <1>15, <2>1 DEF MembersOK, IsOffsets
    <2>3. LogOK' /\ GroupOK' /\ CheckOK' /\ faults' \in 0..MaxFaults
      BY <1>1, <1>2, <1>7 DEF TypeOK, LogOK, GroupOK, CheckOK
    <2> QED
      BY <2>2, <2>3 DEF TypeOK
  <1>17. OffsetsCover'
    <2>1. IsOffsets(committed) /\ Covers(committed, end, handled)
      BY <1>2 DEF IsOffsets, LogOK, OffsetsCover
    <2>2. Covers(committed, end, handled')
      BY <1>11, <2>1, CoversStay
    <2> QED
      BY <1>1, <1>13, <1>15, <2>2 DEF OffsetsCover
  <1>18. ReportCovers'
    <2> SUFFICES ASSUME NEW r \in lagInfo
                 PROVE  /\ r.committed <= MaxRecords
                        /\ \A i \in 1..r.committed : handled'[r.partition][i] > 0
      BY <1>1 DEF ReportCovers
    <2>1. r.partition \in Partitions /\ r.committed \in Nat
      BY <1>2 DEF CheckOK
    <2>2. r.committed <= MaxRecords /\ \A i \in 1..r.committed : handled[r.partition][i] > 0
      BY <1>2 DEF ReportCovers
    <2>3. \A i \in 1..r.committed : i \in 1..MaxRecords
      BY <1>4, <2>1, <2>2
    <2> QED
      BY <1>6, <2>1, <2>2, <2>3
  <1>19. Counted'
    <2> SUFFICES ASSUME NEW q \in Partitions, NEW i \in 1..MaxRecords
                 PROVE  handled'[q][i] + Cardinality(Able(q, i)') + Coming(q)' <= generation'
      BY DEF Counted
    <2>1. handled[q][i] + Cardinality(Able(q, i)) + Coming(q) <= generation
      BY <1>2 DEF Counted
    <2>2. /\ IsFiniteSet(Able(q, i)) /\ Cardinality(Able(q, i)) \in Nat /\ handled[q][i] \in Nat
          /\ generation \in Nat /\ Coming(q) \in {0, 1}
      BY <1>2, CountsTyped
    <2>3. Coming(q)' = Coming(q) /\ generation' = generation
      BY <1>1 DEF Coming
    <2>4. CASE q = p /\ i = x + 1
      <3>1. m \in Able(q, i)
        BY <1>1, <1>4, <2>4 DEF Able
      <3>2. Able(q, i)' \in SUBSET (Able(q, i) \ {m})
        BY <1>1, <1>4, <1>8, <1>9, <2>4 DEF Able
      <3>3. IsFiniteSet(Able(q, i) \ {m}) /\ Cardinality(Able(q, i) \ {m}) = Cardinality(Able(q, i)) - 1
        BY <2>2, <3>1, FS_RemoveElement
      <3>4. /\ IsFiniteSet(Able(q, i)')
            /\ Cardinality(Able(q, i)') <= Cardinality(Able(q, i) \ {m})
        BY <3>2, <3>3, FS_Subset
      <3>5. Cardinality(Able(q, i)') \in Nat
        BY <3>4, FS_CardinalityType
      <3>6. handled'[q][i] = handled[q][i] + 1
        BY <1>6, <2>4
      <3> QED
        BY <2>1, <2>2, <2>3, <3>3, <3>4, <3>5, <3>6
    <2>5. CASE ~(q = p /\ i = x + 1)
      <3>1. Able(q, i)' \in SUBSET Able(q, i)
        <4> SUFFICES ASSUME NEW n \in Able(q, i)'
                     PROVE  n \in Able(q, i)
          OBVIOUS
        <4>1. n \in Members /\ q \in DOMAIN position'[n] /\ position'[n][q] < i
          BY DEF Able
        <4>2. CASE n # m
          BY <1>8, <4>1, <4>2 DEF Able
        <4>3. CASE n = m
          <5>1. q \in DOMAIN position[m] /\ new[q] < i
            BY <1>8, <1>9, <4>1, <4>3
          <5>2. position[m][q] < i
            <6>1. CASE q = p
              BY <1>4, <1>9, <5>1, <6>1
            <6>2. CASE q # p
              BY <1>9, <5>1, <6>2
            <6> QED
              BY <6>1, <6>2
          <5> QED
            BY <4>3, <5>1, <5>2 DEF Able
        <4> QED
          BY <4>2, <4>3
      <3>2. IsFiniteSet(Able(q, i)') /\ Cardinality(Able(q, i)') <= Cardinality(Able(q, i))
        BY <2>2, <3>1, FS_Subset
      <3>3. Cardinality(Able(q, i)') \in Nat
        BY <3>2, FS_CardinalityType
      <3>4. handled'[q][i] = handled[q][i]
        BY <1>6, <2>5
      <3> QED
        BY <2>1, <2>2, <2>3, <3>2, <3>3, <3>4
    <2> QED
      BY <2>4, <2>5
  <1> QED
    BY <1>16, <1>17, <1>18, <1>19 DEF IInv

-----------------------------------------------------------------------------
(* The invariant                                                           *)

LEMMA InitIInv == Init => IInv
  <1> SUFFICES ASSUME Init PROVE IInv
    OBVIOUS
  <1>1. /\ runs \in Deployments
        /\ end = [p \in Partitions |-> 0] /\ committed = [p \in Partitions |-> 0]
        /\ generation = 0 /\ joined = {} /\ owner = [p \in Partitions |-> None]
        /\ status = [m \in Members |-> IF IsConsumer(m) THEN "up" ELSE "down"]
        /\ gen = [m \in Members |-> 0]
        /\ position = [m \in Members |-> NoOffsets] /\ request = [m \in Members |-> NoOffsets]
        /\ todo = None /\ endSeen = None /\ lagInfo = {} /\ faults = 0
        /\ handled = [p \in Partitions |-> [i \in 1..MaxRecords |-> 0]]
    BY DEF Init
  <1>2. LogOK /\ GroupOK /\ CheckOK /\ faults \in 0..MaxFaults
    BY <1>1, ConstantsAssumption DEF LogOK, GroupOK, CheckOK
  <1>3. MembersOK
    <2>1. /\ position = [m \in Members |-> position[m]]
          /\ request = [m \in Members |-> request[m]]
      BY <1>1
    <2>2. \A m \in Members : IsOffsets(position[m]) /\ IsOffsets(request[m])
      BY <1>1, NoOffsetsOK
    <2>3. status \in [Members -> {"up", "deaf", "ended", "down"}] /\ gen \in [Members -> Nat]
      BY <1>1
    <2> QED
      BY <1>1, <2>1, <2>2, <2>3 DEF MembersOK
  <1>4. OffsetsCover
    <2>1. \A m \in Members : Covers(position[m], end, handled) /\ Covers(request[m], end, handled)
      BY <1>1, NoOffsetsOK
    <2>2. Covers(committed, end, handled)
      BY <1>1 DEF Covers
    <2> QED
      BY <2>1, <2>2 DEF OffsetsCover
  <1>5. ReportCovers
    BY <1>1 DEF ReportCovers
  <1>6. Counted
    <2> SUFFICES ASSUME NEW p \in Partitions, NEW i \in 1..MaxRecords
                 PROVE  handled[p][i] + Cardinality(Able(p, i)) + Coming(p) <= generation
      BY DEF Counted
    <2>1. Able(p, i) = {}
      BY <1>1, NoOffsetsOK DEF Able
    <2>2. Cardinality(Able(p, i)) = 0
      BY <2>1, FS_EmptySet
    <2>3. Coming(p) = 0
      BY <1>1 DEF Coming
    <2> QED
      BY <1>1, <2>2, <2>3
  <1> QED
    BY <1>2, <1>3, <1>4, <1>5, <1>6 DEF IInv, TypeOK

LEMMA StutterStep == ASSUME IInv, UNCHANGED vars PROVE IInv'
  <1>1. UNCHANGED <<runs, end, committed, generation, joined, owner, status, gen, position, request,
                    todo, endSeen, lagInfo, handled, faults>>
    BY DEF vars, groupVars, memberVars, checkVars
  <1>2. TypeOK'
    BY <1>1 DEF IInv, TypeOK, LogOK, GroupOK, MembersOK, CheckOK, IsOffsets
  <1>3. OffsetsCover'
    BY <1>1 DEF IInv, OffsetsCover, Covers
  <1>4. ReportCovers' /\ Counted'
    BY <1>1 DEF IInv, ReportCovers, Counted, Able, Coming
  <1> QED
    BY <1>2, <1>3, <1>4 DEF IInv

LEMMA NextIInv == IInv /\ [Next]_vars => IInv'
  <1> SUFFICES ASSUME IInv, [Next]_vars PROVE IInv'
    OBVIOUS
  <1>1. CASE Rebalance
    BY <1>1, RebalanceStep
  <1>2. ASSUME NEW p \in Partitions, SendStep(p) PROVE IInv'
    BY <1>2, AppendedStep
       DEF SendStep, SendMessage03, CreateOrder04, SendOrder05, CreateUser06, CreateOrder06,
           SendMessage10
  <1>3. ASSUME NEW m \in Members, MemberStep(m) PROVE IInv'
    <2>1. ASSUME NEW p \in Partitions, Consume(m, p) PROVE IInv'
      BY <2>1, TakeStep DEF Consume, Consume03, Consume04, Consume05, Consume06, Consume10
    <2> QED
      BY <1>3, <2>1, LearnStep, CommitStoredStep, CommitRefusedStep DEF MemberStep
  <1>4. ASSUME NEW m \in Members, CheckStep(m) PROVE IInv'
    BY <1>4, SnapshotStep, ReadCommittedStep, EndCheckStep, ReadEndStep DEF CheckStep
  <1>5. ASSUME NEW m \in Members, AutoCommit(m) \/ Expel(m) \/ LoopEnds(m) \/ LoopEnds06(m)
        PROVE  IInv'
    BY <1>5, AutoCommitStep, ExpelStep, LoopEndsStep, LoopEnds06Step
  <1>6. ASSUME NEW m \in Members, StartCheck(m) \/ StartStep(m) PROVE IInv'
    BY <1>6, StartStepOK DEF StartStep, Start03, Start04, Start05, Start06, Start10
  <1>7. ASSUME NEW m \in Members,
               Crash(m) \/ Shutdown03(m) \/ Shutdown04(m) \/ Shutdown06(m) \/ Shutdown10(m)
        PROVE  IInv'
    BY <1>7, GoneStep DEF Crash, Shutdown03, Shutdown04, Shutdown06, Shutdown10
  <1>8. CASE UNCHANGED vars
    BY <1>8, StutterStep
  <1> QED
    BY <1>1, <1>2, <1>3, <1>4, <1>5, <1>6, <1>7, <1>8 DEF Next

\* IInv holds in every reachable state.
THEOREM Invariance == Spec => []IInv
  BY InitIInv, NextIInv, PTL DEF Spec

-----------------------------------------------------------------------------
(* What it says                                                            *)

\* The variables of Kafka, of the consumers and of the check stay in their
\* domains, and offsets within the log.
THEOREM TypeCorrect == Spec => []TypeOK
  BY Invariance, PTL DEF IInv

\* No consumer of chapters 03 to 06 and 10 commits past a message that it did
\* not put in a list, whatever rebalances, crashes and lag checks come between.
THEOREM AtLeastOnce == Spec => []CommittedIsHandled
  <1>1. IInv => CommittedIsHandled
    <2> SUFFICES ASSUME IInv, NEW p \in Partitions, NEW i \in 1..committed[p]
                 PROVE  i <= end[p] /\ Handled(p, i)
      BY DEF CommittedIsHandled
    <2>1. /\ Covers(committed, end, handled) /\ DOMAIN committed = Partitions
          /\ committed[p] \in Nat /\ end[p] \in 0..MaxRecords
      BY DEF IInv, OffsetsCover, TypeOK, LogOK
    <2>2. committed[p] <= end[p] /\ handled[p][i] > 0
      BY <2>1 DEF Covers
    <2> QED
      BY <2>1, <2>2 DEF Handled
  <1> QED
    BY <1>1, Invariance, PTL

\* A message is put in a list once per generation of the group at most.
THEOREM RepeatsAreGenerations == Spec => []OncePerGeneration
  <1>1. IInv => OncePerGeneration
    <2> SUFFICES ASSUME IInv, NEW p \in Partitions, NEW i \in 1..MaxRecords
                 PROVE  handled[p][i] <= generation
      BY DEF OncePerGeneration
    <2>1. handled[p][i] + Cardinality(Able(p, i)) + Coming(p) <= generation
      BY DEF IInv, Counted
    <2>2. /\ Cardinality(Able(p, i)) \in Nat /\ handled[p][i] \in Nat
          /\ generation \in Nat /\ Coming(p) \in {0, 1}
      BY CountsTyped DEF IInv
    <2> QED
      BY <2>1, <2>2
  <1> QED
    BY <1>1, Invariance, PTL

\* No message that the group has not received is missing from the lag that
\* the check reports, whatever happens between its two reads.
THEOREM LagIsSafe == Spec => []LagCoversBacklog
  <1>1. IInv => LagCoversBacklog
    <2> SUFFICES ASSUME IInv, NEW r \in lagInfo, NEW i \in 1..r.end, ~Handled(r.partition, i)
                 PROVE  i > r.committed
      BY DEF LagCoversBacklog
    <2>1. r.committed \in Nat /\ r.end \in Nat
      BY DEF IInv, TypeOK, CheckOK
    <2>2. \A j \in 1..r.committed : Handled(r.partition, j)
      BY DEF IInv, ReportCovers, Handled
    <2>3. i \notin 1..r.committed
      BY <2>2
    <2> QED
      BY <2>1, <2>3
  <1> QED
    BY <1>1, Invariance, PTL

-----------------------------------------------------------------------------
(* The partitions by themselves                                            *)

\* What GroupReception calls received.
Received == [p \in Partitions |-> {i \in 1..MaxRecords : Handled(p, i)}]

\* Steps of the coordinator, of members and of the check that no partition shows.
Unseen == UNCHANGED <<end, handled, committed>>

LEMMA UnseenStep == Unseen => UNCHANGED Reception!vars
  BY DEF Unseen, Reception!vars, Handled

\* What an offset covers has been received.
LEMMA CoveredIsReceived ==
  ASSUME LogOK, NEW f, IsOffsets(f), Covers(f, end, handled), NEW p \in DOMAIN f
  PROVE  1..f[p] \subseteq Received[p]
  <1>1. p \in Partitions /\ f[p] \in Nat
    BY DEF IsOffsets
  <1>2. end[p] \in 0..MaxRecords /\ MaxRecords \in Nat
    BY <1>1, ConstantsAssumption DEF LogOK
  <1>3. f[p] <= end[p] /\ \A i \in 1..f[p] : handled[p][i] > 0
    BY DEF Covers
  <1>4. \A i \in 1..f[p] : i \in 1..MaxRecords /\ Handled(p, i)
    BY <1>1, <1>2, <1>3 DEF Handled
  <1> QED
    BY <1>1, <1>4 DEF Received

\* A commit of whatever kind stores what was received.
LEMMA CommitIsReception ==
  ASSUME IInv, NEW m \in Members, UNCHANGED <<end, handled>>,
         committed' \in {committed, With(request[m]), With(position[m])}
  PROVE  Reception!Commit
  <1>1. LogOK /\ committed' \in [Partitions -> Nat] /\ Covers(committed', end, handled)
    BY CommitOK DEF IInv, TypeOK
  <1>2. IsOffsets(committed') /\ DOMAIN committed' = Partitions
    BY <1>1 DEF IsOffsets
  <1>3. \A p \in Partitions : 1..committed'[p] \subseteq Received[p]
    BY <1>1, <1>2, CoveredIsReceived
  <1> QED
    BY <1>1, <1>3 DEF Reception!Commit, Received, Handled

\* A send of any chapter.
LEMMA SendIsReception ==
  ASSUME NEW p \in Partitions, SendStep(p) PROVE Reception!Send(p)
  <1>1. Appended(p)
    BY DEF SendStep, SendMessage03, CreateOrder04, SendOrder05, CreateUser06,
           CreateOrder06, SendMessage10
  <1> QED
    BY <1>1 DEF Appended, Reception!Send, Handled

\* The message that a member takes is the next one of those received, or one of them.
LEMMA TakeIsReception ==
  ASSUME IInv, NEW m \in Members, NEW p \in Partitions, Take(m, p)
  PROVE  \E i \in 1..end[p] : Reception!Receive(p, i)
  <1> DEFINE x == position[m][p]
  <1>1. /\ p \in DOMAIN position[m] /\ x < end[p]
        /\ handled' = [handled EXCEPT ![p][x + 1] = @ + 1]
        /\ UNCHANGED <<end, committed>>
    BY DEF Take
  <1>2. LogOK /\ IsOffsets(position[m]) /\ Covers(position[m], end, handled)
    BY DEF IInv, TypeOK, MembersOK, OffsetsCover
  <1>3. x \in Nat /\ end[p] \in 0..MaxRecords /\ MaxRecords \in Nat
    BY <1>1, <1>2, ConstantsAssumption DEF IsOffsets, LogOK
  <1>4. x + 1 \in 1..end[p] /\ x + 1 \in 1..MaxRecords /\ (x + 1) - 1 = x
    BY <1>1, <1>3
  <1>5. 1..x \subseteq Received[p]
    BY <1>1, <1>2, CoveredIsReceived
  <1>6. \A q \in Partitions, i \in 1..MaxRecords :
            handled'[q][i] > 0 <=> handled[q][i] > 0 \/ (q = p /\ i = x + 1)
    <2> SUFFICES ASSUME NEW q \in Partitions, NEW i \in 1..MaxRecords
                 PROVE  handled'[q][i] > 0 <=> handled[q][i] > 0 \/ (q = p /\ i = x + 1)
      OBVIOUS
    <2>1. handled[q][i] \in Nat
      BY <1>2 DEF LogOK
    <2>2. handled'[q][i] = IF q = p /\ i = x + 1 THEN handled[q][i] + 1 ELSE handled[q][i]
      BY <1>1, <1>2, <1>4 DEF LogOK
    <2> QED
      BY <2>1, <2>2
  <1>7. Received' = [Received EXCEPT ![p] = @ \cup {x + 1}]
    <2>1. \A q \in Partitions :
              Received'[q] = IF q = p THEN Received[q] \cup {x + 1} ELSE Received[q]
      BY <1>4, <1>6 DEF Received, Handled
    <2>2. Received' = [q \in Partitions |-> Received'[q]]
      BY DEF Received
    <2> QED
      BY <2>1, <2>2 DEF Received
  <1>8. Reception!Receive(p, x + 1)
    <2>1. x + 1 <= end[p] /\ 1..((x + 1) - 1) \subseteq Received[p]
      BY <1>3, <1>4, <1>5
    <2> QED
      BY <1>1, <1>7, <2>1 DEF Reception!Receive, Received
  <1> QED
    BY <1>4, <1>8

\* A process that ends commits its positions or nothing.
LEMMA LeaveIsReception ==
  ASSUME IInv, NEW m \in Members, UNCHANGED <<end, handled>>,
         LastCommit(m) \/ UNCHANGED committed
  PROVE  Reception!Commit
  BY CommitIsReception DEF LastCommit

LEMMA NextIsReception == IInv /\ [Next]_vars => [Reception!Next]_(Reception!vars)
  <1> SUFFICES ASSUME IInv, [Next]_vars PROVE Reception!Next \/ UNCHANGED Reception!vars
    OBVIOUS
  <1>1. CASE Rebalance
    BY <1>1, UnseenStep DEF Rebalance, Unseen
  <1>2. ASSUME NEW p \in Partitions, SendStep(p) PROVE Reception!Next
    BY <1>2, SendIsReception DEF Reception!Next
  <1>3. ASSUME NEW m \in Members, NEW p \in Partitions, Consume(m, p) PROVE Reception!Next
    <2>1. Take(m, p)
      BY <1>3 DEF Consume, Consume03, Consume04, Consume05, Consume06, Consume10
    <2> QED
      BY <2>1, TakeIsReception DEF Reception!Next
  <1>4. ASSUME NEW m \in Members, CommitStored(m) \/ CommitRefused(m) \/ AutoCommit(m)
        PROVE  Reception!Next
    <2>1. /\ UNCHANGED <<end, handled>>
          /\ committed' \in {committed, With(request[m]), With(position[m])}
      BY <1>4 DEF CommitStored, CommitRefused, AutoCommit
    <2> QED
      BY <2>1, CommitIsReception DEF Reception!Next
  <1>5. ASSUME NEW m \in Members,
               \/ LoopEnds06(m) \/ Crash(m) \/ Shutdown03(m) \/ Shutdown04(m)
               \/ Shutdown06(m) \/ Shutdown10(m)
        PROVE  Reception!Next
    <2>1. UNCHANGED <<end, handled>> /\ (LastCommit(m) \/ UNCHANGED committed)
      BY <1>5 DEF LoopEnds06, Crash, Shutdown03, Shutdown04, Shutdown06, Shutdown10, Gone
    <2> QED
      BY <2>1, LeaveIsReception DEF Reception!Next
  <1>6. ASSUME NEW m \in Members,
               Learn(m) \/ Expel(m) \/ LoopEnds(m) \/ StartCheck(m) \/ StartStep(m)
        PROVE  UNCHANGED Reception!vars
    BY <1>6, UnseenStep
       DEF Learn, Expel, LoopEnds, StartCheck, StartStep, Start03, Start04, Start05,
           Start06, Start10, Start, Unseen
  <1>7. ASSUME NEW m \in Members, CheckStep(m) PROVE UNCHANGED Reception!vars
    BY <1>7, UnseenStep DEF CheckStep, Snapshot, ReadEnd, ReadCommitted, EndCheck, Unseen
  <1>8. CASE UNCHANGED vars
    BY <1>8, UnseenStep DEF vars, Unseen
  <1> QED
    BY <1>1, <1>2, <1>3, <1>4, <1>5, <1>6, <1>7, <1>8 DEF Next, MemberStep

\* Whatever members, coordinator and lag check do, on the partitions it is a
\* GroupReception: in the order of the log, nothing skipped, commits behind.
THEOREM ReceptionInOrder == Spec => ImplementsReception
  <1>1. Init => Reception!Init
    <2> SUFFICES ASSUME Init PROVE Reception!Init
      OBVIOUS
    <2>1. /\ end = [p \in Partitions |-> 0] /\ committed = [p \in Partitions |-> 0]
          /\ handled = [p \in Partitions |-> [i \in 1..MaxRecords |-> 0]]
      BY DEF Init
    <2>2. \A p \in Partitions : {i \in 1..MaxRecords : Handled(p, i)} = {}
      BY <2>1 DEF Handled
    <2> QED
      BY <2>1, <2>2 DEF Reception!Init
  <1>2. IInv /\ [Next]_vars => [Reception!Next]_(Reception!vars)
    BY NextIsReception
  <1> QED
    BY <1>1, <1>2, Invariance, PTL DEF Spec, ImplementsReception, Reception!Spec

=============================================================================
