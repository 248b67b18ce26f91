------------------------ MODULE ProverManager_proofs ------------------------
(***************************************************************************)
(* Proofs about ProverManager, for any number of buckets, threads and      *)
(* requests and any length of the run.                                     *)
(***************************************************************************)
EXTENDS ProverManager, DataLemmas, SequenceTheorems

\* A segment is a pair of its bucket and its position.
LEMMA SegmentPairs ==
  ASSUME NEW sg \in Segment
  PROVE  /\ sg[1] \in 0 .. segment_count - 1 /\ sg[2] \in 0 .. MaxIterations
         /\ sg = <<sg[1], sg[2]>>
  BY DEF Segment, Buckets

\* There are finitely many segments in a run of bounded length.
LEMMA SegmentsFinite == IsFiniteSet(Segment)
<1>1. IsFiniteSet(Buckets) /\ IsFiniteSet(0 .. MaxIterations)
  BY FS_Interval, ManagerAssumption DEF Buckets
<1>2. IsFiniteSet(Buckets \X (0 .. MaxIterations))
  BY <1>1, FS_Product
<1>3. Segment \in SUBSET (Buckets \X (0 .. MaxIterations))
  BY DEF Segment
<1> QED BY <1>2, <1>3, FS_Subset

\* The scheduling loop's search for the best candidate finds one.
LEMMA BestIsOne ==
  ASSUME NEW T, T \subseteq Segment, T # {}
  PROVE  Best(T) \in T
<1> DEFINE A == {sg[1] : sg \in T}
<1>1. PICK a \in A : \A i \in A : a <= i
  <2>1. A \subseteq Nat
    BY SegmentPairs, ManagerAssumption
  <2>2. A # {}
    OBVIOUS
  <2> HIDE DEF A
  <2> QED BY <2>1, <2>2, LeastNatural
<1> DEFINE B == {sg[2] : sg \in {other \in T : other[1] = a}}
<1>2. PICK b \in B : \A n \in B : b <= n
  <2>1. B \subseteq Nat
    BY SegmentPairs, ManagerAssumption
  <2>2. B # {}
    BY <1>1
  <2> HIDE DEF B
  <2> QED BY <2>1, <2>2, LeastNatural
<1>3. PICK best \in T : best[1] = a /\ best[2] = b
  BY <1>2
<1>4. ASSUME NEW other \in T PROVE ~IsWorseThan(best, other)
  <2>1. a <= other[1]
    BY <1>1
  <2>2. other[1] = a => b <= other[2]
    BY <1>2
  <2> QED BY <1>3, <2>1, <2>2, SegmentPairs, ManagerAssumption DEF IsWorseThan
<1> QED BY <1>4 DEF Best

\* The search for the worst running prover finds one.
LEMMA WorstIsOne ==
  ASSUME NEW T, T \subseteq Segment, T # {}
  PROVE  Worst(T) \in T
<1> DEFINE A == {segment_count - sg[1] : sg \in T}
<1>1. PICK a \in A : \A i \in A : a <= i
  <2>1. A \subseteq Nat
    BY SegmentPairs, ManagerAssumption
  <2>2. A # {}
    OBVIOUS
  <2> HIDE DEF A
  <2> QED BY <2>1, <2>2, LeastNatural
<1> DEFINE B == {MaxIterations - sg[2] :
                   sg \in {other \in T : segment_count - other[1] = a}}
<1>2. PICK b \in B : \A n \in B : b <= n
  <2>1. B \subseteq Nat
    BY SegmentPairs, ManagerAssumption
  <2>2. B # {}
    BY <1>1
  <2> HIDE DEF B
  <2> QED BY <2>1, <2>2, LeastNatural
<1>3. PICK worst \in T :
        segment_count - worst[1] = a /\ MaxIterations - worst[2] = b
  BY <1>2
<1>4. ASSUME NEW other \in T PROVE ~IsWorseThan(other, worst)
  <2>1. a <= segment_count - other[1]
    BY <1>1
  <2>2. segment_count - other[1] = a => b <= MaxIterations - other[2]
    BY <1>2
  <2> QED BY <1>3, <2>1, <2>2, SegmentPairs, ManagerAssumption DEF IsWorseThan
<1> QED BY <1>4 DEF Worst

----------------------------------------------------------------------------
(***************************************************************************)
(* The number of running provers.                                          *)
(***************************************************************************)

SegmentsOK ==
  segments \in [Segment -> {"absent", "pending", "erased"} \union Proving]

ThreadInv == SegmentsOK /\ ThreadsBounded

\* A step after which no other prover runs keeps the bound.
LEMMA FewerRunning ==
  ASSUME ThreadInv, Running' \subseteq Running
  PROVE  ThreadsBounded'
<1>1. IsFiniteSet(Running)
  BY SegmentsFinite, FS_Subset DEF Running, provers
<1>2. Cardinality(Running') <= Cardinality(Running)
  BY <1>1, FS_Subset
<1>3. Cardinality(Running) \in Nat /\ Cardinality(Running') \in Nat
  BY <1>1, FS_Subset, FS_CardinalityType
<1> QED BY <1>2, <1>3, ManagerAssumption DEF ThreadInv, ThreadsBounded

\* A candidate is a paused prover or a pending segment.
LEMMA CandidateIsNotRunning ==
  ASSUME NEW sg \in Candidates
  PROVE  sg \in Segment /\ sg \notin Running /\ (sg \in paused \/ segments[sg] = "pending")
<1>1. CASE sg \in provers \intersect paused
  BY <1>1 DEF provers, Running
<1>2. CASE \E i \in Buckets : Pending(i) # {} /\ sg = Best(Pending(i))
  <2>1. PICK i \in Buckets : Pending(i) # {} /\ sg = Best(Pending(i))
    BY <1>2
  <2>2. sg \in Pending(i)
    BY <2>1, BestIsOne DEF Pending
  <2> QED BY <2>2 DEF Pending, Running, provers, Proving
<1> QED BY <1>1, <1>2 DEF Candidates

\* A turn of the scheduling loop: the best candidate joins the running provers
\* and, when all threads are taken, the worst of them leaves.
LEMMA ScheduleBounded ==
  ASSUME ThreadInv, Schedule
  PROVE  ThreadInv'
<1> DEFINE best == Best(Candidates)
           full == ~(Cardinality(Running) < max_proving_threads)
           others == IF full THEN Running \ {Worst(Running)} ELSE Running
<1>1. Running \subseteq Segment /\ IsFiniteSet(Running)
  BY SegmentsFinite, FS_Subset DEF Running, provers
<1>2. Cardinality(Running) \in Nat
  BY <1>1, FS_CardinalityType
<1>3. best \in Candidates
  <2>1. Candidates # {}
    BY DEF Schedule, SpawnBest
  <2>2. Candidates \subseteq Segment
    BY CandidateIsNotRunning
  <2> QED BY <2>1, <2>2, BestIsOne
<1>4. /\ best \in Segment /\ best \notin Running
      /\ best \in paused \/ segments[best] = "pending"
  BY <1>3, CandidateIsNotRunning
<1>5. /\ paused' = (paused \ {best}) \union
                     (IF full THEN {Worst(Running)} ELSE {})
      /\ segments' = IF segments[best] = "pending"
                       THEN [segments EXCEPT ![best] = "proving"]
                       ELSE segments
  BY DEF Schedule
<1>6. SegmentsOK'
  BY <1>4, <1>5 DEF ThreadInv, SegmentsOK, Proving
<1>7. Running' \subseteq others \union {best}
  <2>1. ASSUME NEW sg \in Running', sg # best
        PROVE  sg \in others
    <3>1. sg \in Segment /\ segments'[sg] \in Proving /\ sg \notin paused'
      BY <2>1 DEF Running, provers
    <3>2. segments'[sg] = segments[sg]
      BY <1>4, <1>5, <2>1, <3>1 DEF ThreadInv, SegmentsOK
    <3>3. sg \notin paused /\ (full => sg # Worst(Running))
      BY <1>5, <2>1, <3>1
    <3> QED BY <3>1, <3>2, <3>3 DEF Running, provers
  <2> QED BY <2>1
<1>8. IsFiniteSet(others) /\ Cardinality(others) \in Nat
      /\ Cardinality(others) < max_proving_threads
  <2>1. CASE ~full
    BY <1>1, <1>2, <2>1
  <2>2. CASE full
    <3>1. Running # {}
      BY <2>2, <1>2, FS_EmptySet, ManagerAssumption
    <3>2. Worst(Running) \in Running
      BY <1>1, <3>1, WorstIsOne
    <3>3. /\ IsFiniteSet(Running \ {Worst(Running)})
          /\ Cardinality(Running \ {Worst(Running)}) = Cardinality(Running) - 1
      BY <1>1, <3>2, FS_RemoveElement
    <3>4. Cardinality(Running \ {Worst(Running)}) \in Nat
      BY <3>3, FS_CardinalityType
    <3>5. Cardinality(Running) <= max_proving_threads
      BY DEF ThreadInv, ThreadsBounded
    <3> QED BY <1>2, <2>2, <3>3, <3>4, <3>5, ManagerAssumption
  <2> QED BY <2>1, <2>2
<1>9. Cardinality(Running') <= max_proving_threads
  <2> HIDE DEF others, best
  <2>1. /\ IsFiniteSet(others \union {best})
        /\ Cardinality(others \union {best}) <= Cardinality(others) + 1
    BY <1>8, FS_AddElement
  <2>2. /\ Cardinality(Running') <= Cardinality(others \union {best})
        /\ IsFiniteSet(Running')
    BY <1>7, <2>1, FS_Subset
  <2>3. Cardinality(Running') \in Nat /\ Cardinality(others \union {best}) \in Nat
    BY <2>1, <2>2, FS_CardinalityType
  <2> QED BY <1>8, <2>1, <2>2, <2>3, ManagerAssumption
<1> QED BY <1>6, <1>9 DEF ThreadInv, ThreadsBounded

\* Only the event loop's schedule starts a prover; finishing, collecting and
\* stopping make fewer run and every other step leaves them alone.
LEMMA ThreadInvNext ==
  ASSUME ThreadInv, [Next]_vars
  PROVE  ThreadInv'
<1>1. ASSUME UNCHANGED <<segments, paused>>
      PROVE  ThreadInv'
  <2>1. Running' = Running
    BY <1>1 DEF Running, provers
  <2> QED BY <1>1, <2>1 DEF ThreadInv, SegmentsOK, ThreadsBounded
<1>2. CASE CollectFinished
  <2>1. /\ segments' = [sg \in Segment |->
             IF segments[sg] = "is_fully_finished" THEN "erased" ELSE segments[sg]]
        /\ paused' = {sg \in paused : segments[sg] # "is_fully_finished"}
    BY <1>2 DEF CollectFinished
  <2>2. SegmentsOK'
    BY <2>1 DEF ThreadInv, SegmentsOK
  <2>3. Running' \subseteq Running
    BY <2>1 DEF Running, provers, Proving
  <2> QED BY <2>2, <2>3, FewerRunning DEF ThreadInv
<1>3. CASE AppendPending
  <2>1. /\ segments' = [sg \in Segment |->
             IF segments[sg] = "absent" /\ Start(sg) + Length(sg) <= vdf_iteration
               THEN "pending" ELSE segments[sg]]
        /\ paused' = paused
    BY <1>3 DEF AppendPending
  <2>2. SegmentsOK'
    BY <2>1 DEF ThreadInv, SegmentsOK
  <2>3. Running' \subseteq Running
    BY <2>1 DEF Running, provers, Proving
  <2> QED BY <2>2, <2>3, FewerRunning DEF ThreadInv
<1>4. CASE Schedule
  BY <1>4, ScheduleBounded
<1>5. ASSUME NEW sg \in Segment, OnFinish(sg)
      PROVE  ThreadInv'
  <2>1. PICK next \in {"is_finished", "notified", "is_fully_finished"} :
          /\ segments[sg] \in Proving
          /\ segments' = [segments EXCEPT ![sg] = next]
          /\ paused' = paused
    BY <1>5 DEF OnFinish, Proving, managerVars
  <2>2. SegmentsOK'
    BY <2>1 DEF ThreadInv, SegmentsOK, Proving
  <2>3. Running' \subseteq Running
    BY <2>1 DEF ThreadInv, SegmentsOK, Running, provers
  <2> QED BY <2>2, <2>3, FewerRunning DEF ThreadInv
<1>6. CASE StopProvers
  <2>1. /\ segments' = [sg \in Segment |->
             IF sg \in provers THEN "erased" ELSE segments[sg]]
    BY <1>6 DEF StopProvers
  <2>2. SegmentsOK'
    BY <2>1 DEF ThreadInv, SegmentsOK
  <2>3. Running' \subseteq Running
    BY <2>1 DEF Running, provers, Proving
  <2> QED BY <2>2, <2>3, FewerRunning DEF ThreadInv
<1>7. CASE VdfStep
  BY <1>1, <1>7 DEF VdfStep, VdfTest, VdfPublish, VdfNotify, managerVars
<1>8. CASE LoopEnds \/ WaitEvent \/ NotifyLastSegment \/ NotifyProof \/ NothingToSpawn
  BY <1>1, <1>8
  DEF LoopEnds, WaitEvent, NotifyLastSegment, NotifyProof, NothingToSpawn
<1>9. CASE SessionStop \/ StopManager \/ StopNotifies \/ SessionJoin
  BY <1>1, <1>9 DEF SessionStop, StopManager, StopNotifies, SessionJoin, managerVars
<1>10. ASSUME NEW r \in Requests, Request(r) \/ ProveStep(r)
       PROVE  ThreadInv'
  <2>1. UNCHANGED OutsideProve
    BY <1>10
    DEF Request, ProveStep, InsertPending, InsertPendingLast, CheckLast,
        FallAsleep, ProveLastSegment, While, CheckProof, Validate, Assemble
  <2> QED BY <1>1, <2>1 DEF OutsideProve, managerVars
<1>11. CASE UNCHANGED vars
  BY <1>1, <1>11 DEF vars, managerVars
<1> QED
  BY <1>2, <1>3, <1>4, <1>5, <1>6, <1>7, <1>8, <1>9, <1>10, <1>11
  DEF Next, LoopStep, SessionStep

\* At most max_proving_threads provers run at once, for any number of buckets,
\* threads and requests: a turn of the scheduling loop that finds every thread
\* taken pauses a prover that really is running before it starts another.
THEOREM ThreadsNeverExceeded == Spec => []ThreadsBounded
<1>1. Init => ThreadInv
  <2> SUFFICES ASSUME Init PROVE ThreadInv
    OBVIOUS
  <2>1. SegmentsOK
    BY DEF Init, SegmentsOK
  <2>2. Running = {}
    BY DEF Init, Running, provers, Proving
  <2> QED BY <2>1, <2>2, FS_EmptySet, ManagerAssumption DEF ThreadInv, ThreadsBounded
<1>2. ThreadInv /\ [Next]_vars => ThreadInv'
  BY ThreadInvNext
<1>3. ThreadInv => ThreadsBounded
  BY DEF ThreadInv
<1> QED BY <1>1, <1>2, <1>3, PTL DEF Spec

----------------------------------------------------------------------------
(***************************************************************************)
(* Segment lengths                                                         *)
(***************************************************************************)

\* Lengths are positive, and each is Ratio times the one before.
LEMMA SegmentLengths ==
  /\ \A i \in Buckets : sg_length(i) \in Nat \ {0}
  /\ 0 \in Buckets /\ sg_length(0) = SegmentUnit
  /\ \A i \in Buckets : i + 1 \in Buckets => sg_length(i + 1) = Ratio * sg_length(i)
<1> DEFINE f == CHOOSE f : Geometric(f, segment_count, SegmentUnit, Ratio)
<1>1. segment_size = f
  BY Zenon DEF segment_size, Geometric, Buckets
<1>2. SegmentUnit \in Nat \ {0} /\ segment_count \in Nat \ {0} /\ Ratio \in Nat \ {0}
  BY ManagerAssumption
<1>3. Geometric(f, segment_count, SegmentUnit, Ratio)
  BY <1>2, GeometricExists
<1> HIDE DEF f
<1>4. /\ \A i \in 0 .. segment_count - 1 : f[i] \in Nat \ {0}
      /\ f[0] = SegmentUnit
      /\ \A i \in 1 .. segment_count - 1 : f[i] = Ratio * f[i - 1]
  BY <1>2, <1>3, GeometricGrows
<1>5. ASSUME NEW i \in Buckets, i + 1 \in Buckets PROVE f[i + 1] = Ratio * f[i]
  <2>1. i + 1 \in 1 .. segment_count - 1 /\ (i + 1) - 1 = i
    BY <1>2, <1>5 DEF Buckets
  <2> QED BY <1>4, <2>1
<1> QED BY <1>1, <1>2, <1>4, <1>5 DEF sg_length, Buckets

\* A multiple of a length is a number of segments of it.
Multiple(x, l) == \E q \in Nat : x = q * l

LEMMA Multiples ==
  ASSUME NEW x, NEW l \in Nat \ {0}, Multiple(x, l)
  PROVE  x \in Nat /\ x \div l \in Nat /\ x = (x \div l) * l
<1>1. PICK q \in Nat : x = q * l
  BY DEF Multiple
<1>2. x \div l = q
  BY <1>1
<1> QED BY <1>1, <1>2

\* What long segments cover, shorter ones do.
LEMMA MultipleOfShorter ==
  ASSUME NEW x, NEW i \in Buckets, i + 1 \in Buckets, Multiple(x, sg_length(i + 1))
  PROVE  Multiple(x, sg_length(i))
<1>1. PICK q \in Nat : x = q * sg_length(i + 1)
  BY DEF Multiple
<1>2. sg_length(i) \in Nat /\ sg_length(i + 1) = Ratio * sg_length(i) /\ Ratio \in Nat
  BY SegmentLengths, ManagerAssumption
<1> DEFINE l == sg_length(i)
<1>3. q * Ratio \in Nat /\ x = (q * Ratio) * l
  <2> HIDE DEF l
  <2> QED BY <1>1, <1>2 DEF l
<1> QED BY <1>3 DEF Multiple

----------------------------------------------------------------------------
(***************************************************************************)
(* What max_proving_iteration promises                                     *)
(***************************************************************************)

\* The recursions of Covered and Provable.
Reaches(f, finished) ==
  f = [n \in 0 .. MaxBlobs |->
         IF n = 0 THEN {0}
         ELSE f[n - 1] \union
              {Start(sg) + Length(sg) :
                 sg \in {d \in finished : Start(d) \in f[n - 1]}}]
Proves(f, finished) ==
  f = [i \in 0 .. segment_count |->
         IF i = segment_count THEN [iters |-> 0, blobs |-> 0]
         ELSE ProvableFrom(f[i + 1].iters, f[i + 1].blobs, i, finished)]

\* The ends of chains of at most n segments exist, and Covered takes the last.
LEMMA ReachesExists ==
  ASSUME NEW finished
  PROVE  \E f : Reaches(f, finished) /\ Covered(finished) = f[MaxBlobs]
<1> DEFINE U == {0} \union {Start(sg) + Length(sg) : sg \in finished}
           V == SUBSET U
           N == MaxBlobs
           More(v) == v \union {Start(sg) + Length(sg) : sg \in {d \in finished : Start(d) \in v}}
           D == [p \in (1 .. N) \X V |-> More(p[2])]
           first == {0}
<1>1. D \in [(1 .. N) \X V -> V] /\ first \in V /\ N \in Nat
  BY ManagerAssumption, Zenon
<1>2. PICK g \in [0 .. N -> V] : Recurs(g, N, first, D)
  <2> HIDE DEF D, V, first
  <2> QED BY <1>1, RecursiveFunction
<1>3. ASSUME NEW n \in 0 .. N PROVE g[n] = IF n = 0 THEN first ELSE More(g[n - 1])
  <2>1. CASE n = 0
    BY <1>2, <2>1, Zenon DEF Recurs
  <2>2. CASE n # 0
    <3>1. n \in 1 .. N /\ n - 1 \in 0 .. N
      BY <1>1, <2>2
    <3>2. g[n] = D[<<n, g[n - 1]>>] /\ <<n, g[n - 1]>> \in (1 .. N) \X V
      BY <1>2, <3>1 DEF Recurs
    <3>3. D[<<n, g[n - 1]>>] = More(g[n - 1])
      BY <3>2
    <3> QED BY <2>2, <3>2, <3>3, Zenon
  <2> QED BY <2>1, <2>2
<1>4. Reaches(g, finished)
  <2>1. g = [n \in 0 .. N |-> IF n = 0 THEN first ELSE More(g[n - 1])]
    <3> HIDE DEF More, first
    <3> QED BY <1>3
  <2> QED BY <2>1, Zenon DEF Reaches
<1> DEFINE h == CHOOSE f : Reaches(f, finished)
<1>5. Reaches(h, finished)
  BY <1>4, Zenon
<1>6. Covered(finished) = h[MaxBlobs]
  BY Zenon DEF Covered, Reaches
<1> QED BY <1>5, <1>6

\* One step of the recursion, and longer chains go as far as shorter ones.
LEMMA ReachesSteps ==
  ASSUME NEW finished, NEW f, Reaches(f, finished)
  PROVE  /\ f[0] = {0}
         /\ \A n \in 1 .. MaxBlobs :
              f[n] = f[n - 1] \union
                     {Start(sg) + Length(sg) :
                        sg \in {d \in finished : Start(d) \in f[n - 1]}}
         /\ \A n \in 0 .. MaxBlobs : f[n] \subseteq f[MaxBlobs]
<1> DEFINE More(v) == v \union {Start(sg) + Length(sg) : sg \in {d \in finished : Start(d) \in v}}
<1>0. MaxBlobs \in Nat
  BY ManagerAssumption
<1>1. \A n \in 0 .. MaxBlobs : f[n] = IF n = 0 THEN {0} ELSE More(f[n - 1])
  BY Zenon DEF Reaches
<1>2. f[0] = {0}
  <2>1. 0 \in 0 .. MaxBlobs
    BY <1>0
  <2> QED BY <1>1, <2>1, Zenon
<1>3. ASSUME NEW n \in 1 .. MaxBlobs PROVE f[n] = More(f[n - 1])
  <2>1. n \in 0 .. MaxBlobs /\ n # 0
    BY <1>0
  <2> QED BY <1>1, <2>1, Zenon
<1> DEFINE T == {k \in Nat : k <= MaxBlobs => f[MaxBlobs - k] \subseteq f[MaxBlobs]}
<1>4. 0 \in T
  BY <1>0
<1>5. ASSUME NEW k \in Nat, k \in T PROVE k + 1 \in T
  <2> SUFFICES ASSUME k + 1 <= MaxBlobs PROVE f[MaxBlobs - (k + 1)] \subseteq f[MaxBlobs]
    OBVIOUS
  <2>1. MaxBlobs - k \in 1 .. MaxBlobs /\ (MaxBlobs - k) - 1 = MaxBlobs - (k + 1) /\ k <= MaxBlobs
    BY <1>0
  <2>2. f[MaxBlobs - k] = More(f[MaxBlobs - (k + 1)])
    BY <1>3, <2>1
  <2>3. f[MaxBlobs - k] \subseteq f[MaxBlobs]
    BY <1>5, <2>1
  <2> QED BY <2>2, <2>3
<1>6. Nat \subseteq T
  <2> HIDE DEF T
  <2> QED BY <1>4, <1>5, InductiveSet
<1>7. ASSUME NEW n \in 0 .. MaxBlobs PROVE f[n] \subseteq f[MaxBlobs]
  <2>1. MaxBlobs - n \in Nat /\ MaxBlobs - n <= MaxBlobs /\ MaxBlobs - (MaxBlobs - n) = n
    BY <1>0
  <2> QED BY <1>6, <2>1
<1> QED BY <1>2, <1>3, <1>7

\* Storing more segments covers more.
LEMMA CoveredGrows ==
  ASSUME NEW S, NEW S2, S \subseteq S2
  PROVE  Covered(S) \subseteq Covered(S2)
<1>0. MaxBlobs \in Nat
  BY ManagerAssumption
<1>1. PICK f : Reaches(f, S) /\ Covered(S) = f[MaxBlobs]
  BY ReachesExists
<1>2. PICK g : Reaches(g, S2) /\ Covered(S2) = g[MaxBlobs]
  BY ReachesExists
<1> DEFINE More(v, X) == v \union {Start(sg) + Length(sg) : sg \in {d \in X : Start(d) \in v}}
<1>3. f[0] = {0} /\ \A n \in 1 .. MaxBlobs : f[n] = More(f[n - 1], S)
  BY <1>1, ReachesSteps
<1>4. g[0] = {0} /\ \A n \in 1 .. MaxBlobs : g[n] = More(g[n - 1], S2)
  BY <1>2, ReachesSteps
<1>5. \A v, w : v \subseteq w => More(v, S) \subseteq More(w, S2)
  OBVIOUS
<1> DEFINE T == {n \in Nat : n <= MaxBlobs => f[n] \subseteq g[n]}
<1>6. 0 \in T
  BY <1>3, <1>4
<1>7. ASSUME NEW n \in Nat, n \in T PROVE n + 1 \in T
  <2> SUFFICES ASSUME n + 1 <= MaxBlobs PROVE f[n + 1] \subseteq g[n + 1]
    OBVIOUS
  <2>1. n + 1 \in 1 .. MaxBlobs /\ (n + 1) - 1 = n /\ n <= MaxBlobs
    BY <1>0
  <2>2. f[n] \subseteq g[n] /\ f[n + 1] = More(f[n], S) /\ g[n + 1] = More(g[n], S2)
    <3> HIDE DEF More
    <3> QED BY <1>3, <1>4, <1>7, <2>1
  <2>3. More(f[n], S) \subseteq More(g[n], S2)
    <3> HIDE DEF More
    <3> QED BY <1>5, <2>2
  <2> QED BY <2>2, <2>3, Zenon
<1>8. Nat \subseteq T
  <2> HIDE DEF T
  <2> QED BY <1>6, <1>7, InductiveSet
<1> QED BY <1>0, <1>1, <1>2, <1>8

\* A finished run of segments extends a chain by as many segments as it has.
LEMMA RunExtends ==
  ASSUME NEW finished, NEW f, Reaches(f, finished), NEW i \in Buckets,
         NEW from \in Nat, Multiple(from, sg_length(i)), NEW blobs \in 0 .. MaxBlobs,
         from \in f[blobs], NEW m \in 0 .. MaxBlobs - blobs,
         \A p \in 0 .. m - 1 : <<i, from \div sg_length(i) + p>> \in finished
  PROVE  from + m * sg_length(i) \in f[blobs + m]
<1> DEFINE l == sg_length(i)
           q == from \div l
           T == {k \in Nat : k <= m => from + k * l \in f[blobs + k]}
<1>0. MaxBlobs \in Nat /\ l \in Nat \ {0} /\ q \in Nat /\ from = q * l /\ m \in Nat /\ blobs \in Nat
  BY ManagerAssumption, SegmentLengths, Multiples
<1>1. 0 \in T
  <2>1. from + 0 * l = from /\ blobs + 0 = blobs
    BY <1>0
  <2> QED BY <2>1
<1>2. ASSUME NEW k \in Nat, k \in T PROVE k + 1 \in T
  <2> SUFFICES ASSUME k + 1 <= m PROVE from + (k + 1) * l \in f[blobs + (k + 1)]
    OBVIOUS
  <2>1. from + k * l \in f[blobs + k] /\ blobs + (k + 1) \in 1 .. MaxBlobs
        /\ (blobs + (k + 1)) - 1 = blobs + k /\ k \in 0 .. m - 1
    BY <1>0, <1>2
  <2>2. <<i, q + k>> \in finished
    BY <2>1
  <2> DEFINE sg == <<i, q + k>>
  <2>3. Length(sg) = l /\ Start(sg) = (q + k) * l
    BY DEF Length, Start
  <2>4. (q + k) * l = from + k * l /\ (q + k) * l + l = from + (k + 1) * l
    <3> HIDE DEF l, q
    <3> QED BY <1>0
  <2>5. f[blobs + (k + 1)] = f[blobs + k] \union
          {Start(d) + Length(d) : d \in {x \in finished : Start(x) \in f[blobs + k]}}
    BY <2>1, ReachesSteps
  <2>6. Start(sg) \in f[blobs + k] /\ Start(sg) + Length(sg) = from + (k + 1) * l
    BY <2>1, <2>3, <2>4, Zenon
  <2> HIDE DEF sg, l
  <2> QED BY <2>2, <2>5, <2>6 DEF sg
<1>3. Nat \subseteq T
  <2> HIDE DEF T
  <2> QED BY <1>1, <1>2, InductiveSet
<1> QED BY <1>0, <1>3

\* ProvableFrom takes an unbroken run.
TakesRun(from, blobs, i, finished) ==
  \E m \in 0 .. MaxBlobs - blobs :
    /\ \A p \in 0 .. m - 1 : <<i, from \div sg_length(i) + p>> \in finished
    /\ ProvableFrom(from, blobs, i, finished) =
         [iters |-> from + m * sg_length(i), blobs |-> blobs + m]

LEMMA ProvableFromRun ==
  ASSUME NEW finished, NEW i \in Buckets, NEW from \in Nat, NEW blobs \in 0 .. MaxBlobs
  PROVE  TakesRun(from, blobs, i, finished)
<1> DEFINE run == {m \in 0 .. MaxBlobs - blobs :
                     \A p \in 0 .. m - 1 :
                       <<i, from \div sg_length(i) + p>> \in finished}
           most == CHOOSE m \in run : \A n \in run : n <= m
<1>1. MaxBlobs - blobs \in Nat
  BY ManagerAssumption
<1>2. run \subseteq Nat /\ 0 \in run /\ \A x \in run : x <= MaxBlobs - blobs
  BY <1>1
<1>3. \E x \in run : \A y \in run : y <= x
  <2>1. run # {}
    BY <1>2
  <2> HIDE DEF run
  <2> QED BY <1>1, <1>2, <2>1, GreatestNatural
<1>4. most \in run
  <2> HIDE DEF run
  <2> QED BY <1>3
<1>5. ProvableFrom(from, blobs, i, finished) =
        [iters |-> from + most * sg_length(i), blobs |-> blobs + most]
  BY Zenon DEF ProvableFrom
<1> HIDE DEF most
<1> QED BY <1>4, <1>5 DEF TakesRun

\* The recursion of Provable is well defined.
LEMMA ProvesExists ==
  ASSUME NEW finished
  PROVE  \E f : Proves(f, finished) /\ Provable(finished) = f[0].iters
<1> DEFINE V == [iters : Nat, blobs : 0 .. MaxBlobs]
           N == segment_count
           From(k, v) == ProvableFrom(v.iters, v.blobs, N - k, finished)
           D == [p \in (1 .. N) \X V |-> From(p[1], p[2])]
           first == [iters |-> 0, blobs |-> 0]
<1>0. N \in Nat \ {0} /\ MaxBlobs \in Nat /\ first \in V
  BY ManagerAssumption
<1>1. ASSUME NEW k \in 1 .. N, NEW v \in V PROVE From(k, v) \in V
  <2>1. N - k \in Buckets /\ v.iters \in Nat /\ v.blobs \in 0 .. MaxBlobs
    BY <1>0 DEF Buckets
  <2>2. PICK m \in 0 .. MaxBlobs - v.blobs :
          From(k, v) = [iters |-> v.iters + m * sg_length(N - k), blobs |-> v.blobs + m]
    <3>1. TakesRun(v.iters, v.blobs, N - k, finished)
      BY <2>1, ProvableFromRun
    <3> QED BY <3>1 DEF TakesRun
  <2>3. sg_length(N - k) \in Nat
    BY <2>1, SegmentLengths
  <2>4. v.iters + m * sg_length(N - k) \in Nat /\ v.blobs + m \in 0 .. MaxBlobs
    BY <1>0, <2>1, <2>3
  <2> HIDE DEF From
  <2> QED BY <2>2, <2>4
<1>2. D \in [(1 .. N) \X V -> V]
  <2> HIDE DEF From, V
  <2> QED BY <1>1
<1>3. PICK g \in [0 .. N -> V] : Recurs(g, N, first, D)
  <2> HIDE DEF D, V, first
  <2> QED BY <1>0, <1>2, RecursiveFunction
<1> DEFINE f == [i \in 0 .. N |-> g[N - i]]
<1>4. ASSUME NEW i \in 0 .. N
      PROVE  f[i] = IF i = N THEN first ELSE ProvableFrom(f[i + 1].iters, f[i + 1].blobs, i, finished)
  <2>1. CASE i = N
    <3>1. f[i] = g[0]
      BY <1>0, <2>1
    <3> QED BY <1>3, <2>1, <3>1, Zenon DEF Recurs
  <2>2. CASE i # N
    <3>1. N - i \in 1 .. N /\ (N - i) - 1 \in 0 .. N /\ i + 1 \in 0 .. N /\ N - (i + 1) = (N - i) - 1
          /\ N - (N - i) = i
      BY <1>0, <2>2
    <3> DEFINE k == N - i
    <3>2. g[k] = D[<<k, g[k - 1]>>] /\ <<k, g[k - 1]>> \in (1 .. N) \X V
      <4> HIDE DEF D, V
      <4> QED BY <1>3, <3>1 DEF Recurs
    <3>3. D[<<k, g[k - 1]>>] = From(k, g[k - 1])
      <4> HIDE DEF From, V
      <4> QED BY <3>2
    <3>4. f[i] = g[k] /\ f[i + 1] = g[k - 1]
      BY <3>1
    <3>5. From(k, g[k - 1]) = ProvableFrom(f[i + 1].iters, f[i + 1].blobs, i, finished)
      <4> HIDE DEF f
      <4> QED BY <3>1, <3>4
    <3> HIDE DEF f, From, D, k
    <3> QED BY <2>2, <3>2, <3>3, <3>4, <3>5, Zenon
  <2> QED BY <2>1, <2>2
<1>5. Proves(f, finished)
  <2>1. f = [i \in 0 .. N |-> f[i]]
    OBVIOUS
  <2> HIDE DEF f
  <2>2. f = [i \in 0 .. N |-> IF i = N THEN first ELSE ProvableFrom(f[i + 1].iters, f[i + 1].blobs, i, finished)]
    BY <1>4, <2>1
  <2> QED BY <2>2, Zenon DEF Proves
<1> DEFINE h == CHOOSE x : Proves(x, finished)
<1>6. Proves(h, finished)
  <2> HIDE DEF f
  <2> QED BY <1>5, Zenon
<1>7. Provable(finished) = h[0].iters
  BY Zenon DEF Provable, Proves
<1> HIDE DEF h
<1> QED BY <1>6, <1>7

\* What Provable finds is the end of a chain of at most MaxBlobs finished
\* segments: each bucket's run starts where the longer ones end.
LEMMA ProvableIsCovered ==
  ASSUME NEW finished
  PROVE  Provable(finished) \in Covered(finished)
<1>0. MaxBlobs \in Nat /\ segment_count \in Nat \ {0}
  BY ManagerAssumption
<1>1. PICK f : Reaches(f, finished) /\ Covered(finished) = f[MaxBlobs]
  BY ReachesExists
<1>2. PICK g : Proves(g, finished) /\ Provable(finished) = g[0].iters
  BY ProvesExists
<1> DEFINE N == segment_count
           Good(i) == /\ g[i].iters \in Nat /\ g[i].blobs \in 0 .. MaxBlobs
                      /\ g[i].iters \in f[g[i].blobs]
                      /\ i \in Buckets => Multiple(g[i].iters, sg_length(i))
                      /\ i = N => g[i].iters = 0
           T == {k \in Nat : k <= N => Good(N - k)}
<1>3. \A i \in 0 .. N : g[i] = IF i = N THEN [iters |-> 0, blobs |-> 0]
                               ELSE ProvableFrom(g[i + 1].iters, g[i + 1].blobs, i, finished)
  BY <1>2, Zenon DEF Proves
<1>4. 0 \in T
  <2>1. N - 0 = N /\ N \in 0 .. N /\ N \notin Buckets
    BY <1>0 DEF Buckets
  <2>2. g[N] = [iters |-> 0, blobs |-> 0]
    BY <1>3, <2>1
  <2>3. f[0] = {0}
    BY <1>1, ReachesSteps
  <2> QED BY <1>0, <2>1, <2>2, <2>3
<1>5. ASSUME NEW k \in Nat, k \in T PROVE k + 1 \in T
  <2> SUFFICES ASSUME k + 1 <= N PROVE Good(N - (k + 1))
    OBVIOUS
  <2> DEFINE i == N - (k + 1)
             from == g[i + 1].iters
             blobs == g[i + 1].blobs
  <2>1. i \in Buckets /\ i \in 0 .. N /\ i # N /\ i + 1 = N - k /\ k <= N
        /\ (i + 1 \in Buckets \/ i + 1 = N)
    BY <1>0 DEF Buckets
  <2>2. Good(i + 1)
    BY <1>5, <2>1
  <2>3. g[i] = ProvableFrom(from, blobs, i, finished)
    BY <1>3, <2>1, Zenon
  <2>4. from \in Nat /\ blobs \in 0 .. MaxBlobs /\ from \in f[blobs]
    BY <2>2
  <2>5. sg_length(i) \in Nat \ {0}
    BY <2>1, SegmentLengths
  <2>6. Multiple(from, sg_length(i))
    <3>1. CASE i + 1 \in Buckets
      <4>1. Multiple(from, sg_length(i + 1))
        BY <2>2, <3>1
      <4> HIDE DEF i, from
      <4> QED BY <2>1, <3>1, <4>1, MultipleOfShorter
    <3>2. CASE i + 1 = N
      <4>1. from = 0 * sg_length(i)
        BY <2>2, <2>5, <3>2
      <4> QED BY <4>1 DEF Multiple
    <3> QED BY <2>1, <3>1, <3>2
  <2> HIDE DEF i, from, blobs, Good
  <2>7. PICK m \in 0 .. MaxBlobs - blobs :
          /\ \A p \in 0 .. m - 1 : <<i, from \div sg_length(i) + p>> \in finished
          /\ ProvableFrom(from, blobs, i, finished) =
               [iters |-> from + m * sg_length(i), blobs |-> blobs + m]
    <3>1. i \in Buckets /\ from \in Nat /\ blobs \in 0 .. MaxBlobs
      BY <2>1, <2>4
    <3>2. TakesRun(from, blobs, i, finished)
      BY <3>1, ProvableFromRun
    <3> QED BY <3>2, Zenon DEF TakesRun
  <2>8. from + m * sg_length(i) \in f[blobs + m]
    BY <1>1, <2>1, <2>4, <2>6, <2>7, RunExtends
  <2>9. g[i].iters = from + m * sg_length(i) /\ g[i].blobs = blobs + m
    BY <2>3, <2>7
  <2>10. from + m * sg_length(i) \in Nat /\ blobs + m \in 0 .. MaxBlobs
    BY <1>0, <2>4, <2>5
  <2>11. Multiple(from + m * sg_length(i), sg_length(i))
    <3>1. PICK q \in Nat : from = q * sg_length(i)
      BY <2>6 DEF Multiple
    <3> DEFINE l == sg_length(i)
    <3>2. from + m * l = (q + m) * l /\ q + m \in Nat
      <4> HIDE DEF l
      <4> QED BY <1>0, <2>5, <3>1 DEF l
    <3> QED BY <3>2 DEF Multiple
  <2> QED BY <2>1, <2>8, <2>9, <2>10, <2>11 DEF i, Good
<1>6. Nat \subseteq T
  <2> HIDE DEF T
  <2> QED BY <1>4, <1>5, InductiveSet
<1>7. Good(0)
  <2>1. N \in T /\ N - N = 0 /\ N <= N
    BY <1>0, <1>6
  <2> QED BY <2>1
<1> QED BY <1>0, <1>1, <1>2, <1>7, ReachesSteps

\* Only CollectFinished stores segments or calculates max_proving_iteration.
LEMMA OnlyCollectStores ==
  ASSUME [Next]_vars
  PROVE  CollectFinished \/ UNCHANGED <<done, max_proving_iteration>>
<1>1. CASE VdfStep \/ SessionStep \/ SessionStop
  BY <1>1 DEF VdfStep, VdfTest, VdfPublish, VdfNotify, SessionStep, StopManager, StopProvers,
              StopNotifies, SessionJoin, SessionStop, managerVars
<1>2. CASE LoopStep
  BY <1>2 DEF LoopStep, LoopEnds, WaitEvent, NotifyLastSegment, NotifyProof, AppendPending,
              Schedule, NothingToSpawn
<1>3. CASE \E sg \in Segment : OnFinish(sg)
  BY <1>3 DEF OnFinish, managerVars
<1>4. CASE \E r \in Requests : Request(r) \/ ProveStep(r)
  BY <1>4 DEF Request, ProveStep, InsertPending, InsertPendingLast, CheckLast, FallAsleep,
              ProveLastSegment, While, CheckProof, Validate, Assemble, OutsideProve, managerVars
<1>5. CASE UNCHANGED vars
  BY <1>5 DEF vars, managerVars
<1> QED BY <1>1, <1>2, <1>3, <1>4, <1>5 DEF Next

\* max_proving_iteration is always the end of a chain of at most MaxBlobs
\* finished segments without a gap: the event loop calculates it from the
\* segments stored at that moment, and later ones only add to them.
THEOREM MaxIsAlwaysProvable == Spec => []MaxIsProvable
<1>1. Init => MaxIsProvable
  <2>1. PICK f : Reaches(f, {}) /\ Covered({}) = f[MaxBlobs]
    BY ReachesExists
  <2>2. f[0] = {0} /\ f[0] \subseteq f[MaxBlobs]
    <3>1. 0 \in 0 .. MaxBlobs
      BY ManagerAssumption
    <3> QED BY <2>1, <3>1, ReachesSteps
  <2> QED BY <2>1, <2>2 DEF Init, MaxIsProvable
<1>2. MaxIsProvable /\ [Next]_vars => MaxIsProvable'
  <2> SUFFICES ASSUME MaxIsProvable, [Next]_vars PROVE MaxIsProvable'
    OBVIOUS
  <2>1. CASE CollectFinished
    <3>1. /\ done \subseteq done'
          /\ max_proving_iteration' = Provable(done') \/ max_proving_iteration' = max_proving_iteration
      BY <2>1, Zenon DEF CollectFinished
    <3>2. Provable(done') \in Covered(done')
      BY ProvableIsCovered
    <3>3. Covered(done) \subseteq Covered(done')
      BY <3>1, CoveredGrows
    <3> QED BY <3>1, <3>2, <3>3 DEF MaxIsProvable
  <2>2. CASE UNCHANGED <<done, max_proving_iteration>>
    BY <2>2 DEF MaxIsProvable
  <2> QED BY <2>1, <2>2, OnlyCollectStores
<1> QED BY <1>1, <1>2, PTL DEF Spec

----------------------------------------------------------------------------
(***************************************************************************)
(* The segments of a proof                                                 *)
(***************************************************************************)

Link == [segment : Buckets \X Nat, is_empty : BOOLEAN]

\* f[n] is the length of the first n segments of the proof.
Sums(f, proof) ==
  f = [n \in 0 .. Len(proof) |->
         IF n = 0 THEN 0 ELSE f[n - 1] + Length(proof[n].segment)]
Adds(f, proof) ==
  /\ \A n \in 0 .. Len(proof) : f[n] \in Nat
  /\ f[0] = 0
  /\ \A n \in 1 .. Len(proof) : f[n] = f[n - 1] + Length(proof[n].segment)

\* Two proofs begin with the same k segments; two functions agree up to k.
SameLinks(p, q, k) == k <= Len(p) /\ k <= Len(q) /\ \A n \in 1 .. k : p[n] = q[n]
SameSums(f, g, k) == \A n \in 0 .. k : f[n] = g[n]

LEMMA LinkLengths ==
  ASSUME NEW proof \in Seq(Link), NEW n \in 1 .. Len(proof)
  PROVE  /\ proof[n] \in Link /\ Length(proof[n].segment) \in Nat
<1>1. proof[n] \in Link
  BY ElementOfSeq
<1>2. proof[n].segment[1] \in Buckets
  BY <1>1 DEF Link
<1> QED BY <1>1, <1>2, SegmentLengths DEF Length

\* The recursion of ProofLength is well defined.
LEMMA SumsExist ==
  ASSUME NEW proof \in Seq(Link)
  PROVE  \E f : Adds(f, proof) /\ ProofLength(proof) = f[Len(proof)]
<1> DEFINE N == Len(proof)
           More(n, v) == v + Length(proof[n].segment)
           D == [p \in (1 .. N) \X Nat |-> More(p[1], p[2])]
<1>0. N \in Nat
  BY LenProperties
<1>1. D \in [(1 .. N) \X Nat -> Nat]
  <2>1. ASSUME NEW n \in 1 .. N, NEW v \in Nat PROVE More(n, v) \in Nat
    BY LinkLengths
  <2> HIDE DEF More
  <2> QED BY <2>1
<1>2. PICK g \in [0 .. N -> Nat] : Recurs(g, N, 0, D)
  <2>1. 0 \in Nat
    OBVIOUS
  <2> HIDE DEF D, N
  <2> QED BY <1>0, <1>1, <2>1, RecursiveFunction
<1>3. ASSUME NEW n \in 1 .. N PROVE g[n] = More(n, g[n - 1])
  <2>1. n - 1 \in 0 .. N
    BY <1>0
  <2>2. <<n, g[n - 1]>> \in (1 .. N) \X Nat
    BY <2>1
  <2>3. g[n] = D[<<n, g[n - 1]>>]
    BY <1>2, Zenon DEF Recurs
  <2> HIDE DEF More
  <2> QED BY <2>2, <2>3
<1>4. g[0] = 0
  BY <1>2 DEF Recurs
<1>5. Sums(g, proof)
  <2>1. ASSUME NEW n \in 0 .. N PROVE g[n] = IF n = 0 THEN 0 ELSE More(n, g[n - 1])
    <3>1. n # 0 => n \in 1 .. N
      BY <1>0
    <3> HIDE DEF More, N
    <3> QED BY <1>3, <1>4, <3>1
  <2>2. g = [n \in 0 .. N |-> IF n = 0 THEN 0 ELSE More(n, g[n - 1])]
    <3> HIDE DEF More, N
    <3> QED BY <2>1
  <2> QED BY <2>2, Zenon DEF Sums
<1> DEFINE h == CHOOSE f : Sums(f, proof)
<1>6. Sums(h, proof)
  BY <1>5, Zenon
<1>7. ProofLength(proof) = h[N]
  BY Zenon DEF ProofLength, Sums
<1>8. \A n \in 0 .. N : h[n] = IF n = 0 THEN 0 ELSE h[n - 1] + Length(proof[n].segment)
  <2> HIDE DEF h
  <2> QED BY <1>6, Zenon DEF Sums
<1> HIDE DEF h
<1> DEFINE T == {n \in Nat : n <= N => h[n] \in Nat}
<1>9. 0 \in T
  BY <1>0, <1>8
<1>10. ASSUME NEW n \in Nat, n \in T PROVE n + 1 \in T
  <2> SUFFICES ASSUME n + 1 <= N PROVE h[n + 1] \in Nat
    OBVIOUS
  <2>1. n + 1 \in 1 .. N /\ n + 1 \in 0 .. N /\ n + 1 # 0 /\ (n + 1) - 1 = n /\ n <= N
    BY <1>0
  <2>2. h[n + 1] = h[n] + Length(proof[n + 1].segment)
    BY <1>8, <2>1
  <2> QED BY <1>10, <2>1, <2>2, LinkLengths
<1>11. Nat \subseteq T
  <2> HIDE DEF T
  <2> QED BY <1>9, <1>10, InductiveSet
<1>12. Adds(h, proof)
  BY <1>0, <1>8, <1>11 DEF Adds
<1> QED BY <1>7, <1>12

\* The sums depend only on the segments added up.
LEMMA SumsAgree ==
  ASSUME NEW p, NEW q, NEW f, NEW g, Adds(f, p), Adds(g, q),
         Len(p) \in Nat, Len(q) \in Nat, NEW k \in Nat, SameLinks(p, q, k)
  PROVE  SameSums(f, g, k)
<1> DEFINE T == {n \in Nat : n <= k => f[n] = g[n]}
<1>1. 0 \in T
  BY DEF Adds
<1>2. ASSUME NEW n \in Nat, n \in T PROVE n + 1 \in T
  <2> SUFFICES ASSUME n + 1 <= k PROVE f[n + 1] = g[n + 1]
    OBVIOUS
  <2>1. n + 1 \in 1 .. Len(p) /\ n + 1 \in 1 .. Len(q) /\ n + 1 \in 1 .. k /\ (n + 1) - 1 = n
    BY DEF SameLinks
  <2>2. f[n + 1] = f[n] + Length(p[n + 1].segment) /\ g[n + 1] = g[n] + Length(q[n + 1].segment)
    BY <2>1 DEF Adds
  <2>3. p[n + 1] = q[n + 1]
    BY <2>1 DEF SameLinks
  <2> QED BY <1>2, <2>2, <2>3
<1>3. Nat \subseteq T
  <2> HIDE DEF T
  <2> QED BY <1>1, <1>2, InductiveSet
<1> QED BY <1>3 DEF SameSums

\* The length of the first k segments is the k-th sum.
LEMMA PrefixLength ==
  ASSUME NEW proof \in Seq(Link), NEW f, Adds(f, proof), NEW k \in 0 .. Len(proof)
  PROVE  ProofLength(SubSeq(proof, 1, k)) = f[k]
<1> DEFINE q == SubSeq(proof, 1, k)
<1>1. /\ q \in Seq(Link) /\ Len(q) = k /\ Len(proof) \in Nat /\ k \in Nat
      /\ \A n \in 1 .. k : q[n] = proof[n]
  <2>1. Len(proof) \in Nat
    BY LenProperties
  <2>2. \A n \in 1 .. k : n \in 1 .. Len(proof)
    BY <2>1
  <2>3. \A n \in 1 .. k : proof[n] \in Link
    BY <2>2, LinkLengths
  <2> QED BY <2>1, <2>2, <2>3, SubSeqProperties
<1>2. PICK g : Adds(g, q) /\ ProofLength(q) = g[Len(q)]
  BY <1>1, SumsExist
<1>3. SameLinks(q, proof, k)
  BY <1>1 DEF SameLinks
<1>4. SameSums(g, f, k)
  <2> HIDE DEF q
  <2> QED BY <1>1, <1>2, <1>3, SumsAgree
<1> HIDE DEF q
<1>5. k \in 0 .. k
  BY <1>1
<1> QED BY <1>1, <1>2, <1>4, <1>5 DEF SameSums, q

\* The segments of a proof follow each other from 0 up to iters.
Tiles(proof) ==
  \A n \in DOMAIN proof : Start(proof[n].segment) = ProofLength(SubSeq(proof, 1, n - 1))
TilesUpTo(proof, iters) == proof \in Seq(Link) /\ Tiles(proof) /\ ProofLength(proof) = iters

\* No segments are a proof of nothing.
LEMMA EmptyTiles == TilesUpTo(<< >>, 0)
<1>1. << >> \in Seq(Link) /\ Len(<< >>) = 0 /\ DOMAIN << >> = {}
  BY EmptySeq
<1>2. ProofLength(<< >>) = 0
  <2>1. PICK f : Adds(f, << >>) /\ ProofLength(<< >>) = f[Len(<< >>)]
    BY <1>1, SumsExist
  <2> QED BY <1>1, <2>1 DEF Adds
<1> QED BY <1>1, <1>2 DEF TilesUpTo, Tiles

\* The count segments of bucket i that start at position.
Run(i, position, count) ==
  [n \in 1 .. count |-> [segment |-> <<i, position + n - 1>>,
                         is_empty |-> <<i, position + n - 1>> \notin done]]

LEMMA RunIsSeq ==
  ASSUME NEW i \in Buckets, NEW position \in Nat, NEW count \in Nat
  PROVE  /\ Run(i, position, count) \in Seq(Link) /\ Len(Run(i, position, count)) = count
         /\ \A n \in 1 .. count : Run(i, position, count)[n].segment = <<i, position + n - 1>>
<1> DEFINE Item(n) == [segment |-> <<i, position + n - 1>>,
                       is_empty |-> <<i, position + n - 1>> \notin done]
<1>1. ASSUME NEW n \in 1 .. count PROVE Item(n) \in Link /\ Item(n).segment = <<i, position + n - 1>>
  <2>1. <<i, position + n - 1>> \in Buckets \X Nat
    OBVIOUS
  <2>2. (<<i, position + n - 1>> \notin done) \in BOOLEAN
    BY Zenon
  <2> QED BY <2>1, <2>2 DEF Link
<1>2. Run(i, position, count) = [n \in 1 .. count |-> Item(n)]
  BY Zenon DEF Run
<1> DEFINE run == [n \in 1 .. count |-> Item(n)]
<1>3. run \in [1 .. count -> Link] /\ \A n \in 1 .. count : run[n].segment = <<i, position + n - 1>>
  <2> HIDE DEF Item
  <2> QED BY <1>1
<1>4. run \in Seq(Link) /\ Len(run) = count
  <2> HIDE DEF run
  <2>1. run \in Seq(Link)
    BY <1>3, SeqDef
  <2>2. DOMAIN run = 1 .. count /\ Len(run) \in Nat /\ DOMAIN run = 1 .. Len(run)
    BY <1>3, <2>1, LenProperties
  <2> QED BY <2>1, <2>2
<1> QED BY <1>2, <1>3, <1>4

\* A run that starts where the proof ends continues it.
LEMMA RunTiles ==
  ASSUME NEW proof, NEW iters, TilesUpTo(proof, iters), NEW i \in Buckets,
         Multiple(iters, sg_length(i)), NEW count \in Nat
  PROVE  TilesUpTo(proof \o Run(i, iters \div sg_length(i), count), iters + count * sg_length(i))
<1> DEFINE l == sg_length(i)
           position == iters \div l
           run == Run(i, position, count)
           q == proof \o run
           N == Len(proof)
<1>0. /\ proof \in Seq(Link) /\ N \in Nat /\ l \in Nat \ {0} /\ position \in Nat /\ iters = position * l
      /\ iters \in Nat
  BY SegmentLengths, Multiples, LenProperties DEF TilesUpTo
<1>1. /\ run \in Seq(Link) /\ Len(run) = count
      /\ \A n \in 1 .. count : run[n].segment = <<i, position + n - 1>>
  <2> HIDE DEF position
  <2> QED BY <1>0, RunIsSeq
<1>2. /\ q \in Seq(Link) /\ Len(q) = N + count
      /\ \A n \in 1 .. N : q[n] = proof[n]
      /\ \A n \in 1 .. count : q[N + n] = run[n]
  <2> HIDE DEF run
  <2>1. q \in Seq(Link) /\ Len(q) = N + count
        /\ \A n \in 1 .. Len(proof) + Len(run) :
             q[n] = IF n <= Len(proof) THEN proof[n] ELSE run[n - Len(proof)]
    BY <1>0, <1>1, ConcatProperties
  <2>2. ASSUME NEW n \in 1 .. N PROVE q[n] = proof[n]
    <3>1. n \in 1 .. Len(proof) + Len(run) /\ n <= Len(proof)
      BY <1>0, <1>1
    <3> QED BY <2>1, <3>1
  <2>3. ASSUME NEW n \in 1 .. count PROVE q[N + n] = run[n]
    <3>1. N + n \in 1 .. Len(proof) + Len(run) /\ ~(N + n <= Len(proof)) /\ (N + n) - Len(proof) = n
      BY <1>0, <1>1
    <3> QED BY <2>1, <3>1
  <2> QED BY <2>1, <2>2, <2>3
<1>3. PICK f : Adds(f, proof) /\ ProofLength(proof) = f[N]
  BY <1>0, SumsExist
<1> HIDE DEF q, run, position, N, l
<1>4. PICK h : Adds(h, q) /\ ProofLength(q) = h[Len(q)]
  BY <1>2, SumsExist
<1>5. \A n \in 0 .. N : f[n] = h[n]
  <2>1. SameLinks(proof, q, N) /\ Len(q) \in Nat
    BY <1>0, <1>1, <1>2 DEF SameLinks, N
  <2>2. SameSums(f, h, N)
    BY <1>0, <1>3, <1>4, <2>1, SumsAgree DEF N
  <2> QED BY <2>2 DEF SameSums
<1>6. h[N] = iters
  <2>1. N \in 0 .. N
    BY <1>0
  <2> QED BY <1>3, <1>5, <2>1 DEF TilesUpTo
<1>7. ASSUME NEW n \in 1 .. count
      PROVE  q[N + n].segment = <<i, position + n - 1>> /\ Length(q[N + n].segment) = l
             /\ Start(q[N + n].segment) = (position + n - 1) * l
  BY <1>1, <1>2 DEF Length, Start, l
<1> DEFINE T == {m \in Nat : m <= count => h[N + m] = iters + m * l}
<1>8. 0 \in T
  BY <1>0, <1>6
<1>9. ASSUME NEW m \in Nat, m \in T PROVE m + 1 \in T
  <2> SUFFICES ASSUME m + 1 <= count PROVE h[N + (m + 1)] = iters + (m + 1) * l
    OBVIOUS
  <2>1. m + 1 \in 1 .. count /\ N + (m + 1) \in 1 .. Len(q) /\ (N + (m + 1)) - 1 = N + m /\ m <= count
    BY <1>0, <1>2
  <2>2. h[N + (m + 1)] = h[N + m] + l
    BY <1>4, <1>7, <2>1 DEF Adds
  <2>3. h[N + m] = iters + m * l
    BY <1>9, <2>1
  <2> QED BY <1>0, <2>2, <2>3
<1>10. Nat \subseteq T
  <2> HIDE DEF T
  <2> QED BY <1>8, <1>9, InductiveSet
<1>11. ProofLength(q) = iters + count * l
  BY <1>2, <1>4, <1>10
<1>12. ASSUME NEW n \in 1 .. Len(q) PROVE Start(q[n].segment) = h[n - 1]
  <2>1. CASE n <= N
    <3>1. n \in 1 .. N /\ n - 1 \in 0 .. N /\ n - 1 \in 0 .. Len(proof) /\ n \in DOMAIN proof
      BY <1>0, <2>1, LenProperties DEF N
    <3>2. Start(proof[n].segment) = ProofLength(SubSeq(proof, 1, n - 1))
      BY <3>1 DEF TilesUpTo, Tiles
    <3>3. ProofLength(SubSeq(proof, 1, n - 1)) = f[n - 1]
      BY <1>0, <1>3, <3>1, PrefixLength
    <3> QED BY <1>2, <1>5, <3>1, <3>2, <3>3
  <2>2. CASE n > N
    <3> DEFINE m == n - N - 1
    <3>1. m \in Nat /\ m <= count /\ m + 1 \in 1 .. count /\ n = N + (m + 1) /\ n - 1 = N + m
      BY <1>0, <1>2, <2>2
    <3> HIDE DEF m
    <3>2. Start(q[n].segment) = (position + (m + 1) - 1) * l
      BY <1>7, <3>1
    <3>3. h[n - 1] = iters + m * l
      BY <1>10, <3>1
    <3>4. (position + (m + 1) - 1) * l = position * l + m * l
      BY <1>0, <3>1
    <3> QED BY <1>0, <3>2, <3>3, <3>4
  <2> QED BY <1>0, <1>2, <2>1, <2>2
<1>13. Tiles(q)
  <2>1. ASSUME NEW n \in 1 .. Len(q) PROVE Start(q[n].segment) = ProofLength(SubSeq(q, 1, n - 1))
    <3>1. n - 1 \in 0 .. Len(q)
      BY <1>0, <1>2
    <3> QED BY <1>2, <1>4, <1>12, <3>1, PrefixLength
  <2> QED BY <1>2, <2>1, LenProperties DEF Tiles
<1> QED BY <1>2, <1>11, <1>13 DEF TilesUpTo, q, run, position, l

\* The stored segments are segments of the run.
StoredOK == done \subseteq Segment

LEMMA SizeIsNatural ==
  ASSUME StoredOK, NEW i \in Buckets
  PROVE  Size(i) \in Nat
<1> DEFINE positions == {sg[2] : sg \in {d \in done : d[1] = i}}
<1>1. positions \subseteq Nat /\ \A p \in positions : p <= MaxIterations
  BY SegmentPairs, ManagerAssumption DEF StoredOK
<1>2. positions # {} => (CHOOSE p \in positions : \A q \in positions : q <= p) \in Nat
  <2> HIDE DEF positions
  <2>1. MaxIterations \in Nat
    BY ManagerAssumption
  <2>2. positions # {} => \E p \in positions : \A q \in positions : q <= p
    BY <1>1, <2>1, GreatestNatural
  <2> QED BY <1>1, <2>2
<1>3. Size(i) = IF positions = {} THEN 0
                ELSE 1 + (CHOOSE p \in positions : \A q \in positions : q <= p)
  BY Zenon DEF Size
<1> HIDE DEF positions
<1> QED BY <1>2, <1>3

\* TakenFrom adds a run that does not pass the iteration asked for.
AddsRun(taken, i, iteration) ==
  \E count \in Nat :
    /\ taken.iters + count * sg_length(i) <= iteration
    /\ TakenFrom(taken, i, iteration) =
         [iters |-> taken.iters + count * sg_length(i),
          proof |-> taken.proof \o Run(i, taken.iters \div sg_length(i), count)]

LEMMA TakenFromRun ==
  ASSUME StoredOK, NEW i \in Buckets, NEW iteration \in Nat, NEW taken,
         taken.iters \in Nat, taken.iters <= iteration
  PROVE  AddsRun(taken, i, iteration)
<1> DEFINE l == sg_length(i)
           position == taken.iters \div l
           fit == (iteration - taken.iters) \div l
           count == IF position >= Size(i) THEN 0
                    ELSE IF Size(i) - position <= fit THEN Size(i) - position
                    ELSE fit
<1>1. l \in Nat \ {0} /\ Size(i) \in Nat
  BY SegmentLengths, SizeIsNatural
<1>2. position \in Nat /\ fit \in Nat /\ fit * l <= iteration - taken.iters
  <2> HIDE DEF l
  <2> QED BY <1>1
<1>3. count \in Nat /\ count <= fit
  <2> HIDE DEF position, fit
  <2> QED BY <1>1, <1>2
<1>4. TakenFrom(taken, i, iteration) =
        [iters |-> taken.iters + count * l, proof |-> taken.proof \o Run(i, position, count)]
  BY Zenon DEF TakenFrom, Run
<1> HIDE DEF count, fit
<1>5. taken.iters + count * l <= iteration
  <2> HIDE DEF l
  <2>1. count * l <= fit * l
    BY <1>1, <1>2, <1>3
  <2> QED BY <1>1, <1>2, <1>3, <2>1
<1> QED BY <1>3, <1>4, <1>5 DEF AddsRun

\* The recursion of Taken is well defined.
Takes(f, iteration) ==
  f = [i \in 0 .. segment_count |->
         IF i = segment_count THEN [iters |-> 0, proof |-> << >>]
         ELSE TakenFrom(f[i + 1], i, iteration)]

LEMMA TakesExists ==
  ASSUME StoredOK, NEW iteration \in Nat
  PROVE  \E f : Takes(f, iteration) /\ Taken(iteration) = f[0]
<1> DEFINE V == [iters : 0 .. iteration, proof : Seq(Link)]
           N == segment_count
           From(k, v) == TakenFrom(v, N - k, iteration)
           D == [p \in (1 .. N) \X V |-> From(p[1], p[2])]
           first == [iters |-> 0, proof |-> << >>]
<1>0. N \in Nat \ {0} /\ first \in V
  <2>1. << >> \in Seq(Link)
    BY EmptySeq
  <2> QED BY <2>1, ManagerAssumption
<1>1. ASSUME NEW k \in 1 .. N, NEW v \in V PROVE From(k, v) \in V
  <2>1. N - k \in Buckets /\ v.iters \in Nat /\ v.iters <= iteration /\ v.proof \in Seq(Link)
    BY <1>0 DEF Buckets
  <2>2. AddsRun(v, N - k, iteration)
    BY <2>1, TakenFromRun
  <2>3. PICK count \in Nat :
          /\ v.iters + count * sg_length(N - k) <= iteration
          /\ From(k, v) = [iters |-> v.iters + count * sg_length(N - k),
                           proof |-> v.proof \o Run(N - k, v.iters \div sg_length(N - k), count)]
    BY <2>2 DEF AddsRun
  <2>4. sg_length(N - k) \in Nat \ {0}
    BY <2>1, SegmentLengths
  <2>5. v.iters + count * sg_length(N - k) \in 0 .. iteration /\ v.iters \div sg_length(N - k) \in Nat
    <3> DEFINE l == sg_length(N - k)
               x == v.iters
    <3>1. x \in Nat /\ l \in Nat \ {0} /\ x + count * l <= iteration
      BY <2>1, <2>3, <2>4
    <3> HIDE DEF l, x
    <3>2. x + count * l \in 0 .. iteration /\ x \div l \in Nat
      BY <3>1
    <3> QED BY <3>2 DEF l, x
  <2>6. Run(N - k, v.iters \div sg_length(N - k), count) \in Seq(Link)
    BY <2>1, <2>5, RunIsSeq
  <2>7. v.proof \o Run(N - k, v.iters \div sg_length(N - k), count) \in Seq(Link)
    BY <2>1, <2>6, ConcatProperties
  <2> HIDE DEF From
  <2> QED BY <2>3, <2>5, <2>7
<1>2. D \in [(1 .. N) \X V -> V]
  <2> HIDE DEF From, V
  <2> QED BY <1>1
<1>3. PICK g \in [0 .. N -> V] : Recurs(g, N, first, D)
  <2> HIDE DEF D, V, first
  <2> QED BY <1>0, <1>2, RecursiveFunction
<1> DEFINE f == [i \in 0 .. N |-> g[N - i]]
<1>4. ASSUME NEW i \in 0 .. N
      PROVE  f[i] = IF i = N THEN first ELSE TakenFrom(f[i + 1], i, iteration)
  <2>1. CASE i = N
    <3>1. f[i] = g[0]
      BY <1>0, <2>1
    <3> QED BY <1>3, <2>1, <3>1, Zenon DEF Recurs
  <2>2. CASE i # N
    <3>1. N - i \in 1 .. N /\ (N - i) - 1 \in 0 .. N /\ i + 1 \in 0 .. N /\ N - (i + 1) = (N - i) - 1
          /\ N - (N - i) = i
      BY <1>0, <2>2
    <3> DEFINE k == N - i
    <3>2. g[k] = D[<<k, g[k - 1]>>] /\ <<k, g[k - 1]>> \in (1 .. N) \X V
      <4> HIDE DEF D, V
      <4> QED BY <1>3, <3>1 DEF Recurs
    <3>3. D[<<k, g[k - 1]>>] = From(k, g[k - 1])
      <4> HIDE DEF From, V
      <4> QED BY <3>2
    <3>4. f[i] = g[k] /\ f[i + 1] = g[k - 1]
      BY <3>1
    <3>5. From(k, g[k - 1]) = TakenFrom(f[i + 1], i, iteration)
      <4> HIDE DEF f
      <4> QED BY <3>1, <3>4
    <3> HIDE DEF f, From, D, k
    <3> QED BY <2>2, <3>2, <3>3, <3>4, <3>5, Zenon
  <2> QED BY <2>1, <2>2
<1>5. Takes(f, iteration)
  <2>1. f = [i \in 0 .. N |-> f[i]]
    OBVIOUS
  <2> HIDE DEF f
  <2>2. f = [i \in 0 .. N |-> IF i = N THEN first ELSE TakenFrom(f[i + 1], i, iteration)]
    BY <1>4, <2>1
  <2> QED BY <2>2, Zenon DEF Takes
<1> DEFINE h == CHOOSE x : Takes(x, iteration)
<1>6. Takes(h, iteration)
  <2> HIDE DEF f
  <2> QED BY <1>5, Zenon
<1>7. Taken(iteration) = h[0]
  BY Zenon DEF Taken, Takes
<1> HIDE DEF h
<1> QED BY <1>6, <1>7

\* What Prove takes follows from 0 without a gap, and does not pass the start
\* of the last segment.
LEMMA TakenTiles ==
  ASSUME StoredOK, NEW iteration \in Nat
  PROVE  /\ Taken(iteration).proof \in Seq(Link) /\ Tiles(Taken(iteration).proof)
         /\ ProofLength(Taken(iteration).proof) \in Nat
         /\ ProofLength(Taken(iteration).proof) <= LastSegment(iteration)
<1> DEFINE N == segment_count
<1>0. N \in Nat \ {0}
  BY ManagerAssumption
<1>1. PICK g : Takes(g, iteration) /\ Taken(iteration) = g[0]
  BY TakesExists
<1> DEFINE Good(i) == /\ g[i].iters \in Nat /\ g[i].iters <= iteration
                      /\ TilesUpTo(g[i].proof, g[i].iters)
                      /\ i \in Buckets => Multiple(g[i].iters, sg_length(i))
                      /\ i = N => g[i].iters = 0
           T == {k \in Nat : k <= N => Good(N - k)}
<1>3. \A i \in 0 .. N : g[i] = IF i = N THEN [iters |-> 0, proof |-> << >>]
                               ELSE TakenFrom(g[i + 1], i, iteration)
  BY <1>1, Zenon DEF Takes
<1>4. 0 \in T
  <2>1. N - 0 = N /\ N \in 0 .. N /\ N \notin Buckets
    BY <1>0 DEF Buckets
  <2>2. g[N] = [iters |-> 0, proof |-> << >>]
    BY <1>3, <2>1
  <2> QED BY <2>1, <2>2, EmptyTiles
<1>5. ASSUME NEW k \in Nat, k \in T PROVE k + 1 \in T
  <2> SUFFICES ASSUME k + 1 <= N PROVE Good(N - (k + 1))
    OBVIOUS
  <2> DEFINE i == N - (k + 1)
             v == g[i + 1]
  <2>1. i \in Buckets /\ i \in 0 .. N /\ i # N /\ i + 1 = N - k /\ k <= N
        /\ (i + 1 \in Buckets \/ i + 1 = N)
    BY <1>0 DEF Buckets
  <2>2. Good(i + 1)
    BY <1>5, <2>1
  <2>3. g[i] = TakenFrom(v, i, iteration)
    BY <1>3, <2>1, Zenon
  <2>4. v.iters \in Nat /\ v.iters <= iteration /\ TilesUpTo(v.proof, v.iters)
    BY <2>2
  <2>5. sg_length(i) \in Nat \ {0}
    BY <2>1, SegmentLengths
  <2>6. Multiple(v.iters, sg_length(i))
    <3>1. CASE i + 1 \in Buckets
      <4>1. Multiple(v.iters, sg_length(i + 1))
        BY <2>2, <3>1
      <4> HIDE DEF i, v
      <4> QED BY <2>1, <3>1, <4>1, MultipleOfShorter
    <3>2. CASE i + 1 = N
      <4>1. v.iters = 0 * sg_length(i)
        BY <2>2, <2>5, <3>2
      <4> QED BY <4>1 DEF Multiple
    <3> QED BY <2>1, <3>1, <3>2
  <2> HIDE DEF i, v, Good
  <2>7. PICK count \in Nat :
          /\ v.iters + count * sg_length(i) <= iteration
          /\ TakenFrom(v, i, iteration) =
               [iters |-> v.iters + count * sg_length(i),
                proof |-> v.proof \o Run(i, v.iters \div sg_length(i), count)]
    <3>1. i \in Buckets /\ v.iters \in Nat /\ v.iters <= iteration
      BY <2>1, <2>4
    <3>2. AddsRun(v, i, iteration)
      BY <3>1, TakenFromRun
    <3> QED BY <3>2, Zenon DEF AddsRun
  <2>8. TilesUpTo(v.proof \o Run(i, v.iters \div sg_length(i), count), v.iters + count * sg_length(i))
    BY <2>1, <2>4, <2>6, <2>7, RunTiles
  <2>9. g[i].iters = v.iters + count * sg_length(i)
        /\ g[i].proof = v.proof \o Run(i, v.iters \div sg_length(i), count)
    <3> DEFINE x == v.iters + count * sg_length(i)
               y == v.proof \o Run(i, v.iters \div sg_length(i), count)
    <3>1. g[i] = [iters |-> x, proof |-> y]
      BY <2>3, <2>7, Zenon
    <3> HIDE DEF x, y
    <3>2. g[i].iters = x /\ g[i].proof = y
      BY <3>1
    <3> QED BY <3>2 DEF x, y
  <2>10. v.iters + count * sg_length(i) \in Nat
    BY <2>4, <2>5
  <2>11. Multiple(v.iters + count * sg_length(i), sg_length(i))
    <3>1. PICK q \in Nat : v.iters = q * sg_length(i)
      BY <2>6 DEF Multiple
    <3> DEFINE l == sg_length(i)
    <3>2. v.iters + count * l = (q + count) * l /\ q + count \in Nat
      <4> HIDE DEF l
      <4> QED BY <2>5, <3>1 DEF l
    <3> QED BY <3>2 DEF Multiple
  <2> QED BY <2>1, <2>7, <2>8, <2>9, <2>10, <2>11 DEF i, Good
<1>6. Nat \subseteq T
  <2> HIDE DEF T
  <2> QED BY <1>4, <1>5, InductiveSet
<1>7. Good(0)
  <2>1. N \in T /\ N - N = 0 /\ N <= N
    BY <1>0, <1>6
  <2> QED BY <2>1
<1>8. Multiple(g[0].iters, SegmentUnit) /\ SegmentUnit \in Nat \ {0}
  BY <1>7, SegmentLengths, ManagerAssumption
<1>9. g[0].iters <= LastSegment(iteration)
  <2>1. PICK q \in Nat : g[0].iters = q * SegmentUnit
    BY <1>8 DEF Multiple
  <2>2. q <= iteration \div SegmentUnit
    BY <1>7, <1>8, <2>1
  <2>3. iteration - (iteration % SegmentUnit) = (iteration \div SegmentUnit) * SegmentUnit
    BY <1>8
  <2>4. iteration \div SegmentUnit \in Nat
    BY <1>8
  <2>5. q * SegmentUnit <= (iteration \div SegmentUnit) * SegmentUnit
    <3> DEFINE e == iteration \div SegmentUnit
    <3>1. q <= e /\ e \in Nat
      BY <2>2, <2>4
    <3> HIDE DEF e
    <3>2. q * SegmentUnit <= e * SegmentUnit
      BY <1>8, <3>1
    <3> QED BY <3>2 DEF e
  <2> QED BY <2>1, <2>3, <2>5 DEF LastSegment
<1> QED BY <1>1, <1>7, <1>9 DEF TilesUpTo

----------------------------------------------------------------------------
(***************************************************************************)
(* The threads of Prove                                                    *)
(***************************************************************************)

Early == {"idle", "insert", "insert_last", "check_last", "fall_last", "asleep_last", "last",
          "retry", "while", "check_proof", "fall_proof", "asleep_proof"}
Late == {"chosen", "assemble", "sent", "returned", "undefined"}
Thread == [pc : Early \union Late, proof : Seq(Link)]

\* The proof ends where the last segment begins.
Ends(r, proof) == ProofLength(proof) = LastSegment(r) /\ Len(proof) <= MaxBlobs

\* A thread's proof tiles what comes before the last segment.  It is put
\* together once its length was tested, or the session was stopped.
ThreadOK(r, th, halted) ==
  /\ th \in Thread /\ Tiles(th.proof)
  /\ ProofLength(th.proof) \in Nat /\ ProofLength(th.proof) <= LastSegment(r)
  /\ th.pc \in Early => th.proof = << >>
  /\ th.pc = "assemble" => halted \/ Ends(r, th.proof)
  /\ th.pc = "sent" => Ends(r, th.proof)

TileInv ==
  /\ StoredOK /\ stopped \in BOOLEAN /\ (stopped => session # "serving")
  /\ prove \in [Requests -> Thread]
  /\ \A r \in Requests : ThreadOK(r, prove[r], stopped)

LEMMA LastSegmentIsNatural ==
  ASSUME NEW r \in Requests
  PROVE  r \in Nat /\ LastSegment(r) \in Nat
  BY ManagerAssumption DEF LastSegment

\* A thread that goes on with the proof it has.
LEMMA MoveOK ==
  ASSUME NEW r, NEW th, NEW halted, ThreadOK(r, th, halted), NEW to \in Early \union Late,
         to \in Early => th.proof = << >>,
         to = "assemble" => halted \/ Ends(r, th.proof),
         to = "sent" => Ends(r, th.proof)
  PROVE  ThreadOK(r, [th EXCEPT !.pc = to], halted)
<1> DEFINE new == [th EXCEPT !.pc = to]
<1>1. new \in Thread /\ new.pc = to /\ new.proof = th.proof
  BY DEF ThreadOK, Thread
<1> HIDE DEF new
<1> QED BY <1>1 DEF ThreadOK, new

\* One thread moves and the others stay.
LEMMA GotoKeeps ==
  ASSUME TileInv, NEW r \in Requests, NEW to \in Early \union Late, Goto(r, to),
         UNCHANGED <<done, stopped, session>>,
         to \in Early => prove[r].proof = << >>,
         to = "assemble" => stopped \/ Ends(r, prove[r].proof),
         to = "sent" => Ends(r, prove[r].proof)
  PROVE  TileInv'
<1>1. ThreadOK(r, [prove[r] EXCEPT !.pc = to], stopped)
  BY MoveOK DEF TileInv
<1>2. prove' = [prove EXCEPT ![r] = [prove[r] EXCEPT !.pc = to]]
  BY DEF Goto, TileInv
<1>3. prove' \in [Requests -> Thread] /\ \A s \in Requests : ThreadOK(s, prove'[s], stopped)
  <2> DEFINE new == [prove[r] EXCEPT !.pc = to]
  <2>1. new \in Thread /\ ThreadOK(r, new, stopped)
    BY <1>1 DEF ThreadOK
  <2> HIDE DEF new
  <2> QED BY <1>2, <2>1 DEF TileInv, new
<1> QED BY <1>3 DEF TileInv, StoredOK, ThreadOK, Tiles, Ends

\* The threads stay where they are; a stop is not taken back.
LEMMA OthersKeep ==
  ASSUME TileInv, UNCHANGED prove, StoredOK', stopped' \in BOOLEAN, stopped => stopped',
         stopped' => session' # "serving"
  PROVE  TileInv'
<1>1. \A r \in Requests : ThreadOK(r, prove[r], stopped')
  BY DEF TileInv, ThreadOK
<1>2. \A r \in Requests : ThreadOK(r, prove'[r], stopped')
  BY <1>1
<1> QED BY <1>2 DEF TileInv, StoredOK, ThreadOK, Tiles, Ends

\* A notification lets the sleeping threads test their condition again.
LEMMA WakeKeeps ==
  ASSUME TileInv, UNCHANGED <<done, stopped>>, stopped' => session' # "serving",
         NEW asleep \in {"asleep_last", "asleep_proof"}, NEW check \in {"check_last", "check_proof"},
         Wake(asleep, check)
  PROVE  TileInv'
<1>1. ASSUME NEW r \in Requests PROVE ThreadOK(r, prove'[r], stopped)
  <2>1. prove'[r] = IF prove[r].pc = asleep THEN [prove[r] EXCEPT !.pc = check] ELSE prove[r]
    BY DEF Wake
  <2>2. ThreadOK(r, prove[r], stopped)
    BY DEF TileInv
  <2>3. prove[r].pc = asleep => prove[r].proof = << >>
    BY <2>2 DEF ThreadOK, Early
  <2>4. prove[r].pc = asleep => ThreadOK(r, [prove[r] EXCEPT !.pc = check], stopped)
    <3>1. check \in Early /\ check \in Early \union Late /\ check # "assemble" /\ check # "sent"
      BY DEF Early
    <3> QED BY <2>2, <2>3, <3>1, MoveOK
  <2> QED BY <2>1, <2>2, <2>4, Zenon
<1>2. prove' \in [Requests -> Thread]
  <2>1. prove' = [r \in Requests |-> prove'[r]]
    BY DEF Wake
  <2> QED BY <1>1, <2>1 DEF ThreadOK
<1> QED BY <1>1, <1>2 DEF TileInv, StoredOK, ThreadOK, Tiles, Ends

\* Prove takes the segments of its proof, or sends it back to wait.
LEMMA ChooseKeeps ==
  ASSUME TileInv, NEW r \in Requests, CheckProof(r) \/ Validate(r)
  PROVE  TileInv'
<1>0. UNCHANGED <<done, stopped, session>> /\ r \in Nat /\ ThreadOK(r, prove[r], stopped)
      /\ prove[r] \in Thread /\ prove \in [Requests -> Thread]
  BY LastSegmentIsNatural DEF CheckProof, Validate, OutsideProve, managerVars, TileInv
<1>1. ASSUME NEW th \in Thread, ThreadOK(r, th, stopped), prove' = [prove EXCEPT ![r] = th]
      PROVE  TileInv'
  <2>1. prove' \in [Requests -> Thread] /\ \A s \in Requests : ThreadOK(s, prove'[s], stopped)
    BY <1>0, <1>1 DEF TileInv
  <2> QED BY <1>0, <2>1 DEF TileInv, StoredOK, ThreadOK, Tiles, Ends
<1>2. CASE CheckProof(r)
  <2>1. CASE stopped
    <3>1. Goto(r, "returned") /\ "returned" \in Early \union Late /\ "returned" \notin Early
      BY <1>2, <2>1 DEF CheckProof, Early, Late
    <3> QED BY <1>0, <3>1, GotoKeeps
  <2>2. CASE ~stopped /\ max_proving_iteration >= LastSegment(r)
    <3> DEFINE proof == Taken(r).proof
               th == [pc |-> "chosen", proof |-> proof]
    <3>1. prove' = [prove EXCEPT ![r] = th]
      BY <1>2, <2>2 DEF CheckProof
    <3>2. /\ proof \in Seq(Link) /\ Tiles(proof) /\ ProofLength(proof) \in Nat
          /\ ProofLength(proof) <= LastSegment(r)
      BY <1>0, TakenTiles DEF TileInv
    <3> HIDE DEF proof
    <3>3. th \in Thread /\ th.pc = "chosen" /\ th.proof = proof
      BY <3>2 DEF Thread, Late
    <3>4. ThreadOK(r, th, stopped)
      BY <3>2, <3>3 DEF ThreadOK, Early
    <3> HIDE DEF th
    <3> QED BY <1>1, <3>1, <3>3, <3>4
  <2>3. CASE ~stopped /\ ~(max_proving_iteration >= LastSegment(r))
    <3>1. Goto(r, "fall_proof") /\ "fall_proof" \in Early \union Late /\ prove[r].proof = << >>
      BY <1>0, <1>2, <2>3 DEF CheckProof, Early, Late, ThreadOK
    <3> QED BY <1>0, <3>1, GotoKeeps
  <2> QED BY <2>1, <2>2, <2>3
<1>3. CASE Validate(r)
  <2>1. CASE Insufficient(r)
    <3> DEFINE th == [pc |-> "retry", proof |-> << >>]
    <3>1. prove' = [prove EXCEPT ![r] = th]
      BY <1>3, <2>1 DEF Validate
    <3>2. << >> \in Seq(Link) /\ Tiles(<< >>) /\ ProofLength(<< >>) = 0
      BY EmptyTiles DEF TilesUpTo
    <3>3. th \in Thread /\ th.pc = "retry" /\ th.proof = << >>
      BY <3>2 DEF Thread, Early
    <3>4. LastSegment(r) \in Nat
      BY LastSegmentIsNatural
    <3>5. ThreadOK(r, th, stopped)
      <4> HIDE DEF th
      <4> QED BY <3>2, <3>3, <3>4 DEF ThreadOK, Early
    <3> HIDE DEF th
    <3> QED BY <1>1, <3>1, <3>3, <3>5
  <2>2. CASE ~Insufficient(r)
    <3> DEFINE th == [prove[r] EXCEPT !.pc = "assemble"]
    <3>1. prove' = [prove EXCEPT ![r] = th]
      BY <1>3, <2>2 DEF Validate
    <3>2. Ends(r, prove[r].proof)
      <4>1. prove[r].proof \in Seq(Link) /\ LastSegment(r) \in Nat
        BY <1>0, LastSegmentIsNatural DEF Thread
      <4>2. Len(prove[r].proof) \in Nat /\ MaxBlobs \in Nat
        BY <4>1, LenProperties, ManagerAssumption
      <4> QED BY <1>0, <2>2, <4>1, <4>2 DEF Insufficient, ThreadOK, Ends
    <3>3. "assemble" \in Early \union Late /\ "assemble" \notin Early
      BY DEF Early, Late
    <3>4. ThreadOK(r, th, stopped)
      BY <1>0, <3>2, <3>3, MoveOK
    <3>5. th \in Thread
      BY <3>4 DEF ThreadOK
    <3> HIDE DEF th
    <3> QED BY <1>1, <3>1, <3>4, <3>5
  <2> QED BY <2>1, <2>2
<1> QED BY <1>2, <1>3

\* A step of a thread of Prove.
LEMMA ProveKeeps ==
  ASSUME TileInv, NEW r \in Requests, Request(r) \/ ProveStep(r)
  PROVE  TileInv'
<1>0. UNCHANGED <<done, stopped, session>> /\ ThreadOK(r, prove[r], stopped)
      /\ prove[r].pc \in Early \union Late /\ stopped \in BOOLEAN /\ (stopped => session # "serving")
  BY DEF TileInv, ThreadOK, Thread, Request, ProveStep, InsertPending, InsertPendingLast, CheckLast,
         FallAsleep, ProveLastSegment, While, CheckProof, Validate, Assemble, OutsideProve,
         managerVars
<1>1. CASE CheckProof(r) \/ Validate(r)
  BY <1>1, ChooseKeeps
<1>2. CASE Request(r) \/ InsertPending(r) \/ InsertPendingLast(r) \/ FallAsleep(r)
  <2>1. PICK to \in Early : Goto(r, to)
    BY <1>2 DEF Request, InsertPending, InsertPendingLast, FallAsleep, Early
  <2>2. prove[r].proof = << >>
    BY <1>0, <1>2 DEF Request, InsertPending, InsertPendingLast, FallAsleep, ThreadOK, Early
  <2>3. to # "assemble" /\ to # "sent" /\ to \in Early \union Late
    BY <2>1 DEF Early
  <2> QED BY <1>0, <2>1, <2>2, <2>3, GotoKeeps
<1>3. CASE CheckLast(r) \/ ProveLastSegment(r) \/ While(r)
  <2>1. prove[r].proof = << >>
    BY <1>0, <1>3 DEF CheckLast, ProveLastSegment, While, ThreadOK, Early
  <2>2. PICK to \in Early \union Late : Goto(r, to) /\ to # "sent" /\ (to = "assemble" => stopped)
    BY <1>3 DEF CheckLast, ProveLastSegment, While, Early, Late
  <2> QED BY <1>0, <2>1, <2>2, GotoKeeps
<1>4. CASE Assemble(r)
  <2>1. prove[r].pc = "assemble"
    BY <1>4 DEF Assemble
  <2>2. PICK to \in {"undefined", "sent", "returned"} : Goto(r, to) /\ (to = "sent" => session = "serving")
    BY <1>4 DEF Assemble
  <2>3. to = "sent" => Ends(r, prove[r].proof)
    BY <1>0, <2>1, <2>2 DEF ThreadOK
  <2>4. to \in Early \union Late /\ to \notin Early /\ to # "assemble"
    BY <2>2 DEF Early, Late
  <2> QED BY <1>0, <2>2, <2>3, <2>4, GotoKeeps
<1> QED BY <1>1, <1>2, <1>3, <1>4 DEF ProveStep

LEMMA TileInvNext == TileInv /\ [Next]_vars => TileInv'
<1> SUFFICES ASSUME TileInv, [Next]_vars PROVE TileInv'
  OBVIOUS
<1>0. StoredOK /\ stopped \in BOOLEAN /\ (stopped => session # "serving")
  BY DEF TileInv
<1>1. StoredOK'
  <2>1. CASE CollectFinished
    BY <1>0, <2>1 DEF CollectFinished, StoredOK, provers
  <2> QED BY <1>0, <2>1, OnlyCollectStores DEF StoredOK
<1>2. CASE VdfStep \/ SessionStop \/ UNCHANGED vars \/ \E sg \in Segment : OnFinish(sg)
  <2>1. UNCHANGED <<prove, stopped>> /\ (session' = session \/ session' = "stop")
    BY <1>2 DEF VdfStep, VdfTest, VdfPublish, VdfNotify, SessionStop, OnFinish, vars, requestVars
  <2> QED BY <1>0, <1>1, <2>1, OthersKeep
<1>3. CASE LoopEnds \/ WaitEvent \/ CollectFinished \/ AppendPending \/ Schedule \/ NothingToSpawn
  <2>1. UNCHANGED <<prove, stopped, session>>
    BY <1>3 DEF LoopEnds, WaitEvent, CollectFinished, AppendPending, Schedule, NothingToSpawn,
                requestVars
  <2> QED BY <1>0, <1>1, <2>1, OthersKeep
<1>4. CASE NotifyLastSegment \/ NotifyProof
  <2>1. UNCHANGED <<done, stopped, session>>
        /\ (UNCHANGED prove \/ Wake("asleep_last", "check_last") \/ Wake("asleep_proof", "check_proof"))
    BY <1>4 DEF NotifyLastSegment, NotifyProof
  <2>2. CASE UNCHANGED prove
    BY <1>0, <1>1, <2>1, <2>2, OthersKeep
  <2>3. CASE Wake("asleep_last", "check_last")
    BY <1>0, <2>1, <2>3, WakeKeeps
  <2>4. CASE Wake("asleep_proof", "check_proof")
    BY <1>0, <2>1, <2>4, WakeKeeps
  <2> QED BY <2>1, <2>2, <2>3, <2>4
<1>5. CASE StopManager \/ StopProvers \/ SessionJoin
  <2>1. UNCHANGED prove /\ stopped' \in BOOLEAN /\ (stopped => stopped') /\ session' # "serving"
    BY <1>0, <1>5 DEF StopManager, StopProvers, SessionJoin, requestVars
  <2> QED BY <1>0, <1>1, <2>1, OthersKeep
<1>6. CASE StopNotifies
  <2>1. UNCHANGED <<done, stopped>> /\ session' # "serving"
        /\ (Wake("asleep_last", "check_last") \/ Wake("asleep_proof", "check_proof"))
    BY <1>6 DEF StopNotifies, managerVars
  <2>2. CASE Wake("asleep_last", "check_last")
    BY <2>1, <2>2, WakeKeeps
  <2>3. CASE Wake("asleep_proof", "check_proof")
    BY <2>1, <2>3, WakeKeeps
  <2> QED BY <2>1, <2>2, <2>3
<1>7. ASSUME NEW r \in Requests, Request(r) \/ ProveStep(r) PROVE TileInv'
  BY <1>7, ProveKeeps
<1> QED BY <1>2, <1>3, <1>4, <1>5, <1>6, <1>7 DEF Next, LoopStep, SessionStep

LEMMA TileInvInit == Init => TileInv
<1> SUFFICES ASSUME Init PROVE TileInv
  OBVIOUS
<1>1. << >> \in Seq(Link) /\ Tiles(<< >>) /\ ProofLength(<< >>) = 0
  BY EmptyTiles DEF TilesUpTo
<1>2. NoThread \in Thread /\ NoThread.pc = "idle" /\ NoThread.proof = << >>
  BY <1>1 DEF NoThread, Thread, Early
<1>3. prove = [r \in Requests |-> NoThread] /\ done = {} /\ stopped = FALSE
  BY DEF Init
<1>4. ASSUME NEW r \in Requests PROVE ThreadOK(r, NoThread, stopped)
  BY <1>1, <1>2, LastSegmentIsNatural DEF ThreadOK
<1> QED BY <1>2, <1>3, <1>4 DEF TileInv, StoredOK

\* The segments of every proof follow each other from 0, and a proof that was
\* sent ends where its last segment begins: Prove takes whole segments without
\* passing the iteration, and sends the proof only when its length was tested.
THEOREM ProofsAlwaysTile == Spec => []ProofsTile
<1>1. Init => TileInv
  BY TileInvInit
<1>2. TileInv /\ [Next]_vars => TileInv'
  BY TileInvNext
<1>3. TileInv => ProofsTile
  BY DEF TileInv, ThreadOK, Tiles, Ends, ProofsTile
<1> QED BY <1>1, <1>2, <1>3, PTL DEF Spec

----------------------------------------------------------------------------
(***************************************************************************)
(* The bytes of a proof                                                    *)
(***************************************************************************)

\* Where a thread is once the squarings reached its last segment.
Waited == {"last", "while", "retry", "check_proof", "fall_proof", "asleep_proof", "chosen",
           "assemble", "sent", "undefined"}

\* Nothing is put together before the squarings passed it, and they end.
PassedInv ==
  /\ iterations \in 0 .. MaxIterations /\ vdf_iteration \in 0 .. iterations
  /\ vdf_pc = "run" => iterations < MaxIterations
  /\ \A r \in Requests : prove[r].pc \in Waited => LastSegment(r) <= vdf_iteration

\* A thread that goes on where the squarings have been.
LEMMA WaitedKeeps ==
  ASSUME PassedInv, NEW r \in Requests, prove \in [Requests -> Thread],
         NEW th \in Thread, prove' = [prove EXCEPT ![r] = th],
         UNCHANGED <<iterations, vdf_pc, vdf_iteration>>,
         th.pc \in Waited => prove[r].pc \in Waited \/ LastSegment(r) <= vdf_iteration
  PROVE  PassedInv'
<1>1. \A s \in Requests : prove'[s] = IF s = r THEN th ELSE prove[s]
  OBVIOUS
<1>2. LastSegment(r) <= vdf_iteration \/ th.pc \notin Waited
  BY DEF PassedInv
<1>3. \A s \in Requests : prove'[s].pc \in Waited => LastSegment(s) <= vdf_iteration
  BY <1>1, <1>2 DEF PassedInv
<1> QED BY <1>3 DEF PassedInv, LastSegment

LEMMA PassedInvNext == TileInv /\ TileInv' /\ PassedInv /\ [Next]_vars => PassedInv'
<1> SUFFICES ASSUME TileInv, TileInv', PassedInv, [Next]_vars PROVE PassedInv'
  OBVIOUS
<1>0. /\ prove \in [Requests -> Thread] /\ prove' \in [Requests -> Thread]
      /\ iterations \in Nat /\ vdf_iteration \in Nat /\ MaxIterations \in Nat
      /\ iterations <= MaxIterations /\ vdf_iteration <= iterations
      /\ (vdf_pc = "run" => iterations < MaxIterations)
      /\ \A r \in Requests : /\ LastSegment(r) \in Nat
                             /\ prove[r].pc \in Waited => LastSegment(r) <= vdf_iteration
  BY ManagerAssumption, LastSegmentIsNatural DEF TileInv, PassedInv
<1>1. ASSUME UNCHANGED prove, iterations' \in 0 .. MaxIterations, vdf_iteration' \in 0 .. iterations',
             vdf_iteration <= vdf_iteration', vdf_pc' = "run" => iterations' < MaxIterations
      PROVE  PassedInv'
  <2>1. \A r \in Requests : prove'[r].pc \in Waited => LastSegment(r) <= vdf_iteration'
    BY <1>0, <1>1
  <2> QED BY <1>1, <2>1 DEF PassedInv, LastSegment
<1>2. CASE VdfStep \/ WaitEvent
  <2>1. CASE VdfStep
    BY <1>0, <1>1, <2>1 DEF VdfStep, VdfTest, VdfPublish, VdfNotify, managerVars, requestVars
  <2>2. CASE WaitEvent
    BY <1>0, <1>1, <2>2 DEF WaitEvent, requestVars
  <2> QED BY <1>2, <2>1, <2>2
<1>3. CASE UNCHANGED <<prove, iterations, vdf_iteration, vdf_pc>>
  BY <1>0, <1>1, <1>3
<1>4. ASSUME NEW asleep \in {"asleep_last", "asleep_proof"}, NEW check,
             check = IF asleep = "asleep_last" THEN "check_last" ELSE "check_proof",
             Wake(asleep, check), UNCHANGED <<iterations, vdf_iteration, vdf_pc>>
      PROVE  PassedInv'
  <2>1. ASSUME NEW r \in Requests, prove'[r].pc \in Waited PROVE LastSegment(r) <= vdf_iteration
    <3>1. prove'[r] = IF prove[r].pc = asleep THEN [prove[r] EXCEPT !.pc = check] ELSE prove[r]
      BY <1>4 DEF Wake
    <3>2. prove[r] \in Thread
      BY <1>0
    <3>3. prove[r].pc = asleep => prove'[r].pc = check
      BY <3>1, <3>2 DEF Thread
    <3>4. prove[r].pc \in Waited
      BY <1>4, <2>1, <3>1, <3>3 DEF Waited
    <3> QED BY <1>0, <3>4
  <2> QED BY <1>4, <2>1 DEF PassedInv, LastSegment
<1>5. CASE NotifyLastSegment \/ NotifyProof \/ StopNotifies
  <2>1. /\ UNCHANGED <<iterations, vdf_iteration, vdf_pc>>
        /\ UNCHANGED prove \/ Wake("asleep_last", "check_last") \/ Wake("asleep_proof", "check_proof")
    BY <1>5 DEF NotifyLastSegment, NotifyProof, StopNotifies, managerVars
  <2> QED BY <1>3, <1>4, <2>1
<1>6. CASE SessionStop \/ StopManager \/ StopProvers \/ SessionJoin \/ LoopEnds \/ CollectFinished
           \/ AppendPending \/ Schedule \/ NothingToSpawn
  BY <1>3, <1>6 DEF SessionStop, StopManager, StopProvers, SessionJoin, LoopEnds, CollectFinished,
                    AppendPending, Schedule, NothingToSpawn, managerVars, requestVars
<1>7. CASE UNCHANGED vars \/ \E sg \in Segment : OnFinish(sg)
  BY <1>3, <1>7 DEF vars, OnFinish, managerVars, requestVars
<1>8. ASSUME NEW r \in Requests, Request(r) \/ ProveStep(r) PROVE PassedInv'
  <2>1. UNCHANGED <<iterations, vdf_iteration, vdf_pc>>
    BY <1>8 DEF Request, ProveStep, InsertPending, InsertPendingLast, CheckLast, FallAsleep,
                ProveLastSegment, While, CheckProof, Validate, Assemble, OutsideProve, managerVars
  <2>2. prove' = [prove EXCEPT ![r] = prove'[r]] /\ prove'[r] \in Thread /\ prove[r] \in Thread
    <3>1. \E th : prove' = [prove EXCEPT ![r] = th]
      BY <1>0, <1>8, Zenon DEF Request, ProveStep, InsertPending, InsertPendingLast, CheckLast,
         FallAsleep, ProveLastSegment, While, CheckProof, Validate, Assemble, Goto
    <3> QED BY <1>0, <3>1
  <2>3. prove'[r].pc \in Waited => prove[r].pc \in Waited \/ LastSegment(r) <= vdf_iteration
    <3>1. ASSUME NEW to, Goto(r, to) PROVE prove'[r].pc = to
      BY <1>0, <3>1 DEF Goto, Thread
    <3>2. CASE Request(r) \/ InsertPending(r) \/ InsertPendingLast(r) \/ FallAsleep(r)
      BY <3>1, <3>2 DEF Request, InsertPending, InsertPendingLast, FallAsleep, Waited
    <3>3. CASE CheckLast(r)
      BY <1>0, <3>1, <3>3 DEF CheckLast, Waited
    <3>4. CASE ProveLastSegment(r) \/ While(r) \/ CheckProof(r) \/ Validate(r) \/ Assemble(r)
      BY <3>4 DEF ProveLastSegment, While, CheckProof, Validate, Assemble, Waited
    <3> QED BY <1>8, <3>2, <3>3, <3>4 DEF ProveStep
  <2> QED BY <1>0, <2>1, <2>2, <2>3, WaitedKeeps
<1> QED BY <1>2, <1>3, <1>5, <1>6, <1>7, <1>8 DEF Next, LoopStep, SessionStep

\* The first segments are no longer than all.
LEMMA SumsGrow ==
  ASSUME NEW proof, Len(proof) \in Nat, NEW f, Adds(f, proof), NEW n \in 0 .. Len(proof),
         \A m \in 1 .. Len(proof) : Length(proof[m].segment) \in Nat
  PROVE  f[n] <= f[Len(proof)]
<1> DEFINE T == {m \in Nat : n + m <= Len(proof) => f[n] <= f[n + m]}
<1>1. 0 \in T
  <2>1. n + 0 = n /\ f[n] \in Nat
    BY DEF Adds
  <2> QED BY <2>1
<1>2. ASSUME NEW m \in Nat, m \in T PROVE m + 1 \in T
  <2> SUFFICES ASSUME n + (m + 1) <= Len(proof) PROVE f[n] <= f[n + (m + 1)]
    OBVIOUS
  <2>1. n + (m + 1) \in 1 .. Len(proof) /\ (n + (m + 1)) - 1 = n + m /\ n + m \in 0 .. Len(proof)
    OBVIOUS
  <2>2. /\ f[n + (m + 1)] = f[n + m] + Length(proof[n + (m + 1)].segment)
        /\ f[n] \in Nat /\ f[n + m] \in Nat /\ Length(proof[n + (m + 1)].segment) \in Nat
    BY <2>1 DEF Adds
  <2>3. f[n] <= f[n + m]
    BY <1>2
  <2> QED BY <2>2, <2>3
<1>3. Nat \subseteq T
  <2> HIDE DEF T
  <2> QED BY <1>1, <1>2, InductiveSet
<1>4. Len(proof) - n \in Nat /\ n + (Len(proof) - n) = Len(proof)
  OBVIOUS
<1>5. Len(proof) - n \in T
  <2> HIDE DEF T
  <2> QED BY <1>3, <1>4
<1>6. f[n] \in Nat /\ f[Len(proof)] \in Nat
  BY DEF Adds
<1> QED BY <1>4, <1>5, <1>6

\* The segments that a proof is put together from follow each other up to r.
LEMMA ProofSegmentsChain ==
  ASSUME TileInv, PassedInv, NEW r \in Requests, prove[r].pc = "sent"
  PROVE  \E p : /\ ChainAlong(1, p, ProofSegments(r), BlockBits)
                /\ Len(ProofSegments(r)) \in Nat \ {0} /\ p[Len(ProofSegments(r))] = r
<1> DEFINE proof == prove[r].proof
           N == Len(proof)
           k == BlockBits
           last == r % SegmentUnit
           taken == [n \in 1 .. N |-> ProvedSegment(FormAt(Start(proof[n].segment)),
                                                    Length(proof[n].segment), k)]
           chain == ProofSegments(r)
           M == IF last = 0 THEN N ELSE N + 1
<1>1. /\ proof \in Seq(Link) /\ Tiles(proof) /\ ProofLength(proof) = LastSegment(r)
      /\ N \in Nat
  BY LenProperties DEF TileInv, ThreadOK, Thread, Ends
<1>2. /\ r \in Nat \ {0} /\ LastSegment(r) \in Nat /\ LastSegment(r) = r - last
      /\ last \in Nat /\ last < SegmentUnit /\ SegmentUnit \in Nat
      /\ LastSegment(r) <= MaxIterations /\ MaxIterations \in Nat
  <2>1. r \in Nat \ {0} /\ SegmentUnit \in Nat \ {0} /\ MaxIterations \in Nat
    BY ManagerAssumption
  <2>2. LastSegment(r) \in Nat /\ LastSegment(r) = r - last
    BY LastSegmentIsNatural DEF LastSegment
  <2>3. last \in Nat /\ last < SegmentUnit
    BY <2>1
  <2>4. LastSegment(r) <= vdf_iteration /\ vdf_iteration \in 0 .. iterations
        /\ iterations \in 0 .. MaxIterations
    BY DEF PassedInv, Waited
  <2> HIDE DEF last
  <2> QED BY <2>1, <2>2, <2>3, <2>4
<1> HIDE DEF last
<1>3. PICK f : Adds(f, proof) /\ ProofLength(proof) = f[N]
  BY <1>1, SumsExist
<1>4. ASSUME NEW n \in 1 .. N
      PROVE  /\ Start(proof[n].segment) = f[n - 1]
             /\ Length(proof[n].segment) = f[n] - f[n - 1]
             /\ f[n - 1] <= f[n] /\ f[n] \in 0 .. LastSegment(r) /\ f[n - 1] \in 0 .. LastSegment(r)
  <2>1. n \in DOMAIN proof /\ n - 1 \in 0 .. N /\ n \in 0 .. N
    <3>1. DOMAIN proof = 1 .. N
      BY <1>1, LenProperties
    <3> QED BY <1>1, <3>1
  <2>2. Start(proof[n].segment) = ProofLength(SubSeq(proof, 1, n - 1))
    BY <1>1, <2>1 DEF Tiles
  <2>3. ProofLength(SubSeq(proof, 1, n - 1)) = f[n - 1]
    BY <1>1, <1>3, <2>1, PrefixLength
  <2>4. \A m \in 1 .. N : Length(proof[m].segment) \in Nat
    BY <1>1, LinkLengths
  <2>5. f[n] = f[n - 1] + Length(proof[n].segment) /\ f[n] \in Nat /\ f[n - 1] \in Nat
    BY <1>3, <2>1 DEF Adds
  <2>6. f[n] <= f[N] /\ f[n - 1] <= f[N]
    <3> HIDE DEF proof
    <3> QED BY <1>1, <1>3, <2>1, <2>4, SumsGrow
  <2>7. f[N] = LastSegment(r)
    BY <1>1, <1>3
  <2>8. Length(proof[n].segment) \in Nat
    BY <2>4
  <2> DEFINE d == Length(proof[n].segment)
  <2> HIDE DEF d, N
  <2>9. d = f[n] - f[n - 1] /\ f[n - 1] <= f[n]
    BY <2>5, <2>8 DEF d
  <2> QED BY <1>2, <2>2, <2>3, <2>5, <2>6, <2>7, <2>9 DEF d
<1>5. f[0] = 0 /\ f[N] = LastSegment(r)
  BY <1>1, <1>3 DEF Adds
<1>6. Len(taken) = N /\ \A n \in 1 .. N : taken[n] = ProvedSegment(2^f[n - 1], f[n] - f[n - 1], k)
  <2>1. Len(taken) = N
    <3> HIDE DEF proof
    <3> QED BY <1>1
  <2>2. ASSUME NEW n \in 1 .. N PROVE taken[n] = ProvedSegment(2^f[n - 1], f[n] - f[n - 1], k)
    BY <1>4 DEF FormAt
  <2> QED BY <2>1, <2>2
<1>7. chain = IF last = 0 THEN taken ELSE Append(taken, ProvedSegment(FormAt(LastSegment(r)), last, k))
  BY Zenon DEF ProofSegments, last
<1> HIDE DEF proof, N, taken, chain
<1>8. /\ Len(chain) = M /\ M \in Nat
      /\ \A n \in 1 .. N : chain[n] = ProvedSegment(2^f[n - 1], f[n] - f[n - 1], k)
      /\ last # 0 => chain[N + 1] = ProvedSegment(2^LastSegment(r), last, k)
  <2>1. CASE last = 0
    BY <1>1, <1>6, <1>7, <2>1
  <2>2. CASE last # 0
    <3> DEFINE sg == ProvedSegment(FormAt(LastSegment(r)), last, k)
    <3>1. taken \in Seq({taken[n] : n \in 1 .. N} \union {sg})
      BY <1>1, <1>6 DEF taken
    <3>2. chain = Append(taken, sg)
      BY <1>7, <2>2
    <3> HIDE DEF sg
    <3>3. Len(chain) = N + 1 /\ (\A n \in 1 .. N : chain[n] = taken[n]) /\ chain[N + 1] = sg
      BY <1>1, <1>6, <3>1, <3>2, AppendProperties
    <3> QED BY <1>1, <1>6, <2>2, <3>3 DEF sg, FormAt
  <2> QED BY <2>1, <2>2
<1> DEFINE p == [n \in 0 .. M |-> IF n <= N THEN f[n] ELSE r]
<1>9. ASSUME NEW n \in 1 .. M
      PROVE  /\ p[n - 1] \in 0 .. r /\ p[n] \in 0 .. r /\ p[n - 1] <= p[n]
             /\ chain[n] = ProvedSegment(2^p[n - 1], p[n] - p[n - 1], k)
  <2>1. n - 1 \in 0 .. M /\ n \in 0 .. M
    BY <1>8
  <2>2. CASE n \in 1 .. N
    <3>1. p[n - 1] = f[n - 1] /\ p[n] = f[n]
      BY <1>1, <2>1, <2>2
    <3> HIDE DEF p
    <3> QED BY <1>2, <1>4, <1>8, <2>2, <3>1
  <2>3. CASE n \notin 1 .. N
    <3>1. n = N + 1 /\ last # 0
      BY <1>1, <2>1, <2>3
    <3>2. p[n - 1] = f[N] /\ p[n] = r
      BY <1>1, <2>1, <3>1
    <3> HIDE DEF p
    <3>3. p[n - 1] = LastSegment(r) /\ p[n] - p[n - 1] = last
      BY <1>2, <1>5, <3>2
    <3> QED BY <1>2, <1>8, <3>1, <3>2, <3>3
  <2> QED BY <2>2, <2>3
<1>10. p[0] = 0 /\ p[M] = r /\ M # 0
  <2>1. 0 \in 0 .. M /\ M \in 0 .. M
    BY <1>8
  <2>2. p[0] = 0
    BY <1>1, <1>5, <2>1
  <2>3. M \in 0 .. M /\ p[M] = IF last = 0 THEN f[N] ELSE r
    BY <1>1, <2>1
  <2> HIDE DEF p
  <2>4. p[M] = r
    BY <1>2, <1>5, <2>3
  <2>5. N = 0 => last # 0
    BY <1>2, <1>5
  <2> QED BY <1>1, <2>2, <2>4, <2>5
<1> HIDE DEF p
<1>11. \A n \in 0 .. M : p[n] \in 0 .. r
  <2>1. \A n \in 0 .. M : n = 0 \/ n \in 1 .. M
    BY <1>8
  <2> QED BY <1>2, <1>9, <1>10, <2>1
<1>12. \A i \in 0 .. r : 1 * 2^i = 2^i
  <2>1. ASSUME NEW i \in 0 .. r PROVE 1 * 2^i = 2^i
    <3> DEFINE e == 2^i
    <3>1. e \in Nat
      BY <1>2, PowerOfTwo
    <3>2. 1 * e = e
      <4> HIDE DEF e
      <4> QED BY <3>1
    <3> QED BY <3>2
  <2> QED BY <2>1
<1>13. \A i, j \in 0 .. r : BOf(2^i, 2^j) \in Nat /\ 2^k <= BOf(2^i, 2^j)
  <2>1. ASSUME NEW i \in 0 .. r, NEW j \in 0 .. r
        PROVE  BOf(2^i, 2^j) \in Nat /\ 2^k <= BOf(2^i, 2^j)
    <3>1. i \in 0 .. MaxIterations + SegmentUnit /\ j \in 0 .. MaxIterations + SegmentUnit
      BY <1>2
    <3>2. BOf(2^i, 2^j) \in Nat /\ BOf(2^i, 2^j) >= 2^k
      BY <3>1, PrimesAssumption DEF FormAt
    <3> DEFINE P == 2^k
               B == BOf(2^i, 2^j)
    <3>3. P \in Nat
      BY ManagerAssumption, PowerOfTwo
    <3>4. P <= B
      <4>1. B \in Nat /\ B >= P
        BY <3>2
      <4> HIDE DEF P, B
      <4> QED BY <3>3, <4>1
    <3> QED BY <3>2, <3>4
  <2> QED BY <2>1
<1>14. ChainAlong(1, p, chain, k)
  <2>1. ASSUME NEW n \in 1 .. M
        PROVE  /\ p[n - 1] <= p[n]
               /\ chain[n] = ProvedSegment(1 * 2^p[n - 1], p[n] - p[n - 1], k)
               /\ BOf(1 * 2^p[n - 1], 1 * 2^p[n]) \in Nat
               /\ 2^k <= BOf(1 * 2^p[n - 1], 1 * 2^p[n])
    <3>1. 1 * 2^p[n - 1] = 2^p[n - 1] /\ 1 * 2^p[n] = 2^p[n]
      BY <1>9, <1>12
    <3>2. BOf(2^p[n - 1], 2^p[n]) \in Nat /\ 2^k <= BOf(2^p[n - 1], 2^p[n])
      BY <1>9, <1>13
    <3> QED BY <1>9, <3>1, <3>2
  <2>2. \A n \in 0 .. M : p[n] \in Nat
    BY <1>2, <1>11
  <2> HIDE DEF M
  <2> QED BY <1>8, <1>10, <2>1, <2>2 DEF ChainAlong
<1> QED BY <1>8, <1>10, <1>14 DEF chain

\* Every proof that is sent is accepted, for any number of buckets, threads and requests,
\* any length of the run and any primes that are long enough: the segments follow each
\* other up to the iteration, each is proved by itself, and the verifier walks over them
\* in the order in which Prove put them together.
THEOREM BlobsAlwaysVerify == Spec => []BlobsVerify
<1>1. Init => TileInv
  BY TileInvInit
<1>2. Init => PassedInv
  BY ManagerAssumption DEF Init, PassedInv, NoThread, Waited
<1>3. TileInv /\ PassedInv => BlobsVerify
  <2> SUFFICES ASSUME TileInv, PassedInv, NEW r \in Requests, prove[r].pc = "sent"
               PROVE  CheckProofOfTimeNWesolowski(FormAt(0), Blob(r), r, Len(ProofSegments(r)) - 1)
    BY DEF BlobsVerify
  <2> DEFINE chain == ProofSegments(r)
  <2>1. PICK p : /\ ChainAlong(1, p, chain, BlockBits)
                 /\ Len(chain) \in Nat \ {0} /\ p[Len(chain)] = r
    BY ProofSegmentsChain
  <2>2. BlockBits \in Nat \ {0} /\ 1 \in Int /\ r \in Nat
    BY ManagerAssumption
  <2> HIDE DEF chain
  <2>3. CheckProofOfTimeNWesolowski(1, Assembled(1 * 2^p[Len(chain)], chain), p[Len(chain)],
                                    Len(chain) - 1)
    BY <2>1, <2>2, ChainVerifies
  <2>4. 1 * 2^r = FormAt(r) /\ FormAt(0) = 1
    <3> DEFINE e == 2^r
    <3>1. e \in Nat
      BY <2>2, PowerOfTwo
    <3>2. 1 * e = e
      <4> HIDE DEF e
      <4> QED BY <3>1
    <3> QED BY <3>2, PowerOfZero DEF FormAt
  <2>5. Blob(r) = Assembled(FormAt(r), chain)
    BY DEF Blob, chain
  <2> QED BY <2>1, <2>3, <2>4, <2>5 DEF chain
<1>4. TileInv /\ [Next]_vars => TileInv'
  BY TileInvNext
<1>5. TileInv /\ TileInv' /\ PassedInv /\ [Next]_vars => PassedInv'
  BY PassedInvNext
<1> QED BY <1>1, <1>2, <1>3, <1>4, <1>5, PTL DEF Spec

=============================================================================
