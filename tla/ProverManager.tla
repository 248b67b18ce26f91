--------------------------- MODULE ProverManager ---------------------------
(***************************************************************************)
(* The n-wesolowski mode of the VDF client on a machine without            *)
(* FastStorage: the squaring thread, ProverManager's event loop            *)
(* (RunEventLoop), the InterruptableProvers it starts, pauses and resumes, *)
(* the threads running ProverManager::Prove, one for each requested        *)
(* iteration, and SessionFastAlgorithm stopping all of them.               *)
(*                                                                         *)
(* One unit of time of the squaring thread is (1 << 15) iterations, so a   *)
(* small segment, (1 << 16) in the code, is SegmentUnit = 2 units.  A      *)
(* condition variable's wait is three steps: the predicate is evaluated    *)
(* with the mutex held, the thread falls asleep giving the mutex up, a     *)
(* notification wakes it.  Notifying does not take the mutex.              *)
(***************************************************************************)
EXTENDS Integers, Sequences, FiniteSets, Wesolowski

CONSTANTS
  SegmentUnit,    \* length of a segment of bucket 0
  Ratio,          \* a segment of the next bucket is this much longer
  segment_count,  \* buckets
  MaxBlobs,       \* segments in a proof besides the last (63 in the code)
  max_proving_threads,
  BlockBits,      \* k of the provers
  Requests,       \* the iterations a proof is asked for
  MaxIterations,  \* bound: where the squaring thread stops
  MayStop         \* whether the client sends the stop signal

ASSUME ManagerAssumption ==
  /\ SegmentUnit \in Nat \ {0} /\ Ratio \in Nat \ {0, 1}
  /\ segment_count \in Nat \ {0} /\ MaxBlobs \in Nat \ {0}
  /\ max_proving_threads \in Nat \ {0}
  /\ BlockBits \in Nat \ {0}
  /\ Requests \subseteq Nat \ {0} /\ MaxIterations \in Nat
  /\ MayStop \in BOOLEAN

\* The form after so many units; a unit of squarings is one squaring here.
FormAt(iteration) == 2^iteration

\* HashPrime sets the highest of the 264 bits of B, and a block is far shorter.
ASSUME PrimesAssumption ==
  \A a, b \in 0 .. MaxIterations + SegmentUnit :
    LET B == BOf(FormAt(a), FormAt(b)) IN B \in Nat /\ B >= 2^BlockBits

VARIABLES
  iterations,   \* weso->iterations
  vdf_pc,       \* "test", "run", "notify" or "ended"
  new_event,
  stopped,      \* ProverManager::stopped
  session,      \* where SessionFastAlgorithm is
  loop,         \* where the event loop is
  vdf_iteration,
  segments,     \* for each segment, where it is
  paused,       \* the segments whose prover has is_paused
  done,         \* the segments stored in done_segments
  pending_iters, pending_iters_last_sg,
  max_proving_iteration,
  ready,        \* the event loop is going to notify proof_cv
  prove         \* for each request, its thread

managerVars == <<loop, vdf_iteration, paused, done, max_proving_iteration,
                 ready>>
requestVars == <<pending_iters, pending_iters_last_sg, prove>>
vars == <<iterations, vdf_pc, new_event, stopped, session, segments,
          managerVars, requestVars>>

----------------------------------------------------------------------------
(***************************************************************************)
(* Segments                                                                *)
(***************************************************************************)

Buckets == 0 .. segment_count - 1

\* (1LL << (16 + 2 * i)) in the code.
segment_size[i \in Buckets] ==
  IF i = 0 THEN SegmentUnit ELSE Ratio * segment_size[i - 1]
sg_length(i) == segment_size[i]

\* A segment is named by its bucket and its position.
Segment == {sg \in Buckets \X (0 .. MaxIterations) :
              (sg[2] + 1) * sg_length(sg[1]) <= MaxIterations}
Length(sg) == sg_length(sg[1])
Start(sg) == sg[2] * Length(sg)

\* The longer one is worse, and of equal ones the later: lengths grow with the
\* bucket, starts with the position.
IsWorseThan(sg, other) ==
  \/ sg[1] > other[1]
  \/ sg[1] = other[1] /\ sg[2] > other[2]

Best(S) == CHOOSE sg \in S : \A other \in S : ~IsWorseThan(sg, other)
Worst(S) == CHOOSE sg \in S : \A other \in S : ~IsWorseThan(other, sg)

\* Where a segment is: not reached, pending, with a prover that is proving or
\* is inside OnFinish, or without a prover again.
Proving == {"proving", "is_finished", "notified", "is_fully_finished"}

provers == {sg \in Segment : segments[sg] \in Proving}
Running == provers \ paused
Pending(i) == {sg \in Segment : sg[1] = i /\ segments[sg] = "pending"}

\* done_segments[i].size(): positions below the last one exist, some of them
\* filled with an empty Segment().
Size(i) ==
  LET positions == {sg[2] : sg \in {d \in done : d[1] = i}}
  IN  IF positions = {} THEN 0
      ELSE 1 + (CHOOSE p \in positions : \A q \in positions : q <= p)

LastSegment(iteration) == iteration - (iteration % SegmentUnit)

----------------------------------------------------------------------------
(***************************************************************************)
(* The squaring thread                                                     *)
(***************************************************************************)

\* The loop looks at the stop flag before every batch.
VdfTest ==
  /\ vdf_pc = "test"
  /\ \/ session # "serving" /\ vdf_pc' = "ended"
     \/ session = "serving" /\ iterations < MaxIterations /\ vdf_pc' = "run"
  /\ UNCHANGED <<iterations, new_event, stopped, session, segments,
                 managerVars, requestVars>>

\* weso->iterations is published by the first batch that reaches a multiple
\* of (1 << 15).  At the end of the bounded run the thread waits for requests
\* that just arrived, so that another small segment finishes after them.
VdfPublish ==
  /\ vdf_pc = "run"
  /\ iterations + 1 = MaxIterations =>
       \A r \in Requests : prove[r].pc # "insert"
  /\ iterations' = iterations + 1
  /\ vdf_pc' = IF iterations' % SegmentUnit = 0 THEN "notify" ELSE "test"
  /\ UNCHANGED <<new_event, stopped, session, segments, managerVars,
                 requestVars>>

VdfNotify ==
  /\ vdf_pc = "notify"
  /\ new_event' = TRUE /\ vdf_pc' = "test"
  /\ UNCHANGED <<iterations, stopped, session, segments, managerVars,
                 requestVars>>

VdfStep == VdfTest \/ VdfPublish \/ VdfNotify

----------------------------------------------------------------------------
(***************************************************************************)
(* InterruptableProver: GenerateProof and OnFinish.  A prover that was     *)
(* paused after its last PerformExtraStep still finishes.                  *)
(***************************************************************************)

OnFinish(sg) ==
  /\ \/ /\ segments[sg] = "proving"
        /\ segments' = [segments EXCEPT ![sg] = "is_finished"]
        /\ UNCHANGED new_event
     \/ /\ segments[sg] = "is_finished"
        /\ segments' = [segments EXCEPT ![sg] = "notified"]
        /\ new_event' = TRUE
     \/ /\ segments[sg] = "notified"
        /\ segments' = [segments EXCEPT ![sg] = "is_fully_finished"]
        /\ UNCHANGED new_event
  /\ UNCHANGED <<iterations, vdf_pc, stopped, session, managerVars,
                 requestVars>>

----------------------------------------------------------------------------
(***************************************************************************)
(* RunEventLoop                                                            *)
(***************************************************************************)

Wake(asleep, check) ==
  prove' = [r \in Requests |->
    IF prove[r].pc = asleep THEN [prove[r] EXCEPT !.pc = check] ELSE prove[r]]

LoopEnds ==
  /\ \/ loop = "wait" /\ new_event
     \/ loop \in {"append", "schedule"}
  /\ stopped
  /\ loop' = "ended"
  /\ UNCHANGED <<iterations, vdf_pc, new_event, stopped, session, segments,
                 vdf_iteration, paused, done, max_proving_iteration, ready,
                 requestVars>>

WaitEvent ==
  /\ loop = "wait" /\ new_event /\ ~stopped
  /\ new_event' = FALSE
  /\ vdf_iteration' = iterations
  /\ loop' = "last"
  /\ UNCHANGED <<iterations, vdf_pc, stopped, session, segments, paused, done,
                 max_proving_iteration, ready, requestVars>>

\* With last_segment_mutex, then last_segment_cv.notify_all().
NotifyLastSegment ==
  /\ loop = "last"
  /\ \A r \in Requests : prove[r].pc # "fall_last"
  /\ IF \E base \in pending_iters_last_sg : base <= vdf_iteration
       THEN Wake("asleep_last", "check_last") ELSE UNCHANGED prove
  /\ loop' = "collect"
  /\ UNCHANGED <<iterations, vdf_pc, new_event, stopped, session, segments,
                 vdf_iteration, paused, done, max_proving_iteration, ready,
                 pending_iters, pending_iters_last_sg>>

\* Mutant: the entries of done_segments are not tested for is_empty.
ProvableFromSize(from, blobs, i, finished) ==
  LET run == {m \in 0 .. MaxBlobs - blobs :
                m > 0 => \E sg \in finished :
                  sg[1] = i /\ sg[2] + 1 >= from \div sg_length(i) + m}
      most == CHOOSE m \in run : \A n \in run : n <= m
  IN  [iters |-> from + most * sg_length(i), blobs |-> blobs + most]

\* The unbroken run of finished segments of bucket i from `from' on.
ProvableFrom(from, blobs, i, finished) ==
  LET run == {m \in 0 .. MaxBlobs - blobs :
                \A p \in 0 .. m - 1 :
                  <<i, from \div sg_length(i) + p>> \in finished}
      most == CHOOSE m \in run : \A n \in run : n <= m
  IN  [iters |-> from + most * sg_length(i), blobs |-> blobs + most]

\* The iterations that finished segments prove, the long ones first and at
\* most MaxBlobs of them.
Provable(finished) ==
  LET reach[i \in 0 .. segment_count] ==
        IF i = segment_count THEN [iters |-> 0, blobs |-> 0]
        ELSE ProvableFrom(reach[i + 1].iters, reach[i + 1].blobs, i, finished)
  IN  reach[0].iters

\* With proof_mutex: the finished provers' segments are stored, and when a
\* small one is among them max_proving_iteration is calculated.
CollectFinished ==
  LET finished == {sg \in provers : segments[sg] # "proving"}
      new_small_segment == \E sg \in finished : sg[1] = 0
      stored == done \union finished
      expected == (1 + (CHOOSE n \in {sg[2] : sg \in {d \in stored : d[1] = 0}} :
                          \A sg \in stored : sg[1] = 0 => sg[2] <= n))
                    * SegmentUnit
      best_pending_iter ==
        CHOOSE r \in pending_iters : \A q \in pending_iters : r <= q
      wanted == new_small_segment /\ pending_iters # {}
  IN  /\ loop = "collect"
      /\ \A r \in Requests : prove[r].pc # "fall_proof"
      /\ done' = stored
      /\ segments' = [sg \in Segment |->
           IF segments[sg] = "is_fully_finished" THEN "erased" ELSE segments[sg]]
      /\ paused' = {sg \in paused : segments[sg] # "is_fully_finished"}
      /\ max_proving_iteration' =
           IF wanted /\ expected >= LastSegment(best_pending_iter)
             THEN Provable(stored) ELSE max_proving_iteration
      /\ ready' = (wanted /\
           max_proving_iteration' >= LastSegment(best_pending_iter))
      /\ loop' = "notify"
      /\ UNCHANGED <<iterations, vdf_pc, new_event, stopped, session,
                     vdf_iteration, requestVars>>

\* Mutant: the other condition variable is notified.
NotifyProofWrongCv ==
  /\ loop = "notify"
  /\ IF ready THEN Wake("asleep_last", "check_last") ELSE UNCHANGED prove
  /\ ready' = FALSE
  /\ loop' = "append"
  /\ UNCHANGED <<iterations, vdf_pc, new_event, stopped, session, segments,
                 vdf_iteration, paused, done, max_proving_iteration,
                 pending_iters, pending_iters_last_sg>>

NotifyProof ==
  /\ loop = "notify"
  /\ IF ready THEN Wake("asleep_proof", "check_proof") ELSE UNCHANGED prove
  /\ ready' = FALSE
  /\ loop' = "append"
  /\ UNCHANGED <<iterations, vdf_pc, new_event, stopped, session, segments,
                 vdf_iteration, paused, done, max_proving_iteration,
                 pending_iters, pending_iters_last_sg>>

\* Segments that the squaring thread has passed become pending.
AppendPending ==
  /\ loop = "append" /\ ~stopped
  /\ segments' = [sg \in Segment |->
       IF segments[sg] = "absent" /\ Start(sg) + Length(sg) <= vdf_iteration
         THEN "pending" ELSE segments[sg]]
  /\ loop' = "schedule"
  /\ UNCHANGED <<iterations, vdf_pc, new_event, stopped, session,
                 vdf_iteration, paused, done, max_proving_iteration, ready,
                 requestVars>>

\* The first pending segment of each bucket, and the paused provers.
Candidates ==
  (provers \intersect paused)
  \union {Best(Pending(i)) : i \in {j \in Buckets : Pending(j) # {}}}

\* There is a free thread, or a running prover that is worth pausing.
SpawnBest ==
  /\ Candidates # {}
  /\ \/ Cardinality(Running) < max_proving_threads
     \/ \E sg \in Running : IsWorseThan(sg, Best(Candidates))

\* Mutant: one more prover may run.
ScheduleOneMore ==
  /\ loop = "schedule" /\ ~stopped /\ SpawnBest
  /\ LET best == Best(Candidates)
         victims == IF Cardinality(Running) <= max_proving_threads
                      THEN {} ELSE {Worst(Running)}
     IN  /\ paused' = (paused \ {best}) \union victims
         /\ segments' = IF segments[best] = "pending"
                          THEN [segments EXCEPT ![best] = "proving"]
                          ELSE segments
  /\ UNCHANGED <<iterations, vdf_pc, new_event, stopped, session, loop,
                 vdf_iteration, done, max_proving_iteration, ready,
                 requestVars>>

\* A turn of the scheduling loop starts or resumes the best candidate.
Schedule ==
  /\ loop = "schedule" /\ ~stopped /\ SpawnBest
  /\ LET best == Best(Candidates)
         victims == IF Cardinality(Running) < max_proving_threads
                      THEN {} ELSE {Worst(Running)}
     IN  /\ paused' = (paused \ {best}) \union victims
         /\ segments' = IF segments[best] = "pending"
                          THEN [segments EXCEPT ![best] = "proving"]
                          ELSE segments
  /\ UNCHANGED <<iterations, vdf_pc, new_event, stopped, session, loop,
                 vdf_iteration, done, max_proving_iteration, ready,
                 requestVars>>

NothingToSpawn ==
  /\ loop = "schedule" /\ ~stopped /\ ~SpawnBest
  /\ loop' = "wait"
  /\ UNCHANGED <<iterations, vdf_pc, new_event, stopped, session, segments,
                 vdf_iteration, paused, done, max_proving_iteration, ready,
                 requestVars>>

LoopStep ==
  \/ LoopEnds \/ WaitEvent \/ NotifyLastSegment \/ CollectFinished
  \/ NotifyProof \/ AppendPending \/ Schedule \/ NothingToSpawn

----------------------------------------------------------------------------
(***************************************************************************)
(* Prove, called by CreateAndWriteProof in a thread for each request       *)
(***************************************************************************)

NoThread == [pc |-> "idle", proof |-> << >>]

Goto(r, to) == prove' = [prove EXCEPT ![r].pc = to]

OutsideProve == <<iterations, vdf_pc, new_event, stopped, session, segments,
                  managerVars>>

\* In the bounded run a request arrives while the squaring thread still runs.
Request(r) ==
  /\ prove[r].pc = "idle" /\ session = "serving"
  /\ iterations < MaxIterations
  /\ Goto(r, "insert")
  /\ UNCHANGED <<OutsideProve, pending_iters, pending_iters_last_sg>>

InsertPending(r) ==
  /\ prove[r].pc \in {"insert", "retry"}
  /\ pending_iters' = pending_iters \union {r}
  /\ Goto(r, IF prove[r].pc = "insert" THEN "insert_last" ELSE "while")
  /\ UNCHANGED <<OutsideProve, pending_iters_last_sg>>

InsertPendingLast(r) ==
  /\ prove[r].pc = "insert_last"
  /\ pending_iters_last_sg' = pending_iters_last_sg \union {LastSegment(r)}
  /\ Goto(r, "check_last")
  /\ UNCHANGED <<OutsideProve, pending_iters>>

\* The predicate of last_segment_cv.wait and what follows it.
CheckLast(r) ==
  /\ prove[r].pc = "check_last"
  /\ IF stopped
       THEN Goto(r, "returned") /\ UNCHANGED pending_iters_last_sg
       ELSE IF vdf_iteration >= LastSegment(r)
       THEN /\ pending_iters_last_sg' = pending_iters_last_sg \ {LastSegment(r)}
            /\ Goto(r, "last")
       ELSE Goto(r, "fall_last") /\ UNCHANGED pending_iters_last_sg
  /\ UNCHANGED <<OutsideProve, pending_iters>>

\* The wait gives the mutex up and sleeps until it is notified.
FallAsleep(r) ==
  /\ \/ prove[r].pc = "fall_last" /\ Goto(r, "asleep_last")
     \/ prove[r].pc = "fall_proof" /\ Goto(r, "asleep_proof")
  /\ UNCHANGED <<OutsideProve, pending_iters, pending_iters_last_sg>>

\* The last segment, shorter than (1 << 16), is calculated and proved here; a
\* stop interrupts that.
ProveLastSegment(r) ==
  /\ prove[r].pc = "last"
  /\ Goto(r, IF r % SegmentUnit # 0 /\ stopped THEN "returned" ELSE "while")
  /\ UNCHANGED <<OutsideProve, pending_iters, pending_iters_last_sg>>

\* while (!valid_proof && !stopped)
While(r) ==
  /\ prove[r].pc = "while"
  /\ Goto(r, IF stopped THEN "assemble" ELSE "check_proof")
  /\ UNCHANGED <<OutsideProve, pending_iters, pending_iters_last_sg>>

\* What Prove takes out of done_segments[i]: entries are not tested for being
\* empty.
TakenFrom(taken, i, iteration) ==
  LET position == taken.iters \div sg_length(i)
      fit == (iteration - taken.iters) \div sg_length(i)
      count == IF position >= Size(i) THEN 0
               ELSE IF Size(i) - position <= fit THEN Size(i) - position
               ELSE fit
  IN  [iters |-> taken.iters + count * sg_length(i),
       proof |-> taken.proof \o
         [n \in 1 .. count |->
            [segment |-> <<i, position + n - 1>>,
             is_empty |-> <<i, position + n - 1>> \notin done]]]

Taken(iteration) ==
  LET taken[i \in 0 .. segment_count] ==
        IF i = segment_count THEN [iters |-> 0, proof |-> << >>]
        ELSE TakenFrom(taken[i + 1], i, iteration)
  IN  taken[0]

\* The predicate of proof_cv.wait, and the choice of the segments with
\* proof_mutex held.
CheckProof(r) ==
  /\ prove[r].pc = "check_proof"
  /\ IF stopped THEN Goto(r, "returned") /\ UNCHANGED pending_iters
     ELSE IF max_proving_iteration >= LastSegment(r)
     THEN /\ prove' = [prove EXCEPT ![r] =
               [pc |-> "chosen", proof |-> Taken(r).proof]]
          /\ pending_iters' = pending_iters \ {r}
     ELSE Goto(r, "fall_proof") /\ UNCHANGED pending_iters
  /\ UNCHANGED <<OutsideProve, pending_iters_last_sg>>

ProofLength(proof) ==
  LET sum[n \in 0 .. Len(proof)] ==
        IF n = 0 THEN 0 ELSE sum[n - 1] + Length(proof[n].segment)
  IN  sum[Len(proof)]

\* Mutant: the number of segments is not tested.
InsufficientIters(r) == ProofLength(prove[r].proof) < LastSegment(r)

\* `Insufficient segments yet. Retrying in 1 minute'
Insufficient(r) ==
  \/ Len(prove[r].proof) > MaxBlobs
  \/ ProofLength(prove[r].proof) < LastSegment(r)

Validate(r) ==
  /\ prove[r].pc = "chosen"
  /\ prove' = [prove EXCEPT ![r] =
       IF Insufficient(r) THEN [pc |-> "retry", proof |-> << >>]
       ELSE [prove[r] EXCEPT !.pc = "assemble"]]
  /\ UNCHANGED <<OutsideProve, pending_iters, pending_iters_last_sg>>

\* proof_segments when it is put together: a segment in front of an iteration
\* that is no multiple of (1 << 16) was proved last.
ProofSegments(r) ==
  LET proof == prove[r].proof
      taken == [n \in 1 .. Len(proof) |->
                  ProvedSegment(FormAt(Start(proof[n].segment)), Length(proof[n].segment),
                                BlockBits)]
  IN  IF r % SegmentUnit = 0 THEN taken
      ELSE Append(taken, ProvedSegment(FormAt(LastSegment(r)), r % SegmentUnit, BlockBits))

Blob(r) == Assembled(FormAt(r), ProofSegments(r))

\* The proof is put together and written unless the session was stopped.  The
\* last element of an empty vector does not exist.
Assemble(r) ==
  /\ prove[r].pc = "assemble"
  /\ Goto(r, IF prove[r].proof = << >> /\ r % SegmentUnit = 0 THEN "undefined"
             ELSE IF session = "serving" THEN "sent" ELSE "returned")
  /\ UNCHANGED <<OutsideProve, pending_iters, pending_iters_last_sg>>

ProveStep(r) ==
  \/ InsertPending(r) \/ InsertPendingLast(r) \/ CheckLast(r)
  \/ FallAsleep(r) \/ ProveLastSegment(r) \/ While(r) \/ CheckProof(r)
  \/ Validate(r) \/ Assemble(r)

----------------------------------------------------------------------------
(***************************************************************************)
(* SessionFastAlgorithm and ProverManager::stop                            *)
(***************************************************************************)

SessionStop ==
  /\ session = "serving" /\ MayStop
  /\ session' = "stop"
  /\ UNCHANGED <<iterations, vdf_pc, new_event, stopped, segments,
                 managerVars, requestVars>>

StopManager ==
  /\ session = "stop"
  /\ stopped' = TRUE /\ new_event' = TRUE
  /\ session' = "join_loop"
  /\ UNCHANGED <<iterations, vdf_pc, segments, managerVars, requestVars>>

\* The event loop is joined, then every prover is stopped and joined.
StopProvers ==
  /\ session = "join_loop" /\ loop = "ended"
  /\ segments' = [sg \in Segment |->
       IF sg \in provers THEN "erased" ELSE segments[sg]]
  /\ paused' = {}
  /\ session' = "notify_proof"
  /\ UNCHANGED <<iterations, vdf_pc, new_event, stopped, loop, vdf_iteration,
                 done, max_proving_iteration, ready, requestVars>>

StopNotifies ==
  /\ \/ /\ session = "notify_proof" /\ session' = "notify_last"
        /\ Wake("asleep_proof", "check_proof")
     \/ /\ session = "notify_last" /\ session' = "join"
        /\ Wake("asleep_last", "check_last")
  /\ UNCHANGED <<iterations, vdf_pc, new_event, stopped, segments, managerVars,
                 pending_iters, pending_iters_last_sg>>

ThreadEnded(r) == prove[r].pc \in {"idle", "sent", "returned"}

\* vdf_worker and all proof threads are joined; FinishSession follows.
SessionJoin ==
  /\ session = "join" /\ vdf_pc = "ended"
  /\ \A r \in Requests : ThreadEnded(r)
  /\ session' = "finished"
  /\ UNCHANGED <<iterations, vdf_pc, new_event, stopped, segments, managerVars,
                 requestVars>>

SessionStep == StopManager \/ StopProvers \/ StopNotifies \/ SessionJoin

----------------------------------------------------------------------------
Init ==
  /\ iterations = 0 /\ vdf_pc = "notify"   \* checkpoint 0 is announced too
  /\ new_event = FALSE /\ stopped = FALSE /\ session = "serving"
  /\ loop = "wait" /\ vdf_iteration = 0
  /\ segments = [sg \in Segment |-> "absent"]
  /\ paused = {} /\ done = {}
  /\ pending_iters = {} /\ pending_iters_last_sg = {}
  /\ max_proving_iteration = 0 /\ ready = FALSE
  /\ prove = [r \in Requests |-> NoThread]

Next ==
  \/ VdfStep \/ LoopStep \/ SessionStep \/ SessionStop
  \/ \E sg \in Segment : OnFinish(sg)
  \/ \E r \in Requests : Request(r) \/ ProveStep(r)

Spec == Init /\ [][Next]_vars

\* Every thread runs; a paused prover may stay where it is, and nothing makes
\* the client ask or stop.
Fairness ==
  /\ WF_vars(VdfStep) /\ WF_vars(LoopStep) /\ WF_vars(SessionStep)
  /\ \A sg \in Segment : WF_vars(sg \notin paused /\ OnFinish(sg))
  /\ \A r \in Requests : WF_vars(ProveStep(r))

FairSpec == Spec /\ Fairness

----------------------------------------------------------------------------
(***************************************************************************)
(* Properties                                                              *)
(***************************************************************************)

\* No more than max_proving_threads provers run at once, however the event
\* loop starts, pauses and resumes them while others finish (`Maximum amount
\* of proving threads running at once').
ThreadsBounded == Cardinality(Running) <= max_proving_threads

\* Where a chain of at most n finished segments that starts at 0 may end.
Covered(finished) ==
  LET reached[n \in 0 .. MaxBlobs] ==
        IF n = 0 THEN {0}
        ELSE reached[n - 1] \union
             {Start(sg) + Length(sg) :
                sg \in {d \in finished : Start(d) \in reached[n - 1]}}
  IN  reached[MaxBlobs]

\* What max_proving_iteration promises can be proved: a chain of finished
\* segments without a gap ends there, with no more than MaxBlobs of them,
\* although provers finish in any order.
MaxIsProvable == max_proving_iteration \in Covered(done)

\* The segments of a proof follow each other from 0 and, once the proof is
\* accepted, end where the last segment begins.
ProofsTile ==
  \A r \in Requests : LET proof == prove[r].proof IN
    /\ \A n \in DOMAIN proof :
         Start(proof[n].segment) = ProofLength(SubSeq(proof, 1, n - 1))
    /\ prove[r].pc = "sent" =>
         ProofLength(proof) = LastSegment(r) /\ Len(proof) <= MaxBlobs

\* The verifier accepts every proof that is sent, for the iteration that was asked
\* for and with the number of segments as its depth, unless an empty entry of
\* done_segments was taken: what the chosen segments, the last segment, the order
\* of the bytes and the walk of the verifier come to together.
BlobsVerify ==
  \A r \in Requests :
    prove[r].pc = "sent" /\ (\A n \in DOMAIN prove[r].proof : ~prove[r].proof[n].is_empty) =>
      CheckProofOfTimeNWesolowski(FormAt(0), Blob(r), r, Len(ProofSegments(r)) - 1)

\* Every request is answered unless the session is stopped: no notification
\* of the two condition variables is lost while the session lasts.
RequestsServed ==
  \A r \in Requests :
    LastSegment(r) < MaxIterations =>
      (prove[r].pc = "insert" ~> (prove[r].pc = "sent" \/ session # "serving"))

\* Every segment in a proof that is sent is a finished one: done_segments
\* holds `Finished segments'.
ProofSegmentsDone ==
  \A r \in Requests : prove[r].pc = "sent" =>
    \A n \in DOMAIN prove[r].proof : ~prove[r].proof[n].is_empty

\* The stop signal ends the session: everything is stopped and the client is
\* told so.
StopCompletes == session = "stop" ~> session = "finished"

=============================================================================
