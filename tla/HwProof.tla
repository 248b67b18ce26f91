------------------------------ MODULE HwProof ------------------------------
(***************************************************************************)
(* The proof engine of the hardware client for one VDF: the event loop's   *)
(* thread adds the values that the chip reports, keeps the requested       *)
(* proofs and their checkpoints in order and starts auxiliary threads,     *)
(* which compute the values between the reported ones (vdf_work) or prove  *)
(* a segment (hw_compute_proof).                                           *)
(*                                                                         *)
(* A form is known by its position, its iterations divided by interval.    *)
(* Indices of proofs start at 1, so HW_VDF_PROOF_NONE is 0.                *)
(***************************************************************************)
EXTENDS Integers, Sequences, FiniteSets

CONSTANTS
  interval,           \* HW_VDF_VALUE_INTERVAL
  g_chkp_thres,       \* longer segments get a checkpoint
  MaxSegments,        \* 64, the segments a proof may have
  max_aux_threads, max_proof_threads,
  Requests,           \* the iterations a proof is asked for
  MaxIters,           \* bound: where the chip's values end
  MaxJump,            \* bound: iterations between two values
  MaxRestarts,        \* bound: restarts of the chip
  Challenges          \* bound: challenges, each with a vdf_state of its own

ASSUME HwProofAssumption ==
  /\ interval \in Nat \ {0} /\ g_chkp_thres \in Nat
  /\ MaxSegments \in Nat /\ MaxSegments > 3
  /\ max_aux_threads \in Nat \ {0, 1}
  /\ max_proof_threads \in 1 .. max_aux_threads - 1
  /\ Requests \subseteq 1 .. MaxIters
  /\ MaxIters \in Nat /\ MaxJump \in Nat \ {0}
  /\ MaxRestarts \in Nat /\ Challenges \in Nat

VARIABLES
  main,           \* "loop", "erase", "stop" or "cleared"
  challenge,      \* how many challenges there were
  chip,           \* iterations of the chip, iters_offset included
  restarts,
  last_iters,     \* last_val.iters
  completed,
  valid_values,
  wq,             \* work: the first and the last position
  req_proofs, proofs, queued_proofs, done_proofs,
  seen,           \* done_proofs as an unfinished erase found it
  thread,         \* what each auxiliary thread does
  pushing,        \* done_proofs as an unfinished push_back found it
  late,           \* threads between their last two statements
  n_proof_threads,
  asked, sent

queueVars == <<req_proofs, proofs, queued_proofs>>
chipVars == <<chip, restarts, last_iters, completed>>
vars == <<main, challenge, chipVars, valid_values, wq, queueVars,
          done_proofs, seen, thread, pushing, late, n_proof_threads, asked,
          sent>>

PARALLEL_PROVER_N_THREADS == 2
Threads == 1 .. max_aux_threads
Idle == [kind |-> "idle"]
NotPushing == << -1 >>

\* aux_threads_busy has the thread's bit.
Busy(i) == thread[i] # Idle

----------------------------------------------------------------------------
(***************************************************************************)
(* The queue of proofs: operators on q, a record of req_proofs, proofs and *)
(* queued_proofs.                                                          *)
(***************************************************************************)

\* F of a value that TLC is to compute only once.
Once(value, F(_)) == CHOOSE y \in {F(x) : x \in {value}} : TRUE

\* x behind the last of the given places.
InsertBehind(seq, x, places) ==
  LET place == CHOOSE n \in places \union {0} : \A m \in places : m <= n
  IN  SubSeq(seq, 1, place) \o <<x>> \o SubSeq(seq, place + 1, Len(seq))

\* The elements of seq that are in S.
Selected(seq, S) ==
  LET selected[n \in 0 .. Len(seq)] ==
        IF n = 0 THEN << >>
        ELSE IF seq[n] \in S THEN Append(selected[n - 1], seq[n])
        ELSE selected[n - 1]
  IN  selected[Len(seq)]

\* push_back and std::sort.
hw_request_proof(reqs, iters) ==
  InsertBehind(reqs, iters, {n \in DOMAIN reqs : reqs[n] <= iters})

\* The segments of a proof, its own included.
Chain(ps, idx) ==
  LET chain[j \in 0 .. Len(ps)] ==
        IF j = 0 THEN {} ELSE {j} \union chain[ps[j].prev]
  IN  chain[idx]

hw_proof_cnt_segments(ps, idx) == Cardinality(Chain(ps, idx))

\* A proof is appended and queued; the queue is sorted by iters.
hw_queue_proof(q, seg_iters, prev, is_req) ==
  LET iters == seg_iters + (IF prev = 0 THEN 0 ELSE q.proofs[prev].iters)
      proof == [iters |-> iters, seg_iters |-> seg_iters, prev |-> prev,
                is_req |-> is_req, started |-> FALSE, done |-> FALSE,
                ref_cnt |-> 1]
  IN  [q EXCEPT
        !.proofs = Append(q.proofs, proof),
        !.queued = InsertBehind(q.queued, Len(q.proofs) + 1,
          {n \in DOMAIN q.queued : q.proofs[q.queued[n]].iters <= iters})]

\* memset(..., 0xff, ...): all flags are set, prev is HW_VDF_PROOF_NONE.
Deleted == [iters |-> -1, seg_iters |-> -1, prev |-> 0, is_req |-> TRUE,
            started |-> TRUE, done |-> TRUE, ref_cnt |-> -1]

\* Mutant: a started checkpoint is visited too.
UnstartedAll(ps, idx) == Chain(ps, idx)

\* The segments that dec_ref visits from idx: it stops at a started one.
Unstarted(ps, idx) ==
  LET visited[j \in 0 .. Len(ps)] ==
        IF j = 0 \/ (j > 0 /\ ps[j].started) THEN {}
        ELSE {j} \union visited[ps[j].prev]
  IN  visited[idx]

\* Proofs nobody needs any more are wiped out, and the vector is cut behind
\* the last one that is left.
hw_proof_dec_ref(q, idxs) ==
  LET dec(j) == Cardinality({idx \in idxs : j \in Unstarted(q.proofs, idx)})
      deleted == {j \in 1 .. Len(q.proofs) :
                    dec(j) > 0 /\ q.proofs[j].ref_cnt = dec(j)}
      kept == {j \in 1 .. Len(q.proofs) : j \notin deleted}
      last == CHOOSE j \in kept \union {0} : \A k \in kept : k <= j
  IN  [q EXCEPT
        !.proofs = [j \in 1 .. last |->
          IF j \in deleted THEN Deleted
          ELSE [q.proofs[j] EXCEPT !.ref_cnt = @ - dec(j)]],
        !.queued = Selected(q.queued, kept)]

hw_proof_should_queue(q, iters) ==
  iters < q.proofs[q.queued[Len(q.queued)]].iters

\* Queued proofs behind the new one give way and are requested again.
Displaced(q, iters) ==
  IF q.queued # << >> /\ hw_proof_should_queue(q, iters)
    THEN LET dropped == {q.queued[i] : i \in
               {j \in DOMAIN q.queued :
                  /\ q.proofs[q.queued[j]].is_req
                  /\ iters <= q.proofs[q.queued[j]].iters}}
             again == Selected(q.queued, dropped)
             reqs[n \in 0 .. Len(again)] ==
               IF n = 0 THEN q.req
               ELSE hw_request_proof(reqs[n - 1], q.proofs[again[n]].iters)
         IN  hw_proof_dec_ref([q EXCEPT !.req = reqs[Len(again)]], dropped)
    ELSE q

\* The last queued checkpoint the proof may continue, or 0.
Base(q, iters) ==
  LET usable == {i \in DOMAIN q.queued :
        LET p == q.proofs[q.queued[i]] IN
          /\ ~p.is_req /\ p.iters <= iters
          /\ hw_proof_cnt_segments(q.proofs, q.queued[i]) <= MaxSegments - 3}
  IN  IF usable = {} THEN 0
      ELSE q.queued[CHOOSE i \in usable : \A j \in usable : j <= i]

hw_proof_inc_ref(q, idx) ==
  [q EXCEPT !.proofs = [j \in DOMAIN q.proofs |->
     IF j \in Chain(q.proofs, idx)
       THEN [q.proofs[j] EXCEPT !.ref_cnt = @ + 1] ELSE q.proofs[j]]]

\* Long segments are split, [69%, 23%, 8%] or [75%, 25%], at multiples of
\* interval; the last one is the request's.
Rounded(iters) == (iters \div interval) * interval

QueueSegments(q, iters, prev) ==
  IF iters <= g_chkp_thres THEN hw_queue_proof(q, iters, prev, TRUE)
  ELSE LET chkp == (iters * 3) \div 4 IN
    IF iters - chkp <= g_chkp_thres
      THEN Once(hw_queue_proof(q, Rounded(chkp), prev, FALSE), LAMBDA one :
             hw_queue_proof(one, iters - Rounded(chkp), Len(one.proofs), TRUE))
      ELSE LET first == Rounded((iters * 69) \div 100)
               second == Rounded((iters * 92) \div 100 - first)
           IN  Once(hw_queue_proof(q, first, prev, FALSE), LAMBDA one :
               Once(hw_queue_proof(one, second, Len(one.proofs), FALSE),
                 LAMBDA two :
                 hw_queue_proof(two, iters - first - second, Len(two.proofs),
                                TRUE)))

hw_proof_process_req(q) ==
  LET iters == Head(q.req)
  IN  Once(Displaced([q EXCEPT !.req = Tail(@)], iters), LAMBDA room :
      Once(Base(room, iters), LAMBDA prev :
        IF prev = 0 THEN QueueSegments(room, iters, prev)
        ELSE Once(hw_proof_inc_ref(room, prev), LAMBDA based :
               QueueSegments(based, iters - based.proofs[prev].iters, prev))))

MustQueue(q) ==
  q.req # << >> /\ (Len(q.queued) < 3 \/ hw_proof_should_queue(q, Head(q.req)))

\* The loop that queues requests: a turn queues one, and the ones it displaces
\* do not get in again before it.
QueueRequests(q) ==
  LET turns == Len(q.req) + Len(q.queued) + 1
      after[n \in 0 .. turns] ==
        IF n = 0 THEN q
        ELSE Once(after[n - 1], LAMBDA before :
               IF MustQueue(before) THEN hw_proof_process_req(before)
               ELSE before)
  IN  after[turns]

----------------------------------------------------------------------------
(***************************************************************************)
(* The event loop's thread                                                 *)
(***************************************************************************)

\* handle_iters
Request(r) ==
  /\ main = "loop" /\ r \notin asked
  /\ req_proofs' = hw_request_proof(req_proofs, r)
  /\ asked' = asked \union {r}
  /\ UNCHANGED <<main, challenge, chipVars, valid_values, wq, proofs,
                 queued_proofs, done_proofs, seen, thread, pushing, late,
                 n_proof_threads, sent>>

\* Mutant: proofs may take all threads.
MayStartAny(q, n) ==
  /\ n <= Len(q.queued)
  /\ q.proofs[q.queued[n]].iters <= last_iters'

MayStart(q, n) ==
  /\ n <= Len(q.queued)
  /\ q.proofs[q.queued[n]].iters <= last_iters'
  /\ n_proof_threads + (n - 1) * PARALLEL_PROVER_N_THREADS < max_proof_threads

\* Requests are queued, then free threads get the first queued proofs whose
\* iterations are done and, when those are all started, the work.
hw_proof_process_work(work) ==
  \E q \in {QueueRequests([req |-> req_proofs, proofs |-> proofs,
                           queued |-> queued_proofs])} :
  LET free == {i \in Threads : ~Busy(i)}
      rank(i) == Cardinality({j \in free : j <= i})
      starts == {n \in 0 .. Cardinality(free) :
                   \A m \in 1 .. n : MayStart(q, m)}
      n_proofs == CHOOSE n \in starts : \A m \in starts : m <= n
      rest == Cardinality(free) - n_proofs
      n_work == IF rest < Len(work) THEN rest ELSE Len(work)
  IN  /\ req_proofs' = q.req
      /\ queued_proofs' = SubSeq(q.queued, n_proofs + 1, Len(q.queued))
      /\ proofs' = [j \in DOMAIN q.proofs |->
           IF \E n \in 1 .. n_proofs : q.queued[n] = j
             THEN [q.proofs[j] EXCEPT !.started = TRUE] ELSE q.proofs[j]]
      /\ n_proof_threads' =
           (n_proof_threads + n_proofs * PARALLEL_PROVER_N_THREADS) % 256
      /\ thread' = [i \in Threads |->
           IF i \notin free \/ rank(i) > n_proofs + n_work THEN thread[i]
           ELSE IF rank(i) <= n_proofs
             THEN [kind |-> "wait", idx |-> q.queued[rank(i)]]
           ELSE [kind |-> "values", next |-> work[rank(i) - n_proofs].first,
                 last |-> work[rank(i) - n_proofs].last]]
      /\ wq' = SubSeq(work, n_work + 1, Len(work))

\* Positions the chip passed without a value there are work for a thread,
\* which starts from the value before.
NewWork(iters) ==
  LET first == last_iters \div interval + 1
      last == IF iters % interval = 0 THEN iters \div interval - 1
              ELSE iters \div interval
  IN  IF first <= last THEN Append(wq, [first |-> first, last |-> last]) ELSE wq

HoldsResizeMutex == pushing # NotPushing

\* hw_proof_add_value with a value that is valid and new, handle_value and
\* process_work.  When the bound is reached, later values change nothing else
\* but run process_work.
AddValue(iters) ==
  /\ main = "loop" /\ ~completed /\ ~HoldsResizeMutex
  /\ \/ iters \in chip + 1 .. MaxIters /\ iters <= chip + MaxJump
     \/ iters = MaxIters /\ chip = MaxIters
  /\ iters # last_iters \/ iters = MaxIters
  /\ last_iters' = iters /\ chip' = iters
  /\ valid_values' = IF iters % interval = 0
       THEN valid_values \union {iters \div interval} ELSE valid_values
  /\ hw_proof_process_work(NewWork(iters))
  /\ UNCHANGED <<main, challenge, restarts, completed, done_proofs, seen,
                 pushing, late, asked, sent>>

\* The value reaches target_iters: the chip is stopped and the connection idles.
Complete ==
  /\ main = "loop" /\ ~completed /\ chip = MaxIters /\ last_iters = MaxIters
  /\ completed' = TRUE
  /\ UNCHANGED <<main, challenge, chip, restarts, last_iters, valid_values, wq,
                 queueVars, done_proofs, seen, thread, pushing, late,
                 n_proof_threads, asked, sent>>

hw_proof_last_good_form ==
  LET good == {p \in valid_values : p <= last_iters \div interval}
  IN  CHOOSE p \in good : \A q \in good : q <= p

\* A bad value, or the eleventh that shows no progress: the chip starts again
\* from the last good form.
Restart ==
  /\ main = "loop" /\ ~completed /\ restarts < MaxRestarts
  /\ chip' = hw_proof_last_good_form * interval
  /\ restarts' = restarts + 1
  /\ UNCHANGED <<main, challenge, last_iters, completed, valid_values, wq,
                 queueVars, done_proofs, seen, thread, pushing, late,
                 n_proof_threads, asked, sent>>

\* The first finished request all of whose checkpoints are finished.
Retrievable ==
  {i \in DOMAIN done_proofs :
     \A j \in Chain(proofs, done_proofs[i]) \ {done_proofs[i]} : proofs[j].done}

\* The segments as handle_proofs sends them, the request's own first.
Segments(idx) ==
  LET segs[j \in 0 .. Len(proofs)] ==
        IF j = 0 THEN << >>
        ELSE <<proofs[j].seg_iters>> \o segs[proofs[j].prev]
  IN  segs[idx]

\* Mutant: the checkpoints' flags are not looked at.
RetrieveAny ==
  /\ main = "loop" /\ done_proofs # << >>
  /\ main' = "erase"
  /\ seen' = [found |-> done_proofs, i |-> 1]
  /\ UNCHANGED <<challenge, chipVars, valid_values, wq, queueVars, done_proofs,
                 thread, pushing, late, n_proof_threads, asked, sent>>

\* hw_retrieve_proof finds a proof; it looks at done_proofs without the mutex.
Retrieve ==
  /\ main = "loop" /\ Retrievable # {}
  /\ main' = "erase"
  /\ seen' = [found |-> done_proofs,
              i |-> CHOOSE i \in Retrievable : \A j \in Retrievable : i <= j]
  /\ UNCHANGED <<challenge, chipVars, valid_values, wq, queueVars, done_proofs,
                 thread, pushing, late, n_proof_threads, asked, sent>>

\* The erase and the sending.  It races with push_back: the later one of the
\* two updates of the vector's end overwrites the earlier.
EraseAndSend ==
  /\ main = "erase"
  /\ done_proofs' = SubSeq(seen.found, 1, seen.i - 1)
                    \o SubSeq(seen.found, seen.i + 1, Len(seen.found))
  /\ LET idx == seen.found[seen.i] IN
       sent' = sent \union
         {[iters |-> proofs[idx].iters, segments |-> Segments(idx),
           done |-> \A j \in Chain(proofs, idx) : proofs[j].done]}
  /\ main' = "loop" /\ seen' = NotPushing
  /\ UNCHANGED <<challenge, chipVars, valid_values, wq, queueVars, thread,
                 pushing, late, n_proof_threads, asked>>

\* hw_stop_proof: stopping is set, the busy threads are waited for.
StopProof ==
  /\ main = "loop"
  /\ main' = "stop"
  /\ UNCHANGED <<challenge, chipVars, valid_values, wq, queueVars, done_proofs,
                 seen, thread, pushing, late, n_proof_threads, asked, sent>>

\* clear_vdf_state
ClearState ==
  /\ main = "stop" /\ \A i \in Threads : ~Busy(i)
  /\ main' = "cleared"
  /\ valid_values' = {} /\ wq' = << >>
  /\ req_proofs' = << >> /\ proofs' = << >> /\ queued_proofs' = << >>
  /\ done_proofs' = << >>
  /\ UNCHANGED <<challenge, chipVars, seen, thread, pushing, late,
                 n_proof_threads, asked, sent>>

\* init_vdf_state for the next challenge.
InitState ==
  /\ main = "cleared" /\ challenge < Challenges
  /\ main' = "loop" /\ challenge' = challenge + 1
  /\ chip' = 0 /\ last_iters' = 0 /\ completed' = FALSE
  /\ valid_values' = {0} /\ n_proof_threads' = 0
  /\ asked' = {} /\ sent' = {}
  /\ UNCHANGED <<restarts, wq, queueVars, done_proofs, seen, thread, pushing, late>>

EngineStep ==
  \/ \E iters \in 1 .. MaxIters : AddValue(iters)
  \/ Retrieve \/ EraseAndSend \/ ClearState

----------------------------------------------------------------------------
(***************************************************************************)
(* The auxiliary threads                                                   *)
(***************************************************************************)

stopping == main = "stop"

\* hw_proof_calc_values computes the forms up to the next position.
CalcValues(i) ==
  /\ thread[i].kind = "values"
  /\ IF stopping
       THEN thread' = [thread EXCEPT ![i] = Idle] /\ UNCHANGED valid_values
       ELSE /\ valid_values' = valid_values \union {thread[i].next}
            /\ thread' = [thread EXCEPT ![i] =
                 IF @.next = @.last THEN Idle
                 ELSE [thread[i] EXCEPT !.next = @ + 1]]
  /\ UNCHANGED <<main, challenge, chipVars, wq, queueVars, done_proofs, seen,
                 pushing, late, n_proof_threads, asked, sent>>

\* The forms a segment's proof reads and the two it connects.
Needed(proof) ==
  (proof.iters - proof.seg_iters) \div interval .. proof.iters \div interval

\* Mutant: the wait for a form does not look at the stop.
ComputeProofDeaf(i) ==
  /\ thread[i].kind = "wait"
  /\ Needed(proofs[thread[i].idx]) \subseteq valid_values
  /\ thread' = [thread EXCEPT ![i].kind = "proved"]
  /\ UNCHANGED <<main, challenge, chipVars, valid_values, wq, queueVars,
                 done_proofs, seen, pushing, late, n_proof_threads, asked, sent>>

\* hw_compute_proof up to the verified proof; each form is waited for, and a
\* stop ends the wait.
ComputeProof(i) ==
  /\ thread[i].kind = "wait"
  /\ \/ stopping /\ thread' = [thread EXCEPT ![i].kind = "out"]
     \/ /\ Needed(proofs[thread[i].idx]) \subseteq valid_values
        /\ thread' = [thread EXCEPT ![i].kind = "proved"]
  /\ UNCHANGED <<main, challenge, chipVars, valid_values, wq, queueVars,
                 done_proofs, seen, pushing, late, n_proof_threads, asked, sent>>

\* With proofs_resize_mtx a finished request is appended to done_proofs.
PushBegin(i) ==
  /\ thread[i].kind = "proved" /\ ~HoldsResizeMutex
  /\ proofs[thread[i].idx].is_req
  /\ pushing' = done_proofs
  /\ thread' = [thread EXCEPT ![i].kind = "push"]
  /\ UNCHANGED <<main, challenge, chipVars, valid_values, wq, queueVars,
                 done_proofs, seen, late, n_proof_threads, asked, sent>>

PushEnd(i) ==
  /\ thread[i].kind = "push"
  /\ done_proofs' = Append(pushing, thread[i].idx)
  /\ proofs' = [proofs EXCEPT ![thread[i].idx].done = TRUE]
  /\ pushing' = NotPushing
  /\ thread' = [thread EXCEPT ![i].kind = "out"]
  /\ UNCHANGED <<main, challenge, chipVars, valid_values, wq, req_proofs,
                 queued_proofs, seen, late, n_proof_threads, asked, sent>>

\* A checkpoint is only marked.
MarkDone(i) ==
  /\ thread[i].kind = "proved" /\ ~HoldsResizeMutex
  /\ ~proofs[thread[i].idx].is_req
  /\ proofs' = [proofs EXCEPT ![thread[i].idx].done = TRUE]
  /\ thread' = [thread EXCEPT ![i].kind = "out"]
  /\ UNCHANGED <<main, challenge, chipVars, valid_values, wq, req_proofs,
                 queued_proofs, done_proofs, seen, pushing, late,
                 n_proof_threads, asked, sent>>

\* The thread's bit is cleared; the counter follows.
ClearBusy(i) ==
  /\ thread[i].kind = "out"
  /\ thread' = [thread EXCEPT ![i] = Idle]
  /\ late' = late + 1
  /\ UNCHANGED <<main, challenge, chipVars, valid_values, wq, queueVars,
                 done_proofs, seen, pushing, n_proof_threads, asked, sent>>

CountDown ==
  /\ late > 0
  /\ late' = late - 1
  /\ n_proof_threads' = (n_proof_threads - PARALLEL_PROVER_N_THREADS) % 256
  /\ UNCHANGED <<main, challenge, chipVars, valid_values, wq, queueVars,
                 done_proofs, seen, thread, pushing, asked, sent>>

ThreadStep(i) ==
  \/ CalcValues(i) \/ ComputeProof(i) \/ PushBegin(i) \/ PushEnd(i)
  \/ MarkDone(i) \/ ClearBusy(i)

----------------------------------------------------------------------------
Init ==
  /\ main = "loop" /\ challenge = 1
  /\ chip = 0 /\ restarts = 0 /\ last_iters = 0 /\ completed = FALSE
  /\ valid_values = {0} /\ wq = << >>
  /\ req_proofs = << >> /\ proofs = << >> /\ queued_proofs = << >>
  /\ done_proofs = << >> /\ seen = NotPushing
  /\ thread = [i \in Threads |-> Idle] /\ pushing = NotPushing
  /\ late = 0 /\ n_proof_threads = 0
  /\ asked = {} /\ sent = {}

Next ==
  \/ EngineStep \/ Complete \/ Restart \/ StopProof \/ InitState
  \/ \E r \in Requests : Request(r)
  \/ \E i \in Threads : ThreadStep(i)
  \/ CountDown

Spec == Init /\ [][Next]_vars

\* The event loop goes round and every thread runs; nothing obliges the chip
\* to fail or the timelord to ask, to stop or to send another challenge.
Fairness ==
  /\ WF_vars(\E iters \in 1 .. MaxIters : AddValue(iters))
  /\ WF_vars(Retrieve) /\ WF_vars(EraseAndSend) /\ WF_vars(ClearState)
  /\ WF_vars(CountDown)
  /\ \A i \in Threads : WF_vars(ThreadStep(i))

FairSpec == Spec /\ Fairness

----------------------------------------------------------------------------
(***************************************************************************)
(* Properties                                                              *)
(***************************************************************************)

Queued == {queued_proofs[n] : n \in DOMAIN queued_proofs}
Computing ==
  {thread[i].idx : i \in
     {j \in Threads : thread[j].kind \in {"wait", "proved", "push"}}}

\* Although requests displace each other and the vector is cut, a proof that is
\* queued, computed or to be sent and all the checkpoints it continues are
\* there: none is wiped out, each continues the one before, there are no more
\* than a proof may have, and the index a thread computes still names a proof
\* that was started, not a new one in the same place.
ChainsIntact ==
  /\ Computing \subseteq {j \in DOMAIN proofs : proofs[j].started}
  /\ \A idx \in Queued \union Computing
                \union {done_proofs[n] : n \in DOMAIN done_proofs} :
       /\ idx \in DOMAIN proofs
       /\ hw_proof_cnt_segments(proofs, idx) <= MaxSegments
       /\ \A j \in Chain(proofs, idx) :
            /\ proofs[j] # Deleted
            /\ proofs[j].iters = proofs[j].seg_iters +
                 (IF proofs[j].prev = 0 THEN 0 ELSE proofs[proofs[j].prev].iters)

\* A proof is sent with all its segments: they are finished and add up to the
\* iterations that were asked for.
SentProofsWhole ==
  \A s \in sent :
    LET sum[n \in 0 .. Len(s.segments)] ==
          IF n = 0 THEN 0 ELSE sum[n - 1] + s.segments[n]
    IN  s.done /\ s.iters \in asked /\ sum[Len(s.segments)] = s.iters

Computed(r) ==
  \E j \in DOMAIN proofs : proofs[j].is_req /\ proofs[j].done /\ proofs[j].iters = r

ProofThreads == {i \in Threads : thread[i].kind \notin {"idle", "values"}}

\* A thread of the challenge before counted n_proof_threads down too late.
Miscounted ==
  /\ challenge > 1
  /\ n_proof_threads #
       PARALLEL_PROVER_N_THREADS * (Cardinality(ProofThreads) + late)

\* A requested proof is computed while the chip runs: proof threads wait for
\* values, but never take all the threads that compute these.  Only a
\* miscounted n_proof_threads can prevent it.
RequestsComputed ==
  \A r \in Requests : r \in asked ~>
    Computed(r) \/ completed \/ main \in {"stop", "cleared"} \/ Miscounted

\* A stop ends: every auxiliary thread sees it.
StopEnds == main = "stop" ~> main = "cleared"

=============================================================================
