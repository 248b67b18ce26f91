---------------------------- MODULE FastStorage ----------------------------
(***************************************************************************)
(* Where the n-weso provers find their intermediate forms: a ring of       *)
(* window_size segments per bucket (FastAlgorithmCallback).  On a small    *)
(* machine the squaring loop fills it itself; on a machine with many       *)
(* processors the loop only submits a form every half segment, and threads *)
(* of FastStorage redo the work and store the intermediates.               *)
(* A form is the iteration it belongs to; Bad is any other value.          *)
(***************************************************************************)
EXTENDS Integers, FiniteSets, FiniteSetsExt

CONSTANTS
  Half,          \* 1 << 15: iterations between two submitted forms
  Ratio,         \* 4: length of a segment over the next shorter one
  Strides,       \* Strides[i]: kl of bucket i
  segments,      \* number of buckets
  window_size,   \* kWindowSize
  batch_size,    \* checkpoint_interval
  Threads,       \* the storage threads
  Multi,         \* values of multi_proc_machine to look at
  MaxFaults,     \* bound: batches that end early or are corrupted
  MaxIterations  \* bound: where the squaring loop stops

ASSUME StorageAssumption ==
  /\ Half \in Nat \ {0} /\ Ratio \in Nat \ {0, 1} /\ segments \in Nat \ {0}
  /\ Strides \in [0 .. segments - 1 -> Nat \ {0}]
  /\ window_size \in Nat \ {0} /\ batch_size \in 1 .. Half - 1
  /\ IsFiniteSet(Threads) /\ Multi \subseteq BOOLEAN
  /\ MaxFaults \in Nat /\ MaxIterations \in Nat

VARIABLES
  multi_proc_machine,
  num_iterations,       \* the loop: iterations of whole batches
  actual_iterations,    \* iterations of the current batch
  batch,                \* "good", "corrupted" or "slow"
  faults,
  last_checkpoint,
  iterations,           \* weso->iterations
  y_ret,
  forms,                \* the rings
  checkpoints,          \* the forms at multiples of a segment
  pending_intermediates,\* submitted forms: [at, y]
  worker,               \* the storage threads: [pc, begin, y, at]
  intermediates_stored, \* halves whose store has reached the other threads
  buffered,             \* halves stored by a thread and still in its buffer
  new_event,
  intermediates_iter,   \* what the event loop takes as finished
  stopped,
  leftBehind            \* auxiliary: a thread stored what is window_size
                        \* segments behind the submitted forms

loopVars == <<num_iterations, actual_iterations, batch, faults,
              last_checkpoint, iterations>>
storeVars == <<pending_intermediates, worker, intermediates_stored, buffered,
               leftBehind>>
eventVars == <<new_event, intermediates_iter, stopped>>
vars == <<multi_proc_machine, loopVars, y_ret, forms, checkpoints, storeVars,
          eventVars>>

----------------------------------------------------------------------------
(***************************************************************************)
(* FastAlgorithmCallback                                                   *)
(***************************************************************************)

Bad == -1
Unit == 2 * Half
Buckets == 0 .. segments - 1

power_2[i \in Buckets] == IF i = 0 THEN Unit ELSE Ratio * power_2[i - 1]

\* bucket_size1 and bucket_size2: the intermediates of one segment.
bucket_size(i) == (power_2[i] + Strides[i] - 1) \div Strides[i]

GetPosition(exponent, i) ==
  <<i, ((exponent \div power_2[i]) % window_size) * bucket_size(i)
         + (exponent % power_2[i]) \div Strides[i]>>

Positions ==
  UNION {{i} \X (0 .. window_size * bucket_size(i) - 1) : i \in Buckets}

\* Places[n]: where the form of iteration n is kept.
Places ==
  [iteration \in 0 .. MaxIterations + Half |->
     {GetPosition(iteration, i) :
        i \in {b \in Buckets : (iteration % power_2[b]) % Strides[b] = 0}}]

SetForms(iteration, value) ==
  IF Places[iteration] = {} THEN forms
  ELSE [p \in Positions |->
          IF p \in Places[iteration] THEN value ELSE forms[p]]

\* OnIteration, with the iteration that was just done and its form.
OnIteration(iteration, value) ==
  /\ y_ret' = IF multi_proc_machine /\ iteration % Half = 0
                THEN value ELSE y_ret
  /\ forms' = IF multi_proc_machine THEN forms ELSE SetForms(iteration, value)
  /\ checkpoints' = IF iteration % Unit = 0
                      THEN [checkpoints EXCEPT ![iteration \div Unit] = value]
                      ELSE checkpoints

----------------------------------------------------------------------------
(***************************************************************************)
(* repeated_square with fast_algorithm set                                 *)
(***************************************************************************)

\* One squaring of the batch, of the fast or of the slow algorithm.
Square ==
  LET iteration == num_iterations + actual_iterations + 1
  IN  /\ ~stopped /\ actual_iterations < batch_size
      /\ iteration <= MaxIterations
      /\ OnIteration(iteration, IF batch = "corrupted" THEN Bad ELSE iteration)
      /\ actual_iterations' = actual_iterations + 1
      /\ UNCHANGED <<multi_proc_machine, num_iterations, batch, faults,
                     last_checkpoint, iterations, storeVars, eventVars>>

\* The batch is corrupted from here on.
Corrupt ==
  /\ ~stopped /\ batch = "good" /\ faults < MaxFaults
  /\ actual_iterations < batch_size
  /\ batch' = "corrupted" /\ faults' = faults + 1
  /\ UNCHANGED <<multi_proc_machine, num_iterations, actual_iterations,
                 last_checkpoint, iterations, y_ret, forms, checkpoints,
                 storeVars, eventVars>>

\* `corruption; f is unchanged': the entire batch again, slowly.
Redo ==
  /\ batch = "corrupted" /\ actual_iterations = batch_size
  /\ batch' = "slow" /\ actual_iterations' = 0
  /\ UNCHANGED <<multi_proc_machine, num_iterations, faults, last_checkpoint,
                 iterations, y_ret, forms, checkpoints, storeVars, eventVars>>

SubmitCheckpoint ==
  pending_intermediates' =
    pending_intermediates \union {[at |-> last_checkpoint, y |-> y_ret]}

\* The end of a batch, which may come early.
EndBatch ==
  LET done == num_iterations + actual_iterations
  IN  /\ batch # "corrupted"
      /\ \/ actual_iterations = batch_size /\ UNCHANGED faults
         \/ /\ actual_iterations \in 1 .. batch_size - 1 /\ faults < MaxFaults
            /\ batch = "good" /\ faults' = faults + 1
      /\ num_iterations' = done /\ actual_iterations' = 0 /\ batch' = "good"
      /\ IF done >= last_checkpoint
           THEN /\ iterations' = done
                /\ last_checkpoint' = last_checkpoint + Half
                /\ IF multi_proc_machine
                     THEN SubmitCheckpoint /\ UNCHANGED new_event
                     ELSE /\ new_event' = (new_event \/ last_checkpoint % Unit = 0)
                          /\ UNCHANGED pending_intermediates
           ELSE UNCHANGED <<iterations, last_checkpoint, new_event,
                            pending_intermediates>>
  /\ UNCHANGED <<multi_proc_machine, y_ret, forms, checkpoints, worker,
                 intermediates_stored, buffered, leftBehind, intermediates_iter,
                 stopped>>

----------------------------------------------------------------------------
(***************************************************************************)
(* FastStorage                                                             *)
(***************************************************************************)

Idle == [pc |-> "wait", begin |-> 0, y |-> 0, at |-> 0]

OutsideThread == <<multi_proc_machine, loopVars, y_ret, checkpoints, eventVars>>

\* The first pending form.
First == CHOOSE p \in pending_intermediates :
           \A q \in pending_intermediates : p.at <= q.at

\* Mutant: the form is looked up and erased in two critical sections.
TakePendingTwice(t) ==
  /\ worker[t].pc = "wait" /\ ~stopped /\ pending_intermediates # {}
  /\ pending_intermediates' \in {pending_intermediates,
                                pending_intermediates \ {First}}
  /\ worker' = [worker EXCEPT ![t] = [pc |-> "store", begin |-> First.at,
                                      y |-> First.y, at |-> First.at]]
  /\ UNCHANGED <<OutsideThread, forms, intermediates_stored, buffered,
                 leftBehind>>

\* CalculateIntermediatesThread: the wait for a form.
TakePending(t) ==
  /\ worker[t].pc = "wait" /\ ~stopped /\ pending_intermediates # {}
  /\ pending_intermediates' = pending_intermediates \ {First}
  /\ worker' = [worker EXCEPT ![t] = [pc |-> "store", begin |-> First.at,
                                      y |-> First.y, at |-> First.at]]
  /\ UNCHANGED <<OutsideThread, forms, intermediates_stored, buffered,
                 leftBehind>>

\* Mutant: a thread in its wait is not woken by the destructor.
EndThreadAtStore(t) ==
  /\ stopped /\ worker[t].pc = "store" /\ Places[worker[t].at] # {}
  /\ worker' = [worker EXCEPT ![t] = [Idle EXCEPT !.pc = "ended"]]
  /\ UNCHANGED <<OutsideThread, forms, pending_intermediates,
                 intermediates_stored, buffered, leftBehind>>

\* stopped ends the thread, in its wait or when it is about to store.
EndThread(t) ==
  /\ stopped
  /\ \/ worker[t].pc = "wait"
     \/ worker[t].pc = "store" /\ Places[worker[t].at] # {}
  /\ worker' = [worker EXCEPT ![t] = [Idle EXCEPT !.pc = "ended"]]
  /\ UNCHANGED <<OutsideThread, forms, pending_intermediates,
                 intermediates_stored, buffered, leftBehind>>

\* One iteration of CalculateIntermediatesInner; after the last one
\* AddIntermediates marks the half in an array of plain bools, which other
\* threads see later.
StoreIntermediate(t) ==
  LET w == worker[t]
      last == w.at + 1 = w.begin + Half
  IN  /\ w.pc = "store"
      /\ Places[w.at] # {} => ~stopped
      /\ forms' = SetForms(w.at, IF w.y = w.begin THEN w.at ELSE Bad)
      /\ worker' = [worker EXCEPT
           ![t].at = w.at + 1, ![t].pc = IF last THEN "look" ELSE "store"]
      /\ buffered' = IF last THEN buffered \union {<<t, w.begin \div Half>>}
                     ELSE buffered
      /\ leftBehind' = (leftBehind \/ w.at + window_size * Unit < last_checkpoint)
      /\ UNCHANGED <<OutsideThread, pending_intermediates, intermediates_stored>>

Flush(t) ==
  \E h \in {b[2] : b \in {c \in buffered : c[1] = t}} :
    /\ intermediates_stored' = intermediates_stored \union {h}
    /\ buffered' = buffered \ {<<t, h>>}
    /\ UNCHANGED <<OutsideThread, forms, pending_intermediates, worker, leftBehind>>

\* The event is sent if this thread sees both halves.
LookAtHalves(t) ==
  LET h == worker[t].begin \div Half
      seen == intermediates_stored \union {b[2] : b \in {c \in buffered : c[1] = t}}
  IN  /\ worker[t].pc = "look"
      /\ new_event' = (new_event \/ {2 * (h \div 2), 2 * (h \div 2) + 1} \subseteq seen)
      /\ worker' = [worker EXCEPT ![t] = Idle]
      /\ UNCHANGED <<multi_proc_machine, loopVars, y_ret, checkpoints, forms,
                     pending_intermediates, intermediates_stored, buffered, leftBehind,
                     intermediates_iter, stopped>>

ThreadStep(t) ==
  \/ TakePending(t) \/ EndThread(t) \/ StoreIntermediate(t)
  \/ LookAtHalves(t)

----------------------------------------------------------------------------
(***************************************************************************)
(* The event loop's view, and the end                                      *)
(***************************************************************************)

\* Mutant: the second half of the segment is not looked at.
StoredSegmentFirstHalf(n) == 2 * n \in intermediates_stored

StoredSegment(n) == {2 * n, 2 * n + 1} \subseteq intermediates_stored

\* GetFinishedSegment walks over the segments whose halves are both stored.
GetFinishedSegment ==
  LET n == intermediates_iter \div Unit
  IN  Unit * Max({m \in n .. n + MaxIterations :
                    \A s \in n .. m - 1 : StoredSegment(s)})

\* RunEventLoop takes over what is new.
RunEventLoop ==
  /\ new_event /\ ~stopped /\ new_event' = FALSE
  /\ intermediates_iter' = IF multi_proc_machine THEN GetFinishedSegment
                           ELSE iterations
  /\ UNCHANGED <<multi_proc_machine, loopVars, y_ret, forms, checkpoints,
                 storeVars, stopped>>

\* Provers that finish wake the event loop, too.
OtherEvent ==
  /\ ~new_event /\ ~stopped /\ new_event' = TRUE
  /\ UNCHANGED <<multi_proc_machine, loopVars, y_ret, forms, checkpoints,
                 storeVars, intermediates_iter, stopped>>

\* The session has stopped the loop and the manager: ~FastStorage.
Stop ==
  /\ ~stopped /\ stopped' = TRUE
  /\ UNCHANGED <<multi_proc_machine, loopVars, y_ret, forms, checkpoints,
                 storeVars, new_event, intermediates_iter>>

Init ==
  /\ multi_proc_machine \in Multi
  /\ num_iterations = 0 /\ actual_iterations = 0 /\ batch = "good"
  /\ faults = 0 /\ last_checkpoint = 0 /\ iterations = 0 /\ y_ret = 0
  /\ forms = [p \in Positions |-> IF p[2] = 0 THEN 0 ELSE Bad]
  /\ checkpoints = [n \in 0 .. MaxIterations \div Unit |->
                      IF n = 0 THEN 0 ELSE Bad]
  /\ pending_intermediates = {} /\ intermediates_stored = {} /\ buffered = {}
  /\ worker = [t \in Threads |->
                 IF multi_proc_machine THEN Idle ELSE [Idle EXCEPT !.pc = "ended"]]
  /\ new_event = FALSE /\ intermediates_iter = 0 /\ stopped = FALSE
  /\ leftBehind = FALSE

LoopStep == Square \/ Redo \/ EndBatch

Next ==
  \/ LoopStep \/ Corrupt \/ RunEventLoop \/ OtherEvent \/ Stop
  \/ \E t \in Threads : ThreadStep(t) \/ Flush(t)

Spec == Init /\ [][Next]_vars

----------------------------------------------------------------------------
(***************************************************************************)
(* Properties                                                              *)
(***************************************************************************)

\* Segment n of bucket i is finished for the event loop, and neither the loop
\* nor a storage thread can have reached its places in the ring again: `Assume
\* provers won't be left behind by more than this # of segments'.
MayBeProved(i, n) ==
  /\ (n + 1) * power_2[i] <= intermediates_iter
  /\ IF multi_proc_machine
       THEN ~leftBehind /\ last_checkpoint <= (n + window_size) * power_2[i]
       ELSE num_iterations + batch_size < (n + window_size) * power_2[i]

\* Whatever a prover of such a segment reads through GetForm is the form of
\* its iteration, although several threads store at their own pace, halves of
\* segments become complete in any order, and corrupted batches are redone.
RingHoldsFinished ==
  \A i \in Buckets, n \in 0 .. MaxIterations \div Unit : MayBeProved(i, n) =>
    \A k \in 0 .. bucket_size(i) - 1 :
      LET iteration == n * power_2[i] + k * Strides[i]
      IN  forms[GetPosition(iteration, i)] = iteration

\* No half is lost or done twice on its way from the loop to the event loop:
\* until the stop, everything below last_checkpoint is pending, in the hands of
\* one thread, in a buffer or stored.
EveryHalfOnce ==
  multi_proc_machine /\ ~stopped =>
    LET busy == {t \in Threads : worker[t].pc = "store"}
        pending == {p.at \div Half : p \in pending_intermediates}
        done == {b[2] : b \in buffered} \union intermediates_stored
        inHand == {worker[t].begin \div Half : t \in busy}
    IN  /\ pending \union inHand \union done = 0 .. last_checkpoint \div Half - 1
        /\ Cardinality(pending) + Cardinality(busy) + Cardinality(done)
             = last_checkpoint \div Half

\* The joins of the destructor return: after the stop no thread is left in a
\* wait or a computation that it cannot leave.
StorageStops ==
  stopped /\ ~(ENABLED \E t \in Threads : ThreadStep(t)) =>
    \A t \in Threads : worker[t].pc = "ended"

=============================================================================
