---------------------------- MODULE TwoWesoStore ----------------------------
(***************************************************************************)
(* The 2-wesolowski mode of the VDF client: the squaring loop              *)
(* repeated_square (vdf.h), the checkpoint table TwoWesolowskiCallback     *)
(* (callback.h) that it fills, and the threads running ProveTwoWeso        *)
(* (vdf.h) that read the table while it grows.                             *)
(*                                                                         *)
(* The form obtained after p squarings of the initial form is represented  *)
(* by the number p; NoForm stands for a slot that was never assigned and   *)
(* for the output of a corrupted squaring.  The table keeps every 10th     *)
(* form until the loop has passed kSwitchIters, and every 100th after it.  *)
(***************************************************************************)
EXTENDS Integers

CONSTANTS
  kSwitchIters,        \* the stride grows once this many iterations are done
  kMaxItersAllowed,    \* the table is sized for this many iterations
  StopMargin,          \* the loop stops this far before kMaxItersAllowed
  checkpoint_interval, \* iterations of one batch of the fast algorithm
  PublishStep,         \* distance of two publications (1 << 15)
  LongSegment,         \* segments of at least this length use l = 10
  Requests,            \* the iteration counts a proof is asked for
  MaxFaults            \* bound: batches that end early or are corrupted

ASSUME ConstantsAssumption ==
  /\ kSwitchIters \in Nat /\ kMaxItersAllowed \in Nat /\ StopMargin \in Nat
  /\ checkpoint_interval \in Nat \ {0}
  /\ PublishStep \in Nat \ {0}
  /\ LongSegment \in Nat \ {0}
  /\ Requests \subseteq Nat \ {0}
  /\ MaxFaults \in Nat

\* The code has kSwitchIters = 91000000, kMaxItersAllowed = 800000000,
\* LongSegment = 10000000 and StopMargin = 500000, which is a little more than
\* ten times (1 << 15) + 10000 + 120.
ASSUME MarginAssumption ==
  /\ kSwitchIters + StopMargin <= kMaxItersAllowed
  /\ 10 * (PublishStep + checkpoint_interval + 120) <= StopMargin
  /\ 9 * LongSegment <= kSwitchIters
  /\ 4 * LongSegment + 303 <= kSwitchIters

VARIABLES
  forms,            \* the checkpoint table
  transition_state, \* where the stride changes: [switch_index, switch_iters]
  kl,               \* the stride used as a fast-path hint
  iterations,       \* published progress
  pc,               \* where the squaring thread is
  num_iterations,   \* its local progress, before the current batch
  last_checkpoint,  \* next iteration count that will be published
  done,             \* iterations done in the current inner loop
  good,             \* the squaring state is not corrupted
  faults,           \* faults so far
  stopped,          \* the session was stopped
  provers           \* for every request, the state of its proving thread

storeVars == <<forms, transition_state, kl>>
loopVars  == <<pc, num_iterations, last_checkpoint, done, good, faults>>
vars == <<storeVars, loopVars, iterations, stopped, provers>>

NoForm == -1

----------------------------------------------------------------------------
(***************************************************************************)
(* TwoWesolowskiCallback                                                   *)
(***************************************************************************)

\* Mutant: the table is sized for the late stride all along.
forms_capacityLate == kMaxItersAllowed \div 100

forms_capacity ==
  kSwitchIters \div 10 + (kMaxItersAllowed - kSwitchIters) \div 100

Positions == 0 .. forms_capacity - 1

\* DecodeSwitchIters is -1 as long as the stride is 10.
EarlyStride(power, ts) == ts.switch_iters = -1 \/ power < ts.switch_iters

GetEffectiveKl(power, ts) == IF EarlyStride(power, ts) THEN 10 ELSE 100

GetPosition(power, ts) ==
  IF EarlyStride(power, ts)
    THEN power \div 10
    ELSE ts.switch_index + (power - ts.switch_iters) \div 100

LargeConstants == transition_state.switch_iters # -1

\* EncodeTransitionState: both numbers travel in one atomic word, so that no
\* reader sees one without the other.
EncodeTransitionState(index, iters) ==
  [switch_index |-> index, switch_iters |-> iters]

IncreaseConstants(num_iters) ==
  /\ transition_state' = EncodeTransitionState(num_iters \div 10, num_iters)
  /\ kl' = 100

\* A checkpoint is due: the fast-path test on kl and the test under the lock.
IsCheckpoint(power) ==
  /\ power % kl = 0
  /\ power % GetEffectiveKl(power, transition_state) = 0

OutOfBounds(power) ==
  IsCheckpoint(power) /\ GetPosition(power, transition_state) >= forms_capacity

\* What OnIteration makes of the table when the squaring thread hands it the
\* form f as the one after `power' squarings.  SetForm leaves the slot alone
\* when square_state_type::assign rejects a corrupted state.
OnIteration(power, f) ==
  IF IsCheckpoint(power) /\ ~OutOfBounds(power)
    THEN \/ forms' = [forms EXCEPT ![GetPosition(power, transition_state)] = f]
         \/ f = NoForm /\ UNCHANGED forms
    ELSE UNCHANGED forms

GetFormCopy(power) == forms[GetPosition(power, transition_state)]

----------------------------------------------------------------------------
(***************************************************************************)
(* repeated_square: the squaring thread.                                   *)
(***************************************************************************)

\* An exception in the squaring thread is not caught.
AfterIteration(power, next) == IF OutOfBounds(power) THEN "threw" ELSE next

StartBatch ==
  /\ pc = "loop" /\ ~stopped
  /\ pc' = "fast" /\ done' = 0 /\ good' = TRUE
  /\ UNCHANGED <<storeVars, iterations, num_iterations, last_checkpoint,
                 faults, stopped, provers>>

LoopStopped ==
  /\ pc = "loop" /\ stopped
  /\ pc' = "finished"
  /\ UNCHANGED <<storeVars, iterations, num_iterations, last_checkpoint,
                 done, good, faults, stopped, provers>>

\* One iteration of the fast algorithm, which may go wrong unnoticed.
FastIteration ==
  /\ pc = "fast" /\ done < checkpoint_interval
  /\ good' \in (IF good /\ faults < MaxFaults THEN BOOLEAN ELSE {good})
  /\ LET power == num_iterations + done + 1
     IN  /\ OnIteration(power, IF good' THEN power ELSE NoForm)
         /\ pc' = AfterIteration(power, "fast")
  /\ done' = done + 1
  /\ UNCHANGED <<transition_state, kl, iterations, num_iterations,
                 last_checkpoint, faults, stopped, provers>>

\* The whole batch is done and assign found it valid.
FastComplete ==
  /\ pc = "fast" /\ done = checkpoint_interval /\ good
  /\ pc' = "advance"
  /\ UNCHANGED <<storeVars, iterations, num_iterations, last_checkpoint,
                 done, good, faults, stopped, provers>>

\* The batch stopped early with a valid form: one slow iteration follows.
FastPremature ==
  /\ pc = "fast" /\ done < checkpoint_interval /\ good /\ faults < MaxFaults
  /\ pc' = "extra" /\ faults' = faults + 1
  /\ UNCHANGED <<storeVars, iterations, num_iterations, last_checkpoint,
                 done, good, stopped, provers>>

ExtraIteration ==
  /\ pc = "extra"
  /\ LET power == num_iterations + done + 1
     IN  /\ OnIteration(power, power)
         /\ pc' = AfterIteration(power, "advance")
  /\ done' = done + 1
  /\ UNCHANGED <<transition_state, kl, iterations, num_iterations,
                 last_checkpoint, good, faults, stopped, provers>>

\* Mutant of FastCorrupted: the corrupted batch is not done again.
FastCorruptedKept ==
  /\ pc = "fast" /\ faults < MaxFaults
  /\ pc' = "advance" /\ good' = TRUE /\ faults' = faults + 1
  /\ UNCHANGED <<storeVars, iterations, num_iterations, last_checkpoint, done,
                 stopped, provers>>

\* Corruption was detected (the result is ~0 and f is unchanged): the entire
\* batch is done again with the slow algorithm.
FastCorrupted ==
  /\ pc = "fast" /\ faults < MaxFaults
  /\ pc' = "redo" /\ done' = 0 /\ good' = TRUE /\ faults' = faults + 1
  /\ UNCHANGED <<storeVars, iterations, num_iterations, last_checkpoint,
                 stopped, provers>>

RedoIteration ==
  /\ pc = "redo"
  /\ LET power == num_iterations + done + 1
     IN  /\ OnIteration(power, power)
         /\ pc' = AfterIteration(power, IF done + 1 = checkpoint_interval
                                          THEN "advance" ELSE "redo")
  /\ done' = done + 1
  /\ UNCHANGED <<transition_state, kl, iterations, num_iterations,
                 last_checkpoint, good, faults, stopped, provers>>

\* num_iterations += actual_iterations, and the publication when it is due.
Advance ==
  /\ pc = "advance"
  /\ num_iterations' = num_iterations + done
  /\ done' = 0
  /\ IF num_iterations' >= last_checkpoint
       THEN /\ iterations' = num_iterations'
            /\ pc' = IF num_iterations' >= kSwitchIters /\ ~LargeConstants
                       THEN "round" ELSE "check"
       ELSE /\ pc' = "loop" /\ UNCHANGED iterations
  /\ UNCHANGED <<storeVars, last_checkpoint, good, faults, stopped, provers>>

\* The iterations up to a multiple of 100 are done with the slow algorithm
\* before the stride changes.
RoundIteration ==
  /\ pc = "round" /\ (num_iterations + done) % 100 # 0
  /\ LET power == num_iterations + done + 1
     IN  /\ OnIteration(power, power)
         /\ pc' = AfterIteration(power, "round")
  /\ done' = done + 1
  /\ UNCHANGED <<transition_state, kl, iterations, num_iterations,
                 last_checkpoint, good, faults, stopped, provers>>

Switch ==
  /\ pc = "round" /\ (num_iterations + done) % 100 = 0
  /\ num_iterations' = num_iterations + done
  /\ IncreaseConstants(num_iterations')
  /\ done' = 0 /\ pc' = "republish"
  /\ UNCHANGED <<forms, iterations, last_checkpoint, good, faults, stopped,
                 provers>>

Republish ==
  /\ pc = "republish"
  /\ iterations' = num_iterations
  /\ pc' = "check"
  /\ UNCHANGED <<storeVars, num_iterations, last_checkpoint, done, good,
                 faults, stopped, provers>>

MaximumReached == num_iterations >= kMaxItersAllowed - StopMargin

CheckMaximum ==
  /\ pc = "check"
  /\ IF MaximumReached
       THEN pc' = "finished" /\ UNCHANGED last_checkpoint
       ELSE pc' = "loop" /\ last_checkpoint' = last_checkpoint + PublishStep
  /\ UNCHANGED <<storeVars, iterations, num_iterations, done, good, faults,
                 stopped, provers>>

VdfStep ==
  \/ StartBatch \/ LoopStopped \/ FastIteration \/ FastComplete
  \/ FastPremature \/ ExtraIteration \/ FastCorrupted \/ RedoIteration
  \/ Advance \/ RoundIteration \/ Switch \/ Republish \/ CheckMaximum

----------------------------------------------------------------------------
(***************************************************************************)
(* ProveTwoWeso: the thread of one request.  The recursion over depth 0, 1 *)
(* and 2 splits the iterations into three segments; the provers of the     *)
(* first two run in threads of their own, the last one in the caller.      *)
(***************************************************************************)

Round100(n) == n - (n % 100)

\* iterations1 of depth 0 and 1
FirstPart(iters) == Round100((iters * 2) \div 3)

SegmentStart(r, depth) ==
  IF depth = 0 THEN 0
  ELSE IF depth = 1 THEN FirstPart(r)
  ELSE FirstPart(r) + FirstPart(r - FirstPart(r))

SegmentEnd(r, depth) == IF depth = 2 THEN r ELSE SegmentStart(r, depth + 1)

SegmentLength(r, depth) == SegmentEnd(r, depth) - SegmentStart(r, depth)

\* Mutant of ProverL: every segment is read with the fine stride.
ProverLFine(r, depth) == 1

\* TwoWesolowskiProver: k = 10, and l is chosen by the segment's length.
ProverL(r, depth) == IF SegmentLength(r, depth) < LongSegment THEN 1 ELSE 10

\* The powers GenerateProof passes to GetForm: block i * l + j must fit into
\* the segment for some j < l.
PowersRead(r, depth) ==
  LET stride == 10 * ProverL(r, depth)
  IN  {p \in SegmentStart(r, depth) .. SegmentEnd(r, depth) :
         /\ (p - SegmentStart(r, depth)) % stride = 0
         /\ p + 10 <= SegmentEnd(r, depth)}

\* Mutant of ReadY: the iterations past the last checkpoint are left out.
ReadYCheckpoint(r, depth) == GetFormCopy(Round100(SegmentEnd(r, depth)))

\* y of a segment: the checkpoint itself, or, for the last segment, squared
\* up from the checkpoint below it.
ReadY(r, depth) ==
  IF depth < 2
    THEN GetFormCopy(SegmentEnd(r, depth))
    ELSE GetFormCopy(Round100(SegmentEnd(r, 2))) + (SegmentEnd(r, 2) % 100)

ProverState ==
  [pc : {"idle", "wait", "last", "sent", "aborted"}, depth : 0 .. 2,
   running : SUBSET (0 .. 2), finished : SUBSET (0 .. 2), y : [0 .. 2 -> Int]]

NewProver ==
  [pc |-> "idle", depth |-> 0, running |-> {}, finished |-> {},
   y |-> [d \in 0 .. 2 |-> NoForm]]

Request(r) ==
  /\ provers[r].pc = "idle" /\ ~stopped
  /\ provers' = [provers EXCEPT ![r].pc = "wait"]
  /\ UNCHANGED <<storeVars, loopVars, iterations, stopped>>

\* The wait for weso->iterations is over: read y and start the prover.
StartProver(r) ==
  LET depth == provers[r].depth
  IN  /\ provers[r].pc = "wait" /\ ~stopped
      /\ iterations >= SegmentEnd(r, depth)
      /\ provers' = [provers EXCEPT
            ![r].y[depth] = ReadY(r, depth),
            ![r].running  = @ \union {depth},
            ![r].depth    = IF depth = 2 THEN 2 ELSE depth + 1,
            ![r].pc       = IF depth = 2 THEN "last" ELSE "wait"]
      /\ UNCHANGED <<storeVars, loopVars, iterations, stopped>>

\* Mutant of EndProver: is_finished is not set.
EndProverSilent(r, depth) ==
  /\ depth \in provers[r].running
  /\ provers' = [provers EXCEPT ![r].running = @ \ {depth}]
  /\ UNCHANGED <<storeVars, loopVars, iterations, stopped>>

\* GenerateProof ends: it is interrupted by the stop signal, or it completes
\* and OnFinish sets is_finished.
EndProver(r, depth) ==
  /\ depth \in provers[r].running
  /\ \/ provers' = [provers EXCEPT ![r].running  = @ \ {depth},
                                   ![r].finished = @ \union {depth}]
     \/ /\ stopped
        /\ provers' = [provers EXCEPT ![r].running = @ \ {depth}]
  /\ UNCHANGED <<storeVars, loopVars, iterations, stopped>>

\* All three proofs are there: the proof is put together and written.
Deliver(r) ==
  /\ provers[r].pc = "last" /\ ~stopped
  /\ provers[r].finished = 0 .. 2
  /\ provers' = [provers EXCEPT ![r].pc = "sent"]
  /\ UNCHANGED <<storeVars, loopVars, iterations, stopped>>

\* The stop signal unwinds the recursion; every level joins its prover.
Unwind(r) ==
  /\ provers[r].pc \in {"wait", "last"} /\ stopped
  /\ provers[r].running = {}
  /\ provers' = [provers EXCEPT ![r].pc = "aborted"]
  /\ UNCHANGED <<storeVars, loopVars, iterations, stopped>>

\* The session sets the stop flags of the loop and of every prover.
Stop ==
  /\ ~stopped /\ stopped' = TRUE
  /\ UNCHANGED <<storeVars, loopVars, iterations, provers>>

----------------------------------------------------------------------------
Init ==
  /\ forms = [pos \in Positions |-> IF pos = 0 THEN 0 ELSE NoForm]
  /\ transition_state = EncodeTransitionState(0, -1)
  /\ kl = 10
  /\ iterations = 0
  /\ pc = "loop" /\ num_iterations = 0 /\ last_checkpoint = 0
  /\ done = 0 /\ good = TRUE /\ faults = 0
  /\ stopped = FALSE
  /\ provers = [r \in Requests |-> NewProver]

ProverStep(r) ==
  \/ StartProver(r) \/ Deliver(r) \/ Unwind(r)
  \/ \E depth \in 0 .. 2 : EndProver(r, depth)

\* The session is over: nothing is left to run.
Over ==
  /\ stopped /\ pc \in {"finished", "threw"}
  /\ \A r \in Requests : provers[r].pc \in {"idle", "sent", "aborted"}
  /\ UNCHANGED vars

Next ==
  \/ VdfStep
  \/ \E r \in Requests : Request(r) \/ ProverStep(r)
  \/ Stop
  \/ Over

Spec == Init /\ [][Next]_vars

\* The operating system runs every thread; nothing forces a client to ask or
\* to stop.
Fairness ==
  /\ WF_vars(VdfStep)
  /\ \A r \in Requests : WF_vars(ProverStep(r))

FairSpec == Spec /\ Fairness

----------------------------------------------------------------------------
(***************************************************************************)
(* Properties                                                              *)
(***************************************************************************)

TypeOK ==
  /\ forms \in [Positions -> Int]
  /\ transition_state \in [switch_index : Nat, switch_iters : Nat \union {-1}]
  /\ kl \in {10, 100}
  /\ iterations \in Nat /\ num_iterations \in Nat /\ last_checkpoint \in Nat
  /\ done \in Nat /\ faults \in Nat /\ good \in BOOLEAN /\ stopped \in BOOLEAN
  /\ pc \in {"loop", "fast", "extra", "redo", "advance", "round",
             "republish", "check", "finished", "threw"}
  /\ provers \in [Requests -> ProverState]

\* TwoWesolowskiCallback::OnIteration never throws `out of bounds': the table
\* sized for kMaxItersAllowed holds every checkpoint of the loop, although
\* the stride changes after kSwitchIters and the loop overruns its stop.
NeverOutOfBounds == pc # "threw"

\* The powers up to weso->iterations that have a place in the table.
PublishedCheckpoints ==
  {power \in {10 * n : n \in 0 .. iterations \div 10} :
     power % GetEffectiveKl(power, transition_state) = 0}

\* Whatever is published can be read: for every multiple of the stride up to
\* weso->iterations, GetFormCopy returns the form of exactly that power, in
\* spite of corrupted batches and of the change of the stride.
PublishedAreStored ==
  \A power \in PublishedCheckpoints : GetFormCopy(power) = power

\* Every form a running TwoWesolowskiProver can fetch with GetForm is the one
\* of the power it asked for: no prover uses the fine stride on checkpoints
\* that are stored with the coarse one.
ReadsAreFresh ==
  \A r \in Requests : \A depth \in provers[r].running :
    \A power \in PowersRead(r, depth) : GetFormCopy(power) = power

\* The proof that ProveTwoWeso hands to the client claims the right outputs:
\* the y of each segment is the form after exactly that many squarings.
ProofsClaimRightOutputs ==
  \A r \in Requests : provers[r].pc = "sent" =>
    \A depth \in 0 .. 2 : provers[r].y[depth] = SegmentEnd(r, depth)

\* The published checkpoints keep their positions and their contents in a step.
PublishedKept ==
  \A power \in PublishedCheckpoints :
    /\ GetPosition(power, transition_state')
         = GetPosition(power, transition_state)
    /\ forms'[GetPosition(power, transition_state)] = power

\* A published checkpoint is never overwritten: not by the slow repetition of
\* a corrupted batch, and not by a position that is used twice.
PublishedNeverOverwritten == [][PublishedKept]_vars

\* A request within reach of the loop is answered or the session is stopped.
RequestsAnswered ==
  \A r \in Requests :
    r <= kMaxItersAllowed - StopMargin
      => (provers[r].pc = "wait" ~> provers[r].pc \in {"sent", "aborted"})

=============================================================================
