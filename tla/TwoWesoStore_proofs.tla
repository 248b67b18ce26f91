------------------------- MODULE TwoWesoStore_proofs -------------------------
(***************************************************************************)
(* Proofs about TwoWesoStore, for every table size, batch size, distance   *)
(* of publications and set of requests that satisfies its assumptions.     *)
(***************************************************************************)
EXTENDS TwoWesoStore, TLAPS

\* The transition states the loop can publish.
TransitionOK(ts) ==
  /\ ts \in [switch_index : Nat, switch_iters : Nat \union {-1}]
  /\ ts.switch_iters # -1 =>
       /\ ts.switch_iters % 100 = 0
       /\ ts.switch_index = ts.switch_iters \div 10

\* Checkpoints are kept in the order of their powers: two different powers
\* that OnIteration stores never share a slot.
LEMMA PositionsIncrease ==
  ASSUME NEW ts, TransitionOK(ts), NEW p \in Nat, NEW q \in Nat, p < q,
         p % GetEffectiveKl(p, ts) = 0, q % GetEffectiveKl(q, ts) = 0
  PROVE  GetPosition(p, ts) < GetPosition(q, ts)
<1>1. CASE ts.switch_iters = -1
  BY <1>1 DEF GetPosition, GetEffectiveKl, EarlyStride
<1>2. CASE ts.switch_iters # -1
  <2> DEFINE s == ts.switch_iters
  <2>1. s \in Nat /\ s % 100 = 0 /\ ts.switch_index = s \div 10
    BY <1>2 DEF TransitionOK
  <2>2. CASE q < s
    BY <2>1, <2>2, <1>2 DEF GetPosition, GetEffectiveKl, EarlyStride
  <2>3. CASE p < s /\ s <= q
    BY <2>1, <2>3, <1>2 DEF GetPosition, GetEffectiveKl, EarlyStride
  <2>4. CASE s <= p
    BY <2>1, <2>4, <1>2 DEF GetPosition, GetEffectiveKl, EarlyStride
  <2> QED BY <2>1, <2>2, <2>3, <2>4
<1> QED BY <1>1, <1>2

----------------------------------------------------------------------------
(***************************************************************************)
(* The inductive invariant.                                                *)
(***************************************************************************)

\* While these steps run, num_iterations is the value the last publication
\* test left behind.
Computing == {"loop", "fast", "extra", "redo", "advance"}

\* The powers up to Reach have been handed to OnIteration with their forms.
Reach == IF pc = "fast" /\ ~good THEN num_iterations ELSE num_iterations + done

\* No publication is due beyond this.
Limit == kMaxItersAllowed - StopMargin + PublishStep

\* The inner loops stay within their batch, and nothing was thrown.
LoopInv ==
  /\ pc \in {"fast", "advance"} => done <= checkpoint_interval
  /\ pc \in {"extra", "redo"} => done < checkpoint_interval
  /\ pc = "round" => done <= (100 - (num_iterations % 100)) % 100
  /\ pc \in {"loop", "republish", "check", "finished"} => done = 0
  /\ pc # "threw"
  /\ iterations <= num_iterations

\* How far the loop may overrun its stopping point.
OverrunInv ==
  /\ pc \in Computing => num_iterations < Limit /\ last_checkpoint <= Limit
  /\ pc \in {"round", "republish", "check"} =>
       /\ last_checkpoint <= num_iterations
       /\ num_iterations < Limit + checkpoint_interval + 100
  /\ pc = "round" => num_iterations < Limit + checkpoint_interval

\* Where the stride may change.
SwitchInv ==
  LET s == transition_state.switch_iters
  IN  /\ TransitionOK(transition_state)
      /\ kl = IF s = -1 THEN 10 ELSE 100
      /\ s # -1 => /\ kSwitchIters <= s /\ s <= num_iterations
                   /\ s < kSwitchIters + PublishStep + checkpoint_interval + 100
      /\ s = -1 /\ pc \in Computing =>
           /\ last_checkpoint <= kSwitchIters + PublishStep
           /\ num_iterations < kSwitchIters + PublishStep
      /\ pc = "round" =>
           /\ s = -1 /\ kSwitchIters <= num_iterations
           /\ num_iterations < kSwitchIters + PublishStep + checkpoint_interval
      /\ pc = "check" /\ s = -1 => num_iterations < kSwitchIters
      /\ pc = "republish" => s # -1

\* Every checkpoint within reach is in its slot.
StoreInv ==
  \A power \in Nat :
    power <= Reach /\ power % GetEffectiveKl(power, transition_state) = 0 =>
      /\ GetPosition(power, transition_state) \in Positions
      /\ GetFormCopy(power) = power

\* A proving thread only works on segments that are published, and the y it
\* has read are right.
ReaderInv ==
  \A r \in Requests :
    /\ \A d \in provers[r].running : SegmentEnd(r, d) <= iterations
    /\ \A d \in 0 .. 2 :
         d < provers[r].depth \/ provers[r].pc \in {"last", "sent"}
           => provers[r].y[d] = SegmentEnd(r, d)

VdfInv == LoopInv /\ OverrunInv /\ SwitchInv /\ StoreInv

IInv == TypeOK /\ VdfInv /\ ReaderInv

LEMMA TransitionType ==
  TransitionOK(transition_state)
    => transition_state \in [switch_index : Nat, switch_iters : Nat \union {-1}]
  BY DEF TransitionOK

\* The table has room for the next checkpoint: the margin kept before
\* kMaxItersAllowed pays for the checkpoints stored with the fine stride
\* beyond kSwitchIters.
LEMMA NextInBounds ==
  ASSUME TypeOK, LoopInv, OverrunInv, SwitchInv,
         \/ pc = "fast" /\ done < checkpoint_interval
         \/ pc \in {"extra", "redo"}
         \/ pc = "round" /\ (num_iterations + done) % 100 # 0
  PROVE  GetPosition(num_iterations + done + 1, transition_state) \in Positions
<1> DEFINE s == transition_state.switch_iters
           p == num_iterations + done + 1
           E == PublishStep + checkpoint_interval + 100
<1>1. /\ s \in Nat \union {-1} /\ transition_state.switch_index \in Nat
      /\ p \in Nat /\ E \in Nat /\ num_iterations \in Nat /\ done \in Nat
  BY ConstantsAssumption DEF TypeOK
<1>2. CASE s = -1
  <2>1. p <= kSwitchIters + E
    <3>1. CASE pc \in Computing
      BY <1>1, <1>2, <3>1, ConstantsAssumption
      DEF LoopInv, SwitchInv, Computing, TypeOK
    <3>2. CASE pc = "round"
      <4>1. done < 100
        BY <1>1, <3>2 DEF LoopInv
      <4> QED BY <1>1, <1>2, <3>2, <4>1, ConstantsAssumption DEF SwitchInv
    <3> QED BY <3>1, <3>2 DEF Computing
  <2>2. GetPosition(p, transition_state) = p \div 10
    BY <1>2 DEF GetPosition, EarlyStride
  <2>3. p \div 10 \in 0 .. forms_capacity - 1
    BY <1>1, <2>1, ConstantsAssumption, MarginAssumption DEF forms_capacity
  <2> QED BY <2>2, <2>3 DEF Positions
<1>3. CASE s # -1
  <2>1. /\ s \in Nat /\ s % 100 = 0 /\ transition_state.switch_index = s \div 10
        /\ kSwitchIters <= s /\ s < kSwitchIters + E /\ s < p
    BY <1>1, <1>3, ConstantsAssumption DEF SwitchInv, TransitionOK
  <2>2. pc \in Computing
    BY <1>3 DEF SwitchInv, Computing
  <2>3. p <= kMaxItersAllowed - StopMargin + E
    BY <1>1, <2>2, ConstantsAssumption DEF OverrunInv, LoopInv, Limit, Computing
  <2>4. GetPosition(p, transition_state) = s \div 10 + (p - s) \div 100
    BY <1>1, <1>3, <2>1 DEF GetPosition, EarlyStride
  <2>5. s \div 10 + (p - s) \div 100 \in 0 .. forms_capacity - 1
    BY <1>1, <2>1, <2>3, ConstantsAssumption, MarginAssumption
    DEF forms_capacity
  <2> QED BY <2>4, <2>5 DEF Positions
<1> QED BY <1>1, <1>2, <1>3

(***************************************************************************)
(* What a call of OnIteration does to the table.                           *)
(***************************************************************************)

\* It keeps the checkpoints that are already there.
LEMMA OnIterationKeeps ==
  ASSUME TypeOK, LoopInv, OverrunInv, SwitchInv, StoreInv,
         NEW power \in Nat, power = num_iterations + done + 1,
         GetPosition(power, transition_state) \in Positions,
         NEW f \in Int, OnIteration(power, f),
         NEW p \in Nat, p <= Reach,
         p % GetEffectiveKl(p, transition_state) = 0
  PROVE  forms'[GetPosition(p, transition_state)] = p
<1> DEFINE pos(q) == GetPosition(q, transition_state)
<1>1. pos(p) \in Positions /\ forms[pos(p)] = p
  BY DEF StoreInv, GetFormCopy
<1>2. CASE forms' = forms
  BY <1>1, <1>2
<1>3. CASE forms' # forms
  <2>1. /\ forms' = [forms EXCEPT ![pos(power)] = f]
        /\ power % GetEffectiveKl(power, transition_state) = 0
    BY <1>3 DEF OnIteration, IsCheckpoint
  <2>2. p < power
    BY DEF Reach, TypeOK
  <2>3. pos(p) < pos(power)
    BY <2>1, <2>2, PositionsIncrease DEF SwitchInv
  <2>4. pos(p) # pos(power)
    <3>1. pos(p) \in Int /\ pos(power) \in Int
      BY <1>1 DEF Positions, forms_capacity
    <3> QED BY <2>3, <3>1
  <2> QED BY <1>1, <2>1, <2>4 DEF TypeOK
<1> QED BY <1>2, <1>3

\* It stores a checkpoint that is due.
LEMMA OnIterationStores ==
  ASSUME TypeOK, LoopInv, SwitchInv,
         NEW power \in Nat, power = num_iterations + done + 1,
         GetPosition(power, transition_state) \in Positions,
         OnIteration(power, power),
         power % GetEffectiveKl(power, transition_state) = 0
  PROVE  forms'[GetPosition(power, transition_state)] = power
<1>1. IsCheckpoint(power)
  <2> DEFINE s == transition_state.switch_iters
  <2>1. CASE s = -1
    BY <2>1 DEF SwitchInv, IsCheckpoint, GetEffectiveKl, EarlyStride
  <2>2. CASE s # -1
    <3>1. s \in Nat /\ s <= num_iterations /\ kl = 100
      BY <2>2 DEF SwitchInv, TransitionOK
    <3>2. GetEffectiveKl(power, transition_state) = 100
      BY <2>2, <3>1 DEF GetEffectiveKl, EarlyStride, TypeOK
    <3> QED BY <3>1, <3>2 DEF IsCheckpoint
  <2> QED BY <2>1, <2>2
<1>2. ~OutOfBounds(power)
  <2>1. forms_capacity \in Int
    BY ConstantsAssumption DEF forms_capacity
  <2> QED BY <2>1 DEF OutOfBounds, Positions
<1>3. power # NoForm
  BY DEF NoForm
<1>4. forms' = [forms EXCEPT ![GetPosition(power, transition_state)] = power]
  BY <1>1, <1>2, <1>3 DEF OnIteration
<1> QED BY <1>4 DEF TypeOK

\* It never throws, and the table keeps its type.
LEMMA OnIterationType ==
  ASSUME TypeOK, NEW power \in Nat, NEW f \in Int,
         GetPosition(power, transition_state) \in Positions,
         OnIteration(power, f), NEW next
  PROVE  /\ AfterIteration(power, next) = next
         /\ forms' \in [Positions -> Int]
<1>1. ~OutOfBounds(power)
  <2>1. forms_capacity \in Int
    BY ConstantsAssumption DEF forms_capacity
  <2> QED BY <2>1 DEF OutOfBounds, Positions
<1> QED BY <1>1 DEF AfterIteration, OnIteration, TypeOK

\* The table after a step of an inner loop.
LEMMA StoreStep ==
  ASSUME TypeOK, LoopInv, OverrunInv, SwitchInv, StoreInv,
         NEW power \in Nat, power = num_iterations + done + 1,
         GetPosition(power, transition_state) \in Positions,
         NEW f \in Int, OnIteration(power, f),
         transition_state' = transition_state,
         \/ Reach' <= Reach /\ Reach' \in Int
         \/ f = power /\ Reach = power - 1 /\ Reach' = power
  PROVE  StoreInv'
<1> SUFFICES ASSUME NEW p \in Nat, p <= Reach',
                    p % GetEffectiveKl(p, transition_state) = 0
             PROVE  /\ GetPosition(p, transition_state) \in Positions
                    /\ forms'[GetPosition(p, transition_state)] = p
  BY DEF StoreInv, GetFormCopy
<1>0. Reach \in Int
  BY DEF Reach, TypeOK
<1>1. CASE p <= Reach
  BY <1>1, OnIterationKeeps DEF StoreInv
<1>2. CASE p = power /\ f = power
  BY <1>2, OnIterationStores
<1> QED BY <1>0, <1>1, <1>2

\* A proving thread keeps its invariant while the loop runs.
LEMMA ReaderKeeps ==
  ASSUME TypeOK, ReaderInv, UNCHANGED provers,
         iterations' \in Nat, iterations' >= iterations
  PROVE  ReaderInv'
<1> SUFFICES ASSUME NEW r \in Requests
             PROVE  \A d \in provers[r].running : SegmentEnd(r, d) <= iterations'
  BY DEF ReaderInv, TypeOK
<1> TAKE d \in provers[r].running
<1>1. SegmentEnd(r, d) <= iterations
  BY DEF ReaderInv
<1>2. d \in 0 .. 2 /\ r \in Nat
  BY ConstantsAssumption DEF TypeOK, ProverState
<1>3. SegmentEnd(r, d) \in Int
  BY <1>2 DEF SegmentEnd, SegmentStart, FirstPart, Round100
<1> QED BY <1>1, <1>3 DEF TypeOK

LEMMA InitInv == Init => IInv
<1> SUFFICES ASSUME Init PROVE IInv
  OBVIOUS
<1> USE ConstantsAssumption, MarginAssumption DEF Init
<1>1. forms_capacity \in Nat /\ forms_capacity > 0
  BY DEF forms_capacity
<1>2. TypeOK
  <2>1. [d \in 0 .. 2 |-> NoForm] \in [0 .. 2 -> Int]
    BY DEF NoForm
  <2>2. NewProver \in ProverState
    BY <2>1 DEF NewProver, ProverState
  <2>3. provers \in [Requests -> ProverState]
    BY <2>2
  <2>4. forms \in [Positions -> Int]
    BY DEF NoForm
  <2> QED BY <2>3, <2>4 DEF TypeOK, EncodeTransitionState
<1>3. LoopInv /\ OverrunInv
  BY DEF LoopInv, OverrunInv, Limit, Computing
<1>4. SwitchInv
  BY DEF SwitchInv, TransitionOK, EncodeTransitionState, Computing
<1>5. StoreInv
  BY <1>1 DEF StoreInv, Reach, GetFormCopy, GetPosition, EarlyStride,
              GetEffectiveKl, EncodeTransitionState, Positions
<1>6. ReaderInv
  BY DEF ReaderInv, NewProver
<1> QED BY <1>2, <1>3, <1>4, <1>5, <1>6 DEF IInv, VdfInv


\* The inner loops: every call of OnIteration preserves the invariant.
LEMMA IterationInv ==
  ASSUME IInv,
         FastIteration \/ ExtraIteration \/ RedoIteration \/ RoundIteration
  PROVE  IInv'
<1> DEFINE power == num_iterations + done + 1
<1> USE DEF IInv, VdfInv
<1>1. power \in Nat /\ NoForm \in Int
  BY DEF TypeOK, NoForm
<1>2. GetPosition(power, transition_state) \in Positions
  BY NextInBounds DEF FastIteration, ExtraIteration, RedoIteration, RoundIteration
<1>3. UNCHANGED <<transition_state, kl, iterations, num_iterations,
                  last_checkpoint, faults, stopped, provers>>
      /\ done' = done + 1
  BY DEF FastIteration, ExtraIteration, RedoIteration, RoundIteration
<1>4. ReaderInv'
  BY <1>3, ReaderKeeps DEF TypeOK
<1>5. CASE FastIteration
  <2> DEFINE f == IF good' THEN power ELSE NoForm
  <2>1. f \in Int /\ OnIteration(power, f) /\ pc' = AfterIteration(power, "fast")
        /\ good' \in BOOLEAN /\ (good' => good)
    BY <1>1, <1>5 DEF FastIteration, TypeOK
  <2>2. pc' = "fast" /\ forms' \in [Positions -> Int]
    BY <1>1, <1>2, <2>1, OnIterationType
  <2>3. TypeOK'
    BY <1>3, <2>1, <2>2 DEF TypeOK
  <2>4. LoopInv'
    BY <1>3, <1>5, <2>2, ConstantsAssumption DEF LoopInv, FastIteration, TypeOK
  <2>5. OverrunInv' /\ SwitchInv'
    BY <1>3, <1>5, <2>2 DEF OverrunInv, SwitchInv, Computing, Limit, FastIteration
  <2>6. \/ Reach' <= Reach /\ Reach' \in Int
        \/ f = power /\ Reach = power - 1 /\ Reach' = power
    BY <1>1, <1>3, <1>5, <2>1, <2>2 DEF Reach, FastIteration, TypeOK
  <2>7. StoreInv'
    BY <1>1, <1>2, <1>3, <2>1, <2>6, StoreStep
  <2> QED BY <1>4, <2>3, <2>4, <2>5, <2>7
<1>6. CASE ExtraIteration
  <2> DEFINE next == "advance"
  <2>1. OnIteration(power, power) /\ pc' = AfterIteration(power, next)
        /\ UNCHANGED good
    BY <1>6 DEF ExtraIteration
  <2>2. pc' = next /\ forms' \in [Positions -> Int]
    BY <1>1, <1>2, <2>1, OnIterationType
  <2>3. TypeOK'
    BY <1>3, <2>1, <2>2 DEF TypeOK
  <2>4. LoopInv'
    BY <1>3, <1>6, <2>2, ConstantsAssumption DEF LoopInv, ExtraIteration, TypeOK
  <2>5. OverrunInv' /\ SwitchInv'
    BY <1>3, <1>6, <2>2 DEF OverrunInv, SwitchInv, Computing, Limit, ExtraIteration
  <2>6. Reach = power - 1 /\ Reach' = power
    BY <1>1, <1>3, <1>6, <2>2 DEF Reach, ExtraIteration, TypeOK
  <2>7. StoreInv'
    BY <1>1, <1>2, <1>3, <2>1, <2>6, StoreStep
  <2> QED BY <1>4, <2>3, <2>4, <2>5, <2>7
<1>7. CASE RedoIteration
  <2> DEFINE next == IF done + 1 = checkpoint_interval THEN "advance" ELSE "redo"
  <2>1. OnIteration(power, power) /\ pc' = AfterIteration(power, next)
        /\ UNCHANGED good
    BY <1>7 DEF RedoIteration
  <2>2. pc' = next /\ forms' \in [Positions -> Int]
    BY <1>1, <1>2, <2>1, OnIterationType
  <2>3. TypeOK'
    BY <1>3, <2>1, <2>2 DEF TypeOK
  <2>4. LoopInv'
    BY <1>3, <1>7, <2>2, ConstantsAssumption DEF LoopInv, RedoIteration, TypeOK
  <2>5. OverrunInv' /\ SwitchInv'
    BY <1>3, <1>7, <2>2 DEF OverrunInv, SwitchInv, Computing, Limit, RedoIteration
  <2>6. Reach = power - 1 /\ Reach' = power
    BY <1>1, <1>3, <1>7, <2>2 DEF Reach, RedoIteration, TypeOK
  <2>7. StoreInv'
    BY <1>1, <1>2, <1>3, <2>1, <2>6, StoreStep
  <2> QED BY <1>4, <2>3, <2>4, <2>5, <2>7
<1>8. CASE RoundIteration
  <2> DEFINE next == "round"
  <2>1. OnIteration(power, power) /\ pc' = AfterIteration(power, next)
        /\ UNCHANGED good
    BY <1>8 DEF RoundIteration
  <2>2. pc' = next /\ forms' \in [Positions -> Int]
    BY <1>1, <1>2, <2>1, OnIterationType
  <2>3. TypeOK'
    BY <1>3, <2>1, <2>2 DEF TypeOK
  <2>4. LoopInv'
    BY <1>3, <1>8, <2>2, ConstantsAssumption DEF LoopInv, RoundIteration, TypeOK
  <2>5. OverrunInv' /\ SwitchInv'
    BY <1>3, <1>8, <2>2 DEF OverrunInv, SwitchInv, Computing, Limit, RoundIteration
  <2>6. Reach = power - 1 /\ Reach' = power
    BY <1>1, <1>3, <1>8, <2>2 DEF Reach, RoundIteration, TypeOK
  <2>7. StoreInv'
    BY <1>1, <1>2, <1>3, <2>1, <2>6, StoreStep
  <2> QED BY <1>4, <2>3, <2>4, <2>5, <2>7
<1> QED BY <1>5, <1>6, <1>7, <1>8

\* The other steps of the squaring thread.
LEMMA LoopStepInv ==
  ASSUME IInv,
         \/ StartBatch \/ LoopStopped \/ FastComplete \/ FastPremature
         \/ FastCorrupted \/ Advance \/ Switch \/ Republish \/ CheckMaximum
  PROVE  IInv'
<1> USE DEF IInv, VdfInv
<1> USE ConstantsAssumption, MarginAssumption
<1>1. UNCHANGED <<forms, stopped, provers>>
  BY DEF StartBatch, LoopStopped, FastComplete, FastPremature, FastCorrupted,
         Advance, Switch, Republish, CheckMaximum, storeVars
<1>2. ASSUME UNCHANGED transition_state, Reach' <= Reach, Reach' \in Int
      PROVE  StoreInv'
  <2>1. Reach \in Int
    BY DEF Reach, TypeOK
  <2> QED BY <1>1, <1>2, <2>1 DEF StoreInv, GetFormCopy
<1>3. CASE StartBatch
  <2> USE <1>3 DEF StartBatch
  <2>1. TypeOK'
    BY <1>1 DEF TypeOK, storeVars
  <2>2. LoopInv' /\ OverrunInv' /\ SwitchInv'
    BY DEF LoopInv, OverrunInv, SwitchInv, Computing, Limit, TypeOK, storeVars
  <2>3. StoreInv'
    BY <1>2 DEF Reach, LoopInv, TypeOK, storeVars
  <2> QED BY <1>1, <2>1, <2>2, <2>3, ReaderKeeps DEF TypeOK
<1>4. CASE LoopStopped
  <2> USE <1>4 DEF LoopStopped
  <2>1. TypeOK'
    BY <1>1 DEF TypeOK, storeVars
  <2>2. LoopInv' /\ OverrunInv' /\ SwitchInv'
    BY DEF LoopInv, OverrunInv, SwitchInv, Computing, Limit, TypeOK, storeVars
  <2>3. StoreInv'
    BY <1>2 DEF Reach, LoopInv, TypeOK, storeVars
  <2> QED BY <1>1, <2>1, <2>2, <2>3, ReaderKeeps DEF TypeOK
<1>5. CASE FastComplete
  <2> USE <1>5 DEF FastComplete
  <2>1. TypeOK'
    BY <1>1 DEF TypeOK, storeVars
  <2>2. LoopInv' /\ OverrunInv' /\ SwitchInv'
    BY DEF LoopInv, OverrunInv, SwitchInv, Computing, Limit, TypeOK, storeVars
  <2>3. StoreInv'
    BY <1>2 DEF Reach, LoopInv, TypeOK, storeVars
  <2> QED BY <1>1, <2>1, <2>2, <2>3, ReaderKeeps DEF TypeOK
<1>6. CASE FastPremature
  <2> USE <1>6 DEF FastPremature
  <2>1. TypeOK'
    BY <1>1 DEF TypeOK, storeVars
  <2>2. LoopInv' /\ OverrunInv' /\ SwitchInv'
    BY DEF LoopInv, OverrunInv, SwitchInv, Computing, Limit, TypeOK, storeVars
  <2>3. StoreInv'
    BY <1>2 DEF Reach, LoopInv, TypeOK, storeVars
  <2> QED BY <1>1, <2>1, <2>2, <2>3, ReaderKeeps DEF TypeOK
<1>7. CASE FastCorrupted
  <2> USE <1>7 DEF FastCorrupted
  <2>1. TypeOK'
    BY <1>1 DEF TypeOK, storeVars
  <2>2. LoopInv' /\ OverrunInv' /\ SwitchInv'
    BY DEF LoopInv, OverrunInv, SwitchInv, Computing, Limit, TypeOK, storeVars
  <2>3. StoreInv'
    BY <1>2 DEF Reach, LoopInv, TypeOK, storeVars
  <2> QED BY <1>1, <2>1, <2>2, <2>3, ReaderKeeps DEF TypeOK
<1>8. CASE Advance
  <2> USE <1>8 DEF Advance
  <2>1. TypeOK'
    BY <1>1 DEF TypeOK, storeVars
  <2>2. LoopInv'
    BY DEF LoopInv, TypeOK
  <2>3. OverrunInv'
    BY DEF LoopInv, OverrunInv, Computing, Limit, TypeOK, MaximumReached
  <2>4. SwitchInv'
    BY DEF LoopInv, SwitchInv, Computing, TypeOK, storeVars, LargeConstants,
           MaximumReached, OverrunInv
  <2>5. StoreInv'
    BY <1>2 DEF Reach, LoopInv, TypeOK, storeVars
  <2>6. iterations' >= iterations
    BY DEF LoopInv, TypeOK
  <2> QED BY <1>1, <2>1, <2>2, <2>3, <2>4, <2>5, <2>6, ReaderKeeps DEF TypeOK
<1>9. CASE Republish
  <2> USE <1>9 DEF Republish
  <2>1. TypeOK'
    BY <1>1 DEF TypeOK, storeVars
  <2>2. LoopInv'
    BY DEF LoopInv, TypeOK
  <2>3. OverrunInv'
    BY DEF LoopInv, OverrunInv, Computing, Limit, TypeOK, MaximumReached
  <2>4. SwitchInv'
    BY DEF LoopInv, SwitchInv, Computing, TypeOK, storeVars, LargeConstants,
           MaximumReached, OverrunInv
  <2>5. StoreInv'
    BY <1>2 DEF Reach, LoopInv, TypeOK, storeVars
  <2>6. iterations' >= iterations
    BY DEF LoopInv, TypeOK
  <2> QED BY <1>1, <2>1, <2>2, <2>3, <2>4, <2>5, <2>6, ReaderKeeps DEF TypeOK
<1>10. CASE CheckMaximum
  <2> USE <1>10 DEF CheckMaximum
  <2>1. TypeOK'
    BY <1>1 DEF TypeOK, storeVars
  <2>2. LoopInv'
    BY DEF LoopInv, TypeOK
  <2>3. OverrunInv'
    BY DEF LoopInv, OverrunInv, Computing, Limit, TypeOK, MaximumReached
  <2>4. SwitchInv'
    BY DEF LoopInv, SwitchInv, Computing, TypeOK, storeVars, LargeConstants,
           MaximumReached, OverrunInv
  <2>5. StoreInv'
    BY <1>2 DEF Reach, LoopInv, TypeOK, storeVars
  <2>6. iterations' >= iterations
    BY DEF LoopInv, TypeOK
  <2> QED BY <1>1, <2>1, <2>2, <2>3, <2>4, <2>5, <2>6, ReaderKeeps DEF TypeOK
<1>11. CASE Switch
  <2> DEFINE s == num_iterations + done
  <2> USE <1>11 DEF Switch, IncreaseConstants, EncodeTransitionState
  <2>1. TypeOK'
    BY <1>1 DEF TypeOK
  <2>2. LoopInv' /\ OverrunInv'
    BY DEF LoopInv, OverrunInv, Computing, Limit, TypeOK
  <2>3. SwitchInv'
    BY DEF LoopInv, SwitchInv, TransitionOK, Computing, TypeOK
  <2>4. StoreInv'
    <3> SUFFICES ASSUME NEW p \in Nat, p <= s,
                        p % GetEffectiveKl(p, transition_state') = 0
                 PROVE  /\ GetPosition(p, transition_state') \in Positions
                        /\ forms[GetPosition(p, transition_state')] = p
      BY <1>1 DEF StoreInv, GetFormCopy, Reach, TypeOK
    <3>1. /\ transition_state.switch_iters = -1 /\ s \in Nat /\ s % 100 = 0
          /\ transition_state'.switch_iters = s
          /\ transition_state'.switch_index = s \div 10
      BY DEF SwitchInv, TypeOK
    <3>2. p % 10 = 0 /\ GetPosition(p, transition_state') = p \div 10
      <4> HIDE <1>11 DEF s, Switch
      <4>1. CASE p < s
        BY <3>1, <4>1 DEF GetPosition, GetEffectiveKl, EarlyStride
      <4>2. CASE p = s
        BY <3>1, <4>2 DEF GetPosition, GetEffectiveKl, EarlyStride
      <4> QED BY <3>1, <4>1, <4>2
    <3>3. p <= Reach /\ p % GetEffectiveKl(p, transition_state) = 0
          /\ GetPosition(p, transition_state) = p \div 10
      BY <3>1, <3>2 DEF Reach, GetPosition, GetEffectiveKl, EarlyStride
    <3> QED BY <3>2, <3>3 DEF StoreInv, GetFormCopy
  <2> QED BY <1>1, <2>1, <2>2, <2>3, <2>4, ReaderKeeps DEF TypeOK
<1> QED BY <1>3, <1>4, <1>5, <1>6, <1>7, <1>8, <1>9, <1>10, <1>11

----------------------------------------------------------------------------
(***************************************************************************)
(* The proving threads.                                                    *)
(***************************************************************************)

\* Facts about the three segments of a request.
LEMMA SegmentFacts ==
  ASSUME NEW r \in Requests, NEW d \in 0 .. 2
  PROVE  /\ SegmentStart(r, d) \in Nat /\ SegmentStart(r, d) % 100 = 0
         /\ SegmentEnd(r, d) \in Nat /\ SegmentStart(r, d) <= SegmentEnd(r, d)
         /\ d < 2 => SegmentEnd(r, d) % 100 = 0
<1>1. r \in Nat
  BY ConstantsAssumption
<1> DEFINE a == FirstPart(r)
           b == FirstPart(r - a)
<1>2. a \in Nat /\ a % 100 = 0 /\ 3 * a <= 2 * r
  BY <1>1 DEF FirstPart, Round100
<1>3. b \in Nat /\ b % 100 = 0 /\ 3 * b <= 2 * (r - a)
  BY <1>1, <1>2 DEF FirstPart, Round100
<1> HIDE DEF a, b
<1>4. SegmentStart(r, 0) = 0 /\ SegmentStart(r, 1) = a
      /\ SegmentStart(r, 2) = a + b
  BY DEF SegmentStart, a, b
<1>5. SegmentEnd(r, 0) = a /\ SegmentEnd(r, 1) = a + b /\ SegmentEnd(r, 2) = r
  BY <1>4 DEF SegmentEnd
<1>6. CASE d = 0
  BY <1>1, <1>2, <1>4, <1>5, <1>6
<1>7. CASE d = 1
  BY <1>1, <1>2, <1>3, <1>4, <1>5, <1>7
<1>8. CASE d = 2
  BY <1>1, <1>2, <1>3, <1>4, <1>5, <1>8
<1> QED BY <1>6, <1>7, <1>8

\* A multiple of 100 that is published has its form in the table, whatever
\* the stride.
LEMMA HundredsStored ==
  ASSUME IInv, NEW p \in Nat, p % 100 = 0, p <= iterations
  PROVE  GetFormCopy(p) = p
<1>1. p % GetEffectiveKl(p, transition_state) = 0
  BY DEF GetEffectiveKl
<1>2. p <= Reach
  BY DEF IInv, VdfInv, LoopInv, Reach, TypeOK
<1> QED BY <1>1, <1>2 DEF IInv, VdfInv, StoreInv

\* What ProveTwoWeso reads as the y of a segment is the right form.
LEMMA ReadYCorrect ==
  ASSUME IInv, NEW r \in Requests, NEW d \in 0 .. 2,
         iterations >= SegmentEnd(r, d)
  PROVE  ReadY(r, d) = SegmentEnd(r, d)
<1>1. iterations \in Nat /\ SegmentEnd(r, d) \in Nat
  BY SegmentFacts DEF IInv, TypeOK
<1>2. CASE d < 2
  BY <1>1, <1>2, SegmentFacts, HundredsStored DEF ReadY
<1>3. CASE d = 2
  <2> DEFINE e == SegmentEnd(r, 2)
  <2>0. e \in Nat /\ e <= iterations /\ iterations \in Nat
    BY <1>1, <1>3
  <2>1. Round100(e) \in Nat /\ Round100(e) % 100 = 0 /\ Round100(e) <= iterations
        /\ Round100(e) + (e % 100) = e
    <3> HIDE DEF e
    <3> QED BY <2>0 DEF Round100
  <2>2. GetFormCopy(Round100(e)) = Round100(e)
    BY <2>1, HundredsStored
  <2> QED BY <1>3, <2>1, <2>2 DEF ReadY
<1> QED BY <1>2, <1>3

\* Steps that leave the loop and the table alone.
LEMMA LoopUntouched ==
  ASSUME IInv, UNCHANGED <<storeVars, loopVars, iterations>>,
         stopped' \in BOOLEAN, provers' \in [Requests -> ProverState]
  PROVE  TypeOK' /\ VdfInv'
<1> USE DEF storeVars, loopVars
<1>1. TypeOK'
  BY DEF IInv, TypeOK
<1>2. LoopInv' /\ OverrunInv' /\ SwitchInv'
  BY DEF IInv, VdfInv, LoopInv, OverrunInv, SwitchInv
<1>3. StoreInv'
  BY DEF IInv, VdfInv, StoreInv, GetFormCopy, Reach
<1> QED BY <1>1, <1>2, <1>3 DEF VdfInv

LEMMA ProverStepInv ==
  ASSUME IInv, NEW r \in Requests, Request(r) \/ ProverStep(r)
  PROVE  IInv'
<1> USE DEF ProverState
<1>0. provers[r] \in ProverState
  BY DEF IInv, TypeOK
<1>1. UNCHANGED <<storeVars, loopVars, iterations, stopped>>
  BY DEF ProverStep, Request, StartProver, EndProver, Deliver, Unwind
<1>2. ASSUME NEW q, q \in ProverState, provers' = [provers EXCEPT ![r] = q],
             \A d \in q.running : SegmentEnd(r, d) <= iterations,
             \A d \in 0 .. 2 : d < q.depth \/ q.pc \in {"last", "sent"}
                                => q.y[d] = SegmentEnd(r, d)
      PROVE  IInv'
  <2>1. provers' \in [Requests -> ProverState]
    BY <1>2 DEF IInv, TypeOK
  <2>2. stopped' \in BOOLEAN
    BY <1>1 DEF IInv, TypeOK
  <2>3. TypeOK' /\ VdfInv'
    BY <1>1, <2>1, <2>2, LoopUntouched
  <2>4. ReaderInv'
    <3> SUFFICES ASSUME NEW t \in Requests
          PROVE  /\ \A d \in provers'[t].running : SegmentEnd(t, d) <= iterations
                 /\ \A d \in 0 .. 2 :
                      d < provers'[t].depth \/ provers'[t].pc \in {"last", "sent"}
                        => provers'[t].y[d] = SegmentEnd(t, d)
      BY <1>1 DEF ReaderInv
    <3>1. CASE t = r
      BY <1>2, <3>1 DEF IInv, TypeOK
    <3>2. CASE t # r
      <4>1. provers'[t] = provers[t]
        BY <1>2, <3>2 DEF IInv, TypeOK
      <4> QED BY <4>1 DEF IInv, ReaderInv
    <3> QED BY <3>1, <3>2
  <2> QED BY <2>3, <2>4 DEF IInv
<1>3. /\ \A d \in provers[r].running : SegmentEnd(r, d) <= iterations
      /\ \A d \in 0 .. 2 :
           d < provers[r].depth \/ provers[r].pc \in {"last", "sent"}
             => provers[r].y[d] = SegmentEnd(r, d)
  BY DEF IInv, ReaderInv
<1>4. CASE Request(r)
  <2> DEFINE q == [provers[r] EXCEPT !.pc = "wait"]
  <2>1. q \in ProverState /\ provers' = [provers EXCEPT ![r] = q]
    BY <1>0, <1>4 DEF Request, IInv, TypeOK
  <2>2. /\ q.y = provers[r].y /\ q.running = provers[r].running
        /\ q.depth = provers[r].depth
        /\ q.pc \in {"last", "sent"} => provers[r].pc \in {"last", "sent"}
    BY <1>0, <1>4 DEF Request
  <2> HIDE DEF q
  <2>3. /\ \A d \in q.running : SegmentEnd(r, d) <= iterations
        /\ \A d \in 0 .. 2 : d < q.depth \/ q.pc \in {"last", "sent"}
                             => q.y[d] = SegmentEnd(r, d)
    BY <1>3, <2>2
  <2> QED BY <1>2, <2>1, <2>3
<1>5. CASE StartProver(r)
  <2> DEFINE dep == provers[r].depth
             q == [provers[r] EXCEPT
                     !.y[dep]   = ReadY(r, dep),
                     !.running  = @ \union {dep},
                     !.depth    = IF dep = 2 THEN 2 ELSE dep + 1,
                     !.pc       = IF dep = 2 THEN "last" ELSE "wait"]
  <2>1. dep \in 0 .. 2 /\ iterations >= SegmentEnd(r, dep)
        /\ provers[r].pc = "wait" /\ provers' = [provers EXCEPT ![r] = q]
    BY <1>0, <1>5 DEF StartProver, IInv, TypeOK
  <2>2. ReadY(r, dep) = SegmentEnd(r, dep) /\ SegmentEnd(r, dep) \in Nat
        /\ iterations \in Nat
    BY <2>1, ReadYCorrect, SegmentFacts DEF IInv, TypeOK
  <2>3. /\ q.y = [provers[r].y EXCEPT ![dep] = ReadY(r, dep)]
        /\ q.running = provers[r].running \union {dep}
        /\ q.finished = provers[r].finished
        /\ q.depth = IF dep = 2 THEN 2 ELSE dep + 1
        /\ q.pc = IF dep = 2 THEN "last" ELSE "wait"
    BY <1>0
  <2>4. q \in ProverState
    <3> DEFINE y1 == [provers[r].y EXCEPT ![dep] = ReadY(r, dep)]
    <3>1. y1 \in [0 .. 2 -> Int]
      BY <1>0, <2>1, <2>2
    <3> DEFINE qa == [provers[r] EXCEPT !.y = y1]
               qb == [qa EXCEPT !.running = provers[r].running \union {dep}]
               qc == [qb EXCEPT !.depth = IF dep = 2 THEN 2 ELSE dep + 1]
               qd == [qc EXCEPT !.pc = IF dep = 2 THEN "last" ELSE "wait"]
    <3>2. qa \in ProverState
      BY <1>0, <3>1
    <3>3. qb \in ProverState
      <4> HIDE DEF qa
      <4> QED BY <1>0, <2>1, <3>2
    <3>4. qc \in ProverState
      <4> HIDE DEF qb
      <4> QED BY <1>0, <2>1, <3>3
    <3>5. qd \in ProverState
      <4> HIDE DEF qc
      <4> QED BY <3>4
    <3>6. q = qd
      BY <1>0
    <3> QED BY <3>5, <3>6
  <2> HIDE DEF q
  <2>5. \A d \in q.running : SegmentEnd(r, d) <= iterations
    BY <1>3, <2>1, <2>2, <2>3
  <2>6. ASSUME NEW d \in 0 .. 2, d < q.depth \/ q.pc \in {"last", "sent"}
        PROVE  q.y[d] = SegmentEnd(r, d)
    <3>1. d < dep \/ d = dep
      BY <2>1, <2>3, <2>6
    <3> QED BY <1>0, <1>3, <2>1, <2>2, <2>3, <2>6, <3>1
  <2> QED BY <1>2, <2>1, <2>4, <2>5, <2>6
<1>6. ASSUME NEW e \in 0 .. 2, EndProver(r, e)
      PROVE  IInv'
  <2> DEFINE q1 == [provers[r] EXCEPT !.running = @ \ {e},
                                      !.finished = @ \union {e}]
             q2 == [provers[r] EXCEPT !.running = @ \ {e}]
  <2>1. CASE provers' = [provers EXCEPT ![r] = q1]
    <3>1. /\ q1.y = provers[r].y
          /\ q1.running \subseteq provers[r].running
          /\ q1.depth = provers[r].depth /\ q1.pc = provers[r].pc
      BY <1>0
    <3>2. q1 \in ProverState
      BY <1>0
    <3> HIDE DEF q1
    <3>3. /\ \A d \in q1.running : SegmentEnd(r, d) <= iterations
          /\ \A d \in 0 .. 2 : d < q1.depth \/ q1.pc \in {"last", "sent"}
                               => q1.y[d] = SegmentEnd(r, d)
      BY <1>3, <3>1
    <3> QED BY <1>2, <2>1, <3>2, <3>3
  <2>2. CASE provers' = [provers EXCEPT ![r] = q2]
    <3>1. /\ q2.y = provers[r].y
          /\ q2.running \subseteq provers[r].running
          /\ q2.depth = provers[r].depth /\ q2.pc = provers[r].pc
      BY <1>0
    <3>2. q2 \in ProverState
      BY <1>0
    <3> HIDE DEF q2
    <3>3. /\ \A d \in q2.running : SegmentEnd(r, d) <= iterations
          /\ \A d \in 0 .. 2 : d < q2.depth \/ q2.pc \in {"last", "sent"}
                               => q2.y[d] = SegmentEnd(r, d)
      BY <1>3, <3>1
    <3> QED BY <1>2, <2>2, <3>2, <3>3
  <2> QED BY <1>0, <1>6, <2>1, <2>2 DEF EndProver, IInv, TypeOK
<1>7. CASE Deliver(r)
  <2> DEFINE q == [provers[r] EXCEPT !.pc = "sent"]
  <2>1. q \in ProverState /\ provers' = [provers EXCEPT ![r] = q]
    BY <1>0, <1>7 DEF Deliver, IInv, TypeOK
  <2>2. /\ q.y = provers[r].y /\ q.running = provers[r].running
        /\ q.depth = provers[r].depth
        /\ q.pc \in {"last", "sent"} => provers[r].pc \in {"last", "sent"}
    BY <1>0, <1>7 DEF Deliver
  <2> HIDE DEF q
  <2>3. /\ \A d \in q.running : SegmentEnd(r, d) <= iterations
        /\ \A d \in 0 .. 2 : d < q.depth \/ q.pc \in {"last", "sent"}
                             => q.y[d] = SegmentEnd(r, d)
    BY <1>3, <2>2
  <2> QED BY <1>2, <2>1, <2>3
<1>8. CASE Unwind(r)
  <2> DEFINE q == [provers[r] EXCEPT !.pc = "aborted"]
  <2>1. q \in ProverState /\ provers' = [provers EXCEPT ![r] = q]
    BY <1>0, <1>8 DEF Unwind, IInv, TypeOK
  <2>2. /\ q.y = provers[r].y /\ q.running = provers[r].running
        /\ q.depth = provers[r].depth
        /\ q.pc \in {"last", "sent"} => provers[r].pc \in {"last", "sent"}
    BY <1>0, <1>8 DEF Unwind
  <2> HIDE DEF q
  <2>3. /\ \A d \in q.running : SegmentEnd(r, d) <= iterations
        /\ \A d \in 0 .. 2 : d < q.depth \/ q.pc \in {"last", "sent"}
                             => q.y[d] = SegmentEnd(r, d)
    BY <1>3, <2>2
  <2> QED BY <1>2, <2>1, <2>3
<1> QED BY <1>4, <1>5, <1>6, <1>7, <1>8 DEF ProverStep

\* IInv is inductive.
LEMMA NextInv == IInv /\ [Next]_vars => IInv'
<1> SUFFICES ASSUME IInv, [Next]_vars PROVE IInv'
  OBVIOUS
<1>1. CASE VdfStep
  BY <1>1, LoopStepInv, IterationInv DEF VdfStep
<1>2. CASE \E r \in Requests : Request(r) \/ ProverStep(r)
  BY <1>2, ProverStepInv
<1>3. CASE Stop \/ UNCHANGED vars
  <2>1. UNCHANGED <<storeVars, loopVars, iterations, provers>>
        /\ stopped' \in BOOLEAN /\ provers' \in [Requests -> ProverState]
    BY <1>3 DEF Stop, vars, IInv, TypeOK
  <2>2. TypeOK' /\ VdfInv'
    BY <2>1, LoopUntouched
  <2>3. ReaderInv'
    BY <2>1 DEF IInv, ReaderInv
  <2> QED BY <2>2, <2>3 DEF IInv
<1> QED BY <1>1, <1>2, <1>3 DEF Next, Over

LEMMA InvAlways == Spec => []IInv
  BY InitInv, NextInv, PTL DEF Spec

----------------------------------------------------------------------------
(***************************************************************************)
(* What follows from the invariant.                                        *)
(***************************************************************************)

\* A published checkpoint is within reach.
LEMMA PublishedReached ==
  ASSUME IInv, NEW p \in PublishedCheckpoints
  PROVE  /\ p \in Nat /\ p <= iterations /\ p <= Reach
         /\ p % GetEffectiveKl(p, transition_state) = 0
<1>1. PICK n \in 0 .. iterations \div 10 : p = 10 * n
  BY DEF PublishedCheckpoints
<1>2. p \in Nat /\ p <= iterations
  BY <1>1 DEF IInv, TypeOK
<1>3. p <= Reach
  BY <1>2 DEF IInv, VdfInv, LoopInv, Reach, TypeOK
<1> QED BY <1>2, <1>3 DEF PublishedCheckpoints

LEMMA StoredFromInv == IInv => PublishedAreStored
  BY PublishedReached DEF PublishedAreStored, IInv, VdfInv, StoreInv

\* A segment that is read with the fine stride ends before the stride can
\* change: the last segment of a request is at least a ninth of it, and the
\* other two are longer.
LEMMA ShortSegmentsAreEarly ==
  ASSUME NEW r \in Requests, NEW d \in 0 .. 2, SegmentLength(r, d) < LongSegment
  PROVE  SegmentEnd(r, d) <= kSwitchIters
<1>1. r \in Nat /\ LongSegment \in Nat /\ kSwitchIters \in Nat
  BY ConstantsAssumption
<1> DEFINE a == FirstPart(r)
           b == FirstPart(r - a)
<1>2. a \in Nat /\ 3 * a <= 2 * r
  BY <1>1 DEF FirstPart, Round100
<1>3. b \in Nat /\ 3 * b <= 2 * (r - a) /\ 2 * (r - a) < 3 * b + 303
  BY <1>1, <1>2 DEF FirstPart, Round100
<1> HIDE DEF a, b
<1>4. SegmentEnd(r, 0) = a /\ SegmentEnd(r, 1) = a + b /\ SegmentEnd(r, 2) = r
      /\ SegmentStart(r, 0) = 0 /\ SegmentStart(r, 1) = a
      /\ SegmentStart(r, 2) = a + b
  BY DEF SegmentEnd, SegmentStart, a, b
<1>5. CASE d = 0
  BY <1>1, <1>2, <1>4, <1>5, MarginAssumption DEF SegmentLength
<1>6. CASE d = 1
  <2>1. b < LongSegment
    BY <1>1, <1>2, <1>3, <1>4, <1>6 DEF SegmentLength
  <2>2. a <= 2 * (r - a)
    BY <1>1, <1>2
  <2> QED BY <1>1, <1>2, <1>3, <1>4, <1>6, <2>1, <2>2, MarginAssumption
<1>7. CASE d = 2
  BY <1>1, <1>2, <1>3, <1>4, <1>7, MarginAssumption DEF SegmentLength
<1> QED BY <1>5, <1>6, <1>7

LEMMA FreshFromInv == IInv => ReadsAreFresh
<1> SUFFICES ASSUME IInv, NEW r \in Requests, NEW d \in provers[r].running,
                    NEW p \in PowersRead(r, d)
             PROVE  GetFormCopy(p) = p
  BY DEF ReadsAreFresh
<1>1. d \in 0 .. 2 /\ SegmentEnd(r, d) <= iterations /\ iterations \in Nat
  BY DEF IInv, TypeOK, ProverState, ReaderInv
<1> DEFINE start == SegmentStart(r, d)
           end == SegmentEnd(r, d)
           s == transition_state.switch_iters
<1>2. start \in Nat /\ start % 100 = 0 /\ end \in Nat
  BY <1>1, SegmentFacts
<1>3. p \in start .. end /\ (p - start) % (10 * ProverL(r, d)) = 0
      /\ p + 10 <= end
  BY DEF PowersRead
<1>4. p \in Nat /\ p < end /\ p < iterations
  BY <1>1, <1>2, <1>3
<1>5. p % GetEffectiveKl(p, transition_state) = 0
  <2>1. CASE SegmentLength(r, d) < LongSegment
    <3>1. (p - start) % 10 = 0
      BY <1>3, <2>1 DEF ProverL
    <3>2. p % 10 = 0
      <4> HIDE DEF start
      <4> QED BY <1>2, <1>4, <3>1
    <3>3. p < kSwitchIters
      BY <1>1, <1>2, <1>4, <2>1, ShortSegmentsAreEarly, ConstantsAssumption
    <3>4. s = -1 \/ kSwitchIters <= s
      BY DEF IInv, VdfInv, SwitchInv
    <3>5. EarlyStride(p, transition_state)
      BY <1>4, <3>3, <3>4, ConstantsAssumption DEF EarlyStride, IInv, TypeOK
    <3> QED BY <3>2, <3>5 DEF GetEffectiveKl
  <2>2. CASE ~(SegmentLength(r, d) < LongSegment)
    <3>1. (p - start) % 100 = 0
      BY <1>3, <2>2 DEF ProverL
    <3>2. p % 100 = 0
      <4> HIDE DEF start
      <4> QED BY <1>2, <1>4, <3>1
    <3> QED BY <1>4, <3>2 DEF GetEffectiveKl
  <2> QED BY <2>1, <2>2
<1>6. p <= Reach
  BY <1>4 DEF IInv, VdfInv, LoopInv, Reach, TypeOK
<1> QED BY <1>4, <1>5, <1>6 DEF IInv, VdfInv, StoreInv

\* A step keeps the published checkpoints and their positions.
LEMMA StepKeepsPublished ==
  ASSUME IInv, IInv', [Next]_vars, NEW p \in PublishedCheckpoints
  PROVE  /\ GetPosition(p, transition_state') = GetPosition(p, transition_state)
         /\ forms'[GetPosition(p, transition_state)] = p
<1>1. /\ p \in Nat /\ p <= iterations /\ p <= Reach
      /\ p % GetEffectiveKl(p, transition_state) = 0
  BY PublishedReached
<1>2. p <= Reach'
  <2>1. iterations' >= iterations
    <3>1. CASE Advance
      BY <3>1 DEF Advance, IInv, VdfInv, LoopInv, TypeOK
    <3>2. CASE Republish
      BY <3>2 DEF Republish, IInv, VdfInv, LoopInv, TypeOK
    <3>3. CASE iterations' = iterations
      BY <3>3 DEF IInv, TypeOK
    <3> QED
      BY <3>1, <3>2, <3>3 DEF Next, VdfStep, StartBatch, LoopStopped,
         FastIteration, FastComplete, FastPremature, ExtraIteration,
         FastCorrupted, RedoIteration, RoundIteration, Switch, CheckMaximum,
         Request, ProverStep, StartProver, EndProver, Deliver, Unwind, Stop,
         Over, vars
  <2>2. /\ iterations' \in Nat /\ num_iterations' \in Nat /\ done' \in Nat
        /\ iterations' <= num_iterations'
    BY DEF IInv, VdfInv, LoopInv, TypeOK
  <2>3. Reach' = num_iterations' \/ Reach' = num_iterations' + done'
    BY Zenon DEF Reach
  <2>4. iterations \in Nat /\ Reach' \in Int /\ iterations' <= Reach'
    BY <2>2, <2>3 DEF IInv, TypeOK
  <2> QED BY <1>1, <2>1, <2>2, <2>3, <2>4
<1>3. CASE transition_state' = transition_state
  <2>1. p % GetEffectiveKl(p, transition_state') = 0
    BY <1>1, <1>3
  <2>2. forms'[GetPosition(p, transition_state')] = p
    BY <1>1, <1>2, <2>1 DEF IInv, VdfInv, StoreInv, GetFormCopy
  <2> QED BY <1>3, <2>2
<1>4. CASE transition_state' # transition_state
  <2>1. Switch
    BY <1>4 DEF Next, VdfStep, StartBatch, LoopStopped, FastIteration,
       FastComplete, FastPremature, ExtraIteration, FastCorrupted,
       RedoIteration, Advance, RoundIteration, Republish, CheckMaximum, Request,
       ProverStep, StartProver, EndProver, Deliver, Unwind, Stop, Over, vars,
       storeVars
  <2> DEFINE s == num_iterations + done
  <2>2. /\ transition_state.switch_iters = -1 /\ forms' = forms
        /\ transition_state'.switch_iters = s
        /\ transition_state'.switch_index = s \div 10 /\ s \in Nat
        /\ p <= s
    BY <1>1, <2>1 DEF Switch, IncreaseConstants, EncodeTransitionState, IInv,
       VdfInv, SwitchInv, LoopInv, TypeOK
  <2>3. GetPosition(p, transition_state) = p \div 10
    BY <2>2 DEF GetPosition, EarlyStride
  <2>4. GetPosition(p, transition_state') = p \div 10
    <3> HIDE DEF s
    <3>1. CASE p < s
      BY <2>2, <3>1 DEF GetPosition, EarlyStride
    <3>2. CASE p = s
      BY <2>2, <3>2 DEF GetPosition, EarlyStride
    <3> QED BY <1>1, <2>2, <3>1, <3>2
  <2>5. forms[GetPosition(p, transition_state)] = p
    BY <1>1 DEF IInv, VdfInv, StoreInv, GetFormCopy
  <2> QED BY <2>2, <2>3, <2>4, <2>5
<1> QED BY <1>3, <1>4

----------------------------------------------------------------------------
(***************************************************************************)
(* Theorems                                                                *)
(***************************************************************************)

\* Every variable of the loop, the table and the proving threads keeps its
\* type; the table is never indexed outside its domain.
THEOREM TypeCorrect == Spec => []TypeOK
  BY InvAlways, PTL DEF IInv

\* OnIteration never throws `out of bounds', whatever batches end early or
\* are corrupted and whenever the stride changes.
THEOREM CapacitySuffices == Spec => []NeverOutOfBounds
<1>1. IInv => NeverOutOfBounds
  BY DEF IInv, VdfInv, LoopInv, NeverOutOfBounds
<1> QED BY <1>1, InvAlways, PTL

\* Every checkpoint up to the published iteration can be read back.
THEOREM CheckpointsStored == Spec => []PublishedAreStored
  BY StoredFromInv, InvAlways, PTL

\* No TwoWesolowskiProver ever reads a form of another power than the one it
\* asks for, on either side of the change of the stride.
THEOREM FreshReads == Spec => []ReadsAreFresh
  BY FreshFromInv, InvAlways, PTL

\* A delivered proof states the outputs of its three segments correctly.
THEOREM RightOutputs == Spec => []ProofsClaimRightOutputs
<1>1. IInv => ProofsClaimRightOutputs
  BY DEF IInv, ReaderInv, ProofsClaimRightOutputs
<1> QED BY <1>1, InvAlways, PTL

\* A published checkpoint keeps its position and its contents for ever.
THEOREM PublishedStable == Spec => PublishedNeverOverwritten
<1>1. IInv /\ IInv' /\ [Next]_vars => PublishedKept
  BY StepKeepsPublished DEF PublishedKept
<1> QED BY <1>1, InvAlways, PTL DEF Spec, PublishedNeverOverwritten

=============================================================================
