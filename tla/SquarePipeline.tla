--------------------------- MODULE SquarePipeline ---------------------------
(***************************************************************************)
(* repeated_square_fast_multithread (vdf_fast.h): two threads, master and  *)
(* slave, work together on every squaring.  Each runs the five phases of   *)
(* square_state_type and they synchronise through their thread_counters    *)
(* (threading.h): advance publishes progress, fence waits for the progress *)
(* of the other thread and gives up after max_spin_counter turns.          *)
(*                                                                         *)
(* What the phases compute is abstracted to tags.  Data that belong to the *)
(* squaring of the form number n (the initial form is number 0) have tag n *)
(* when they were computed from data with that tag, and Bad otherwise; the *)
(* slots of a and b have the number of the form they hold.                 *)
(***************************************************************************)
EXTENDS Integers, Sequences

CONSTANTS
  Iterations,         \* squarings of the batch
  gcd_max_iterations, \* a gcd outputs at most this many entries, and entry 0
  Failures,           \* whether gcds and validations may fail
  Timeouts            \* whether a spinning thread may give up

ASSUME PipelineAssumption ==
  /\ Iterations \in Nat /\ gcd_max_iterations \in Nat
  /\ Failures \in BOOLEAN /\ Timeouts \in BOOLEAN

Threads == {"master", "slave"}
Other(t) == IF t = "master" THEN "slave" ELSE "master"

VARIABLES
  step,          \* for each thread, the next entry of its program
  entry,         \* and the gcd entry it is at
  mode,          \* "run", or where it is in raise_error and after it
  counter_start, \* thread_state
  last_fence,
  counter_value, \* thread_counter
  error_flag,
  data,          \* the tags of the shared square_state
  exit_entry,    \* the entry of each gcd that has exit_flag
  ab_index, num_valid_iterations, corruption_flag,
  listened,      \* calls of OnIteration
  result         \* what the call returns

threadVars == <<step, entry, mode, counter_start, last_fence>>
counterVars == <<counter_value, error_flag>>
stateVars == <<data, exit_entry, ab_index, num_valid_iterations,
               corruption_flag>>
vars == <<threadVars, counterVars, stateVars, listened, result>>

Bad == -1
Running == -2
AllOnes == -3  \* ~uint64(0)

----------------------------------------------------------------------------
(***************************************************************************)
(* The phases.  A step names what it reads and writes of the shared state. *)
(***************************************************************************)

gcd_num_counter == gcd_max_iterations + 1

get_counter_start(phase) ==
  IF phase = 0 THEN 0
  ELSE IF phase = 1 THEN gcd_num_counter + 1
  ELSE 2 * (gcd_num_counter + 1) + (phase - 2)

\* Mutant of counter_end: the last phase has no count of its own.
counter_endOfPhase3 == get_counter_start(4)

counter_end == get_counter_start(5)

Step(op, at, reads, writes, fails) ==
  [op |-> op, at |-> at, reads |-> reads, writes |-> writes, fails |-> fails]

Advance(at) == Step("advance", at, {}, {}, "never")
Fence(phase) == Step("fence", get_counter_start(phase), {}, {}, "never")
Work(reads, writes) == Step("work", 0, reads, writes, "never")

\* gcd_unsigned outputs the entries of `gcd' and then its final values.
GcdUnsigned(phase, reads, gcd, final) ==
  << Step("emit", get_counter_start(phase), reads, {gcd, final}, "error"),
     Advance(get_counter_start(phase) + gcd_num_counter) >>

\* Mutant of Entries: waits for two entries too many.
EntriesTooLate(phase, gcd, reads, writes) ==
  << Step("fence", get_counter_start(phase) + 3, {}, {}, "never"),
     Step("take", 0, reads \union {gcd}, writes, "never") >>

\* The loop over get_entry, which waits for the counter after the entry's.
Entries(phase, gcd, reads, writes) ==
  << Step("fence", get_counter_start(phase) + 1, {}, {}, "never"),
     Step("take", 0, reads \union {gcd}, writes, "never") >>

phase_0_master ==
  << Fence(0), Step("work", 0, {"a", "b"}, {"gcd_start"}, "error") >>
  \o GcdUnsigned(0, {"gcd_start"}, "gcd_1_0", "gcd_end")

phase_0_slave ==
  << Fence(0), Step("work", 0, {"a", "b"}, {"c", "U"}, "corruption") >>
  \o Entries(0, "gcd_1_0", {"a", "c", "U"}, {"U"})

phase_1_master == << Fence(1) >> \o Entries(1, "gcd_s_t", {}, {"v"})

phase_1_slave ==
  << Fence(0), Work({"a", "U"}, {"t"}) >>
  \o GcdUnsigned(1, {"t"}, "gcd_s_t", "t")

phase_2_master ==
  << Fence(1), Work({"c", "v"}, {"c_v1"}),
     Fence(2), Work({"a", "b", "t", "v", "c_v1"}, {"h", "v1_h"}) >>

phase_2_slave ==
  << Fence(1), Work({"t"}, {"t_t_S"}),
     Fence(2), Work({"v", "t_t_S"}, {"t_t_S", "v0_2"}) >>

phase_3_master == << Fence(3), Work({"t_t_S", "v1_h"}, {"A", "A_2"}) >>

phase_3_slave == << Fence(2), Work({"a", "b", "t", "v"}, {"e"}) >>

phase_4_master ==
  << Fence(3),
     Step("work", 0, {"gcd_end", "v0_2", "h"}, {"v0_2_h"}, "corruption"),
     Fence(4),
     Step("turn", 0, {"A", "A_2", "e", "v0_2_h"}, {"A", "B"}, "never") >>

phase_4_slave == << >>

call_phase(t, phase) ==
  << Advance(get_counter_start(phase)) >> \o
  (IF t = "master"
     THEN << phase_0_master, phase_1_master, phase_2_master, phase_3_master,
             phase_4_master >>
     ELSE << phase_0_slave, phase_1_slave, phase_2_slave, phase_3_slave,
             phase_4_slave >>)[phase + 1]

\* One iteration of repeated_square_fast_work.  OnIteration may call assign,
\* which uses the slave's b_b and c as scratch.
Program(t) ==
  call_phase(t, 0) \o call_phase(t, 1) \o call_phase(t, 2)
  \o call_phase(t, 3) \o call_phase(t, 4)
  \o << Step("iterate", 0, {}, {}, "never") >>
  \o (IF t = "master"
        THEN << Step("listen", 0, {"a", "b"}, {"c"}, "never") >> ELSE << >>)

\* The programs are constants: TLC evaluates them once.
Programs == [t \in Threads |-> Program(t)]

Current(t) == Programs[t][step[t]]

Items == {"gcd_start", "gcd_1_0", "gcd_end", "c", "U", "v", "gcd_s_t", "t",
          "c_v1", "h", "v1_h", "t_t_S", "v0_2", "A_2", "e", "v0_2_h"}

\* a(), b(), A() and B() go through ab_index; an entry of a gcd is an item of
\* its own.
Located(t, item) ==
  IF item \in {"a", "b"} THEN <<item, ab_index>>
  ELSE IF item = "A" THEN <<"a", 1 - ab_index>>
  ELSE IF item = "B" THEN <<"b", 1 - ab_index>>
  ELSE IF item \in {"gcd_1_0", "gcd_s_t"} THEN <<item, entry[t]>>
  ELSE <<item, 0>>

Locations ==
  ({"a", "b"} \X {0, 1}) \union (Items \X {0})
  \union ({"gcd_1_0", "gcd_s_t"} \X (0 .. gcd_max_iterations))

Reads(t)  == {Located(t, item) : item \in Current(t).reads}
Writes(t) == {Located(t, item) : item \in Current(t).writes}

iter(t) == counter_start[t] \div counter_end

\* The tag that a location must have to be read in the iteration `n': A and B
\* already hold the next form.
Wanted(location, n) ==
  IF location[1] \in {"a", "b"} /\ location[2] # ab_index THEN n + 1 ELSE n

\* The tags after the current step of t wrote its results.
Written(t, n) ==
  LET sound == \A location \in Reads(t) : data[location] = Wanted(location, n)
  IN  [location \in Locations |->
         IF location \notin Writes(t) THEN data[location]
         ELSE IF sound THEN Wanted(location, n) ELSE Bad]

----------------------------------------------------------------------------
(***************************************************************************)
(* thread_state                                                            *)
(***************************************************************************)

Continue(t, to, e) ==
  /\ step'  = [step EXCEPT ![t] = to]
  /\ entry' = [entry EXCEPT ![t] = e]
  /\ UNCHANGED mode

\* raise_error stores the thread's own flag, and then the other one.
RaiseError(t) ==
  /\ error_flag' = [error_flag EXCEPT ![t] = TRUE]
  /\ mode' = [mode EXCEPT ![t] = "raise"]
  /\ UNCHANGED <<step, entry>>

RaiseOther(t) ==
  /\ mode[t] = "raise"
  /\ error_flag' = [error_flag EXCEPT ![Other(t)] = TRUE]
  /\ mode' = [mode EXCEPT ![t] = IF Current(t).op = "advance" THEN "store"
                                                              ELSE "ended"]
  /\ UNCHANGED <<step, entry, counter_start, last_fence, counter_value,
                 stateVars, listened, result>>

\* advance_absolute stores the counter even when an error was raised.
StoreCounter(t) ==
  /\ mode[t] = "store"
  /\ counter_value' =
       [counter_value EXCEPT ![t] = counter_start[t] + Current(t).at]
  /\ mode' = [mode EXCEPT ![t] = "ended"]
  /\ UNCHANGED <<step, entry, counter_start, last_fence, error_flag,
                 stateVars, listened, result>>

At(t, op) == mode[t] = "run" /\ Current(t).op = op

advance_absolute(t) ==
  LET t_v == counter_start[t] + Current(t).at
  IN  /\ At(t, "advance")
      /\ IF error_flag[t] /\ t_v # counter_value[t]
           THEN RaiseError(t) /\ UNCHANGED counter_value
           ELSE /\ counter_value' = [counter_value EXCEPT ![t] = t_v]
                /\ Continue(t, step[t] + 1, 0)
                /\ UNCHANGED error_flag
      /\ UNCHANGED <<counter_start, last_fence, stateVars, listened, result>>

FenceTarget(t) == counter_start[t] + Current(t).at + entry[t]

\* The fence is passed: it was passed before, or the other thread is there.
\* The error flag is not read in the first case.
fence_absolute(t) ==
  /\ At(t, "fence")
  /\ \/ /\ last_fence[t] >= FenceTarget(t)
        /\ UNCHANGED last_fence
     \/ /\ last_fence[t] < FenceTarget(t)
        /\ counter_value[Other(t)] >= FenceTarget(t) /\ ~error_flag[t]
        /\ last_fence' = [last_fence EXCEPT ![t] = FenceTarget(t)]
  /\ Continue(t, step[t] + 1, entry[t])
  /\ UNCHANGED <<counter_start, counterVars, stateVars, listened, result>>

\* Mutant of FenceFails: the loop is not left after raise_error.
FenceFailsNoBreak(t) ==
  /\ At(t, "fence") /\ last_fence[t] < FenceTarget(t)
  /\ error_flag[t] \/ counter_value[Other(t)] < FenceTarget(t)
  /\ error_flag' = [error_flag EXCEPT ![t] = TRUE]
  /\ UNCHANGED <<threadVars, counter_value, stateVars, listened, result>>

\* The fence returns false: an error was raised, or the spin counter is too
\* high.
FenceFails(t) ==
  /\ At(t, "fence") /\ last_fence[t] < FenceTarget(t)
  /\ \/ error_flag[t]
     \/ /\ counter_value[Other(t)] < FenceTarget(t)
        /\ error_flag[Other(t)] \/ Timeouts
  /\ RaiseError(t)
  /\ UNCHANGED <<counter_start, last_fence, counter_value, stateVars,
                 listened, result>>

\* A turn of the spin loop.
Spin(t) ==
  /\ At(t, "fence") /\ counter_value[Other(t)] < FenceTarget(t)
  /\ last_fence[t] < FenceTarget(t)
  /\ ~error_flag[t] /\ ~error_flag[Other(t)]
  /\ UNCHANGED vars

----------------------------------------------------------------------------
(***************************************************************************)
(* square_state_type and repeated_square_fast_work                         *)
(***************************************************************************)

DoWork(t) ==
  /\ At(t, "work")
  /\ data' = Written(t, iter(t))
  /\ Continue(t, step[t] + 1, 0)
  /\ UNCHANGED <<counter_start, last_fence, counterVars, exit_entry, ab_index,
                 num_valid_iterations, corruption_flag, listened, result>>

\* A validation or a gcd fails: call_phase returns false, with the outputs of
\* the step in any state.
Fail(t) ==
  /\ mode[t] = "run" /\ Failures /\ Current(t).fails # "never"
  /\ corruption_flag' =
       (corruption_flag \/ Current(t).fails = "corruption")
  /\ data' = [location \in Locations |->
                IF location \in Writes(t) THEN Bad ELSE data[location]]
  /\ RaiseError(t)
  /\ UNCHANGED <<counter_start, last_fence, counter_value, exit_entry,
                 ab_index, num_valid_iterations, listened, result>>

\* gcd_unsigned outputs an entry and then sets the counter.  The first thing
\* it does is to look at the error flag.
Emit(t) ==
  /\ At(t, "emit") /\ ~(entry[t] = 0 /\ error_flag[t])
  /\ data' = Written(t, iter(t))
  /\ counter_value' =
       [counter_value EXCEPT ![t] = counter_start[t] + Current(t).at + entry[t]]
  /\ \/ /\ Continue(t, step[t] + 1, 0)
        /\ exit_entry' = [exit_entry EXCEPT ![t] = entry[t]]
     \/ /\ entry[t] < gcd_max_iterations
        /\ Continue(t, step[t], entry[t] + 1)
        /\ exit_entry' = [exit_entry EXCEPT ![t] = -1]
  /\ UNCHANGED <<counter_start, last_fence, error_flag, ab_index,
                 num_valid_iterations, corruption_flag, listened, result>>

EmitFails(t) ==
  /\ At(t, "emit") /\ entry[t] = 0 /\ error_flag[t]
  /\ RaiseError(t)
  /\ UNCHANGED <<counter_start, last_fence, counter_value, stateVars,
                 listened, result>>

\* An entry is used; the loop ends with the one that has exit_flag.  The index
\* check of get_entry never fails: the producer sets exit_flag in time.
Take(t) ==
  /\ At(t, "take")
  /\ data' = Written(t, iter(t))
  /\ IF exit_entry[Other(t)] = entry[t]
       THEN Continue(t, step[t] + 1, 0)
       ELSE Continue(t, step[t] - 1, entry[t] + 1)
  /\ UNCHANGED <<counter_start, last_fence, counterVars, exit_entry, ab_index,
                 num_valid_iterations, corruption_flag, listened, result>>

\* Mutant of Turn: the iteration is counted, ab_index stays.
TurnWithoutIndex(t) ==
  /\ At(t, "turn")
  /\ data' = Written(t, iter(t))
  /\ num_valid_iterations' = num_valid_iterations + 1
  /\ Continue(t, step[t] + 1, 0)
  /\ UNCHANGED <<counter_start, last_fence, counterVars, exit_entry, ab_index,
                 corruption_flag, listened, result>>

\* The end of phase_4_master: B and A are final, ab_index is turned.
Turn(t) ==
  /\ At(t, "turn")
  /\ data' = Written(t, iter(t))
  /\ ab_index' = 1 - ab_index
  /\ num_valid_iterations' = num_valid_iterations + 1
  /\ Continue(t, step[t] + 1, 0)
  /\ UNCHANGED <<counter_start, last_fence, counterVars, exit_entry,
                 corruption_flag, listened, result>>

\* The end of an iteration.  The slave has nothing to do after it.
Iterate(t) ==
  /\ At(t, "iterate")
  /\ counter_start' = [counter_start EXCEPT ![t] = @ + counter_end]
  /\ IF t = "master"
       THEN Continue(t, step[t] + 1, 0)
       ELSE /\ step' = [step EXCEPT ![t] = 1] /\ UNCHANGED entry
            /\ mode' = [mode EXCEPT ![t] =
                          IF iter(t) + 1 < Iterations THEN "run" ELSE "ended"]
  /\ UNCHANGED <<last_fence, counterVars, stateVars, listened, result>>

\* OnIteration(NL_SQUARESTATE, &square_state, base + iter), with assign.
Listen(t) ==
  /\ At(t, "listen")
  /\ listened' = Append(listened, data[<<"a", ab_index>>])
  /\ data' = [data EXCEPT ![<<"c", 0>>] = Bad]
  /\ step' = [step EXCEPT ![t] = 1]
  /\ mode' = [mode EXCEPT ![t] =
                IF iter(t) < Iterations THEN "run" ELSE "ended"]
  /\ UNCHANGED <<entry, counter_start, last_fence, counterVars, exit_entry,
                 ab_index, num_valid_iterations, corruption_flag, result>>

\* Both threads have ended: assign decides what the caller gets.  It looks at the
\* form itself too: b * b - D must be divisible by 4 * a, a and c not negative.
Assign ==
  /\ \A t \in Threads : mode[t] = "ended"
  /\ result = Running
  /\ \/ ~corruption_flag /\ result' = num_valid_iterations
     \/ (corruption_flag \/ Failures) /\ result' = AllOnes
  /\ UNCHANGED <<threadVars, counterVars, stateVars, listened>>

----------------------------------------------------------------------------
Init ==
  /\ step = [t \in Threads |-> 1] /\ entry = [t \in Threads |-> 0]
  /\ mode = [t \in Threads |-> IF Iterations = 0 THEN "ended" ELSE "run"]
  /\ counter_start = [t \in Threads |-> 0]
  /\ last_fence = [t \in Threads |-> 0]
  /\ counter_value = [t \in Threads |-> 0]
  /\ error_flag = [t \in Threads |-> FALSE]
  /\ data = [location \in Locations |->
               IF location \in {<<"a", 0>>, <<"b", 0>>} THEN 0 ELSE Bad]
  /\ exit_entry = [t \in Threads |-> -1]
  /\ ab_index = 0 /\ num_valid_iterations = 0 /\ corruption_flag = FALSE
  /\ listened = << >>
  /\ result = Running

ThreadStep(t) ==
  \/ RaiseOther(t) \/ StoreCounter(t)
  \/ advance_absolute(t) \/ fence_absolute(t) \/ FenceFails(t) \/ Spin(t)
  \/ DoWork(t) \/ Fail(t) \/ Emit(t) \/ EmitFails(t)
  \/ Take(t) \/ Turn(t) \/ Iterate(t) \/ Listen(t)

Done == result # Running /\ UNCHANGED vars

Next == (\E t \in Threads : ThreadStep(t)) \/ Assign \/ Done

Spec == Init /\ [][Next]_vars

FairSpec ==
  Spec /\ (\A t \in Threads : WF_vars(ThreadStep(t))) /\ WF_vars(Assign)

----------------------------------------------------------------------------
(***************************************************************************)
(* Properties                                                              *)
(***************************************************************************)

ThroughIndex(t) ==
  (Current(t).reads \union Current(t).writes) \intersect {"a", "b", "A", "B"}

\* The fields of square_state that the thread uses while it is at its step.
Uses(t) ==
  Reads(t) \union (IF ThroughIndex(t) # {} THEN {<<"ab_index", 0>>} ELSE {})
  \union (IF At(t, "listen") THEN {<<"corruption_flag", 0>>} ELSE {})

Changes(t) ==
  Writes(t) \union (IF At(t, "turn") THEN {<<"ab_index", 0>>} ELSE {})
  \union (IF Current(t).fails = "corruption"
            THEN {<<"corruption_flag", 0>>} ELSE {})

\* square_state is plain memory: while one thread changes a field, the other
\* neither reads nor changes it, not after a failure or a timeout of either
\* thread and not while OnIteration uses the slave's scratch fields.
NoDataRace ==
  \A t \in Threads : mode[t] = "run" /\ mode[Other(t)] = "run" =>
    Changes(t) \intersect (Uses(Other(t)) \union Changes(Other(t))) = {}

\* Whenever the batch may be cut short, a() and b() are the form after
\* num_valid_iterations squarings: that is what assign returns and what
\* repeated_square continues with (`f is still valid').  OnIteration has been
\* called once for each of them, in order, with the form of that iteration.
FormMatchesCount ==
  /\ data[<<"a", ab_index>>] = num_valid_iterations
  /\ data[<<"b", ab_index>>] = num_valid_iterations
  /\ \A n \in DOMAIN listened : listened[n] = n
  /\ result >= 0 => Len(listened) = result

\* `this should never have an infinite loop': whatever fails, both threads end
\* and the call returns.
Returns == <>(result # Running)

Waits(t) ==
  /\ At(t, "fence") /\ last_fence[t] < FenceTarget(t)
  /\ counter_value[Other(t)] < FenceTarget(t)

\* The fences are never circular: as long as nobody has raised an error, one of
\* the threads can go on without the help of the spin limit, and a call that
\* ends without an error has done the whole batch; only assign may still find
\* that the form is corrupted.
Completes ==
  (\A t \in Threads : mode[t] \in {"run", "ended"} /\ ~error_flag[t]) =>
    IF \A t \in Threads : mode[t] = "ended"
      THEN /\ num_valid_iterations = Iterations
           /\ result \in {Running, Iterations} \/ (Failures /\ result = AllOnes)
      ELSE \E t \in Threads : mode[t] = "run" /\ ~Waits(t)

=============================================================================
