------------------------ MODULE SquarePipeline_proofs ------------------------
(***************************************************************************)
(* Proofs about the two-thread squaring, for any number of squarings and   *)
(* any length of the gcds, with and without failures and timeouts.         *)
(***************************************************************************)
EXTENDS SquarePipeline, SequenceTheorems, TLAPS

----------------------------------------------------------------------------
(***************************************************************************)
(* The programs, entry by entry                                            *)
(***************************************************************************)

\* Where phase 1 starts, and with it the counts of the slave's gcd.
G == gcd_max_iterations + 2

LEMMA Counts ==
  /\ gcd_max_iterations \in Nat /\ G \in Nat /\ gcd_num_counter = G - 1 /\ G = gcd_max_iterations + 2
  /\ get_counter_start(0) = 0 /\ get_counter_start(1) = G /\ get_counter_start(2) = 2 * G
  /\ get_counter_start(3) = 2 * G + 1 /\ get_counter_start(4) = 2 * G + 2
  /\ counter_end = 2 * G + 3
  BY PipelineAssumption DEF G, gcd_num_counter, get_counter_start, counter_end

LEMMA MasterSteps ==
  LET P == Programs["master"] IN
  /\ P[1] = Advance(get_counter_start(0))
  /\ P[2] = Fence(0)
  /\ P[3] = Step("work", 0, {"a", "b"}, {"gcd_start"}, "error")
  /\ P[4] = Step("emit", get_counter_start(0), {"gcd_start"}, {"gcd_1_0", "gcd_end"}, "error")
  /\ P[5] = Advance(get_counter_start(0) + gcd_num_counter)
  /\ P[6] = Advance(get_counter_start(1))
  /\ P[7] = Fence(1)
  /\ P[8] = Step("fence", get_counter_start(1) + 1, {}, {}, "never")
  /\ P[9] = Step("take", 0, {} \union {"gcd_s_t"}, {"v"}, "never")
  /\ P[10] = Advance(get_counter_start(2))
  /\ P[11] = Fence(1)
  /\ P[12] = Work({"c", "v"}, {"c_v1"})
  /\ P[13] = Fence(2)
  /\ P[14] = Work({"a", "b", "t", "v", "c_v1"}, {"h", "v1_h"})
  /\ P[15] = Advance(get_counter_start(3))
  /\ P[16] = Fence(3)
  /\ P[17] = Work({"t_t_S", "v1_h"}, {"A", "A_2"})
  /\ P[18] = Advance(get_counter_start(4))
  /\ P[19] = Fence(3)
  /\ P[20] = Step("work", 0, {"gcd_end", "v0_2", "h"}, {"v0_2_h"}, "corruption")
  /\ P[21] = Fence(4)
  /\ P[22] = Step("turn", 0, {"A", "A_2", "e", "v0_2_h"}, {"A", "B"}, "never")
  /\ P[23] = Step("iterate", 0, {}, {}, "never")
  /\ P[24] = Step("listen", 0, {"a", "b"}, {"c"}, "never")
  BY DEF Programs, Threads, Program, call_phase, phase_0_master, phase_1_master, phase_2_master,
         phase_3_master, phase_4_master, GcdUnsigned, Entries

LEMMA SlaveSteps ==
  LET P == Programs["slave"] IN
  /\ P[1] = Advance(get_counter_start(0))
  /\ P[2] = Fence(0)
  /\ P[3] = Step("work", 0, {"a", "b"}, {"c", "U"}, "corruption")
  /\ P[4] = Step("fence", get_counter_start(0) + 1, {}, {}, "never")
  /\ P[5] = Step("take", 0, {"a", "c", "U"} \union {"gcd_1_0"}, {"U"}, "never")
  /\ P[6] = Advance(get_counter_start(1))
  /\ P[7] = Fence(0)
  /\ P[8] = Work({"a", "U"}, {"t"})
  /\ P[9] = Step("emit", get_counter_start(1), {"t"}, {"gcd_s_t", "t"}, "error")
  /\ P[10] = Advance(get_counter_start(1) + gcd_num_counter)
  /\ P[11] = Advance(get_counter_start(2))
  /\ P[12] = Fence(1)
  /\ P[13] = Work({"t"}, {"t_t_S"})
  /\ P[14] = Fence(2)
  /\ P[15] = Work({"v", "t_t_S"}, {"t_t_S", "v0_2"})
  /\ P[16] = Advance(get_counter_start(3))
  /\ P[17] = Fence(2)
  /\ P[18] = Work({"a", "b", "t", "v"}, {"e"})
  /\ P[19] = Advance(get_counter_start(4))
  /\ P[20] = Step("iterate", 0, {}, {}, "never")
  BY DEF Programs, Threads, Program, call_phase, phase_0_slave, phase_1_slave, phase_2_slave,
         phase_3_slave, phase_4_slave, GcdUnsigned, Entries

\* What each entry does, and its count.
OpOf(t, i) ==
  IF t = "master"
    THEN IF i \in {1, 5, 6, 10, 15, 18} THEN "advance"
         ELSE IF i \in {2, 7, 8, 11, 13, 16, 19, 21} THEN "fence"
         ELSE IF i \in {3, 12, 14, 17, 20} THEN "work"
         ELSE IF i = 4 THEN "emit" ELSE IF i = 9 THEN "take"
         ELSE IF i = 22 THEN "turn" ELSE IF i = 23 THEN "iterate" ELSE "listen"
    ELSE IF i \in {1, 6, 10, 11, 16, 19} THEN "advance"
         ELSE IF i \in {2, 4, 7, 12, 14, 17} THEN "fence"
         ELSE IF i \in {3, 8, 13, 15, 18} THEN "work"
         ELSE IF i = 9 THEN "emit" ELSE IF i = 5 THEN "take" ELSE "iterate"

CountOf(t, i) ==
  IF t = "master"
    THEN IF i = 5 THEN G - 1 ELSE IF i \in {6, 7, 11} THEN G ELSE IF i = 8 THEN G + 1
         ELSE IF i \in {10, 13} THEN 2 * G ELSE IF i \in {15, 16, 19} THEN 2 * G + 1
         ELSE IF i \in {18, 21} THEN 2 * G + 2 ELSE 0
    ELSE IF i = 4 THEN 1 ELSE IF i \in {6, 9, 12} THEN G ELSE IF i = 10 THEN 2 * G - 1
         ELSE IF i \in {11, 14, 17} THEN 2 * G ELSE IF i = 16 THEN 2 * G + 1
         ELSE IF i = 19 THEN 2 * G + 2 ELSE 0

FailsOf(t, i) ==
  IF t = "master" THEN IF i \in {3, 4} THEN "error" ELSE IF i = 20 THEN "corruption" ELSE "never"
  ELSE IF i = 9 THEN "error" ELSE IF i = 3 THEN "corruption" ELSE "never"

Entry(t) == IF t = "master" THEN 1 .. 24 ELSE 1 .. 20

LEMMA StepIs ==
  ASSUME NEW t \in Threads, NEW i \in Entry(t)
  PROVE  /\ Programs[t][i].op = OpOf(t, i) /\ Programs[t][i].at = CountOf(t, i)
         /\ Programs[t][i].fails = FailsOf(t, i)
<1>1. CASE t = "master"
  <2>1. i \in 1 .. 24
    BY <1>1 DEF Entry
  <2> QED BY <1>1, <2>1, MasterSteps, Counts DEF OpOf, CountOf, FailsOf, Step, Advance, Fence, Work
<1>2. CASE t = "slave"
  <2>1. i \in 1 .. 20
    BY <1>2 DEF Entry
  <2> QED BY <1>2, <2>1, SlaveSteps, Counts DEF OpOf, CountOf, FailsOf, Step, Advance, Fence, Work
<1> QED BY <1>1, <1>2 DEF Threads

----------------------------------------------------------------------------
(***************************************************************************)
(* What a thread has published and waited for                              *)
(***************************************************************************)

\* The highest count, from the thread's counter_start on, that it can have
\* published when it is at entry i.  Before the first advance the counter is 0.
Published(t, i, e) ==
  IF t = "master"
    THEN IF i \in 1 .. 3 THEN 0 ELSE IF i = 4 THEN (IF e = 0 THEN 0 ELSE e - 1)
         ELSE IF i = 5 THEN G - 2 ELSE IF i = 6 THEN G - 1 ELSE IF i \in 7 .. 10 THEN G
         ELSE IF i \in 11 .. 15 THEN 2 * G ELSE IF i \in 16 .. 18 THEN 2 * G + 1
         ELSE IF i \in 19 .. 23 THEN 2 * G + 2 ELSE -1
    ELSE IF i \in 1 .. 6 THEN 0 ELSE IF i \in 7 .. 8 THEN G
         ELSE IF i = 9 THEN (IF e = 0 THEN G ELSE G + e - 1)
         ELSE IF i = 10 THEN 2 * G - 2 ELSE IF i = 11 THEN 2 * G - 1
         ELSE IF i \in 12 .. 16 THEN 2 * G ELSE IF i \in 17 .. 19 THEN 2 * G + 1 ELSE 2 * G + 2

\* The count that the other thread has reached, because of the fences passed.
Waited(t, i, e) ==
  IF t = "master"
    THEN IF i \in {1, 2, 24} THEN -1 ELSE IF i \in 3 .. 7 THEN 0 ELSE IF i = 8 THEN G + e
         ELSE IF i = 9 THEN G + 1 + e ELSE IF i \in 10 .. 13 THEN G ELSE IF i \in 14 .. 16 THEN 2 * G
         ELSE IF i \in 17 .. 21 THEN 2 * G + 1 ELSE 2 * G + 2
    ELSE IF i \in {1, 2} THEN -3 ELSE IF i = 3 THEN 0 ELSE IF i = 4 THEN e
         ELSE IF i = 5 THEN 1 + e ELSE IF i \in 6 .. 12 THEN 1 ELSE IF i \in 13 .. 14 THEN G
         ELSE 2 * G

\* Entries are counted where gcd entries are written or read.
EntryOK(t, i, e) ==
  /\ i \in Entry(t) /\ e \in Nat
  /\ e # 0 => i \in IF t = "master" THEN {4, 8, 9} ELSE {4, 5, 9}
  /\ OpOf(t, i) = "emit" => e <= gcd_max_iterations

LEMMA AdvanceTable ==
  ASSUME NEW t \in Threads, NEW i, NEW e, EntryOK(t, i, e), OpOf(t, i) = "advance"
  PROVE  /\ EntryOK(t, i + 1, 0) /\ Published(t, i + 1, 0) = CountOf(t, i)
         /\ Published(t, i, e) <= CountOf(t, i) /\ Waited(t, i + 1, 0) = Waited(t, i, e)
  BY Counts DEF Threads, EntryOK, Entry, OpOf, CountOf, Published, Waited

LEMMA FenceTable ==
  ASSUME NEW t \in Threads, NEW i, NEW e, EntryOK(t, i, e), OpOf(t, i) = "fence"
  PROVE  /\ EntryOK(t, i + 1, e) /\ Published(t, i + 1, e) = Published(t, i, e)
         /\ Waited(t, i + 1, e) <= Waited(t, i, e) \/ Waited(t, i + 1, e) <= CountOf(t, i) + e
  BY Counts DEF Threads, EntryOK, Entry, OpOf, CountOf, Published, Waited

LEMMA WorkTable ==
  ASSUME NEW t \in Threads, NEW i, NEW e, EntryOK(t, i, e), OpOf(t, i) \in {"work", "turn"}
  PROVE  /\ EntryOK(t, i + 1, 0) /\ Published(t, i + 1, 0) = Published(t, i, e)
         /\ Waited(t, i + 1, 0) <= Waited(t, i, e)
  BY Counts DEF Threads, EntryOK, Entry, OpOf, CountOf, Published, Waited

LEMMA EmitTable ==
  ASSUME NEW t \in Threads, NEW i, NEW e, EntryOK(t, i, e), OpOf(t, i) = "emit"
  PROVE  /\ EntryOK(t, i + 1, 0) /\ (e < gcd_max_iterations => EntryOK(t, i, e + 1))
         /\ Published(t, i, e) <= CountOf(t, i) + e
         /\ Published(t, i, e + 1) = CountOf(t, i) + e /\ CountOf(t, i) + e <= Published(t, i + 1, 0)
         /\ Waited(t, i + 1, 0) <= Waited(t, i, e) /\ Waited(t, i, e + 1) <= Waited(t, i, e)
  BY Counts DEF Threads, EntryOK, Entry, OpOf, CountOf, Published, Waited

LEMMA TakeTable ==
  ASSUME NEW t \in Threads, NEW i, NEW e, EntryOK(t, i, e), OpOf(t, i) = "take"
  PROVE  /\ EntryOK(t, i + 1, 0) /\ EntryOK(t, i - 1, e + 1)
         /\ Published(t, i + 1, 0) = Published(t, i, e) /\ Published(t, i - 1, e + 1) = Published(t, i, e)
         /\ Waited(t, i + 1, 0) <= Waited(t, i, e) /\ Waited(t, i - 1, e + 1) <= Waited(t, i, e)
  BY Counts DEF Threads, EntryOK, Entry, OpOf, CountOf, Published, Waited

LEMMA IterateTable ==
  ASSUME NEW t \in Threads, NEW i, NEW e, EntryOK(t, i, e), OpOf(t, i) = "iterate"
  PROVE  LET j == IF t = "master" THEN 24 ELSE 1
         IN  /\ e = 0 /\ EntryOK(t, j, 0) /\ i = (IF t = "master" THEN 23 ELSE 20)
             /\ Published(t, i, e) <= counter_end + Published(t, j, 0)
             /\ counter_end + Waited(t, j, 0) <= Waited(t, i, e)
  BY Counts DEF Threads, EntryOK, Entry, OpOf, CountOf, Published, Waited

LEMMA ListenTable ==
  ASSUME NEW t \in Threads, NEW i, NEW e, EntryOK(t, i, e), OpOf(t, i) = "listen"
  PROVE  /\ t = "master" /\ i = 24 /\ e = 0 /\ EntryOK(t, 1, 0)
         /\ Published(t, i, e) <= Published(t, 1, 0) /\ Waited(t, 1, 0) <= Waited(t, i, e)
  BY Counts DEF Threads, EntryOK, Entry, OpOf, CountOf, Published, Waited

LEMMA TableTypes ==
  ASSUME NEW t \in Threads, NEW i, NEW e, EntryOK(t, i, e)
  PROVE  /\ Published(t, i, e) \in Int /\ Waited(t, i, e) \in Int /\ CountOf(t, i) \in Nat
         /\ Published(t, i, e) >= -1 /\ i \in Nat /\ e \in Nat
  BY Counts DEF Threads, EntryOK, Entry, OpOf, CountOf, Published, Waited

----------------------------------------------------------------------------
(***************************************************************************)
(* The steps of a thread                                                   *)
(***************************************************************************)

Modes == {"run", "raise", "store", "ended"}

TypesOK ==
  /\ step \in [Threads -> Nat] /\ entry \in [Threads -> Nat] /\ mode \in [Threads -> Modes]
  /\ counter_start \in [Threads -> Nat] /\ last_fence \in [Threads -> Int]
  /\ counter_value \in [Threads -> Int] /\ error_flag \in [Threads -> BOOLEAN]
  /\ exit_entry \in [Threads -> Int]

At0(t) == EntryOK(t, step[t], entry[t])

\* An error is only raised where a step can fail; a counter is stored by advance.
ModeOK(t) ==
  /\ mode[t] = "store" => OpOf(t, step[t]) = "advance" /\ error_flag[Other(t)]
  /\ mode[t] \in {"raise", "store"} => OpOf(t, step[t]) \notin {"turn", "iterate", "listen"}
  /\ mode[t] = "raise" => error_flag[t]

\* What the thread t keeps when it stops or spins.
Stays(t) ==
  /\ step'[t] = step[t] /\ entry'[t] = entry[t] /\ counter_start'[t] = counter_start[t]
  /\ last_fence'[t] = last_fence[t] /\ counter_value'[t] = counter_value[t]

\* A step that goes to entry i with the gcd entry e.
Goes(t, i, e) == mode[t] = "run" /\ mode'[t] = "run" /\ step'[t] = i /\ entry'[t] = e

SameCounts(t) ==
  counter_start'[t] = counter_start[t] /\ last_fence'[t] = last_fence[t] /\ counter_value'[t] = counter_value[t]

Stores(t) ==
  /\ mode[t] = "store" /\ step'[t] = step[t] /\ entry'[t] = entry[t]
  /\ counter_start'[t] = counter_start[t] /\ last_fence'[t] = last_fence[t]

Advances(t) ==
  /\ OpOf(t, step[t]) = "advance" /\ Goes(t, step[t] + 1, 0)
  /\ counter_value'[t] = counter_start[t] + CountOf(t, step[t])
  /\ counter_start'[t] = counter_start[t] /\ last_fence'[t] = last_fence[t]

Passes(t) ==
  LET target == counter_start[t] + CountOf(t, step[t]) + entry[t]
  IN  /\ OpOf(t, step[t]) = "fence" /\ Goes(t, step[t] + 1, entry[t])
      /\ counter_start'[t] = counter_start[t] /\ counter_value'[t] = counter_value[t]
      /\ \/ last_fence[t] >= target /\ last_fence'[t] = last_fence[t]
         \/ /\ last_fence[t] < target /\ counter_value[Other(t)] >= target /\ ~error_flag[t]
            /\ last_fence'[t] = target

Works(t) == OpOf(t, step[t]) \in {"work", "turn"} /\ Goes(t, step[t] + 1, 0) /\ SameCounts(t)

Emits(t) ==
  /\ OpOf(t, step[t]) = "emit"
  /\ \/ Goes(t, step[t] + 1, 0)
     \/ entry[t] < gcd_max_iterations /\ Goes(t, step[t], entry[t] + 1)
  /\ counter_value'[t] = counter_start[t] + CountOf(t, step[t]) + entry[t]
  /\ counter_start'[t] = counter_start[t] /\ last_fence'[t] = last_fence[t]

Takes(t) ==
  /\ OpOf(t, step[t]) = "take" /\ SameCounts(t)
  /\ \/ exit_entry[Other(t)] = entry[t] /\ Goes(t, step[t] + 1, 0)
     \/ exit_entry[Other(t)] # entry[t] /\ Goes(t, step[t] - 1, entry[t] + 1)

Iterates(t) ==
  /\ mode[t] = "run" /\ OpOf(t, step[t]) = "iterate" /\ entry'[t] = 0
  /\ step'[t] = (IF t = "master" THEN 24 ELSE 1)
  /\ counter_start'[t] = counter_start[t] + counter_end
  /\ last_fence'[t] = last_fence[t] /\ counter_value'[t] = counter_value[t]

Listens(t) ==
  /\ mode[t] = "run" /\ OpOf(t, step[t]) = "listen" /\ entry'[t] = 0 /\ step'[t] = 1
  /\ SameCounts(t)

Moves(t) ==
  \/ Stays(t) \/ Stores(t) \/ Advances(t) \/ Passes(t) \/ Works(t) \/ Emits(t) \/ Takes(t)
  \/ Iterates(t) \/ Listens(t)

LEMMA CurrentIs ==
  ASSUME NEW t \in Threads, At0(t)
  PROVE  /\ Current(t).op = OpOf(t, step[t]) /\ Current(t).at = CountOf(t, step[t])
         /\ Current(t).fails = FailsOf(t, step[t])
<1>1. step[t] \in Entry(t)
  BY DEF At0, EntryOK
<1> QED BY <1>1, StepIs DEF Current

\* Every step of the thread is one of these.
LEMMA ThreadMoves ==
  ASSUME TypesOK, NEW t \in Threads, At0(t), ThreadStep(t)
  PROVE  Moves(t)
<1>1. /\ Current(t).op = OpOf(t, step[t]) /\ Current(t).at = CountOf(t, step[t])
  BY CurrentIs
<1>2. CASE RaiseOther(t) \/ FenceFails(t) \/ Spin(t) \/ Fail(t) \/ EmitFails(t)
  BY <1>2 DEF RaiseOther, FenceFails, Spin, Fail, EmitFails, RaiseError, TypesOK, Stays, Moves, vars,
              threadVars, counterVars
<1>3. CASE StoreCounter(t)
  BY <1>3 DEF StoreCounter, TypesOK, Stores, Moves
<1>4. CASE advance_absolute(t)
  BY <1>1, <1>4 DEF advance_absolute, At, RaiseError, Continue, TypesOK, Stays, Advances, Goes, Moves
<1>5. CASE fence_absolute(t)
  BY <1>1, <1>5 DEF fence_absolute, At, FenceTarget, Continue, TypesOK, Passes, Goes, Moves, counterVars
<1>6. CASE DoWork(t) \/ Turn(t)
  BY <1>1, <1>6 DEF DoWork, Turn, At, Continue, TypesOK, Works, Goes, Moves, SameCounts, counterVars
<1>7. CASE Emit(t)
  BY <1>1, <1>7 DEF Emit, At, Continue, TypesOK, Emits, Goes, Moves
<1>8. CASE Take(t)
  BY <1>1, <1>8 DEF Take, At, Continue, TypesOK, Takes, Goes, Moves, SameCounts, counterVars
<1>9. CASE Iterate(t)
  <2>1. OpOf(t, step[t]) = "iterate"
    BY <1>1, <1>9 DEF Iterate, At
  <2>2. entry[t] = 0
    BY <2>1, IterateTable DEF At0
  <2> QED BY <1>9, <2>1, <2>2, IterateTable DEF Iterate, At, Continue, TypesOK, Iterates, Moves, counterVars, At0, Threads
<1>10. CASE Listen(t)
  <2>1. OpOf(t, step[t]) = "listen"
    BY <1>1, <1>10 DEF Listen, At
  <2>2. entry[t] = 0
    BY <2>1, ListenTable DEF At0
  <2> QED BY <1>10, <2>1, <2>2 DEF Listen, At, TypesOK, Listens, Moves, SameCounts, counterVars
<1> QED BY <1>2, <1>3, <1>4, <1>5, <1>6, <1>7, <1>8, <1>9, <1>10 DEF ThreadStep

\* The other thread's own variables do not change; a raised flag stays.
LEMMA OtherStays ==
  ASSUME TypesOK, NEW t \in Threads, ThreadStep(t), NEW u \in Threads, u # t
  PROVE  Stays(u) /\ mode'[u] = mode[u]
  BY DEF TypesOK, ThreadStep, RaiseOther, StoreCounter, advance_absolute, fence_absolute, FenceFails,
         Spin, DoWork, Fail, Emit, EmitFails, Take, Turn, Iterate, Listen, RaiseError, Continue, Stays,
         vars, threadVars, counterVars

LEMMA FlagsStay ==
  ASSUME TypesOK, NEW t \in Threads, At0(t), ThreadStep(t)
  PROVE  /\ error_flag' \in [Threads -> BOOLEAN] /\ exit_entry' \in [Threads -> Int]
         /\ \A u \in Threads : error_flag[u] => error_flag'[u]
         /\ \A u \in Threads : u # t => exit_entry'[u] = exit_entry[u]
<1>1. Other(t) \in Threads
  BY DEF Other, Threads
<1>2. UNCHANGED error_flag \/ \E u \in Threads : error_flag' = [error_flag EXCEPT ![u] = TRUE]
  BY <1>1 DEF ThreadStep, RaiseOther, StoreCounter, advance_absolute, fence_absolute, FenceFails,
         Spin, DoWork, Fail, Emit, EmitFails, Take, Turn, Iterate, Listen, RaiseError, vars, counterVars
<1>3. UNCHANGED exit_entry \/ \E x \in Int : exit_entry' = [exit_entry EXCEPT ![t] = x]
  <2>1. entry[t] \in Int /\ -1 \in Int
    BY DEF TypesOK
  <2> QED BY <2>1 DEF ThreadStep, RaiseOther, StoreCounter, advance_absolute, fence_absolute, FenceFails,
         Spin, DoWork, Fail, Emit, EmitFails, Take, Turn, Iterate, Listen, RaiseError, vars, stateVars
<1> QED BY <1>2, <1>3 DEF TypesOK

\* Progress is never taken back, and what is waited for comes first.
LEMMA Progress ==
  ASSUME TypesOK, NEW t \in Threads, At0(t), Moves(t)
  PROVE  LET before == counter_start[t] + Published(t, step[t], entry[t])
             after == counter_start'[t] + Published(t, step'[t], entry'[t])
         IN  /\ EntryOK(t, step'[t], entry'[t]) /\ before <= after
             /\ counter_start[t] + Waited(t, step[t], entry[t]) <= last_fence[t] =>
                  counter_start'[t] + Waited(t, step'[t], entry'[t]) <= last_fence'[t]
             /\ counter_value[t] <= before /\ mode[t] # "store" => counter_value'[t] <= after
<1> DEFINE i == step[t]
           e == entry[t]
           c == counter_start[t]
           f == last_fence[t]
           v == counter_value[t]
           j == step'[t]
           d == entry'[t]
           c2 == counter_start'[t]
           f2 == last_fence'[t]
           v2 == counter_value'[t]
<1>0. EntryOK(t, i, e) /\ i \in Nat /\ e \in Nat /\ c \in Nat /\ f \in Int /\ v \in Int
      /\ Published(t, i, e) \in Int /\ Waited(t, i, e) \in Int /\ CountOf(t, i) \in Nat /\ counter_end \in Nat
  BY TableTypes, Counts DEF TypesOK, At0
<1> SUFFICES /\ EntryOK(t, j, d) /\ c + Published(t, i, e) <= c2 + Published(t, j, d)
             /\ c + Waited(t, i, e) <= f => c2 + Waited(t, j, d) <= f2
             /\ v <= c + Published(t, i, e) /\ mode[t] # "store" => v2 <= c2 + Published(t, j, d)
  OBVIOUS
<1>1. CASE Stays(t) \/ Stores(t)
  <2>1. j = i /\ d = e /\ c2 = c /\ f2 = f /\ (v2 = v \/ mode[t] = "store")
    BY <1>1 DEF Stays, Stores
  <2> HIDE DEF i, e, c, f, v, j, d, c2, f2, v2
  <2> QED BY <1>0, <2>1
<1>2. CASE Advances(t)
  <2>1. j = i + 1 /\ d = 0 /\ c2 = c /\ f2 = f /\ v2 = c + CountOf(t, i) /\ OpOf(t, i) = "advance"
    BY <1>2 DEF Advances, Goes
  <2> HIDE DEF i, e, c, f, v, j, d, c2, f2, v2
  <2>2. /\ EntryOK(t, j, d) /\ Published(t, j, d) = CountOf(t, i) /\ Published(t, i, e) <= CountOf(t, i)
        /\ Waited(t, j, d) = Waited(t, i, e)
    BY <1>0, <2>1, AdvanceTable
  <2> QED BY <1>0, <2>1, <2>2
<1>3. CASE Passes(t)
  <2>1. /\ j = i + 1 /\ d = e /\ c2 = c /\ v2 = v /\ OpOf(t, i) = "fence"
        /\ (f >= c + CountOf(t, i) + e /\ f2 = f)
           \/ (f < c + CountOf(t, i) + e /\ f2 = c + CountOf(t, i) + e)
    BY <1>3 DEF Passes, Goes
  <2> HIDE DEF i, e, c, f, v, j, d, c2, f2, v2
  <2>2. /\ EntryOK(t, j, d) /\ Published(t, j, d) = Published(t, i, e)
        /\ Waited(t, j, d) <= Waited(t, i, e) \/ Waited(t, j, d) <= CountOf(t, i) + e
    BY <1>0, <2>1, FenceTable
  <2>3. Waited(t, j, d) \in Int
    BY <2>2, TableTypes
  <2> QED BY <1>0, <2>1, <2>2, <2>3
<1>4. CASE Works(t)
  <2>1. j = i + 1 /\ d = 0 /\ c2 = c /\ f2 = f /\ v2 = v /\ OpOf(t, i) \in {"work", "turn"}
    BY <1>4 DEF Works, Goes, SameCounts
  <2> HIDE DEF i, e, c, f, v, j, d, c2, f2, v2
  <2>2. EntryOK(t, j, d) /\ Published(t, j, d) = Published(t, i, e) /\ Waited(t, j, d) <= Waited(t, i, e)
    BY <1>0, <2>1, WorkTable
  <2>3. Waited(t, j, d) \in Int
    BY <2>2, TableTypes
  <2> QED BY <1>0, <2>1, <2>2, <2>3
<1>5. CASE Emits(t)
  <2>1. /\ c2 = c /\ f2 = f /\ v2 = c + CountOf(t, i) + e /\ OpOf(t, i) = "emit"
        /\ (j = i + 1 /\ d = 0) \/ (e < gcd_max_iterations /\ j = i /\ d = e + 1)
    BY <1>5 DEF Emits, Goes
  <2> HIDE DEF i, e, c, f, v, j, d, c2, f2, v2
  <2>2. EntryOK(t, j, d) /\ CountOf(t, i) + e <= Published(t, j, d) /\ Waited(t, j, d) <= Waited(t, i, e)
        /\ Published(t, i, e) <= CountOf(t, i) + e
    <3>1. /\ EntryOK(t, i + 1, 0) /\ (e < gcd_max_iterations => EntryOK(t, i, e + 1))
          /\ Published(t, i, e) <= CountOf(t, i) + e
          /\ Published(t, i, e + 1) = CountOf(t, i) + e /\ CountOf(t, i) + e <= Published(t, i + 1, 0)
          /\ Waited(t, i + 1, 0) <= Waited(t, i, e) /\ Waited(t, i, e + 1) <= Waited(t, i, e)
      BY <1>0, <2>1, EmitTable
    <3> QED BY <1>0, <2>1, <3>1
  <2>3. Waited(t, j, d) \in Int /\ Published(t, j, d) \in Int
    BY <2>2, TableTypes
  <2> QED BY <1>0, <2>1, <2>2, <2>3
<1>6. CASE Takes(t)
  <2>1. /\ c2 = c /\ f2 = f /\ v2 = v /\ OpOf(t, i) = "take"
        /\ (j = i + 1 /\ d = 0) \/ (j = i - 1 /\ d = e + 1)
    BY <1>6 DEF Takes, Goes, SameCounts
  <2> HIDE DEF i, e, c, f, v, j, d, c2, f2, v2
  <2>2. EntryOK(t, j, d) /\ Published(t, j, d) = Published(t, i, e) /\ Waited(t, j, d) <= Waited(t, i, e)
    BY <1>0, <2>1, TakeTable
  <2>3. Waited(t, j, d) \in Int
    BY <2>2, TableTypes
  <2> QED BY <1>0, <2>1, <2>2, <2>3
<1>7. CASE Iterates(t)
  <2>1. /\ j = (IF t = "master" THEN 24 ELSE 1) /\ d = 0 /\ c2 = c + counter_end /\ f2 = f /\ v2 = v
        /\ OpOf(t, i) = "iterate"
    BY <1>7 DEF Iterates
  <2> HIDE DEF i, e, c, f, v, j, d, c2, f2, v2
  <2>2. EntryOK(t, j, d) /\ Published(t, i, e) <= counter_end + Published(t, j, d)
        /\ counter_end + Waited(t, j, d) <= Waited(t, i, e)
    BY <1>0, <2>1, IterateTable
  <2>3. Waited(t, j, d) \in Int /\ Published(t, j, d) \in Int
    BY <2>2, TableTypes
  <2> QED BY <1>0, <2>1, <2>2, <2>3
<1>8. CASE Listens(t)
  <2>1. j = 1 /\ d = 0 /\ c2 = c /\ f2 = f /\ v2 = v /\ OpOf(t, i) = "listen"
    BY <1>8 DEF Listens, SameCounts
  <2> HIDE DEF i, e, c, f, v, j, d, c2, f2, v2
  <2>2. EntryOK(t, j, d) /\ Published(t, i, e) <= Published(t, j, d) /\ Waited(t, j, d) <= Waited(t, i, e)
    BY <1>0, <2>1, ListenTable
  <2>3. Waited(t, j, d) \in Int /\ Published(t, j, d) \in Int
    BY <2>2, TableTypes
  <2> QED BY <1>0, <2>1, <2>2, <2>3
<1> QED BY <1>1, <1>2, <1>3, <1>4, <1>5, <1>6, <1>7, <1>8 DEF Moves

----------------------------------------------------------------------------
(***************************************************************************)
(* The invariant of the counters                                           *)
(***************************************************************************)

\* A fence is passed only when the other thread has published what it waits
\* for: also last_fence is below what the other one can have published.  After
\* an error a thread may publish more, but then the other one's flag is raised.
CountOK(t) ==
  LET limit == counter_start[Other(t)] + Published(Other(t), step[Other(t)], entry[Other(t)])
  IN  /\ counter_start[t] + Waited(t, step[t], entry[t]) <= last_fence[t]
      /\ last_fence[t] <= limit
      /\ error_flag[t] \/ counter_value[Other(t)] <= limit

CountInv == TypesOK /\ \A t \in Threads : At0(t) /\ ModeOK(t) /\ CountOK(t)

LEMMA OtherThread ==
  ASSUME NEW t \in Threads
  PROVE  Other(t) \in Threads /\ Other(t) # t /\ Other(Other(t)) = t /\ \A u \in Threads : u # t => u = Other(t)
  BY DEF Threads, Other

LEMMA TypesNext ==
  ASSUME TypesOK, NEW t \in Threads, At0(t), ThreadStep(t)
  PROVE  TypesOK'
<1>0. Other(t) \in Threads /\ CountOf(t, step[t]) \in Nat /\ counter_end \in Nat
      /\ Current(t).at = CountOf(t, step[t])
  BY OtherThread, TableTypes, Counts, CurrentIs DEF At0
<1>1. error_flag' \in [Threads -> BOOLEAN] /\ exit_entry' \in [Threads -> Int]
  BY FlagsStay
<1>2. EntryOK(t, step'[t], entry'[t])
  BY ThreadMoves, Progress
<1>3. step' = [step EXCEPT ![t] = step'[t]] /\ entry' = [entry EXCEPT ![t] = entry'[t]]
  BY DEF TypesOK, ThreadStep, RaiseOther, StoreCounter, advance_absolute, fence_absolute, FenceFails,
         Spin, DoWork, Fail, Emit, EmitFails, Take, Turn, Iterate, Listen, RaiseError, Continue,
         vars, threadVars
<1>4. step'[t] \in Nat /\ entry'[t] \in Nat
  BY <1>2, TableTypes
<1>5. step' \in [Threads -> Nat] /\ entry' \in [Threads -> Nat]
  <2> DEFINE i == step'[t]
             e == entry'[t]
  <2>1. step' = [step EXCEPT ![t] = i] /\ entry' = [entry EXCEPT ![t] = e] /\ i \in Nat /\ e \in Nat
    BY <1>3, <1>4
  <2> HIDE DEF i, e
  <2> QED BY <2>1 DEF TypesOK
<1>6. mode' \in [Threads -> Modes]
  BY DEF TypesOK, Modes, ThreadStep, RaiseOther, StoreCounter, advance_absolute, fence_absolute, FenceFails,
         Spin, DoWork, Fail, Emit, EmitFails, Take, Turn, Iterate, Listen, RaiseError, Continue,
         vars, threadVars
<1>7. counter_start' \in [Threads -> Nat]
  <2>1. UNCHANGED counter_start \/ counter_start' = [counter_start EXCEPT ![t] = @ + counter_end]
    BY DEF ThreadStep, RaiseOther, StoreCounter, advance_absolute, fence_absolute, FenceFails,
         Spin, DoWork, Fail, Emit, EmitFails, Take, Turn, Iterate, Listen, RaiseError, Continue,
         vars, threadVars
  <2> QED BY <1>0, <2>1 DEF TypesOK
<1>8. last_fence' \in [Threads -> Int] /\ counter_value' \in [Threads -> Int]
  <2>1. \/ UNCHANGED <<last_fence, counter_value>>
        \/ \E x \in Int : last_fence' = [last_fence EXCEPT ![t] = x] /\ UNCHANGED counter_value
        \/ \E x \in Int : counter_value' = [counter_value EXCEPT ![t] = x] /\ UNCHANGED last_fence
    <3>1. CASE StoreCounter(t) \/ advance_absolute(t) \/ Emit(t)
      <4>1. counter_start[t] + Current(t).at \in Int /\ counter_start[t] + Current(t).at + entry[t] \in Int
        BY <1>0 DEF TypesOK
      <4> QED BY <3>1, <4>1 DEF StoreCounter, advance_absolute, Emit
    <3>2. CASE fence_absolute(t)
      <4>1. FenceTarget(t) \in Int
        BY <1>0 DEF TypesOK, FenceTarget
      <4> QED BY <3>2, <4>1 DEF fence_absolute, counterVars
    <3>3. CASE ~(StoreCounter(t) \/ advance_absolute(t) \/ Emit(t) \/ fence_absolute(t))
      BY <3>3 DEF ThreadStep, RaiseOther, FenceFails, Spin, DoWork, Fail, EmitFails, Take, Turn,
                  Iterate, Listen, vars, threadVars, counterVars
    <3> QED BY <3>1, <3>2, <3>3
  <2> QED BY <2>1 DEF TypesOK
<1> QED BY <1>1, <1>5, <1>6, <1>7, <1>8 DEF TypesOK

LEMMA ModeNext ==
  ASSUME TypesOK, NEW t \in Threads, At0(t), ModeOK(t), ThreadStep(t)
  PROVE  ModeOK(t)'
<1>0. Other(t) \in Threads /\ Current(t).op = OpOf(t, step[t]) /\ Current(t).fails = FailsOf(t, step[t])
      /\ step[t] \in Entry(t)
  BY OtherThread, CurrentIs DEF At0, EntryOK
<1>1. CASE RaiseOther(t)
  <2>1. /\ mode[t] = "raise" /\ step'[t] = step[t] /\ error_flag'[Other(t)]
        /\ mode'[t] = (IF OpOf(t, step[t]) = "advance" THEN "store" ELSE "ended")
    BY <1>0, <1>1 DEF RaiseOther, TypesOK
  <2>2. OpOf(t, step[t]) \notin {"turn", "iterate", "listen"}
    BY <2>1 DEF ModeOK
  <2> QED BY <2>1, <2>2 DEF ModeOK, OpOf, Other
<1>2. CASE RaiseError(t) /\ OpOf(t, step[t]) \notin {"turn", "iterate", "listen"}
  <2>1. mode'[t] = "raise" /\ step'[t] = step[t] /\ error_flag'[t]
    BY <1>2 DEF RaiseError, TypesOK
  <2> QED BY <1>2, <2>1 DEF ModeOK, OpOf, Other
<1>3. CASE mode'[t] \in {"run", "ended"}
  BY <1>3 DEF ModeOK
<1>4. CASE Fail(t)
  <2>1. FailsOf(t, step[t]) # "never" => OpOf(t, step[t]) \in {"work", "emit"}
    BY <1>0 DEF FailsOf, OpOf, Entry, Threads
  <2> QED BY <1>0, <1>2, <1>4, <2>1 DEF Fail
<1>5. CASE advance_absolute(t) \/ FenceFails(t) \/ EmitFails(t)
  BY <1>0, <1>2, <1>3, <1>5 DEF advance_absolute, FenceFails, EmitFails, At, Continue
<1>6. CASE StoreCounter(t) \/ fence_absolute(t) \/ DoWork(t) \/ Emit(t) \/ Take(t) \/ Turn(t)
           \/ Iterate(t) \/ Listen(t)
  <2>1. mode'[t] \in {"run", "ended"}
    BY <1>6 DEF StoreCounter, fence_absolute, DoWork, Emit, Take, Turn, Iterate, Listen, At, Continue, TypesOK
  <2> QED BY <1>3, <2>1
<1>7. CASE Spin(t)
  <2>1. mode'[t] = "run"
    BY <1>7 DEF Spin, At, vars, threadVars
  <2> QED BY <1>3, <2>1
<1> QED BY <1>1, <1>4, <1>5, <1>6, <1>7 DEF ThreadStep

LEMMA CountNext ==
  ASSUME CountInv, NEW t \in Threads, ThreadStep(t)
  PROVE  CountInv'
<1> DEFINE o == Other(t)
<1>0. TypesOK /\ At0(t) /\ At0(o) /\ ModeOK(t) /\ ModeOK(o) /\ CountOK(t) /\ CountOK(o) /\ o \in Threads
      /\ o # t /\ Other(o) = t /\ \A u \in Threads : u # t => u = o
  BY OtherThread DEF CountInv
<1>1. TypesOK' /\ Stays(o) /\ mode'[o] = mode[o] /\ Moves(t)
  BY <1>0, TypesNext, OtherStays, ThreadMoves
<1>2. (error_flag[o] => error_flag'[o]) /\ (error_flag[t] => error_flag'[t])
  BY <1>0, FlagsStay
<1> HIDE DEF o
<1>3. At0(t)' /\ At0(o)'
  <2>1. EntryOK(t, step'[t], entry'[t])
    BY <1>0, <1>1, Progress
  <2>2. EntryOK(o, step'[o], entry'[o])
    BY <1>0, <1>1 DEF At0, Stays
  <2> QED BY <2>1, <2>2 DEF At0, EntryOK, Entry, OpOf
<1> DEFINE before == counter_start[t] + Published(t, step[t], entry[t])
           after == counter_start'[t] + Published(t, step'[t], entry'[t])
           limit == counter_start[o] + Published(o, step[o], entry[o])
<1>4. /\ before <= after
      /\ counter_start'[t] + Waited(t, step'[t], entry'[t]) <= last_fence'[t]
      /\ counter_value[t] <= before /\ mode[t] # "store" => counter_value'[t] <= after
  BY <1>0, <1>1, Progress DEF CountOK
<1>5. before \in Int /\ after \in Int /\ limit \in Int
  <2>1. Published(t, step[t], entry[t]) \in Int /\ Published(o, step[o], entry[o]) \in Int
    BY <1>0, TableTypes DEF At0
  <2>2. Published(t, step'[t], entry'[t]) \in Int /\ counter_start'[t] \in Nat
    BY <1>0, <1>1, Progress, TableTypes DEF TypesOK
  <2> QED BY <1>0, <2>1, <2>2 DEF TypesOK
<1>6. CountOK(t)'
  <2>1. /\ last_fence[t] <= limit /\ (error_flag[t] \/ counter_value[o] <= limit)
    BY <1>0 DEF CountOK, o
  <2>2. last_fence'[t] <= limit
    <3>1. CASE Passes(t)
      <4> DEFINE target == counter_start[t] + CountOf(t, step[t]) + entry[t]
      <4>1. last_fence'[t] = last_fence[t]
            \/ (counter_value[o] >= target /\ ~error_flag[t] /\ last_fence'[t] = target)
        BY <3>1 DEF Passes, o
      <4>2. target \in Int /\ counter_value[o] \in Int
        BY <1>0, TableTypes DEF At0, TypesOK
      <4> HIDE DEF target, limit
      <4> QED BY <1>5, <2>1, <4>1, <4>2
    <3>2. CASE ~Passes(t)
      BY <1>1, <2>1, <3>2 DEF Moves, Stays, Stores, Advances, Works, Emits, Takes, Iterates, Listens, SameCounts
    <3> QED BY <3>1, <3>2
  <2>3. error_flag'[t] \/ counter_value'[o] <= limit
    BY <1>1, <1>2, <2>1 DEF Stays
  <2>4. limit = counter_start'[o] + Published(o, step'[o], entry'[o])
    BY <1>1 DEF Stays
  <2> QED BY <1>4, <2>2, <2>3, <2>4 DEF CountOK, o, Published, Waited, Other
<1>7. CountOK(o)'
  <2>1. /\ last_fence[o] <= before /\ (error_flag[o] \/ counter_value[t] <= before)
        /\ counter_start[o] + Waited(o, step[o], entry[o]) <= last_fence[o]
    BY <1>0 DEF CountOK
  <2>2. last_fence'[o] <= after
    <3>1. last_fence'[o] = last_fence[o] /\ last_fence[o] \in Int
      BY <1>0, <1>1 DEF Stays, TypesOK
    <3> HIDE DEF before, after
    <3> QED BY <1>4, <1>5, <2>1, <3>1
  <2>3. error_flag'[o] \/ counter_value'[t] <= after
    <3>1. mode[t] = "store" => error_flag[o]
      BY <1>0 DEF ModeOK, o
    <3> QED BY <1>2, <1>4, <2>1, <3>1
  <2>4. counter_start'[o] + Waited(o, step'[o], entry'[o]) <= last_fence'[o]
    BY <1>1, <2>1 DEF Stays
  <2> QED BY <1>0, <2>2, <2>3, <2>4 DEF CountOK, Published, Waited, Other
<1>8. ModeOK(o)'
  BY <1>0, <1>1, <1>2 DEF ModeOK, Stays, OpOf, Other
<1>9. ModeOK(t)'
  BY <1>0, ModeNext
<1> QED BY <1>0, <1>1, <1>3, <1>6, <1>7, <1>8, <1>9 DEF CountInv

LEMMA CountInit == Init => CountInv
<1> SUFFICES ASSUME Init PROVE CountInv
  OBVIOUS
<1>1. TypesOK
  BY DEF Init, TypesOK, Modes
<1>2. ASSUME NEW t \in Threads PROVE At0(t) /\ ModeOK(t) /\ CountOK(t)
  <2>1. Other(t) \in Threads
    BY OtherThread
  <2>2. \A u \in Threads : EntryOK(u, 1, 0) /\ Published(u, 1, 0) = 0 /\ Waited(u, 1, 0) <= 0 /\ Waited(u, 1, 0) \in Int
    BY DEF EntryOK, Published, Waited, Entry, OpOf, Threads
  <2>3. \A u \in Threads : step[u] = 1 /\ entry[u] = 0 /\ counter_start[u] = 0 /\ last_fence[u] = 0
           /\ counter_value[u] = 0 /\ mode[u] \in {"run", "ended"}
    BY DEF Init
  <2> QED BY <2>1, <2>2, <2>3 DEF At0, ModeOK, CountOK
<1> QED BY <1>1, <1>2 DEF CountInv

LEMMA CountStep == CountInv /\ [Next]_vars => CountInv'
<1> SUFFICES ASSUME CountInv, [Next]_vars PROVE CountInv'
  OBVIOUS
<1>1. ASSUME NEW t \in Threads, ThreadStep(t) PROVE CountInv'
  BY <1>1, CountNext
<1>2. CASE Assign \/ Done \/ UNCHANGED vars
  <2>1. UNCHANGED <<step, entry, mode, counter_start, last_fence, counter_value, error_flag, exit_entry>>
    BY <1>2 DEF Assign, Done, vars, threadVars, counterVars, stateVars
  <2> QED BY <2>1 DEF CountInv, TypesOK, At0, ModeOK, CountOK, EntryOK, Entry, OpOf, Published, Waited, Other
<1> QED BY <1>1, <1>2 DEF Next

----------------------------------------------------------------------------
(***************************************************************************)
(* How far apart the threads can be                                        *)
(***************************************************************************)

\* counter_start is a multiple of the counts of an iteration.
WholeRounds(c) == c % counter_end = 0

LEMMA DivMod ==
  ASSUME NEW x \in Nat, NEW p \in Nat \ {0}
  PROVE  x \div p \in Nat /\ x % p \in 0 .. p - 1 /\ x = (x \div p) * p + (x % p)
  OBVIOUS

LEMMA Quotient ==
  ASSUME NEW E \in Nat \ {0}, NEW k \in Nat
  PROVE  (k * E) \div E = k /\ (k * E) % E = 0
<1>1. k * E \in Nat
  OBVIOUS
<1> DEFINE x == k * E
           q == x \div E
           r == x % E
<1>2. q \in Nat /\ r \in 0 .. E - 1 /\ x = q * E + r
  <2> HIDE DEF x
  <2> QED BY <1>1, DivMod DEF x
<1>3. k * E = q * E + r
  BY <1>2
<1> HIDE DEF q, r, x
<1>4. ASSUME q < k PROVE FALSE
  <2>1. (q + 1) * E <= k * E
    BY <1>2, <1>4
  <2>2. (q + 1) * E = q * E + E /\ q * E \in Nat
    BY <1>2
  <2> QED BY <1>1, <1>2, <1>3, <2>1, <2>2
<1>5. ASSUME k < q PROVE FALSE
  <2>1. (k + 1) * E <= q * E
    BY <1>2, <1>5
  <2>2. (k + 1) * E = k * E + E /\ q * E \in Nat
    BY <1>2
  <2> QED BY <1>1, <1>2, <1>3, <2>1, <2>2
<1>6. q = k /\ r = 0
  <2>1. q = k
    BY <1>2, <1>4, <1>5
  <2> QED BY <1>1, <1>2, <1>3, <2>1
<1> QED BY <1>6 DEF q, r, x

LEMMA RoundOf ==
  ASSUME NEW c \in Nat, WholeRounds(c)
  PROVE  /\ c \div counter_end \in Nat /\ c = (c \div counter_end) * counter_end
         /\ WholeRounds(c + counter_end) /\ (c + counter_end) \div counter_end = (c \div counter_end) + 1
<1> DEFINE E == counter_end
           k == c \div E
<1>0. E \in Nat \ {0}
  BY Counts
<1>1. k \in Nat /\ c = k * E + (c % E)
  <2> HIDE DEF E
  <2> QED BY <1>0
<1>2. c = k * E
  <2> HIDE DEF k, E
  <2>1. k * E \in Nat /\ c % E = 0
    BY <1>0, <1>1 DEF WholeRounds, E
  <2> QED BY <1>1, <2>1
<1>3. ((k + 1) * E) \div E = k + 1 /\ ((k + 1) * E) % E = 0
  <2> DEFINE n == k + 1
  <2>1. n \in Nat
    BY <1>1
  <2> HIDE DEF n, E
  <2>2. (n * E) \div E = n /\ (n * E) % E = 0
    BY <1>0, <2>1, Quotient
  <2> QED BY <2>2 DEF n
<1>4. (k + 1) * E = c + E
  <2> HIDE DEF k, E
  <2> QED BY <1>0, <1>1, <1>2
<1> QED BY <1>1, <1>2, <1>3, <1>4 DEF WholeRounds

\* Two starts of rounds that are less than two rounds apart.
LEMMA NearRounds ==
  ASSUME NEW c \in Nat, NEW d \in Nat, WholeRounds(c), WholeRounds(d), c < d + 2 * counter_end,
         d < c + 2 * counter_end
  PROVE  c = d \/ c = d + counter_end \/ d = c + counter_end
<1> DEFINE E == counter_end
           k == c \div E
           l == d \div E
<1>1. E \in Nat \ {0} /\ k \in Nat /\ l \in Nat /\ c = k * E /\ d = l * E
  BY Counts, RoundOf
<1>2. c < d + 2 * E /\ d < c + 2 * E
  OBVIOUS
<1> HIDE DEF E, k, l
<1>3. k < l + 2
  <2>1. ASSUME l + 2 <= k PROVE FALSE
    <3>1. (l + 2) * E <= k * E /\ (l + 2) * E = l * E + 2 * E
      BY <1>1, <2>1
    <3> QED BY <1>1, <1>2, <3>1
  <2> QED BY <1>1, <2>1
<1>4. l < k + 2
  <2>1. ASSUME k + 2 <= l PROVE FALSE
    <3>1. (k + 2) * E <= l * E /\ (k + 2) * E = k * E + 2 * E
      BY <1>1, <2>1
    <3> QED BY <1>1, <1>2, <3>1
  <2> QED BY <1>1, <2>1
<1>5. k = l \/ k = l + 1 \/ l = k + 1
  BY <1>1, <1>3, <1>4
<1>6. (l + 1) * E = l * E + E /\ (k + 1) * E = k * E + E
  BY <1>1
<1>7. c = d \/ c = d + E \/ d = c + E
  BY <1>1, <1>5, <1>6
<1> QED BY <1>7 DEF E

RoundInv == \A t \in Threads : WholeRounds(counter_start[t])

LEMMA RoundNext == CountInv /\ RoundInv /\ [Next]_vars => RoundInv'
<1> SUFFICES ASSUME CountInv, RoundInv, [Next]_vars, NEW u \in Threads PROVE WholeRounds(counter_start'[u])
  BY DEF RoundInv, WholeRounds, counter_end, get_counter_start, gcd_num_counter
<1>0. WholeRounds(counter_start[u]) /\ counter_start[u] \in Nat
  BY DEF RoundInv, CountInv, TypesOK
<1>1. ASSUME NEW t \in Threads, ThreadStep(t) PROVE counter_start'[u] \in {counter_start[u], counter_start[u] + counter_end}
  <2>1. u # t => Stays(u)
    BY <1>1, OtherStays DEF CountInv
  <2>2. Moves(t)
    BY <1>1, ThreadMoves DEF CountInv
  <2> QED BY <2>1, <2>2 DEF Moves, Stays, Stores, Advances, Passes, Works, Emits, Takes, Iterates, Listens, SameCounts
<1>2. CASE Assign \/ Done \/ UNCHANGED vars
  BY <1>0, <1>2 DEF Assign, Done, vars, threadVars
<1>3. WholeRounds(counter_start[u] + counter_end)
  BY <1>0, RoundOf
<1> QED BY <1>0, <1>1, <1>2, <1>3 DEF Next

LEMMA RoundInit == Init => RoundInv
<1>1. WholeRounds(0)
  <2>1. counter_end \in Nat \ {0}
    BY Counts
  <2> QED BY <2>1 DEF WholeRounds
<1> QED BY <1>1 DEF Init, RoundInv

\* The threads are in the same round, or the slave has begun the next one and
\* waits, or the slave has only the end of the last one to do.
Together == counter_start["slave"] = counter_start["master"]
SlaveWaits ==
  /\ counter_start["slave"] = counter_start["master"] + counter_end
  /\ step["slave"] \in {1, 2} /\ step["master"] \in 11 .. 23
SlaveEnds ==
  /\ counter_start["master"] = counter_start["slave"] + counter_end
  /\ step["slave"] = 20 /\ step["master"] \in {1, 2, 24}

\* What the counters say about two threads of the same round.
InStep ==
  /\ Waited("master", step["master"], entry["master"]) <= Published("slave", step["slave"], entry["slave"])
  /\ Waited("slave", step["slave"], entry["slave"]) <= Published("master", step["master"], entry["master"])

LEMMA Aligned ==
  ASSUME CountInv, RoundInv
  PROVE  (Together /\ InStep) \/ SlaveWaits \/ SlaveEnds
<1> DEFINE i == step["master"]
           j == step["slave"]
           d == entry["master"]
           e == entry["slave"]
           c == counter_start["master"]
           b == counter_start["slave"]
<1>0. /\ "master" \in Threads /\ "slave" \in Threads /\ Other("master") = "slave" /\ Other("slave") = "master"
      /\ EntryOK("master", i, d) /\ EntryOK("slave", j, e) /\ c \in Nat /\ b \in Nat
      /\ WholeRounds(c) /\ WholeRounds(b)
  BY DEF Threads, Other, CountInv, At0, TypesOK, RoundInv
<1>1. /\ c + Waited("master", i, d) <= b + Published("slave", j, e)
      /\ b + Waited("slave", j, e) <= c + Published("master", i, d)
  <2>1. /\ c + Waited("master", i, d) <= last_fence["master"]
        /\ last_fence["master"] <= b + Published("slave", j, e)
        /\ b + Waited("slave", j, e) <= last_fence["slave"]
        /\ last_fence["slave"] <= c + Published("master", i, d)
    BY <1>0 DEF CountInv, CountOK
  <2>2. /\ Waited("master", i, d) \in Int /\ Published("slave", j, e) \in Int
        /\ Waited("slave", j, e) \in Int /\ Published("master", i, d) \in Int
    BY <1>0, TableTypes
  <2>3. last_fence["master"] \in Int /\ last_fence["slave"] \in Int
    BY <1>0 DEF CountInv, TypesOK
  <2> DEFINE wm == Waited("master", i, d)
             ws == Waited("slave", j, e)
             pm == Published("master", i, d)
             ps == Published("slave", j, e)
             fm == last_fence["master"]
             fs == last_fence["slave"]
  <2>4. /\ c + wm <= fm /\ fm <= b + ps /\ b + ws <= fs /\ fs <= c + pm
        /\ wm \in Int /\ ws \in Int /\ pm \in Int /\ ps \in Int /\ fm \in Int /\ fs \in Int
    BY <2>1, <2>2, <2>3
  <2> HIDE DEF wm, ws, pm, ps, fm, fs, b, c
  <2>5. c + wm <= b + ps /\ b + ws <= c + pm
    BY <1>0, <2>4
  <2> QED BY <2>5 DEF wm, ws, pm, ps
<1> HIDE DEF i, j, d, e, c, b
<1>2. /\ Published("master", i, d) \in Int /\ Published("master", i, d) <= 2 * G + 2
      /\ Published("slave", j, e) \in Int /\ Published("slave", j, e) <= 2 * G + 2
      /\ Waited("master", i, d) \in Int /\ Waited("master", i, d) >= -1
      /\ Waited("slave", j, e) \in Int /\ Waited("slave", j, e) >= -3
      /\ Waited("slave", j, e) < 0 => j \in {1, 2}
      /\ Waited("master", i, d) < 0 => i \in {1, 2, 24}
      /\ Published("slave", j, e) = 2 * G + 2 => j = 20
      /\ Published("master", i, d) >= 2 * G => i \in 11 .. 23
  BY <1>0, Counts DEF EntryOK, Entry, OpOf, Published, Waited
<1> DEFINE wm == Waited("master", i, d)
           ws == Waited("slave", j, e)
           pm == Published("master", i, d)
           ps == Published("slave", j, e)
<1>3. /\ wm \in Int /\ ws \in Int /\ pm \in Int /\ ps \in Int /\ pm <= 2 * G + 2 /\ ps <= 2 * G + 2
      /\ wm >= -1 /\ ws >= -3 /\ c + wm <= b + ps /\ b + ws <= c + pm
      /\ (ws < 0 => j \in {1, 2}) /\ (wm < 0 => i \in {1, 2, 24}) /\ (ps = 2 * G + 2 => j = 20)
      /\ (pm >= 2 * G => i \in 11 .. 23)
  BY <1>1, <1>2
<1> HIDE DEF wm, ws, pm, ps
<1>4. counter_end = 2 * G + 3 /\ G \in Nat /\ G >= 2
  BY Counts
<1>5. c < b + 2 * counter_end /\ b < c + 2 * counter_end
  BY <1>0, <1>3, <1>4
<1>6. b = c \/ b = c + counter_end \/ c = b + counter_end
  BY <1>0, <1>5, NearRounds
<1>7. CASE b = c
  <2>1. wm <= ps /\ ws <= pm
    BY <1>0, <1>3, <1>7
  <2> QED BY <1>7, <2>1 DEF Together, InStep, wm, ws, pm, ps, i, j, d, e, b, c
<1>8. CASE b = c + counter_end
  <2>1. j \in {1, 2} /\ i \in 11 .. 23
    BY <1>0, <1>3, <1>4, <1>8
  <2> QED BY <1>8, <2>1 DEF SlaveWaits, i, j, b, c
<1>9. CASE c = b + counter_end
  <2>1. i \in {1, 2, 24} /\ j = 20
    BY <1>0, <1>3, <1>4, <1>9
  <2> QED BY <1>9, <2>1 DEF SlaveEnds, i, j, b, c
<1> QED BY <1>6, <1>7, <1>8, <1>9

----------------------------------------------------------------------------
(***************************************************************************)
(* No data race                                                            *)
(***************************************************************************)

\* The fields a thread uses and changes at each entry.  Entries that are not
\* named touch nothing.
MasterUses(i, x, e) ==
  IF i = 3 THEN {<<"a", x>>, <<"b", x>>, <<"ab_index", 0>>}
  ELSE IF i = 4 THEN {<<"gcd_start", 0>>}
  ELSE IF i = 9 THEN {<<"gcd_s_t", e>>}
  ELSE IF i = 12 THEN {<<"c", 0>>, <<"v", 0>>}
  ELSE IF i = 14 THEN {<<"a", x>>, <<"b", x>>, <<"ab_index", 0>>, <<"t", 0>>, <<"v", 0>>, <<"c_v1", 0>>}
  ELSE IF i = 17 THEN {<<"t_t_S", 0>>, <<"v1_h", 0>>, <<"ab_index", 0>>}
  ELSE IF i = 20 THEN {<<"gcd_end", 0>>, <<"v0_2", 0>>, <<"h", 0>>}
  ELSE IF i = 22 THEN {<<"a", 1 - x>>, <<"A_2", 0>>, <<"e", 0>>, <<"v0_2_h", 0>>, <<"ab_index", 0>>}
  ELSE IF i = 24 THEN {<<"a", x>>, <<"b", x>>, <<"ab_index", 0>>, <<"corruption_flag", 0>>}
  ELSE {}

MasterChanges(i, x, e) ==
  IF i = 3 THEN {<<"gcd_start", 0>>}
  ELSE IF i = 4 THEN {<<"gcd_1_0", e>>, <<"gcd_end", 0>>}
  ELSE IF i = 9 THEN {<<"v", 0>>}
  ELSE IF i = 12 THEN {<<"c_v1", 0>>}
  ELSE IF i = 14 THEN {<<"h", 0>>, <<"v1_h", 0>>}
  ELSE IF i = 17 THEN {<<"a", 1 - x>>, <<"A_2", 0>>}
  ELSE IF i = 20 THEN {<<"v0_2_h", 0>>, <<"corruption_flag", 0>>}
  ELSE IF i = 22 THEN {<<"a", 1 - x>>, <<"b", 1 - x>>, <<"ab_index", 0>>}
  ELSE IF i = 24 THEN {<<"c", 0>>}
  ELSE {}

SlaveUses(i, x, e) ==
  IF i = 3 THEN {<<"a", x>>, <<"b", x>>, <<"ab_index", 0>>}
  ELSE IF i = 5 THEN {<<"a", x>>, <<"c", 0>>, <<"U", 0>>, <<"gcd_1_0", e>>, <<"ab_index", 0>>}
  ELSE IF i = 8 THEN {<<"a", x>>, <<"U", 0>>, <<"ab_index", 0>>}
  ELSE IF i = 9 THEN {<<"t", 0>>}
  ELSE IF i = 13 THEN {<<"t", 0>>}
  ELSE IF i = 15 THEN {<<"v", 0>>, <<"t_t_S", 0>>}
  ELSE IF i = 18 THEN {<<"a", x>>, <<"b", x>>, <<"t", 0>>, <<"v", 0>>, <<"ab_index", 0>>}
  ELSE {}

SlaveChanges(i, x, e) ==
  IF i = 3 THEN {<<"c", 0>>, <<"U", 0>>, <<"corruption_flag", 0>>}
  ELSE IF i = 5 THEN {<<"U", 0>>}
  ELSE IF i = 8 THEN {<<"t", 0>>}
  ELSE IF i = 9 THEN {<<"gcd_s_t", e>>, <<"t", 0>>}
  ELSE IF i = 13 THEN {<<"t_t_S", 0>>}
  ELSE IF i = 15 THEN {<<"t_t_S", 0>>, <<"v0_2", 0>>}
  ELSE IF i = 18 THEN {<<"e", 0>>}
  ELSE {}

LEMMA MasterTouches ==
  ASSUME step["master"] \in 1 .. 24
  PROVE  LET i == step["master"]
             e == entry["master"]
         IN  Uses("master") \subseteq MasterUses(i, ab_index, e) /\ Changes("master") \subseteq MasterChanges(i, ab_index, e)
<1> DEFINE t == "master"
           i == step[t]
           P == Programs[t]
<1> USE DEF Uses, Changes, Reads, Writes, Located, ThroughIndex, At, Current, Step, Advance, Fence, Work,
            MasterUses, MasterChanges
<1>1. CASE i \in {1, 2, 5, 6, 7, 8, 10, 11, 13, 15, 16, 18, 19, 21, 23}
  BY <1>1, MasterSteps
<1>2. CASE i = 3
  BY <1>2, MasterSteps
<1>3. CASE i = 4
  BY <1>3, MasterSteps
<1>4. CASE i = 9
  BY <1>4, MasterSteps
<1>5. CASE i = 12
  BY <1>5, MasterSteps
<1>6. CASE i = 14
  BY <1>6, MasterSteps
<1>7. CASE i = 17
  BY <1>7, MasterSteps
<1>8. CASE i = 20
  BY <1>8, MasterSteps
<1>9. CASE i = 22
  BY <1>9, MasterSteps
<1>10. CASE i = 24
  BY <1>10, MasterSteps
<1> QED BY <1>1, <1>2, <1>3, <1>4, <1>5, <1>6, <1>7, <1>8, <1>9, <1>10

LEMMA SlaveTouches ==
  ASSUME step["slave"] \in 1 .. 20
  PROVE  LET i == step["slave"]
             e == entry["slave"]
         IN  Uses("slave") \subseteq SlaveUses(i, ab_index, e) /\ Changes("slave") \subseteq SlaveChanges(i, ab_index, e)
<1> DEFINE t == "slave"
           i == step[t]
           P == Programs[t]
<1> USE DEF Uses, Changes, Reads, Writes, Located, ThroughIndex, At, Current, Step, Advance, Fence, Work,
            SlaveUses, SlaveChanges
<1>1. CASE i \in {1, 2, 4, 6, 7, 10, 11, 12, 14, 16, 17, 19, 20}
  BY <1>1, SlaveSteps
<1>2. CASE i = 3
  BY <1>2, SlaveSteps
<1>3. CASE i = 5
  BY <1>3, SlaveSteps
<1>4. CASE i = 8
  BY <1>4, SlaveSteps
<1>5. CASE i = 9
  BY <1>5, SlaveSteps
<1>6. CASE i = 13
  BY <1>6, SlaveSteps
<1>7. CASE i = 15
  BY <1>7, SlaveSteps
<1>8. CASE i = 18
  BY <1>8, SlaveSteps
<1> QED BY <1>1, <1>2, <1>3, <1>4, <1>5, <1>6, <1>7, <1>8

\* Entries at which the two threads can be in the same round touch different
\* fields.
Disjoint(i, d, j, e, x) ==
  /\ MasterChanges(i, x, d) \intersect (SlaveUses(j, x, e) \union SlaveChanges(j, x, e)) = {}
  /\ SlaveChanges(j, x, e) \intersect (MasterUses(i, x, d) \union MasterChanges(i, x, d)) = {}

LEMMA DisjointInRound ==
  ASSUME NEW i, NEW d, NEW j, NEW e, NEW x \in {0, 1}, EntryOK("master", i, d), EntryOK("slave", j, e),
         Waited("master", i, d) <= Published("slave", j, e), Waited("slave", j, e) <= Published("master", i, d)
  PROVE  Disjoint(i, d, j, e, x)
<1>0. G \in Nat /\ G = gcd_max_iterations + 2 /\ gcd_max_iterations \in Nat /\ d \in Nat /\ e \in Nat
      /\ i \in 1 .. 24 /\ j \in 1 .. 20
      /\ (i = 4 => d <= gcd_max_iterations) /\ (j = 9 => e <= gcd_max_iterations)
  BY Counts DEF EntryOK, Entry, OpOf
<1> USE DEF Disjoint, MasterChanges, MasterUses, SlaveUses, SlaveChanges
<1>1. CASE i \notin {3, 4, 9, 12, 14, 17, 20, 22, 24} \/ j \notin {3, 5, 8, 9, 13, 15, 18}
  <2>1. CASE i \notin {3, 4, 9, 12, 14, 17, 20, 22, 24}
    <3>1. MasterChanges(i, x, d) = {} /\ MasterUses(i, x, d) = {}
      BY <2>1
    <3> QED BY <3>1
  <2>2. CASE j \notin {3, 5, 8, 9, 13, 15, 18}
    <3>1. SlaveChanges(j, x, e) = {} /\ SlaveUses(j, x, e) = {}
      BY <2>2
    <3> QED BY <3>1
  <2> QED BY <1>1, <2>1, <2>2
<1>2. CASE i = 3 /\ j \in {3, 5, 8, 9, 13, 15, 18}
  BY <1>2
<1>3. CASE i = 4 /\ j \in {3, 5, 8, 9, 13, 15, 18}
  <2>1. j = 5 => e # d
    BY <1>0, <1>3 DEF Waited, Published
  <2> QED BY <1>3, <2>1
<1>4. CASE i = 9 /\ j \in {3, 5, 8, 9, 13, 15, 18}
  <2>1. j \notin {15, 18} /\ (j = 9 => e # d)
    BY <1>0, <1>4 DEF Waited, Published
  <2> QED BY <1>4, <2>1
<1>5. CASE i = 12 /\ j \in {3, 5, 8, 9, 13, 15, 18}
  <2>1. j # 3
    BY <1>0, <1>5 DEF Waited, Published
  <2> QED BY <1>5, <2>1
<1>6. CASE i = 14 /\ j \in {3, 5, 8, 9, 13, 15, 18}
  <2>1. j \notin {8, 9}
    BY <1>0, <1>6 DEF Waited, Published
  <2> QED BY <1>6, <2>1
<1>7. CASE i = 17 /\ j \in {3, 5, 8, 9, 13, 15, 18}
  <2>1. j = 18 /\ x # 1 - x
    BY <1>0, <1>7 DEF Waited, Published
  <2> QED BY <1>7, <2>1
<1>8. CASE i = 20 /\ j \in {3, 5, 8, 9, 13, 15, 18}
  <2>1. j = 18
    BY <1>0, <1>8 DEF Waited, Published
  <2> QED BY <1>8, <2>1
<1>9. ASSUME i \in {22, 24}, j \in {3, 5, 8, 9, 13, 15, 18} PROVE FALSE
  BY <1>0, <1>9 DEF Waited, Published
<1> QED BY <1>0, <1>1, <1>2, <1>3, <1>4, <1>5, <1>6, <1>7, <1>8, <1>9

IndexInv == ab_index \in {0, 1}

LEMMA IndexNext == IndexInv /\ [Next]_vars => IndexInv'
<1> SUFFICES ASSUME IndexInv, [Next]_vars PROVE IndexInv'
  OBVIOUS
<1>1. ab_index' \in {ab_index, 1 - ab_index}
  BY DEF Next, ThreadStep, RaiseOther, StoreCounter, advance_absolute, fence_absolute, FenceFails,
         Spin, DoWork, Fail, Emit, EmitFails, Take, Turn, Iterate, Listen, Assign, Done, vars, stateVars
<1> QED BY <1>1 DEF IndexInv

\* NoDataRace (phase_0_master .. phase_4_master, phase_0_slave ..
\* phase_4_slave, repeated_square_fast_work): no field of square_state is
\* changed by one thread while the other uses it, for any number of squarings
\* and of gcd entries, whatever fails or times out.
THEOREM NeverADataRace == Spec => []NoDataRace
<1>1. CountInv /\ RoundInv /\ IndexInv => NoDataRace
  <2> SUFFICES ASSUME CountInv, RoundInv, IndexInv PROVE NoDataRace
    OBVIOUS
  <2> DEFINE i == step["master"]
             d == entry["master"]
             j == step["slave"]
             e == entry["slave"]
  <2>1. EntryOK("master", i, d) /\ EntryOK("slave", j, e) /\ i \in 1 .. 24 /\ j \in 1 .. 20
    BY DEF CountInv, At0, EntryOK, Entry, Threads
  <2>2. Disjoint(i, d, j, e, ab_index)
    <3>1. CASE Together /\ InStep
      <4>1. Waited("master", i, d) <= Published("slave", j, e) /\ Waited("slave", j, e) <= Published("master", i, d)
        BY <3>1 DEF InStep
      <4> HIDE DEF i, d, j, e
      <4> QED BY <2>1, <4>1, DisjointInRound DEF IndexInv
    <3>2. CASE SlaveWaits \/ SlaveEnds
      <4>1. j \in {1, 2, 20}
        BY <3>2 DEF SlaveWaits, SlaveEnds
      <4> HIDE DEF i, d, j, e
      <4> QED BY <4>1 DEF Disjoint, SlaveUses, SlaveChanges
    <3> QED BY <3>1, <3>2, Aligned
  <2>3. /\ Uses("master") \subseteq MasterUses(i, ab_index, d) /\ Changes("master") \subseteq MasterChanges(i, ab_index, d)
        /\ Uses("slave") \subseteq SlaveUses(j, ab_index, e) /\ Changes("slave") \subseteq SlaveChanges(j, ab_index, e)
    BY <2>1, MasterTouches, SlaveTouches
  <2>4. /\ Changes("master") \intersect (Uses("slave") \union Changes("slave")) = {}
        /\ Changes("slave") \intersect (Uses("master") \union Changes("master")) = {}
    <3> HIDE DEF i, d, j, e
    <3> QED BY <2>2, <2>3 DEF Disjoint
  <2>5. Other("master") = "slave" /\ Other("slave") = "master" /\ Threads = {"master", "slave"}
    BY DEF Other, Threads
  <2> QED BY <2>4, <2>5 DEF NoDataRace
<1>2. Init => IndexInv
  BY DEF Init, IndexInv
<1> QED BY <1>1, <1>2, CountInit, CountStep, RoundInit, RoundNext, IndexNext, PTL DEF Spec

----------------------------------------------------------------------------
(***************************************************************************)
(* Which fields hold data of the iteration                                 *)
(***************************************************************************)

Flags == {<<"ab_index", 0>>, <<"corruption_flag", 0>>}

\* What the steps read and write of the tagged fields.
LEMMA MasterIO ==
  ASSUME step["master"] \in 1 .. 24
  PROVE  LET i == step["master"]
             e == entry["master"]
         IN  /\ Reads("master") \subseteq MasterUses(i, ab_index, e) \ Flags
             /\ Writes("master") = MasterChanges(i, ab_index, e) \ Flags
<1> DEFINE t == "master"
           i == step[t]
           P == Programs[t]
<1> USE DEF Reads, Writes, Located, Current, Step, Advance, Fence, Work, MasterUses, MasterChanges, Flags
<1>1. CASE i \in {1, 2, 5, 6, 7, 8, 10, 11, 13, 15, 16, 18, 19, 21, 23}
  BY <1>1, MasterSteps
<1>2. CASE i = 3
  BY <1>2, MasterSteps
<1>3. CASE i = 4
  BY <1>3, MasterSteps
<1>4. CASE i = 9
  BY <1>4, MasterSteps
<1>5. CASE i = 12
  BY <1>5, MasterSteps
<1>6. CASE i = 14
  BY <1>6, MasterSteps
<1>7. CASE i = 17
  BY <1>7, MasterSteps
<1>8. CASE i = 20
  BY <1>8, MasterSteps
<1>9. CASE i = 22
  BY <1>9, MasterSteps
<1>10. CASE i = 24
  BY <1>10, MasterSteps
<1> QED BY <1>1, <1>2, <1>3, <1>4, <1>5, <1>6, <1>7, <1>8, <1>9, <1>10

LEMMA SlaveIO ==
  ASSUME step["slave"] \in 1 .. 20
  PROVE  LET i == step["slave"]
             e == entry["slave"]
         IN  /\ Reads("slave") \subseteq SlaveUses(i, ab_index, e) \ Flags
             /\ Writes("slave") = SlaveChanges(i, ab_index, e) \ Flags
<1> DEFINE t == "slave"
           i == step[t]
           P == Programs[t]
<1> USE DEF Reads, Writes, Located, Current, Step, Advance, Fence, Work, SlaveUses, SlaveChanges, Flags
<1>1. CASE i \in {1, 2, 4, 6, 7, 10, 11, 12, 14, 16, 17, 19, 20}
  BY <1>1, SlaveSteps
<1>2. CASE i = 3
  BY <1>2, SlaveSteps
<1>3. CASE i = 5
  BY <1>3, SlaveSteps
<1>4. CASE i = 8
  BY <1>4, SlaveSteps
<1>5. CASE i = 9
  BY <1>5, SlaveSteps
<1>6. CASE i = 13
  BY <1>6, SlaveSteps
<1>7. CASE i = 15
  BY <1>7, SlaveSteps
<1>8. CASE i = 18
  BY <1>8, SlaveSteps
<1> QED BY <1>1, <1>2, <1>3, <1>4, <1>5, <1>6, <1>7, <1>8

\* The fields that hold data of the current iteration: what the master has
\* computed when it is at entry i with the gcd entry d and its gcd has ended
\* with the entry m; what the slave has, at j, e and n.  While the slave runs
\* its gcd, t changes with every entry, so that a failure leaves t unknown.
MasterHas(l, i, d, m, x) ==
  \/ i >= 4 /\ l = <<"gcd_start", 0>>
  \/ i = 4 /\ \E k \in 0 .. d - 1 : l = <<"gcd_1_0", k>>
  \/ i >= 5 /\ \E k \in 0 .. m : l = <<"gcd_1_0", k>>
  \/ i >= 5 /\ l = <<"gcd_end", 0>>
  \/ i >= 10 /\ l = <<"v", 0>>
  \/ i >= 13 /\ l = <<"c_v1", 0>>
  \/ i >= 15 /\ l \in {<<"h", 0>>, <<"v1_h", 0>>}
  \/ i >= 18 /\ l \in {<<"a", 1 - x>>, <<"A_2", 0>>}
  \/ i >= 21 /\ l = <<"v0_2_h", 0>>

SlaveHas(l, j, e, n, runs) ==
  \/ j >= 4 /\ l \in {<<"c", 0>>, <<"U", 0>>}
  \/ (j >= 10 \/ (j = 9 /\ runs)) /\ l = <<"t", 0>>
  \/ j = 9 /\ \E k \in 0 .. e - 1 : l = <<"gcd_s_t", k>>
  \/ j >= 10 /\ \E k \in 0 .. n : l = <<"gcd_s_t", k>>
  \/ j >= 14 /\ l = <<"t_t_S", 0>>
  \/ j >= 16 /\ l = <<"v0_2", 0>>
  \/ j >= 19 /\ l = <<"e", 0>>

\* The entries at which a thread reads the other one's gcd entries.
EntriesOK(i, d, m, j, e, n) ==
  /\ i \in 5 .. 22 => m \in 0 .. gcd_max_iterations
  /\ j >= 10 => n \in 0 .. gcd_max_iterations
  /\ i \in 5 .. 22 /\ j \in {4, 5} => e <= m
  /\ i \in {8, 9} /\ j >= 10 => d <= n

\* What a step reads is there: computed by the thread itself, or by the other
\* one before the count that was waited for.
LEMMA MasterFinds ==
  ASSUME NEW i, NEW d, NEW j, NEW e, NEW x \in {0, 1}, NEW m \in Int, NEW n \in Int, NEW runs \in BOOLEAN,
         EntryOK("master", i, d), EntryOK("slave", j, e), EntriesOK(i, d, m, j, e, n), i < 23,
         Waited("master", i, d) <= Published("slave", j, e), Waited("slave", j, e) <= Published("master", i, d),
         NEW l \in MasterUses(i, x, d) \ Flags
  PROVE  l \in Locations /\ (l \in {<<"a", x>>, <<"b", x>>} \/ MasterHas(l, i, d, m, x) \/ SlaveHas(l, j, e, n, runs))
<1>0. G \in Nat /\ G = gcd_max_iterations + 2 /\ gcd_max_iterations \in Nat /\ d \in Nat /\ e \in Nat
      /\ i \in 1 .. 24 /\ j \in 1 .. 20
      /\ (j = 9 => e <= gcd_max_iterations)
  BY Counts DEF EntryOK, Entry, OpOf
<1>a. \A y \in {0, 1} : <<"a", y>> \in Locations /\ <<"b", y>> \in Locations
  BY DEF Locations
<1>b. \A item \in Items : <<item, 0>> \in Locations
  BY DEF Locations
<1>c. \A k \in 0 .. gcd_max_iterations : <<"gcd_s_t", k>> \in Locations
  BY DEF Locations
<1>1. CASE i \notin {9, 12, 14, 17, 20, 22}
  BY <1>0, <1>1, <1>a, <1>b DEF MasterUses, Flags, MasterHas, Items
<1>2. CASE i = 9
  <2>1. l = <<"gcd_s_t", d>>
    BY <1>2 DEF MasterUses
  <2>2. (j = 9 /\ d < e) \/ j >= 10
    BY <1>0, <1>2 DEF Waited, Published
  <2>3. j >= 10 => d <= n /\ n \in 0 .. gcd_max_iterations
    BY <1>0, <1>2 DEF EntriesOK
  <2> QED BY <1>0, <1>c, <2>1, <2>2, <2>3 DEF SlaveHas
<1>3. CASE i = 12
  <2>1. j >= 4
    BY <1>0, <1>3 DEF Waited, Published
  <2> QED BY <1>0, <1>3, <2>1, <1>b DEF MasterUses, Flags, MasterHas, SlaveHas, Items
<1>4. CASE i = 14
  <2>1. j >= 10
    BY <1>0, <1>4 DEF Waited, Published
  <2> QED BY <1>0, <1>4, <2>1, <1>a, <1>b DEF MasterUses, Flags, MasterHas, SlaveHas, Items
<1>5. CASE i = 17
  <2>1. j >= 16
    BY <1>0, <1>5 DEF Waited, Published
  <2> QED BY <1>0, <1>5, <2>1, <1>b DEF MasterUses, Flags, MasterHas, SlaveHas, Items
<1>6. CASE i = 20
  <2>1. j >= 16
    BY <1>0, <1>6 DEF Waited, Published
  <2> QED BY <1>0, <1>6, <2>1, <1>b DEF MasterUses, Flags, MasterHas, SlaveHas, Items
<1>7. CASE i = 22
  <2>1. j >= 19 /\ 1 - x \in {0, 1}
    BY <1>0, <1>7 DEF Waited, Published
  <2> QED BY <1>0, <1>7, <2>1, <1>a, <1>b DEF MasterUses, Flags, MasterHas, SlaveHas, Items
<1> QED BY <1>1, <1>2, <1>3, <1>4, <1>5, <1>6, <1>7

LEMMA SlaveFinds ==
  ASSUME NEW i, NEW d, NEW j, NEW e, NEW x \in {0, 1}, NEW m \in Int, NEW n \in Int,
         EntryOK("master", i, d), EntryOK("slave", j, e), EntriesOK(i, d, m, j, e, n), i < 23,
         Waited("master", i, d) <= Published("slave", j, e), Waited("slave", j, e) <= Published("master", i, d),
         NEW l \in SlaveUses(j, x, e) \ Flags
  PROVE  l \in Locations /\ (l \in {<<"a", x>>, <<"b", x>>} \/ MasterHas(l, i, d, m, x) \/ SlaveHas(l, j, e, n, TRUE))
<1>0. G \in Nat /\ G = gcd_max_iterations + 2 /\ gcd_max_iterations \in Nat /\ d \in Nat /\ e \in Nat
      /\ i \in 1 .. 24 /\ j \in 1 .. 20
      /\ (i = 4 => d <= gcd_max_iterations)
  BY Counts DEF EntryOK, Entry, OpOf
<1>a. \A y \in {0, 1} : <<"a", y>> \in Locations /\ <<"b", y>> \in Locations
  BY DEF Locations
<1>b. \A item \in Items : <<item, 0>> \in Locations
  BY DEF Locations
<1>c. \A k \in 0 .. gcd_max_iterations : <<"gcd_1_0", k>> \in Locations
  BY DEF Locations
<1>1. CASE j \notin {5, 15, 18}
  BY <1>0, <1>1, <1>a, <1>b DEF SlaveUses, Flags, SlaveHas, Items
<1>2. CASE j = 5
  <2>1. CASE l = <<"gcd_1_0", e>>
    <3>2. (i = 4 /\ e < d) \/ i >= 5
      BY <1>0, <1>2 DEF Waited, Published
    <3>3. i >= 5 => e <= m /\ m \in 0 .. gcd_max_iterations
      BY <1>0, <1>2 DEF EntriesOK
    <3>4. e \in 0 .. gcd_max_iterations /\ (i = 4 => e \in 0 .. d - 1) /\ (i # 4 => i >= 5 /\ e \in 0 .. m)
      BY <1>0, <3>2, <3>3
    <3> QED BY <1>c, <2>1, <3>4 DEF MasterHas
  <2>2. CASE l # <<"gcd_1_0", e>>
    BY <1>2, <2>2, <1>a, <1>b DEF SlaveUses, Flags, SlaveHas, Items
  <2> QED BY <2>1, <2>2
<1>3. CASE j = 15
  <2>1. i >= 10
    BY <1>0, <1>3 DEF Waited, Published
  <2> QED BY <1>0, <1>3, <2>1, <1>b DEF SlaveUses, Flags, MasterHas, SlaveHas, Items
<1>4. CASE j = 18
  <2>1. i >= 10
    BY <1>0, <1>4 DEF Waited, Published
  <2> QED BY <1>0, <1>4, <2>1, <1>a, <1>b DEF SlaveUses, Flags, MasterHas, SlaveHas, Items
<1> QED BY <1>1, <1>2, <1>3, <1>4
\* The steps of a thread within an iteration; y is the entry with which the
\* thread's own gcd ended, z that of the other one's.
StepsTo(t, i, d, y, i2, d2, y2, z) ==
  \/ OpOf(t, i) \in {"advance", "work"} /\ i2 = i + 1 /\ d2 = 0 /\ y2 = y
  \/ OpOf(t, i) = "fence" /\ i2 = i + 1 /\ d2 = d /\ y2 = y
  \/ OpOf(t, i) = "emit" /\ i2 = i + 1 /\ d2 = 0 /\ y2 = d
  \/ OpOf(t, i) = "emit" /\ i2 = i /\ d2 = d + 1
  \/ OpOf(t, i) = "take" /\ z = d /\ i2 = i + 1 /\ d2 = 0 /\ y2 = y
  \/ OpOf(t, i) = "take" /\ z # d /\ i2 = i - 1 /\ d2 = d + 1 /\ y2 = y

\* A step adds only what it writes.
LEMMA MasterGains ==
  ASSUME NEW i, NEW d, NEW m \in Int, NEW i2, NEW d2, NEW m2 \in Int, NEW z, NEW x \in {0, 1}, NEW l,
         EntryOK("master", i, d), StepsTo("master", i, d, m, i2, d2, m2, z), MasterHas(l, i2, d2, m2, x)
  PROVE  MasterHas(l, i, d, m, x) \/ l \in MasterChanges(i, x, d) \ Flags
<1>0. i \in 1 .. 24 /\ d \in Nat
  BY DEF EntryOK, Entry
<1>1. CASE OpOf("master", i) \in {"advance", "fence"}
  <2>1. i \in {1, 5, 6, 10, 15, 18, 2, 7, 8, 11, 13, 16, 19, 21} /\ i2 = i + 1 /\ m2 = m
    BY <1>0, <1>1 DEF OpOf, StepsTo
  <2> QED BY <2>1 DEF MasterHas
<1>2. CASE OpOf("master", i) = "work"
  <2>1. i \in {3, 12, 14, 17, 20} /\ i2 = i + 1 /\ m2 = m /\ d2 = 0
    BY <1>0, <1>2 DEF OpOf, StepsTo
  <2> QED BY <2>1 DEF MasterHas, MasterChanges, Flags
<1>3. CASE OpOf("master", i) = "emit"
  <2>1. i = 4 /\ ((i2 = 5 /\ m2 = d) \/ (i2 = 4 /\ d2 = d + 1))
    BY <1>0, <1>3 DEF OpOf, StepsTo
  <2>2. MasterChanges(i, x, d) \ Flags = {<<"gcd_1_0", d>>, <<"gcd_end", 0>>}
    BY <2>1 DEF MasterChanges, Flags
  <2>3. \A k \in 0 .. d : k \in 0 .. d - 1 \/ k = d
    BY <1>0
  <2>4. i2 = 4 => d2 - 1 = d
    BY <1>0, <2>1
  <2>5. CASE i2 = 5 /\ m2 = d
    BY <1>0, <2>1, <2>2, <2>3, <2>5 DEF MasterHas
  <2>6. CASE i2 = 4 /\ d2 = d + 1
    BY <1>0, <2>1, <2>2, <2>3, <2>4, <2>6 DEF MasterHas
  <2> QED BY <2>1, <2>5, <2>6
<1>4. CASE OpOf("master", i) = "take"
  <2>1. i = 9 /\ i2 \in {8, 10} /\ m2 = m
    BY <1>0, <1>4 DEF OpOf, StepsTo
  <2> QED BY <2>1 DEF MasterHas, MasterChanges, Flags
<1> QED BY <1>1, <1>2, <1>3, <1>4 DEF StepsTo

LEMMA SlaveGains ==
  ASSUME NEW j, NEW e, NEW n \in Int, NEW j2, NEW e2, NEW n2 \in Int, NEW z, NEW x \in {0, 1}, NEW l,
         EntryOK("slave", j, e), StepsTo("slave", j, e, n, j2, e2, n2, z), SlaveHas(l, j2, e2, n2, TRUE)
  PROVE  SlaveHas(l, j, e, n, TRUE) \/ l \in SlaveChanges(j, x, e) \ Flags
<1>0. j \in 1 .. 20 /\ e \in Nat
  BY DEF EntryOK, Entry
<1>1. CASE OpOf("slave", j) \in {"advance", "fence"}
  <2>1. j \in {1, 6, 10, 11, 16, 19, 2, 4, 7, 12, 14, 17} /\ j2 = j + 1 /\ n2 = n
    BY <1>0, <1>1 DEF OpOf, StepsTo
  <2> QED BY <2>1 DEF SlaveHas
<1>2. CASE OpOf("slave", j) = "work"
  <2>1. j \in {3, 8, 13, 15, 18} /\ j2 = j + 1 /\ n2 = n /\ e2 = 0
    BY <1>0, <1>2 DEF OpOf, StepsTo
  <2> QED BY <2>1 DEF SlaveHas, SlaveChanges, Flags
<1>3. CASE OpOf("slave", j) = "emit"
  <2>1. j = 9 /\ ((j2 = 10 /\ n2 = e) \/ (j2 = 9 /\ e2 = e + 1))
    BY <1>0, <1>3 DEF OpOf, StepsTo
  <2>2. SlaveChanges(j, x, e) \ Flags = {<<"gcd_s_t", e>>, <<"t", 0>>}
    BY <2>1 DEF SlaveChanges, Flags
  <2>3. \A k \in 0 .. e : k \in 0 .. e - 1 \/ k = e
    BY <1>0
  <2>4. j2 = 9 => e2 - 1 = e
    BY <1>0, <2>1
  <2> QED BY <1>0, <2>1, <2>2, <2>3, <2>4 DEF SlaveHas
<1>4. CASE OpOf("slave", j) = "take"
  <2>1. j = 5 /\ j2 \in {4, 6} /\ n2 = n
    BY <1>0, <1>4 DEF OpOf, StepsTo
  <2> QED BY <2>1 DEF SlaveHas, SlaveChanges, Flags
<1> QED BY <1>1, <1>2, <1>3, <1>4 DEF StepsTo

\* A step that fails spoils nothing that was there.
LEMMA MasterSpoilsNothing ==
  ASSUME NEW i, NEW d \in Nat, NEW j, NEW e, NEW m, NEW n, NEW x, NEW r,
         FailsOf("master", i) # "never", NEW l \in MasterChanges(i, x, d) \ Flags
  PROVE  l \notin {<<"a", x>>, <<"b", x>>} /\ ~MasterHas(l, i, d, m, x) /\ ~SlaveHas(l, j, e, n, r)
<1>1. i \in {3, 4, 20}
  BY DEF FailsOf
<1>2. l \in {<<"gcd_start", 0>>, <<"gcd_end", 0>>, <<"v0_2_h", 0>>, <<"gcd_1_0", d>>}
  BY <1>1 DEF MasterChanges, Flags
<1>3. l \notin {<<"a", x>>, <<"b", x>>} /\ ~SlaveHas(l, j, e, n, r)
  BY <1>2 DEF SlaveHas
<1>4. CASE i = 3
  BY <1>3, <1>4 DEF MasterChanges, Flags, MasterHas
<1>5. CASE i = 4
  <2>1. \A k \in 0 .. d - 1 : k # d
    OBVIOUS
  <2> QED BY <1>3, <1>5, <2>1 DEF MasterChanges, Flags, MasterHas
<1>6. CASE i = 20
  BY <1>3, <1>6 DEF MasterChanges, Flags, MasterHas
<1> QED BY <1>1, <1>3, <1>4, <1>5, <1>6

LEMMA SlaveSpoilsNothing ==
  ASSUME NEW i, NEW d, NEW j, NEW e \in Nat, NEW m, NEW n, NEW x,
         FailsOf("slave", j) # "never", NEW l \in SlaveChanges(j, x, e) \ Flags
  PROVE  l \notin {<<"a", x>>, <<"b", x>>} /\ ~MasterHas(l, i, d, m, x) /\ ~SlaveHas(l, j, e, n, FALSE)
<1>1. j \in {3, 9}
  BY DEF FailsOf
<1>2. l \in {<<"c", 0>>, <<"U", 0>>, <<"t", 0>>, <<"gcd_s_t", e>>}
  BY <1>1 DEF SlaveChanges, Flags
<1>3. l \notin {<<"a", x>>, <<"b", x>>} /\ ~MasterHas(l, i, d, m, x)
  BY <1>2 DEF MasterHas
<1>4. CASE j = 3
  BY <1>3, <1>4 DEF SlaveChanges, Flags, SlaveHas
<1>5. CASE j = 9
  <2>1. \A k \in 0 .. e - 1 : k # e
    OBVIOUS
  <2> QED BY <1>3, <1>5, <2>1 DEF SlaveChanges, Flags, SlaveHas
<1> QED BY <1>1, <1>3, <1>4, <1>5

\* Where the slave can be, in the round of the master: 21 when it has ended
\* the round, 0 when it has not begun it.
Near(i, d, j, e) ==
  \/ /\ EntryOK("slave", j, e)
     /\ Waited("master", i, d) <= Published("slave", j, e) /\ Waited("slave", j, e) <= Published("master", i, d)
  \/ j = 21 /\ e \in Nat /\ i \in 11 .. 23
  \/ j = 0 /\ e \in Nat /\ i \in {1, 2, 24}

LEMMA MasterEntries ==
  ASSUME NEW i, NEW d, NEW m \in Int, NEW j, NEW e, NEW n \in Int, NEW i2, NEW d2, NEW m2 \in Int,
         EntryOK("master", i, d), Near(i, d, j, e), EntriesOK(i, d, m, j, e, n),
         StepsTo("master", i, d, m, i2, d2, m2, n)
  PROVE  EntriesOK(i2, d2, m2, j, e, n)
<1>0. G \in Nat /\ G = gcd_max_iterations + 2 /\ gcd_max_iterations \in Nat /\ d \in Nat /\ e \in Nat
      /\ i \in 1 .. 24 /\ j \in 0 .. 21 /\ (i = 4 => d <= gcd_max_iterations) /\ (i \notin {4, 8, 9} => d = 0)
  BY Counts DEF EntryOK, Entry, OpOf, Near
<1>1. CASE i \in {4, 7, 8, 9}
  <2>1. i = 4 /\ j \in {4, 5} => e <= d
    BY <1>0 DEF Near, Waited, Published
  <2>2. CASE i = 4
    <3>1. (i2 = 5 /\ m2 = d) \/ i2 = 4
      BY <2>2 DEF StepsTo, OpOf
    <3> QED BY <1>0, <2>1, <2>2, <3>1 DEF EntriesOK
  <2>3. CASE i = 7
    <3>1. i2 = 8 /\ d2 = 0 /\ m2 = m
      BY <1>0, <2>3 DEF StepsTo, OpOf
    <3> QED BY <1>0, <2>3, <3>1 DEF EntriesOK
  <2>4. CASE i = 8
    <3>1. i2 = 9 /\ d2 = d /\ m2 = m
      BY <2>4 DEF StepsTo, OpOf
    <3> QED BY <1>0, <2>4, <3>1 DEF EntriesOK
  <2>5. CASE i = 9
    <3>1. m2 = m /\ ((i2 = 10 /\ d2 = 0) \/ (i2 = 8 /\ d2 = d + 1 /\ n # d))
      BY <2>5 DEF StepsTo, OpOf
    <3> QED BY <1>0, <2>5, <3>1 DEF EntriesOK
  <2> QED BY <1>1, <2>2, <2>3, <2>4, <2>5
<1>2. CASE i \notin {4, 7, 8, 9}
  <2>1. i2 = i + 1 /\ m2 = m /\ i \notin {22, 23, 24}
    BY <1>0, <1>2 DEF StepsTo, OpOf
  <2> QED BY <1>0, <1>2, <2>1 DEF EntriesOK
<1> QED BY <1>1, <1>2

LEMMA SlaveEntries ==
  ASSUME NEW i, NEW d, NEW m \in Int, NEW j, NEW e, NEW n \in Int, NEW j2, NEW e2, NEW n2 \in Int,
         EntryOK("master", i, d), EntryOK("slave", j, e), Near(i, d, j, e), EntriesOK(i, d, m, j, e, n),
         StepsTo("slave", j, e, n, j2, e2, n2, m)
  PROVE  EntriesOK(i, d, m, j2, e2, n2)
<1>0. G \in Nat /\ G = gcd_max_iterations + 2 /\ gcd_max_iterations \in Nat /\ d \in Nat /\ e \in Nat
      /\ i \in 1 .. 24 /\ j \in 1 .. 20 /\ (j = 9 => e <= gcd_max_iterations) /\ (j \notin {4, 5, 9} => e = 0)
  BY Counts DEF EntryOK, Entry, OpOf
<1>1. CASE j \in {3, 4, 5, 9}
  <2>1. j = 9 /\ i \in {8, 9} => d <= e
    BY <1>0 DEF Near, Waited, Published
  <2>2. CASE j = 9
    <3>1. (j2 = 10 /\ n2 = e) \/ j2 = 9
      BY <2>2 DEF StepsTo, OpOf
    <3> QED BY <1>0, <2>1, <2>2, <3>1 DEF EntriesOK
  <2>3. CASE j = 3
    <3>1. j2 = 4 /\ e2 = 0 /\ n2 = n
      BY <1>0, <2>3 DEF StepsTo, OpOf
    <3> QED BY <1>0, <2>3, <3>1 DEF EntriesOK
  <2>4. CASE j = 4
    <3>1. j2 = 5 /\ e2 = e /\ n2 = n
      BY <2>4 DEF StepsTo, OpOf
    <3> QED BY <1>0, <2>4, <3>1 DEF EntriesOK
  <2>5. CASE j = 5
    <3>1. n2 = n /\ ((j2 = 6 /\ e2 = 0) \/ (j2 = 4 /\ e2 = e + 1 /\ m # e))
      BY <2>5 DEF StepsTo, OpOf
    <3> QED BY <1>0, <2>5, <3>1 DEF EntriesOK
  <2> QED BY <1>1, <2>2, <2>3, <2>4, <2>5
<1>2. CASE j \notin {3, 4, 5, 9}
  <2>1. j2 = j + 1 /\ n2 = n /\ j # 20
    BY <1>0, <1>2 DEF StepsTo, OpOf
  <2> QED BY <1>0, <1>2, <2>1 DEF EntriesOK
<1> QED BY <1>1, <1>2
----------------------------------------------------------------------------
(***************************************************************************)
(* The form matches the count                                              *)
(***************************************************************************)

\* The tag of a field in the iteration k, when ab_index is x.
Tag(l, x, k) == IF l[1] \in {"a", "b"} /\ l[2] # x THEN k + 1 ELSE k

\* The fields with data of the iteration.  At the end of the iteration (23 and
\* 24) only the form is left.
Holds(l, i, d, m, j, e, n, runs, x) ==
  l \in {<<"a", x>>, <<"b", x>>} \/ (i < 23 /\ (MasterHas(l, i, d, m, x) \/ SlaveHas(l, j, e, n, runs)))

Claims(f, i, d, m, j, e, n, runs, x, k) ==
  \A l \in Locations : Holds(l, i, d, m, j, e, n, runs, x) => f[l] = Tag(l, x, k)

\* Where the slave is in the round of the master.
SlaveAt ==
  IF counter_start["slave"] = counter_start["master"] THEN step["slave"]
  ELSE IF counter_start["slave"] > counter_start["master"] THEN 21 ELSE 0

DataOK ==
  /\ data \in [Locations -> Int] /\ ab_index \in {0, 1} /\ num_valid_iterations \in Nat
  /\ num_valid_iterations = iter("master") + (IF step["master"] = 23 THEN 1 ELSE 0)

ClaimInv ==
  Claims(data, step["master"], entry["master"], exit_entry["master"], SlaveAt, entry["slave"],
         exit_entry["slave"], mode["slave"] = "run", ab_index, num_valid_iterations)

EntryInv ==
  EntriesOK(step["master"], entry["master"], exit_entry["master"], SlaveAt, entry["slave"], exit_entry["slave"])

\* OnIteration was called for every squaring, the last one perhaps not yet.
ListenInv ==
  /\ listened \in Seq(Int)
  /\ Len(listened) = num_valid_iterations - (IF step["master"] \in {23, 24} THEN 1 ELSE 0)
  /\ \A n \in DOMAIN listened : listened[n] = n

\* A thread that has stopped is not between Turn and OnIteration; the call
\* returns when both have.
EndInv ==
  /\ mode["master"] # "run" => step["master"] \notin {23, 24}
  /\ result = Running
     \/ (mode["master"] = "ended" /\ mode["slave"] = "ended" /\ result \in {AllOnes, num_valid_iterations})

FormInv == DataOK /\ ClaimInv /\ EntryInv /\ ListenInv /\ EndInv

LEMMA WholeInt ==
  ASSUME NEW c \in Nat, NEW b \in Nat
  PROVE  /\ b = c + counter_end => b # c /\ b > c
         /\ c = b + counter_end => b # c /\ ~(b > c)
<1>1. counter_end \in Nat \ {0}
  BY Counts
<1> QED BY <1>1

LEMMA NearNow ==
  ASSUME CountInv, RoundInv
  PROVE  Near(step["master"], entry["master"], SlaveAt, entry["slave"])
<1>1. /\ counter_start["master"] \in Nat /\ counter_start["slave"] \in Nat /\ entry["slave"] \in Nat
      /\ EntryOK("slave", step["slave"], entry["slave"])
  BY DEF CountInv, TypesOK, At0, Threads
<1>2. CASE Together /\ InStep
  BY <1>1, <1>2 DEF Together, InStep, Near, SlaveAt
<1>3. CASE SlaveWaits
  BY <1>1, <1>3, WholeInt DEF SlaveWaits, Near, SlaveAt
<1>4. CASE SlaveEnds
  BY <1>1, <1>4, WholeInt DEF SlaveEnds, Near, SlaveAt
<1> QED BY <1>2, <1>3, <1>4, Aligned

\* The data g are f with the data of the iteration written to S.
Updates(f, g, S, x, k) == \A l \in Locations : g[l] = IF l \in S THEN Tag(l, x, k) ELSE f[l]

Typed(y, y2, x) == y \in Int /\ y2 \in Int /\ x \in {0, 1}

\* A step of the master within the iteration.
LEMMA MasterClaims ==
  ASSUME NEW f, NEW g, NEW i, NEW d, NEW m, NEW i2, NEW d2, NEW m2, NEW j, NEW e, NEW n, NEW r,
         NEW x, NEW k, NEW z, Typed(m, m2, x),
         Claims(f, i, d, m, j, e, n, r, x, k), EntryOK("master", i, d), StepsTo("master", i, d, m, i2, d2, m2, z),
         Updates(f, g, MasterChanges(i, x, d) \ Flags, x, k)
  PROVE  Claims(g, i2, d2, m2, j, e, n, r, x, k)
<1>1. i < 23
  BY DEF EntryOK, Entry, StepsTo, OpOf
<1>2. SUFFICES ASSUME NEW l \in Locations, Holds(l, i2, d2, m2, j, e, n, r, x) PROVE g[l] = Tag(l, x, k)
  BY DEF Claims
<1>3. MasterHas(l, i2, d2, m2, x) => MasterHas(l, i, d, m, x) \/ l \in MasterChanges(i, x, d) \ Flags
  BY MasterGains DEF Typed
<1>4. Holds(l, i, d, m, j, e, n, r, x) \/ l \in MasterChanges(i, x, d) \ Flags
  BY <1>1, <1>2, <1>3 DEF Holds
<1> QED BY <1>4 DEF Claims, Updates

LEMMA SlaveClaims ==
  ASSUME NEW f, NEW g, NEW i, NEW d, NEW m, NEW j, NEW e, NEW n, NEW j2, NEW e2, NEW n2,
         NEW x, NEW k, NEW z, Typed(n, n2, x),
         Claims(f, i, d, m, j, e, n, TRUE, x, k), EntryOK("slave", j, e), StepsTo("slave", j, e, n, j2, e2, n2, z),
         Updates(f, g, SlaveChanges(j, x, e) \ Flags, x, k)
  PROVE  Claims(g, i, d, m, j2, e2, n2, TRUE, x, k)
<1>2. SUFFICES ASSUME NEW l \in Locations, Holds(l, i, d, m, j2, e2, n2, TRUE, x) PROVE g[l] = Tag(l, x, k)
  BY DEF Claims
<1>3. SlaveHas(l, j2, e2, n2, TRUE) => SlaveHas(l, j, e, n, TRUE) \/ l \in SlaveChanges(j, x, e) \ Flags
  BY SlaveGains DEF Typed
<1>4. Holds(l, i, d, m, j, e, n, TRUE, x) \/ l \in SlaveChanges(j, x, e) \ Flags
  BY <1>2, <1>3 DEF Holds
<1> QED BY <1>4 DEF Claims, Updates

\* A step that reads only data of its iteration writes data of it.
Sound(t, k) == \A l \in Reads(t) : data[l] = Wanted(l, k)

LEMMA SoundWrites ==
  ASSUME data \in [Locations -> Int], NEW t \in Threads, NEW k \in Nat, Sound(t, k)
  PROVE  /\ Written(t, k) \in [Locations -> Int]
         /\ \A l \in Locations : Written(t, k)[l] = IF l \in Writes(t) THEN Tag(l, ab_index, k) ELSE data[l]
<1>1. \A l \in Locations : Wanted(l, k) \in Int /\ Wanted(l, k) = Tag(l, ab_index, k)
  BY DEF Wanted, Tag
<1>2. Written(t, k) = [l \in Locations |-> IF l \notin Writes(t) THEN data[l] ELSE Wanted(l, k)]
  BY DEF Written, Sound
<1> QED BY <1>1, <1>2

LEMMA MasterSound ==
  ASSUME CountInv, RoundInv, DataOK, ClaimInv, EntryInv, step["master"] < 23
  PROVE  Sound("master", num_valid_iterations)
<1> DEFINE i == step["master"]
           d == entry["master"]
           m == exit_entry["master"]
           j == SlaveAt
           e == entry["slave"]
           n == exit_entry["slave"]
           r == mode["slave"] = "run"
<1>1. /\ Near(i, d, j, e) /\ EntryOK("master", i, d) /\ EntriesOK(i, d, m, j, e, n) /\ i < 23 /\ i \in 1 .. 24
      /\ m \in Int /\ n \in Int /\ r \in BOOLEAN /\ ab_index \in {0, 1}
      /\ Claims(data, i, d, m, j, e, n, r, ab_index, num_valid_iterations)
  BY NearNow DEF CountInv, TypesOK, At0, Threads, EntryOK, Entry, EntryInv, DataOK, ClaimInv
<1>2. SUFFICES ASSUME NEW l \in Reads("master") PROVE data[l] = Tag(l, ab_index, num_valid_iterations)
  BY DEF Sound, Wanted, Tag
<1>3. l \in MasterUses(i, ab_index, d) \ Flags
  BY <1>1, MasterIO
<1> HIDE DEF i, d, m, j, e, n, r
<1>4. l \in Locations /\ (l \in {<<"a", ab_index>>, <<"b", ab_index>>} \/ MasterHas(l, i, d, m, ab_index) \/ SlaveHas(l, j, e, n, r))
  <2>1. CASE EntryOK("slave", j, e) /\ Waited("master", i, d) <= Published("slave", j, e)
             /\ Waited("slave", j, e) <= Published("master", i, d)
    BY <1>1, <1>3, <2>1, MasterFinds
  <2>2. CASE j = 21 /\ i \in 11 .. 23
    <3>1. 1 - ab_index \in {0, 1}
      BY <1>1
    <3>2. (\A y \in {0, 1} : <<"a", y>> \in Locations /\ <<"b", y>> \in Locations)
          /\ \A item \in Items : <<item, 0>> \in Locations
      BY DEF Locations
    <3> QED BY <1>1, <1>3, <2>2, <3>1, <3>2 DEF MasterUses, Flags, MasterHas, SlaveHas, Items
  <2>3. CASE i \in {1, 2, 24}
    BY <1>1, <1>3, <2>3 DEF MasterUses
  <2> QED BY <1>1, <2>1, <2>2, <2>3 DEF Near
<1> QED BY <1>1, <1>4 DEF Claims, Holds

LEMMA SlaveSound ==
  ASSUME CountInv, RoundInv, DataOK, ClaimInv, EntryInv, mode["slave"] = "run", Together
  PROVE  /\ Sound("slave", num_valid_iterations)
         /\ OpOf("slave", step["slave"]) \in {"work", "emit", "take"} => step["master"] < 23
<1> DEFINE i == step["master"]
           d == entry["master"]
           m == exit_entry["master"]
           j == step["slave"]
           e == entry["slave"]
           n == exit_entry["slave"]
<1>1. /\ Near(i, d, j, e) /\ EntryOK("master", i, d) /\ EntryOK("slave", j, e) /\ EntriesOK(i, d, m, j, e, n)
      /\ i \in 1 .. 24 /\ j \in 1 .. 20 /\ m \in Int /\ n \in Int /\ ab_index \in {0, 1}
      /\ Claims(data, i, d, m, j, e, n, TRUE, ab_index, num_valid_iterations)
  BY NearNow DEF CountInv, TypesOK, At0, Threads, EntryOK, Entry, EntryInv, DataOK, ClaimInv, Together, SlaveAt
<1>2. j \in {3, 5, 8, 9, 13, 15, 18} => i < 23
  <2> HIDE DEF i, d, m, j, e, n
  <2>1. Waited("master", i, d) <= Published("slave", j, e) /\ Waited("slave", j, e) <= Published("master", i, d)
        /\ G \in Nat /\ d \in Nat /\ e \in Nat /\ (j = 9 => e <= G)
    BY <1>1, Counts DEF Near, EntryOK, Entry, OpOf
  <2> QED BY <1>1, <2>1 DEF Waited, Published
<1>3. OpOf("slave", j) \in {"work", "emit", "take"} => j \in {3, 5, 8, 9, 13, 15, 18}
  BY <1>1 DEF OpOf
<1>4. ASSUME NEW l \in Reads("slave") PROVE data[l] = Tag(l, ab_index, num_valid_iterations)
  <2>1. l \in SlaveUses(j, ab_index, e) \ Flags
    BY <1>1, <1>4, SlaveIO
  <2> HIDE DEF i, d, m, j, e, n
  <2>2. j \in {3, 5, 8, 9, 13, 15, 18}
    BY <1>1, <2>1 DEF SlaveUses
  <2>3. l \in Locations /\ (l \in {<<"a", ab_index>>, <<"b", ab_index>>} \/ MasterHas(l, i, d, m, ab_index) \/ SlaveHas(l, j, e, n, TRUE))
    <3>1. Waited("master", i, d) <= Published("slave", j, e) /\ Waited("slave", j, e) <= Published("master", i, d)
      BY <1>1 DEF Near
    <3>2. i < 23
      BY <1>2, <2>2
    <3> QED BY <1>1, <2>1, <3>1, <3>2, SlaveFinds
  <2> QED BY <1>1, <1>2, <2>2, <2>3 DEF Claims, Holds
<1>5. Sound("slave", num_valid_iterations)
  BY <1>4 DEF Sound, Wanted, Tag
<1> QED BY <1>2, <1>3, <1>5
\* What a step of the thread t does to the data.
Inside(t) ==
  /\ mode[t] = "run" /\ mode'[t] = "run"
  /\ StepsTo(t, step[t], entry[t], exit_entry[t], step'[t], entry'[t], exit_entry'[t], exit_entry[Other(t)])
  /\ UNCHANGED <<counter_start, ab_index, num_valid_iterations, listened, result>>
  /\ data' = Written(t, iter(t)) \/ (data' = data /\ OpOf(t, step[t]) \in {"advance", "fence"})

Keeps(t) ==
  /\ step'[t] = step[t] /\ entry'[t] = entry[t] /\ mode[t] # "ended"
  /\ mode'[t] = mode[t] \/ (mode'[t] # "run" /\ OpOf(t, step[t]) \notin {"turn", "iterate", "listen"})
  /\ UNCHANGED <<counter_start, exit_entry, ab_index, num_valid_iterations, listened, result>>

Quiet(t) == Keeps(t) /\ UNCHANGED data

Spoils(t) ==
  /\ Keeps(t) /\ mode'[t] # "run" /\ FailsOf(t, step[t]) # "never"
  /\ data' = [l \in Locations |-> IF l \in Writes(t) THEN Bad ELSE data[l]]

LEMMA Effects ==
  ASSUME TypesOK, NEW t \in Threads, At0(t), ModeOK(t), ThreadStep(t)
  PROVE  Inside(t) \/ Quiet(t) \/ Spoils(t) \/ Turn(t) \/ Iterate(t) \/ Listen(t)
<1>1. /\ Current(t).op = OpOf(t, step[t]) /\ Current(t).fails = FailsOf(t, step[t])
      /\ step[t] \in Entry(t)
  BY CurrentIs DEF At0, EntryOK
<1>2. CASE RaiseOther(t) \/ StoreCounter(t)
  <2>1. OpOf(t, step[t]) \notin {"turn", "iterate", "listen"} /\ mode[t] # "ended"
    BY <1>2 DEF RaiseOther, StoreCounter, ModeOK
  <2> QED BY <1>2, <2>1 DEF RaiseOther, StoreCounter, TypesOK, Quiet, Keeps, stateVars
<1>3. CASE FenceFails(t) \/ EmitFails(t)
  BY <1>1, <1>3 DEF FenceFails, EmitFails, At, RaiseError, TypesOK, Quiet, Keeps, stateVars
<1>4. CASE Spin(t)
  BY <1>1, <1>4 DEF Spin, At, Quiet, Keeps, stateVars, vars, threadVars
<1>5. CASE advance_absolute(t)
  BY <1>1, <1>5 DEF advance_absolute, At, RaiseError, Continue, TypesOK, Quiet, Keeps, Inside, StepsTo, stateVars
<1>6. CASE fence_absolute(t)
  BY <1>1, <1>6 DEF fence_absolute, At, Continue, TypesOK, Inside, StepsTo, stateVars
<1>7. CASE DoWork(t)
  BY <1>1, <1>7 DEF DoWork, At, Continue, TypesOK, Inside, StepsTo
<1>8. CASE Fail(t)
  <2>1. FailsOf(t, step[t]) # "never" => OpOf(t, step[t]) \in {"work", "emit"}
    BY <1>1 DEF FailsOf, OpOf, Entry, Threads
  <2> QED BY <1>1, <1>8, <2>1 DEF Fail, RaiseError, TypesOK, Spoils, Keeps
<1>9. CASE Emit(t)
  BY <1>1, <1>9 DEF Emit, At, Continue, TypesOK, Inside, StepsTo
<1>10. CASE Take(t)
  BY <1>1, <1>10 DEF Take, At, Continue, TypesOK, Inside, StepsTo
<1> QED BY <1>2, <1>3, <1>4, <1>5, <1>6, <1>7, <1>8, <1>9, <1>10 DEF ThreadStep

\* The slave does not begin a round before the master.
LEMMA SlaveWaitsThere ==
  ASSUME CountInv, SlaveWaits, ThreadStep("slave"), step["slave"] = 2
  PROVE  step'["slave"] = 2
<1> DEFINE c == counter_start["master"]
           b == counter_start["slave"]
           p == Published("master", step["master"], entry["master"])
<1>1. /\ "slave" \in Threads /\ "master" \in Threads /\ Other("slave") = "master"
      /\ TypesOK /\ At0("slave") /\ At0("master") /\ CountOK("slave") /\ entry["slave"] = 0
  BY DEF CountInv, Threads, Other, At0, EntryOK
<1>2. Moves("slave")
  BY <1>1, ThreadMoves
<1>3. OpOf("slave", 2) = "fence" /\ CountOf("slave", 2) = 0
  BY DEF OpOf, CountOf
<1>4. Stays("slave") \/ Stores("slave") \/ Passes("slave")
  BY <1>2, <1>3 DEF Moves, Advances, Works, Emits, Takes, Iterates, Listens
<1>5. ASSUME Passes("slave") PROVE FALSE
  <2>1. /\ last_fence["slave"] >= b \/ (counter_value["master"] >= b /\ ~error_flag["slave"])
        /\ last_fence["slave"] <= c + p /\ (error_flag["slave"] \/ counter_value["master"] <= c + p)
        /\ b = c + counter_end
    <3>1. counter_start["slave"] + CountOf("slave", step["slave"]) + entry["slave"] = b
      BY <1>1, <1>3 DEF TypesOK
    <3> QED BY <1>1, <1>3, <1>5, <3>1 DEF Passes, CountOK, SlaveWaits
  <2>2. p \in Int /\ p <= 2 * G + 2 /\ counter_end = 2 * G + 3 /\ G \in Nat
    <3>1. EntryOK("master", step["master"], entry["master"])
      BY <1>1 DEF At0
    <3> QED BY <3>1, Counts DEF EntryOK, Entry, OpOf, Published
  <2>3. c \in Nat /\ b \in Nat /\ last_fence["slave"] \in Int /\ counter_value["master"] \in Int
    BY <1>1 DEF TypesOK
  <2> DEFINE f == last_fence["slave"]
             v == counter_value["master"]
  <2>4. (f >= b \/ v >= b) /\ (f >= b \/ ~error_flag["slave"]) /\ f <= c + p /\ (error_flag["slave"] \/ v <= c + p)
    BY <2>1
  <2> HIDE DEF c, b, p, f, v
  <2> QED BY <2>1, <2>2, <2>3, <2>4 DEF f, v
<1> QED BY <1>4, <1>5 DEF Stays, Stores

LEMMA SpoilsClaims ==
  ASSUME NEW f, NEW g, NEW S, NEW i, NEW d, NEW m, NEW j, NEW e, NEW n, NEW r \in BOOLEAN, NEW r2 \in BOOLEAN,
         NEW x, NEW k, r2 => r, Claims(f, i, d, m, j, e, n, r, x, k),
         \A l \in S : ~Holds(l, i, d, m, j, e, n, r2, x),
         \A l \in Locations : l \notin S => g[l] = f[l]
  PROVE  Claims(g, i, d, m, j, e, n, r2, x, k)
<1>1. SUFFICES ASSUME NEW l \in Locations, Holds(l, i, d, m, j, e, n, r2, x) PROVE g[l] = Tag(l, x, k)
  BY DEF Claims
<1>2. Holds(l, i, d, m, j, e, n, r, x)
  BY <1>1 DEF Holds, SlaveHas
<1> QED BY <1>1, <1>2 DEF Claims
LEMMA MasterInside ==
  ASSUME CountInv, RoundInv, FormInv, ThreadStep("master"), Inside("master")
  PROVE  FormInv'
<1> DEFINE i == step["master"]
           d == entry["master"]
           m == exit_entry["master"]
           i2 == step'["master"]
           d2 == entry'["master"]
           m2 == exit_entry'["master"]
           e == entry["slave"]
           n == exit_entry["slave"]
           r == mode["slave"] = "run"
           k == num_valid_iterations
<1>0. "master" \in Threads /\ "slave" \in Threads /\ "slave" # "master" /\ Other("master") = "slave"
  BY DEF Threads, Other
<1>1. TypesOK /\ At0("master") /\ DataOK /\ ClaimInv /\ EntryInv /\ ListenInv /\ EndInv
  BY <1>0 DEF CountInv, FormInv
<1>2. /\ Stays("slave") /\ mode'["slave"] = mode["slave"] /\ exit_entry'["slave"] = n
      /\ exit_entry' \in [Threads -> Int]
  BY <1>0, <1>1, OtherStays, FlagsStay
<1>3. EntryOK("master", i, d) /\ StepsTo("master", i, d, m, i2, d2, m2, n) /\ i < 22 /\ i2 < 23 /\ i \in 1 .. 24
  <2>1. EntryOK("master", i, d) /\ StepsTo("master", i, d, m, i2, d2, m2, n)
    BY <1>0, <1>1 DEF At0, Inside
  <2> HIDE DEF i, d, m, i2, d2, m2, n
  <2> QED BY <2>1 DEF EntryOK, Entry, StepsTo, OpOf
<1>4. UNCHANGED <<counter_start, ab_index, num_valid_iterations, listened, result>>
  BY DEF Inside
<1>5. SlaveAt' = SlaveAt /\ entry'["slave"] = e
  BY <1>2, <1>4 DEF SlaveAt, Stays
<1>6. k \in Nat /\ k = iter("master") /\ data \in [Locations -> Int] /\ ab_index \in {0, 1} /\ m \in Int /\ m2 \in Int /\ n \in Int
  <2>1. i # 23 /\ iter("master") \in Int
    <3>1. counter_start["master"] \in Nat /\ counter_end \in Nat \ {0}
      BY <1>0, <1>1, Counts DEF TypesOK
    <3> QED BY <1>3, <3>1 DEF iter
  <2> QED BY <1>0, <1>1, <1>2, <2>1 DEF DataOK, TypesOK
<1>7. /\ data' \in [Locations -> Int]
      /\ \A l \in Locations : data'[l] = IF l \in MasterChanges(i, ab_index, d) \ Flags THEN Tag(l, ab_index, k) ELSE data[l]
  <2>1. Writes("master") = MasterChanges(i, ab_index, d) \ Flags
    BY <1>3, MasterIO
  <2>2. CASE data' = Written("master", k)
    <3>1. Sound("master", k)
      BY <1>1, <1>3, MasterSound
    <3> QED BY <1>0, <1>6, <2>1, <2>2, <3>1, SoundWrites
  <2>3. CASE data' = data /\ OpOf("master", i) \in {"advance", "fence"}
    <3>1. i \notin {3, 4, 9, 12, 14, 17, 20, 22, 24}
      BY <2>3 DEF OpOf
    <3>2. MasterChanges(i, ab_index, d) = {}
      BY <3>1 DEF MasterChanges
    <3> QED BY <1>6, <2>3, <3>2
  <2> QED BY <1>6, <2>2, <2>3 DEF Inside
<1>8. ClaimInv'
  <2>1. Claims(data, i, d, m, SlaveAt, e, n, r, ab_index, k)
    BY <1>1 DEF ClaimInv
  <2>2. Claims(data', i2, d2, m2, SlaveAt, e, n, r, ab_index, k)
    <3> DEFINE f == data
               g == data'
               x == ab_index
               j == SlaveAt
    <3>1. /\ Claims(f, i, d, m, j, e, n, r, x, k) /\ Typed(m, m2, x)
          /\ Updates(f, g, MasterChanges(i, x, d) \ Flags, x, k)
      BY <1>6, <1>7, <2>1 DEF Updates, Typed
    <3> HIDE DEF i, d, m, i2, d2, m2, e, n, r, k, f, g, x, j
    <3>2. Claims(g, i2, d2, m2, j, e, n, r, x, k)
      BY <1>3, <3>1, MasterClaims
    <3> QED BY <3>2 DEF g, x, j
  <2>3. ClaimInv' = Claims(data', i2, d2, m2, SlaveAt', entry'["slave"], exit_entry'["slave"], mode'["slave"] = "run",
                           ab_index', num_valid_iterations')
    BY DEF ClaimInv, Claims, Holds, MasterHas, SlaveHas, Tag, Locations, Items
  <2> QED BY <1>2, <1>4, <1>5, <2>2, <2>3
<1>9. EntryInv'
  <2>1. EntriesOK(i, d, m, SlaveAt, e, n) /\ Near(i, d, SlaveAt, e)
    BY <1>1, NearNow DEF EntryInv
  <2>2. EntriesOK(i2, d2, m2, SlaveAt, e, n)
    <3> HIDE DEF i, d, m, i2, d2, m2, e, n
    <3> QED BY <1>3, <1>6, <2>1, MasterEntries
  <2> QED BY <1>2, <1>5, <2>2 DEF EntryInv, EntriesOK
<1>10. DataOK'
  BY <1>3, <1>4, <1>6, <1>7 DEF DataOK, iter, Locations, Items, counter_end, get_counter_start, gcd_num_counter
<1>11. ListenInv'
  <2>1. i \notin {23, 24} /\ i2 \notin {23, 24}
    BY <1>3
  <2> QED BY <1>1, <1>4, <2>1 DEF ListenInv
<1>12. EndInv'
  <2>1. mode["master"] = "run" /\ mode'["master"] = "run"
    BY DEF Inside
  <2> QED BY <1>1, <1>4, <2>1 DEF EndInv, Running, AllOnes
<1> QED BY <1>8, <1>9, <1>10, <1>11, <1>12 DEF FormInv

LEMMA SlaveInside ==
  ASSUME CountInv, RoundInv, FormInv, ThreadStep("slave"), Inside("slave")
  PROVE  FormInv'
<1> DEFINE i == step["master"]
           d == entry["master"]
           m == exit_entry["master"]
           j == step["slave"]
           j2 == step'["slave"]
           e2 == entry'["slave"]
           n2 == exit_entry'["slave"]
           e == entry["slave"]
           n == exit_entry["slave"]
           k == num_valid_iterations
<1>0. "master" \in Threads /\ "slave" \in Threads /\ "slave" # "master" /\ Other("slave") = "master"
  BY DEF Threads, Other
<1>1. TypesOK /\ At0("slave") /\ At0("master") /\ DataOK /\ ClaimInv /\ EntryInv /\ ListenInv /\ EndInv
  BY <1>0 DEF CountInv, FormInv
<1>2. /\ Stays("master") /\ mode'["master"] = mode["master"] /\ exit_entry'["master"] = m
      /\ exit_entry' \in [Threads -> Int]
  BY <1>0, <1>1, OtherStays, FlagsStay
<1>3. EntryOK("slave", j, e) /\ StepsTo("slave", j, e, n, j2, e2, n2, m) /\ j < 20 /\ j \in 1 .. 20
      /\ EntryOK("master", i, d)
  <2>1. EntryOK("slave", j, e) /\ StepsTo("slave", j, e, n, j2, e2, n2, m) /\ EntryOK("master", i, d)
    BY <1>0, <1>1 DEF At0, Inside
  <2> HIDE DEF i, d, m, j, e, n, j2, e2, n2
  <2> QED BY <2>1 DEF EntryOK, Entry, StepsTo, OpOf
<1>4. UNCHANGED <<counter_start, ab_index, num_valid_iterations, listened, result>>
      /\ mode["slave"] = "run" /\ mode'["slave"] = "run"
  BY DEF Inside
<1>5. step'["master"] = i /\ entry'["master"] = d
  BY <1>2 DEF Stays
<1>6. k \in Nat /\ data \in [Locations -> Int] /\ ab_index \in {0, 1} /\ m \in Int /\ n2 \in Int /\ n \in Int
  BY <1>0, <1>1, <1>2 DEF DataOK, TypesOK
<1>7. ClaimInv' = Claims(data', i, d, m, SlaveAt', e2, n2, TRUE, ab_index, k)
  BY <1>2, <1>4, <1>5 DEF ClaimInv, Claims, Holds, MasterHas, SlaveHas, Tag, Locations, Items
<1>8. DataOK' /\ ClaimInv' /\ EntryInv'
  <2>1. CASE Together
    <3>1. SlaveAt = j /\ SlaveAt' = j2
      BY <1>4, <2>1 DEF Together, SlaveAt
    <3>2. /\ data' \in [Locations -> Int]
          /\ \A l \in Locations : data'[l] = IF l \in SlaveChanges(j, ab_index, e) \ Flags THEN Tag(l, ab_index, k) ELSE data[l]
      <4>1. Writes("slave") = SlaveChanges(j, ab_index, e) \ Flags
        BY <1>3, SlaveIO
      <4>2. CASE OpOf("slave", j) \in {"work", "emit", "take"}
        <5>1. Sound("slave", k) /\ i < 23
          BY <1>1, <1>4, <2>1, <4>2, SlaveSound
        <5>2. iter("slave") = k
          <6>1. i # 23 /\ iter("master") \in Int
            <7>1. counter_start["master"] \in Nat /\ counter_end \in Nat \ {0} /\ i \in Nat
              BY <1>0, <1>1, Counts DEF TypesOK
            <7> QED BY <5>1, <7>1 DEF iter
          <6>2. iter("slave") = iter("master")
            BY <2>1 DEF Together, iter
          <6> QED BY <1>1, <6>1, <6>2 DEF DataOK
        <5>3. data' = Written("slave", k)
          BY <4>2, <5>2 DEF Inside
        <5> QED BY <1>0, <1>6, <4>1, <5>1, <5>3, SoundWrites
      <4>3. CASE OpOf("slave", j) \in {"advance", "fence"}
        <5>1. j \notin {3, 5, 8, 9, 13, 15, 18}
          BY <4>3 DEF OpOf
        <5>2. SlaveChanges(j, ab_index, e) = {} /\ SlaveUses(j, ab_index, e) = {}
          BY <5>1 DEF SlaveChanges, SlaveUses
        <5>3. Writes("slave") = {}
          BY <4>1, <5>2
        <5>4. data' = data
          <6>1. Written("slave", iter("slave")) = [l \in Locations |-> data[l]]
            BY <5>3 DEF Written
          <6> QED BY <1>6, <6>1 DEF Inside
        <5> QED BY <1>6, <5>2, <5>4
      <4> QED BY <1>3, <4>2, <4>3 DEF StepsTo
    <3>3. ClaimInv'
      <4>1. Claims(data, i, d, m, j, e, n, TRUE, ab_index, k)
        BY <1>1, <1>4, <3>1 DEF ClaimInv
      <4>2. Claims(data', i, d, m, j2, e2, n2, TRUE, ab_index, k)
        <5> DEFINE f == data
                   g == data'
                   x == ab_index
        <5>1. /\ Claims(f, i, d, m, j, e, n, TRUE, x, k) /\ Typed(n, n2, x)
              /\ Updates(f, g, SlaveChanges(j, x, e) \ Flags, x, k)
          BY <1>6, <3>2, <4>1 DEF Updates, Typed
        <5> HIDE DEF i, d, m, j, e, n, j2, e2, n2, k, f, g, x
        <5>2. Claims(g, i, d, m, j2, e2, n2, TRUE, x, k)
          BY <1>3, <5>1, SlaveClaims
        <5> QED BY <5>2 DEF g, x
      <4> QED BY <1>7, <3>1, <4>2
    <3>4. EntryInv'
      <4>1. EntriesOK(i, d, m, j, e, n) /\ Near(i, d, j, e)
        BY <1>1, <3>1, NearNow DEF EntryInv
      <4>2. EntriesOK(i, d, m, j2, e2, n2)
        <5> HIDE DEF i, d, m, j, e, n, j2, e2, n2
        <5> QED BY <1>3, <1>6, <4>1, SlaveEntries
      <4> QED BY <1>2, <1>5, <3>1, <4>2 DEF EntryInv, EntriesOK
    <3>5. DataOK'
      BY <1>1, <1>4, <1>5, <3>2 DEF DataOK, iter, Locations, Items, counter_end, get_counter_start, gcd_num_counter
    <3> QED BY <3>3, <3>4, <3>5
  <2>2. CASE SlaveWaits
    <3>1. j = 1 /\ SlaveAt = 21 /\ SlaveAt' = 21
      <4>1. j # 2
        <5>1. j = 2 => j2 = 3
          BY <1>3 DEF StepsTo, OpOf
        <5>2. j = 2 => j2 = 2
          BY <2>2, SlaveWaitsThere
        <5> QED BY <5>1, <5>2
      <4>2. counter_start["slave"] # counter_start["master"] /\ counter_start["slave"] > counter_start["master"]
        BY <1>0, <1>1, <2>2, WholeInt DEF SlaveWaits, TypesOK
      <4> QED BY <1>4, <2>2, <4>1, <4>2 DEF SlaveWaits, SlaveAt
    <3>2. data' = data /\ n2 = n
      <4>1. OpOf("slave", 1) = "advance"
        BY DEF OpOf
      <4>2. Writes("slave") = {}
        BY <1>3, <3>1, SlaveIO DEF SlaveChanges
      <4>3. Written("slave", iter("slave")) = [l \in Locations |-> data[l]]
        BY <4>2 DEF Written
      <4> QED BY <1>3, <1>6, <3>1, <4>1, <4>3 DEF Inside, StepsTo
    <3>3. ClaimInv'
      <4>1. Claims(data, i, d, m, 21, e, n, TRUE, ab_index, k)
        BY <1>1, <1>4, <3>1 DEF ClaimInv
      <4>2. Claims(data, i, d, m, 21, e2, n, TRUE, ab_index, k)
        <5> HIDE DEF i, d, m, j, e, n, j2, e2, n2, k
        <5> QED BY <4>1 DEF Claims, Holds, SlaveHas
      <4> QED BY <1>7, <3>1, <3>2, <4>2
    <3>4. EntryInv'
      <4>1. EntriesOK(i, d, m, 21, e, n)
        BY <1>1, <3>1 DEF EntryInv
      <4>2. EntriesOK(i, d, m, 21, e2, n)
        BY <4>1 DEF EntriesOK
      <4> QED BY <1>2, <1>5, <3>1, <3>2, <4>2 DEF EntryInv, EntriesOK
    <3>5. DataOK'
      BY <1>1, <1>4, <1>5, <3>2 DEF DataOK, iter, Locations, Items, counter_end, get_counter_start, gcd_num_counter
    <3> QED BY <3>3, <3>4, <3>5
  <2>3. ~SlaveEnds
    BY <1>3 DEF SlaveEnds
  <2> QED BY <2>1, <2>2, <2>3, Aligned
<1>11. ListenInv'
  BY <1>1, <1>4, <1>5 DEF ListenInv
<1>12. EndInv'
  BY <1>1, <1>2, <1>4, <1>5 DEF EndInv, Running, AllOnes
<1> QED BY <1>8, <1>11, <1>12 DEF FormInv
LEMMA KeepsForm ==
  ASSUME CountInv, RoundInv, FormInv, NEW t \in Threads, ThreadStep(t), Quiet(t) \/ Spoils(t)
  PROVE  FormInv'
<1> DEFINE i == step["master"]
           d == entry["master"]
           m == exit_entry["master"]
           j == SlaveAt
           e == entry["slave"]
           n == exit_entry["slave"]
           r == mode["slave"] = "run"
           r2 == mode'["slave"] = "run"
           k == num_valid_iterations
           x == ab_index
<1>0. "master" \in Threads /\ "slave" \in Threads /\ "slave" # "master" /\ (t = "master" \/ t = "slave")
  BY DEF Threads
<1>1. TypesOK /\ At0("slave") /\ At0("master") /\ DataOK /\ ClaimInv /\ EntryInv /\ ListenInv /\ EndInv
  BY <1>0 DEF CountInv, FormInv
<1>2. Keeps(t) /\ \A u \in Threads : u # t => Stays(u) /\ mode'[u] = mode[u]
  BY <1>0, <1>1, OtherStays DEF Quiet, Spoils
<1>3. /\ step'["master"] = i /\ entry'["master"] = d /\ step'["slave"] = step["slave"] /\ entry'["slave"] = e
      /\ (r2 => r) /\ UNCHANGED <<counter_start, exit_entry, ab_index, num_valid_iterations, listened, result>>
  BY <1>0, <1>2 DEF Keeps, Stays
<1>4. SlaveAt' = j
  BY <1>3 DEF SlaveAt
<1>5. k \in Nat /\ data \in [Locations -> Int] /\ x \in {0, 1} /\ m \in Int /\ n \in Int /\ e \in Nat /\ d \in Nat
  BY <1>0, <1>1 DEF DataOK, TypesOK
<1>6. /\ data' \in [Locations -> Int] /\ \A l \in Locations : l \notin Writes(t) => data'[l] = data[l]
      /\ (\A l \in Writes(t) : ~Holds(l, i, d, m, j, e, n, r2, x)) \/ data' = data
  <2>1. CASE Quiet(t)
    BY <1>5, <2>1 DEF Quiet
  <2>2. CASE Spoils(t)
    <3>1. data' = [l \in Locations |-> IF l \in Writes(t) THEN Bad ELSE data[l]] /\ FailsOf(t, step[t]) # "never"
          /\ mode'[t] # "run"
      BY <2>2 DEF Spoils
    <3>2. CASE t = "master"
      <4>1. Writes(t) = MasterChanges(i, x, d) \ Flags
        BY <1>1, <3>2, MasterIO DEF At0, EntryOK, Entry
      <4>2. FailsOf("master", i) # "never"
        BY <3>1, <3>2
      <4> HIDE DEF i, d, m, j, e, n, r2, x
      <4>3. ASSUME NEW l \in Writes(t) PROVE ~Holds(l, i, d, m, j, e, n, r2, x)
        <5>1. l \notin {<<"a", x>>, <<"b", x>>} /\ ~MasterHas(l, i, d, m, x) /\ ~SlaveHas(l, j, e, n, r2)
          <6> SUFFICES ASSUME d \in Nat, FailsOf("master", i) # "never", l \in MasterChanges(i, x, d) \ Flags
                       PROVE  l \notin {<<"a", x>>, <<"b", x>>} /\ ~MasterHas(l, i, d, m, x) /\ ~SlaveHas(l, j, e, n, r2)
            BY <1>5, <4>1, <4>2
          <6> QED BY MasterSpoilsNothing
        <5> QED BY <5>1 DEF Holds
      <4> QED BY <1>5, <3>1, <4>3 DEF Bad
    <3>3. CASE t = "slave"
      <4>1. Writes(t) = SlaveChanges(step["slave"], x, e) \ Flags
        BY <1>1, <3>3, SlaveIO DEF At0, EntryOK, Entry
      <4>2. FailsOf("slave", step["slave"]) # "never" /\ r2 = FALSE
        BY <3>1, <3>3
      <4>3. step["slave"] = j
        <5>1. step["slave"] \in {3, 9}
          BY <4>2 DEF FailsOf
        <5>2. Together
          BY <5>1, Aligned DEF SlaveWaits, SlaveEnds
        <5> QED BY <5>2 DEF Together, SlaveAt
      <4>4. Writes(t) = SlaveChanges(j, x, e) \ Flags /\ FailsOf("slave", j) # "never"
        BY <4>1, <4>2, <4>3
      <4> HIDE DEF i, d, m, j, e, n, r2, x
      <4>5. ASSUME NEW l \in Writes(t) PROVE ~Holds(l, i, d, m, j, e, n, r2, x)
        <5>1. l \notin {<<"a", x>>, <<"b", x>>} /\ ~MasterHas(l, i, d, m, x) /\ ~SlaveHas(l, j, e, n, FALSE)
          <6> SUFFICES ASSUME e \in Nat, FailsOf("slave", j) # "never", l \in SlaveChanges(j, x, e) \ Flags
                       PROVE  l \notin {<<"a", x>>, <<"b", x>>} /\ ~MasterHas(l, i, d, m, x) /\ ~SlaveHas(l, j, e, n, FALSE)
            BY <1>5, <4>4
          <6> QED BY SlaveSpoilsNothing
        <5> QED BY <4>2, <5>1 DEF Holds
      <4> QED BY <1>5, <3>1, <4>5 DEF Bad
    <3> QED BY <1>0, <3>2, <3>3
  <2> QED BY <2>1, <2>2
<1>7. ClaimInv'
  <2>1. Claims(data, i, d, m, j, e, n, r, x, k)
    BY <1>1 DEF ClaimInv
  <2>2. ASSUME NEW l \in Locations, Holds(l, i, d, m, j, e, n, r2, x) PROVE data'[l] = Tag(l, x, k)
    <3>1. Holds(l, i, d, m, j, e, n, r, x)
      BY <1>3, <2>2 DEF Holds, SlaveHas
    <3>2. data'[l] = data[l]
      BY <1>6, <2>2
    <3> QED BY <2>1, <3>1, <3>2 DEF Claims
  <2>3. ClaimInv' = Claims(data', i, d, m, j, e, n, r2, x, k)
    BY <1>3, <1>4 DEF ClaimInv, Claims, Holds, MasterHas, SlaveHas, Tag, Locations, Items
  <2> QED BY <2>2, <2>3 DEF Claims
<1>8. EntryInv'
  <2>1. EntryInv' = EntriesOK(i, d, m, j, e, n)
    BY <1>3, <1>4 DEF EntryInv, EntriesOK
  <2> QED BY <1>1, <2>1 DEF EntryInv
<1>9. DataOK'
  BY <1>1, <1>3, <1>6 DEF DataOK, iter, Locations, Items, counter_end, get_counter_start, gcd_num_counter
<1>10. ListenInv'
  BY <1>1, <1>3 DEF ListenInv
<1>11. EndInv'
  <2>1. mode["master"] # "ended" \/ mode["slave"] # "ended"
    BY <1>0, <1>2 DEF Keeps
  <2>2. result = Running
    BY <1>1, <2>1 DEF EndInv
  <2>3. mode'["master"] # "run" => i \notin {23, 24}
    <3>1. mode'["master"] = mode["master"] \/ OpOf("master", i) \notin {"turn", "iterate", "listen"}
      BY <1>0, <1>2 DEF Keeps
    <3> QED BY <1>1, <3>1 DEF EndInv, OpOf
  <2> QED BY <1>3, <2>2, <2>3 DEF EndInv, Running
<1> QED BY <1>7, <1>8, <1>9, <1>10, <1>11 DEF FormInv

LEMMA TurnForm ==
  ASSUME CountInv, RoundInv, FormInv, NEW t \in Threads, ThreadStep(t), Turn(t)
  PROVE  FormInv'
<1> DEFINE k == num_valid_iterations
           x == ab_index
<1>1. TypesOK /\ At0(t) /\ DataOK /\ ClaimInv /\ EntryInv /\ ListenInv /\ EndInv /\ Current(t).op = OpOf(t, step[t])
  BY CurrentIs DEF CountInv, FormInv
<1>2. t = "master" /\ step["master"] = 22
  BY <1>1 DEF Turn, At, At0, EntryOK, Entry, OpOf, Threads
<1>0. "slave" \in Threads /\ "slave" # "master"
  BY DEF Threads
<1>3. /\ Stays("slave") /\ mode'["slave"] = mode["slave"]
  BY <1>0, <1>1, <1>2, OtherStays
<1>4. /\ step'["master"] = 23 /\ ab_index' = 1 - x /\ num_valid_iterations' = k + 1 /\ mode' = mode
      /\ UNCHANGED <<counter_start, exit_entry, listened, result>> /\ data' = Written("master", iter("master"))
      /\ mode["master"] = "run"
  BY <1>1, <1>2 DEF Turn, Continue, TypesOK, At
<1>5. k \in Nat /\ k = iter("master") /\ data \in [Locations -> Int] /\ x \in {0, 1}
  <2>1. counter_start["master"] \in Nat /\ counter_end \in Nat \ {0}
    BY <1>1, <1>2, Counts DEF TypesOK
  <2>2. iter("master") \in Int
    BY <2>1 DEF iter
  <2> QED BY <1>1, <1>2, <2>2 DEF DataOK
<1>6. data' \in [Locations -> Int] /\ data'[<<"a", 1 - x>>] = k + 1 /\ data'[<<"b", 1 - x>>] = k + 1
  <2>1. Sound("master", k)
    BY <1>1, <1>2, MasterSound
  <2>2. Writes("master") = MasterChanges(22, x, entry["master"]) \ Flags
    BY <1>2, MasterIO
  <2>3. <<"a", 1 - x>> \in Writes("master") /\ <<"b", 1 - x>> \in Writes("master")
    BY <2>2 DEF MasterChanges, Flags
  <2>4. <<"a", 1 - x>> \in Locations /\ <<"b", 1 - x>> \in Locations /\ 1 - x # x
    BY <1>5 DEF Locations
  <2>5. Tag(<<"a", 1 - x>>, x, k) = k + 1 /\ Tag(<<"b", 1 - x>>, x, k) = k + 1
    BY <2>4 DEF Tag
  <2> QED BY <1>2, <1>4, <1>5, <2>1, <2>3, <2>4, <2>5, SoundWrites
<1>7. DataOK'
  BY <1>4, <1>5, <1>6 DEF DataOK, iter, Locations, Items, counter_end, get_counter_start, gcd_num_counter
<1>8. ClaimInv'
  <2>1. SUFFICES ASSUME NEW l \in Locations, l \in {<<"a", 1 - x>>, <<"b", 1 - x>>}
                 PROVE  data'[l] = Tag(l, 1 - x, k + 1)
    BY <1>4 DEF ClaimInv, Claims, Holds, Tag, Locations, Items
  <2> QED BY <1>6, <2>1 DEF Tag
<1>9. EntryInv'
  <2>1. SlaveAt' = SlaveAt
    BY <1>3, <1>4 DEF SlaveAt, Stays
  <2> QED BY <1>1, <1>2, <1>4, <2>1 DEF EntryInv, EntriesOK
<1>10. ListenInv'
  BY <1>1, <1>2, <1>4, <1>5 DEF ListenInv
<1>11. EndInv'
  BY <1>1, <1>4 DEF EndInv, Running, AllOnes
<1> QED BY <1>7, <1>8, <1>9, <1>10, <1>11 DEF FormInv
LEMMA IterateForm ==
  ASSUME CountInv, RoundInv, FormInv, NEW t \in Threads, ThreadStep(t), Iterate(t)
  PROVE  FormInv'
<1> DEFINE i == step["master"]
           d == entry["master"]
           m == exit_entry["master"]
           j == SlaveAt
           e == entry["slave"]
           n == exit_entry["slave"]
           c == counter_start["master"]
           b == counter_start["slave"]
           k == num_valid_iterations
           x == ab_index
<1>0. "master" \in Threads /\ "slave" \in Threads /\ "slave" # "master" /\ counter_end \in Nat \ {0}
  BY Counts DEF Threads
<1>1. TypesOK /\ At0(t) /\ DataOK /\ ClaimInv /\ EntryInv /\ ListenInv /\ EndInv /\ Current(t).op = OpOf(t, step[t])
      /\ At0("master") /\ At0("slave") /\ RoundInv
  BY <1>0, CurrentIs DEF CountInv, FormInv
<1>2. OpOf(t, step[t]) = "iterate" /\ mode[t] = "run"
  BY <1>1 DEF Iterate, At
<1>3. Stays(Other(t)) /\ mode'[Other(t)] = mode[Other(t)] /\ Other("master") = "slave" /\ Other("slave") = "master"
  BY <1>1, OtherThread, OtherStays DEF Other
<1>4. UNCHANGED <<data, exit_entry, ab_index, num_valid_iterations, listened, result>>
  BY DEF Iterate, stateVars
<1>5. /\ k \in Nat /\ data \in [Locations -> Int] /\ x \in {0, 1} /\ c \in Nat /\ b \in Nat
      /\ EntryOK("master", i, d) /\ EntryOK("slave", step["slave"], e)
  BY <1>0, <1>1 DEF DataOK, TypesOK, At0
<1>6. Near(i, d, j, e)
  BY <1>1, NearNow
<1>7. CASE t = "master"
  <2>1. i = 23
    BY <1>1, <1>2, <1>7 DEF At0, EntryOK, Entry, OpOf
  <2>2. /\ step'["master"] = 24 /\ counter_start'["master"] = c + counter_end /\ mode'["master"] = "run"
    BY <1>0, <1>1, <1>2, <1>7, <2>1 DEF Iterate, Continue, TypesOK
  <2>3. counter_start'["slave"] = b /\ step'["slave"] = step["slave"] /\ entry'["slave"] = e
    BY <1>3, <1>7 DEF Stays
  <2>4. SlaveAt' \in {0, 1, 2}
    <3>1. CASE Together
      BY <1>0, <1>5, <2>2, <2>3, <3>1 DEF Together, SlaveAt
    <3>2. CASE SlaveWaits
      BY <1>0, <1>5, <2>2, <2>3, <3>2 DEF SlaveWaits, SlaveAt
    <3>3. ~SlaveEnds
      BY <2>1 DEF SlaveEnds
    <3> QED BY <1>1, <3>1, <3>2, <3>3, Aligned
  <2>5. DataOK'
    <3>1. WholeRounds(c)
      BY <1>0, <1>1 DEF RoundInv
    <3>2. (c + counter_end) \div counter_end = iter("master") + 1 /\ iter("master") \in Nat
      BY <1>5, <3>1, RoundOf DEF iter
    <3>3. k = iter("master") + 1
      BY <1>1, <2>1 DEF DataOK
    <3>4. iter("master")' = k
      <4>1. iter("master")' = (c + counter_end) \div counter_end
        BY <2>2 DEF iter, counter_end, get_counter_start, gcd_num_counter
      <4> QED BY <3>2, <3>3, <4>1
    <3> QED BY <1>4, <1>5, <2>2, <3>4 DEF DataOK, Locations, Items
  <2>6. ClaimInv'
    <3>1. Claims(data, 23, d, m, j, e, n, mode["slave"] = "run", x, k)
      BY <1>1, <2>1 DEF ClaimInv
    <3>2. \A l \in Locations : l \in {<<"a", x>>, <<"b", x>>} => data[l] = Tag(l, x, k)
      BY <3>1 DEF Claims, Holds
    <3> QED BY <1>4, <2>2, <3>2 DEF ClaimInv, Claims, Holds, Tag, Locations, Items
  <2>7. EntryInv'
    BY <2>2, <2>4 DEF EntryInv, EntriesOK
  <2>8. ListenInv'
    BY <1>1, <1>4, <2>1, <2>2 DEF ListenInv
  <2>9. EndInv'
    BY <1>1, <1>2, <1>4, <1>7, <2>2 DEF EndInv, Running, AllOnes
  <2> QED BY <2>5, <2>6, <2>7, <2>8, <2>9 DEF FormInv
<1>8. CASE t = "slave"
  <2>1. step["slave"] = 20 /\ e = 0
    BY <1>1, <1>2, <1>8 DEF At0, EntryOK, Entry, OpOf
  <2>2. step'["slave"] = 1 /\ counter_start'["slave"] = b + counter_end /\ entry'["slave"] = e
    BY <1>0, <1>1, <1>8 DEF Iterate, TypesOK
  <2>3. counter_start'["master"] = c /\ step'["master"] = i /\ entry'["master"] = d /\ mode'["master"] = mode["master"]
    BY <1>3, <1>8 DEF Stays
  <2>4. (j = 20 /\ SlaveAt' = 21) \/ (j = 0 /\ SlaveAt' = 1)
    <3>1. CASE Together
      BY <1>0, <1>5, <2>1, <2>2, <2>3, <3>1 DEF Together, SlaveAt
    <3>2. CASE SlaveEnds
      BY <1>0, <1>5, <2>1, <2>2, <2>3, <3>2 DEF SlaveEnds, SlaveAt
    <3>3. ~SlaveWaits
      BY <2>1 DEF SlaveWaits
    <3> QED BY <1>1, <3>1, <3>2, <3>3, Aligned
  <2>5. DataOK'
    BY <1>1, <1>4, <2>3 DEF DataOK, iter, Locations, Items, counter_end, get_counter_start, gcd_num_counter
  <2>6. ClaimInv'
    <3> DEFINE r == mode["slave"] = "run"
               r2 == mode'["slave"] = "run"
               j2 == SlaveAt'
    <3>1. Claims(data, i, d, m, j, e, n, r, x, k)
      BY <1>1 DEF ClaimInv
    <3>2. ClaimInv' = Claims(data, i, d, m, j2, e, n, r2, x, k)
      BY <1>4, <2>2, <2>3 DEF ClaimInv, Claims, Holds, MasterHas, SlaveHas, Tag, Locations, Items
    <3>3. (j = 20 /\ j2 = 21) \/ (j = 0 /\ j2 = 1)
      BY <2>4
    <3> HIDE DEF i, d, m, j, e, n, r, r2, x, k, j2
    <3>4. ASSUME NEW l, SlaveHas(l, j2, e, n, r2) PROVE SlaveHas(l, j, e, n, r)
      BY <3>3, <3>4 DEF SlaveHas
    <3>5. Claims(data, i, d, m, j2, e, n, r2, x, k)
      BY <3>1, <3>4 DEF Claims, Holds
    <3> QED BY <3>2, <3>5
  <2>7. EntryInv'
    <3>1. EntriesOK(i, d, m, j, e, n)
      BY <1>1 DEF EntryInv
    <3>2. EntriesOK(i, d, m, SlaveAt', e, n)
      BY <2>4, <3>1 DEF EntriesOK
    <3> QED BY <1>4, <2>2, <2>3, <3>2 DEF EntryInv, EntriesOK
  <2>8. ListenInv'
    BY <1>1, <1>4, <2>3 DEF ListenInv
  <2>9. EndInv'
    BY <1>1, <1>2, <1>4, <1>8, <2>3 DEF EndInv, Running, AllOnes
  <2> QED BY <2>5, <2>6, <2>7, <2>8, <2>9 DEF FormInv
<1> QED BY <1>7, <1>8 DEF Threads

LEMMA ListenForm ==
  ASSUME CountInv, RoundInv, FormInv, NEW t \in Threads, ThreadStep(t), Listen(t)
  PROVE  FormInv'
<1> DEFINE d == entry["master"]
           j == SlaveAt
           e == entry["slave"]
           k == num_valid_iterations
           x == ab_index
<1>0. "master" \in Threads /\ "slave" \in Threads /\ "slave" # "master"
  BY DEF Threads
<1>1. TypesOK /\ At0(t) /\ DataOK /\ ClaimInv /\ EntryInv /\ ListenInv /\ EndInv /\ Current(t).op = OpOf(t, step[t])
      /\ At0("slave") /\ At0("master")
  BY <1>0, CurrentIs DEF CountInv, FormInv
<1>2. t = "master" /\ step["master"] = 24
  <2>1. OpOf(t, step[t]) = "listen" /\ EntryOK(t, step[t], entry[t])
    BY <1>1 DEF Listen, At, At0
  <2> QED BY <2>1, ListenTable
<1>3. /\ Stays("slave") /\ mode'["slave"] = mode["slave"]
  BY <1>0, <1>1, <1>2, OtherStays
<1>4. /\ step'["master"] = 1 /\ mode["master"] = "run" /\ data' = [data EXCEPT ![<<"c", 0>>] = Bad]
      /\ UNCHANGED <<counter_start, exit_entry, ab_index, num_valid_iterations, result>>
      /\ listened' = Append(listened, data[<<"a", x>>])
  BY <1>1, <1>2 DEF Listen, TypesOK, At, counterVars
<1>5. k \in Nat /\ data \in [Locations -> Int] /\ x \in {0, 1}
  BY <1>1 DEF DataOK
<1>6. SlaveAt' = j /\ j \in {0, 1, 2}
  <2>1. SlaveAt' = j
    BY <1>3, <1>4 DEF SlaveAt, Stays
  <2>2. Near(24, d, j, e)
    BY <1>2, NearNow
  <2> HIDE DEF d, j, e
  <2>3. j \in {0, 1, 2}
    <3>1. CASE j \in {21, 0}
      BY <2>2, <3>1 DEF Near, EntryOK, Entry
    <3>2. CASE EntryOK("slave", j, e) /\ Waited("slave", j, e) <= Published("master", 24, d)
      <4>1. G \in Nat /\ Published("master", 24, d) = -1 /\ e \in Nat /\ j \in 1 .. 20
        BY <3>2, Counts DEF Published, EntryOK, Entry
      <4> QED BY <3>2, <4>1 DEF Waited
    <3> QED BY <2>2, <3>1, <3>2 DEF Near
  <2> QED BY <2>1, <2>3
<1>7. <<"c", 0>> \in Locations /\ <<"a", x>> \in Locations /\ <<"b", x>> \in Locations
  BY <1>5 DEF Locations, Items
<1>8. data' \in [Locations -> Int] /\ \A l \in Locations : l # <<"c", 0>> => data'[l] = data[l]
  BY <1>4, <1>5, <1>7 DEF Bad
<1>9. data[<<"a", x>>] = k
  <2>1. Tag(<<"a", x>>, x, k) = k
    BY DEF Tag
  <2> QED BY <1>1, <1>7, <2>1 DEF ClaimInv, Claims, Holds
<1>10. DataOK'
  BY <1>1, <1>2, <1>4, <1>8 DEF DataOK, iter, Locations, Items, counter_end, get_counter_start, gcd_num_counter
<1>11. ClaimInv'
  <2>1. \A l \in Locations : l \in {<<"a", x>>, <<"b", x>>} => data'[l] = Tag(l, x, k)
    BY <1>1, <1>8 DEF ClaimInv, Claims, Holds
  <2>2. \A l : ~MasterHas(l, 1, entry'["master"], exit_entry'["master"], x)
    BY DEF MasterHas
  <2>3. \A l : ~SlaveHas(l, j, entry'["slave"], exit_entry'["slave"], mode'["slave"] = "run")
    <3> HIDE DEF j
    <3> QED BY <1>6 DEF SlaveHas
  <2>4. ClaimInv' = Claims(data', 1, entry'["master"], exit_entry'["master"], j, entry'["slave"], exit_entry'["slave"],
                           mode'["slave"] = "run", x, k)
    BY <1>4, <1>6 DEF ClaimInv, Claims, Holds, MasterHas, SlaveHas, Tag, Locations, Items
  <2> QED BY <2>1, <2>2, <2>3, <2>4 DEF Claims, Holds
<1>12. EntryInv'
  BY <1>4, <1>6 DEF EntryInv, EntriesOK
<1>13. ListenInv'
  <2>1. Len(listened) = k - 1 /\ listened \in Seq(Int) /\ \A q \in DOMAIN listened : listened[q] = q
    BY <1>1, <1>2 DEF ListenInv
  <2>2. listened' = Append(listened, k) /\ num_valid_iterations' = k
    BY <1>4, <1>9
  <2>3. listened' \in Seq(Int) /\ Len(listened') = k /\ \A q \in 1 .. k : listened'[q] = q
    <3> HIDE DEF k
    <3> QED BY <1>5, <2>1, <2>2
  <2> QED BY <1>4, <2>2, <2>3 DEF ListenInv
<1>14. EndInv'
  BY <1>1, <1>4 DEF EndInv, Running, AllOnes
<1> QED BY <1>10, <1>11, <1>12, <1>13, <1>14 DEF FormInv

LEMMA FormNext == CountInv /\ RoundInv /\ FormInv /\ [Next]_vars => FormInv'
<1> SUFFICES ASSUME CountInv, RoundInv, FormInv, [Next]_vars PROVE FormInv'
  OBVIOUS
<1>1. ASSUME NEW t \in Threads, ThreadStep(t) PROVE FormInv'
  <2>1. Inside(t) \/ Quiet(t) \/ Spoils(t) \/ Turn(t) \/ Iterate(t) \/ Listen(t)
    BY <1>1, Effects DEF CountInv
  <2>2. CASE Inside(t)
    BY <1>1, <2>2, MasterInside, SlaveInside DEF Threads
  <2> QED BY <1>1, <2>1, <2>2, KeepsForm, TurnForm, IterateForm, ListenForm
<1>2. CASE Assign \/ Done \/ UNCHANGED vars
  <2>1. UNCHANGED <<step, entry, mode, counter_start, data, exit_entry, ab_index, num_valid_iterations, listened>>
    BY <1>2 DEF Assign, Done, vars, threadVars, stateVars
  <2>2. DataOK' /\ ClaimInv' /\ EntryInv' /\ ListenInv'
    <3>1. SlaveAt' = SlaveAt
      BY <2>1 DEF SlaveAt
    <3>2. ClaimInv' = ClaimInv
      BY <2>1, <3>1 DEF ClaimInv, Claims, Holds, MasterHas, SlaveHas, Tag, Locations, Items
    <3>3. EntryInv' = EntryInv
      BY <2>1, <3>1 DEF EntryInv, EntriesOK
    <3>4. DataOK' = DataOK
      BY <2>1 DEF DataOK, iter, Locations, Items, counter_end, get_counter_start, gcd_num_counter
    <3> QED BY <2>1, <3>2, <3>3, <3>4 DEF FormInv, ListenInv
  <2>3. EndInv'
    <3>1. CASE Assign
      BY <2>1, <3>1 DEF Assign, Threads, FormInv, EndInv, Running, AllOnes
    <3>2. CASE Done \/ UNCHANGED vars
      BY <2>1, <3>2 DEF Done, vars, FormInv, EndInv, Running, AllOnes
    <3> QED BY <1>2, <3>1, <3>2
  <2> QED BY <2>2, <2>3 DEF FormInv
<1> QED BY <1>1, <1>2 DEF Next

LEMMA FormInit == Init => FormInv
<1> SUFFICES ASSUME Init PROVE FormInv
  OBVIOUS
<1>1. /\ step["master"] = 1 /\ step["slave"] = 1 /\ entry["master"] = 0 /\ entry["slave"] = 0
      /\ counter_start["master"] = 0 /\ counter_start["slave"] = 0 /\ ab_index = 0 /\ num_valid_iterations = 0
      /\ listened = << >> /\ result = Running
      /\ data = [l \in Locations |-> IF l \in {<<"a", 0>>, <<"b", 0>>} THEN 0 ELSE Bad]
  BY DEF Init, Threads
<1>2. SlaveAt = 1
  BY <1>1 DEF SlaveAt
<1>3. counter_end \in Nat \ {0} /\ iter("master") = 0
  <2>1. counter_end \in Nat \ {0}
    BY Counts
  <2> HIDE DEF counter_end
  <2> QED BY <1>1, <2>1 DEF iter
<1>4. DataOK
  BY <1>1, <1>3 DEF DataOK, Bad
<1>5. ClaimInv
  <2>1. \A l : ~MasterHas(l, 1, 0, exit_entry["master"], 0) /\ ~SlaveHas(l, 1, 0, exit_entry["slave"], mode["slave"] = "run")
    BY DEF MasterHas, SlaveHas
  <2>2. \A l \in Locations : l \in {<<"a", 0>>, <<"b", 0>>} => data[l] = 0 /\ Tag(l, 0, 0) = 0
    BY <1>1 DEF Tag
  <2> QED BY <1>1, <1>2, <2>1, <2>2 DEF ClaimInv, Claims, Holds
<1>6. EntryInv /\ ListenInv
  <2>1. EntryInv
    BY <1>1, <1>2 DEF EntryInv, EntriesOK
  <2>2. listened \in Seq(Int) /\ Len(listened) = 0 /\ DOMAIN listened = {}
    BY <1>1
  <2>3. num_valid_iterations = 0 /\ step["master"] = 1
    BY <1>1
  <2>4. \A n \in DOMAIN listened : listened[n] = n
    BY <2>2, Zenon
  <2>5. Len(listened) = num_valid_iterations - (IF step["master"] \in {23, 24} THEN 1 ELSE 0)
    <3>1. (IF step["master"] \in {23, 24} THEN 1 ELSE 0) = 0
      BY <2>3
    <3>2. Len(listened) = 0
      BY <2>2
    <3>3. num_valid_iterations - 0 = 0
      BY <2>3
    <3> QED BY <3>1, <3>2, <3>3
  <2> QED BY <2>1, <2>2, <2>4, <2>5, Zenon DEF ListenInv
<1>7. EndInv
  BY <1>1 DEF EndInv
<1> QED BY <1>4, <1>5, <1>6, <1>7 DEF FormInv

\* FormMatchesCount (phase_4_master, repeated_square_fast_work, assign): the
\* form of ab_index is that after num_valid_iterations squarings, at any time
\* and whatever has failed; OnIteration was called for each of them, in order.
THEOREM FormAlwaysMatches == Spec => []FormMatchesCount
<1>1. FormInv => FormMatchesCount
  <2> SUFFICES ASSUME FormInv PROVE FormMatchesCount
    OBVIOUS
  <2>1. DataOK /\ ClaimInv /\ ListenInv /\ EndInv
    BY DEF FormInv
  <2>2. <<"a", ab_index>> \in Locations /\ <<"b", ab_index>> \in Locations
    BY <2>1 DEF DataOK, Locations
  <2>3. Tag(<<"a", ab_index>>, ab_index, num_valid_iterations) = num_valid_iterations
        /\ Tag(<<"b", ab_index>>, ab_index, num_valid_iterations) = num_valid_iterations
    BY DEF Tag
  <2>4. data[<<"a", ab_index>>] = num_valid_iterations /\ data[<<"b", ab_index>>] = num_valid_iterations
    BY <2>1, <2>2, <2>3 DEF ClaimInv, Claims, Holds
  <2>5. result >= 0 => Len(listened) = result
    <3>1. result >= 0 => result = num_valid_iterations /\ step["master"] \notin {23, 24}
      BY <2>1 DEF EndInv, Running, AllOnes
    <3> QED BY <2>1, <3>1 DEF ListenInv, DataOK
  <2> QED BY <2>1, <2>4, <2>5 DEF FormMatchesCount, ListenInv
<1> QED BY <1>1, FormInit, FormNext, CountInit, CountStep, RoundInit, RoundNext, PTL DEF Spec
----------------------------------------------------------------------------
(***************************************************************************)
(* The fences are never circular                                           *)
(***************************************************************************)

Erred == error_flag["master"] \/ error_flag["slave"]

\* The count that a thread has at least published, as long as nobody has
\* raised an error.
Reached(t, i, e) ==
  IF t = "master"
    THEN IF i \in {1, 24} THEN -1 ELSE IF i \in 2 .. 3 THEN 0
         ELSE IF i = 4 THEN (IF e = 0 THEN 0 ELSE e - 1) ELSE IF i = 5 THEN 0
         ELSE IF i = 6 THEN G - 1 ELSE IF i \in 7 .. 10 THEN G ELSE IF i \in 11 .. 15 THEN 2 * G
         ELSE IF i \in 16 .. 18 THEN 2 * G + 1 ELSE 2 * G + 2
    ELSE IF i = 1 THEN -1 ELSE IF i \in 2 .. 6 THEN 0 ELSE IF i \in 7 .. 8 THEN G
         ELSE IF i = 9 THEN (IF e = 0 THEN G ELSE G + e - 1) ELSE IF i = 10 THEN G
         ELSE IF i = 11 THEN 2 * G - 1 ELSE IF i \in 12 .. 16 THEN 2 * G
         ELSE IF i \in 17 .. 19 THEN 2 * G + 1 ELSE 2 * G + 2

ReachInv ==
  Erred \/ \A t \in Threads : counter_value[t] >= counter_start[t] + Reached(t, step[t], entry[t])

\* Threads end after the whole batch, or after an error.
DoneOK(t) ==
  /\ mode[t] = "run" => iter(t) < Iterations \/ (t = "master" /\ step[t] = 24 /\ iter(t) <= Iterations)
  /\ mode[t] = "ended" => Erred \/ (iter(t) = Iterations /\ step[t] = 1)

DoneInv ==
  /\ \A t \in Threads : DoneOK(t)
  /\ corruption_flag \in BOOLEAN /\ (corruption_flag => Erred) /\ (result = AllOnes => Erred \/ Failures)

LEMMA ReachedTable ==
  ASSUME NEW t \in Threads, NEW i, NEW e, EntryOK(t, i, e)
  PROVE  /\ Reached(t, i, e) \in Int
         /\ OpOf(t, i) = "advance" => Reached(t, i + 1, 0) = CountOf(t, i)
         /\ OpOf(t, i) = "fence" => Reached(t, i + 1, e) = Reached(t, i, e)
         /\ OpOf(t, i) \in {"work", "turn"} => Reached(t, i + 1, 0) = Reached(t, i, e)
         /\ OpOf(t, i) = "emit" => Reached(t, i, e + 1) = CountOf(t, i) + e /\ Reached(t, i + 1, 0) <= CountOf(t, i) + e
         /\ OpOf(t, i) = "take" => Reached(t, i + 1, 0) = Reached(t, i, e) /\ Reached(t, i - 1, e + 1) = Reached(t, i, e)
         /\ OpOf(t, i) = "iterate" => counter_end + Reached(t, IF t = "master" THEN 24 ELSE 1, 0) <= Reached(t, i, e)
         /\ OpOf(t, i) = "listen" => Reached(t, 1, 0) = Reached(t, i, e)
<1>1. i \in 1 .. 24 /\ e \in Nat /\ (t = "slave" => i \in 1 .. 20)
  BY DEF EntryOK, Entry, Threads
<1>2. CASE t = "master"
  BY <1>1, <1>2, Counts DEF EntryOK, OpOf, CountOf, Reached
<1>3. CASE t = "slave"
  BY <1>1, <1>3, Counts DEF EntryOK, OpOf, CountOf, Reached
<1> QED BY <1>2, <1>3 DEF Threads

LEMMA Reaches ==
  ASSUME TypesOK, NEW t \in Threads, At0(t), Moves(t), mode[t] # "store",
         counter_value[t] >= counter_start[t] + Reached(t, step[t], entry[t])
  PROVE  counter_value'[t] >= counter_start'[t] + Reached(t, step'[t], entry'[t])
<1> DEFINE i == step[t]
           e == entry[t]
           c == counter_start[t]
           v == counter_value[t]
           j == step'[t]
           d == entry'[t]
           c2 == counter_start'[t]
           v2 == counter_value'[t]
<1>0. EntryOK(t, i, e) /\ EntryOK(t, j, d) /\ i \in Nat /\ e \in Nat /\ c \in Nat /\ v \in Int /\ CountOf(t, i) \in Nat
      /\ counter_end \in Nat /\ v >= c + Reached(t, i, e)
  BY Progress, TableTypes, Counts DEF TypesOK, At0
<1>a. /\ Reached(t, i, e) \in Int /\ Reached(t, j, d) \in Int
      /\ OpOf(t, i) = "advance" => Reached(t, i + 1, 0) = CountOf(t, i)
      /\ OpOf(t, i) = "fence" => Reached(t, i + 1, e) = Reached(t, i, e)
      /\ OpOf(t, i) \in {"work", "turn"} => Reached(t, i + 1, 0) = Reached(t, i, e)
      /\ OpOf(t, i) = "emit" => Reached(t, i, e + 1) = CountOf(t, i) + e /\ Reached(t, i + 1, 0) <= CountOf(t, i) + e
      /\ OpOf(t, i) = "take" => Reached(t, i + 1, 0) = Reached(t, i, e) /\ Reached(t, i - 1, e + 1) = Reached(t, i, e)
      /\ OpOf(t, i) = "iterate" => counter_end + Reached(t, IF t = "master" THEN 24 ELSE 1, 0) <= Reached(t, i, e)
      /\ OpOf(t, i) = "listen" => Reached(t, 1, 0) = Reached(t, i, e)
  <2> HIDE DEF i, e, j, d
  <2> QED BY <1>0, ReachedTable
<1> SUFFICES v2 >= c2 + Reached(t, j, d)
  OBVIOUS
<1>1. CASE Stays(t)
  BY <1>0, <1>1 DEF Stays
<1>2. CASE Advances(t)
  <2>1. j = i + 1 /\ d = 0 /\ c2 = c /\ v2 = c + CountOf(t, i) /\ OpOf(t, i) = "advance"
    BY <1>2 DEF Advances, Goes
  <2> HIDE DEF i, e, c, v, j, d, c2, v2
  <2> QED BY <1>0, <1>a, <2>1
<1>3. CASE Passes(t)
  <2>1. j = i + 1 /\ d = e /\ c2 = c /\ v2 = v /\ OpOf(t, i) = "fence"
    BY <1>3 DEF Passes, Goes
  <2> HIDE DEF i, e, c, v, j, d, c2, v2
  <2> QED BY <1>0, <1>a, <2>1
<1>4. CASE Works(t)
  <2>1. j = i + 1 /\ d = 0 /\ c2 = c /\ v2 = v /\ OpOf(t, i) \in {"work", "turn"}
    BY <1>4 DEF Works, Goes, SameCounts
  <2> HIDE DEF i, e, c, v, j, d, c2, v2
  <2> QED BY <1>0, <1>a, <2>1
<1>5. CASE Emits(t)
  <2>1. /\ c2 = c /\ v2 = c + CountOf(t, i) + e /\ OpOf(t, i) = "emit"
        /\ (j = i + 1 /\ d = 0) \/ (j = i /\ d = e + 1)
    BY <1>5 DEF Emits, Goes
  <2> HIDE DEF i, e, c, v, j, d, c2, v2
  <2> QED BY <1>0, <1>a, <2>1
<1>6. CASE Takes(t)
  <2>1. c2 = c /\ v2 = v /\ OpOf(t, i) = "take" /\ ((j = i + 1 /\ d = 0) \/ (j = i - 1 /\ d = e + 1))
    BY <1>6 DEF Takes, Goes, SameCounts
  <2> HIDE DEF i, e, c, v, j, d, c2, v2
  <2> QED BY <1>0, <1>a, <2>1
<1>7. CASE Iterates(t)
  <2>1. j = (IF t = "master" THEN 24 ELSE 1) /\ d = 0 /\ c2 = c + counter_end /\ v2 = v /\ OpOf(t, i) = "iterate"
    BY <1>7 DEF Iterates
  <2> HIDE DEF i, e, c, v, j, d, c2, v2
  <2>2. counter_end + Reached(t, j, d) <= Reached(t, i, e)
    BY <1>a, <2>1
  <2> QED BY <1>0, <1>a, <2>1, <2>2
<1>8. CASE Listens(t)
  <2>1. j = 1 /\ d = 0 /\ c2 = c /\ v2 = v /\ OpOf(t, i) = "listen"
    BY <1>8 DEF Listens, SameCounts
  <2> HIDE DEF i, e, c, v, j, d, c2, v2
  <2> QED BY <1>0, <1>a, <2>1
<1>9. ~Stores(t)
  BY DEF Stores
<1> QED BY <1>1, <1>2, <1>3, <1>4, <1>5, <1>6, <1>7, <1>8, <1>9 DEF Moves

LEMMA ErrorStays ==
  ASSUME CountInv, NEW t \in Threads, ThreadStep(t), Erred
  PROVE  Erred'
<1>1. TypesOK /\ At0(t) /\ "master" \in Threads /\ "slave" \in Threads
  BY DEF CountInv, Threads
<1>2. \A u \in Threads : error_flag[u] => error_flag'[u]
  BY <1>1, FlagsStay
<1> QED BY <1>1, <1>2 DEF Erred

LEMMA ReachNext == CountInv /\ ReachInv /\ [Next]_vars => ReachInv'
<1> SUFFICES ASSUME CountInv, ReachInv, [Next]_vars, ~Erred'
             PROVE  \A u \in Threads : counter_value'[u] >= counter_start'[u] + Reached(u, step'[u], entry'[u])
  BY DEF ReachInv, Reached
<1>1. ASSUME NEW t \in Threads, ThreadStep(t), NEW u \in Threads
      PROVE  counter_value'[u] >= counter_start'[u] + Reached(u, step'[u], entry'[u])
  <2>1. ~Erred
    BY <1>1, ErrorStays
  <2>2. TypesOK /\ At0(t) /\ ModeOK(t) /\ counter_value[u] >= counter_start[u] + Reached(u, step[u], entry[u])
    BY <2>1 DEF CountInv, ReachInv
  <2>3. mode[t] # "store"
    BY <2>1, <2>2 DEF ModeOK, Erred, Other, Threads
  <2>4. Moves(t)
    BY <1>1, <2>2, ThreadMoves
  <2>5. u # t => Stays(u)
    BY <1>1, <2>2, OtherStays
  <2>6. CASE u = t
    BY <2>2, <2>3, <2>4, <2>6, Reaches
  <2>7. CASE u # t
    BY <2>2, <2>5, <2>7 DEF Stays
  <2> QED BY <2>6, <2>7
<1>2. CASE Assign \/ Done \/ UNCHANGED vars
  <2>1. UNCHANGED <<step, entry, counter_start, counter_value, error_flag>>
    BY <1>2 DEF Assign, Done, vars, threadVars, counterVars
  <2> QED BY <2>1 DEF ReachInv, Erred
<1> QED BY <1>1, <1>2 DEF Next
LEMMA EndsAfterError ==
  ASSUME TypesOK, NEW t \in Threads, ModeOK(t), ThreadStep(t), mode'[t] = "ended"
  PROVE  Iterate(t) \/ Listen(t) \/ Erred
<1>1. CASE RaiseOther(t) \/ StoreCounter(t)
  BY <1>1 DEF RaiseOther, StoreCounter, ModeOK, Erred, Other, Threads
<1>2. CASE ~(RaiseOther(t) \/ StoreCounter(t) \/ Iterate(t) \/ Listen(t))
  <2>1. mode'[t] \in {"raise", "run"}
    BY <1>2 DEF TypesOK, ThreadStep, advance_absolute, fence_absolute, FenceFails, Spin, DoWork, Fail, Emit, EmitFails,
                Take, Turn, At, RaiseError, Continue, vars, threadVars
  <2> QED BY <2>1
<1> QED BY <1>1, <1>2

LEMMA CorruptionIsAnError ==
  ASSUME TypesOK, NEW t \in Threads, ThreadStep(t)
  PROVE  /\ corruption_flag' = corruption_flag \/ (corruption_flag' \in BOOLEAN /\ Erred')
         /\ result' = result
<1>1. CASE Fail(t)
  <2>1. error_flag'[t] = TRUE
    BY <1>1 DEF Fail, RaiseError, TypesOK
  <2>2. corruption_flag' \in BOOLEAN /\ result' = result
    BY <1>1 DEF Fail
  <2> QED BY <2>1, <2>2 DEF Erred, Threads
<1>2. CASE ~Fail(t)
  BY <1>2 DEF ThreadStep, RaiseOther, StoreCounter, advance_absolute, fence_absolute, FenceFails, Spin, DoWork, Emit,
              EmitFails, Take, Turn, Iterate, Listen, vars, stateVars
<1> QED BY <1>1, <1>2

LEMMA DoneNext == CountInv /\ RoundInv /\ FormInv /\ DoneInv /\ [Next]_vars => DoneInv'
<1> SUFFICES ASSUME CountInv, RoundInv, FormInv, DoneInv, [Next]_vars PROVE DoneInv'
  OBVIOUS
<1>1. ASSUME NEW t \in Threads, ThreadStep(t) PROVE DoneInv'
  <2> DEFINE E == counter_end
             N == Iterations
  <2>0. TypesOK /\ At0(t) /\ ModeOK(t) /\ DoneOK(t) /\ Current(t).op = OpOf(t, step[t]) /\ N \in Nat
    BY CurrentIs, PipelineAssumption DEF CountInv, DoneInv
  <2>1. Erred => Erred'
    BY <1>1, ErrorStays
  <2>2. corruption_flag' \in BOOLEAN /\ (corruption_flag' => Erred') /\ (result' = AllOnes => Erred' \/ Failures)
    <3>1. corruption_flag' = corruption_flag \/ (corruption_flag' \in BOOLEAN /\ Erred')
      BY <1>1, <2>0, CorruptionIsAnError
    <3>2. result' = result
      BY <1>1, <2>0, CorruptionIsAnError
    <3> QED BY <2>1, <3>1, <3>2 DEF DoneInv
  <2>3. ASSUME NEW u \in Threads, u # t PROVE DoneOK(u)'
    <3>1. Stays(u) /\ mode'[u] = mode[u] /\ DoneOK(u)
      BY <1>1, <2>0, <2>3, OtherStays DEF DoneInv
    <3>2. iter(u)' = iter(u) /\ step'[u] = step[u]
      BY <3>1 DEF Stays, iter, counter_end, get_counter_start, gcd_num_counter
    <3> QED BY <2>1, <3>1, <3>2 DEF DoneOK
  <2>4. counter_start[t] \in Nat /\ WholeRounds(counter_start[t]) /\ iter(t) \in Nat
    <3>1. counter_start[t] \in Nat /\ WholeRounds(counter_start[t])
      BY <2>0 DEF TypesOK, RoundInv
    <3> QED BY <3>1, RoundOf DEF iter
  <2>5. DoneOK(t)'
    <3>1. CASE Iterate(t)
      <4>1. mode[t] = "run" /\ OpOf(t, step[t]) = "iterate" /\ counter_start'[t] = counter_start[t] + counter_end
        BY <2>0, <3>1 DEF Iterate, At, TypesOK
      <4>2. iter(t)' = iter(t) + 1
        <5>1. iter(t)' = counter_start'[t] \div counter_end
          BY DEF iter, counter_end, get_counter_start, gcd_num_counter
        <5>2. (counter_start[t] + counter_end) \div counter_end = iter(t) + 1
          BY <2>4, RoundOf DEF iter
        <5> QED BY <4>1, <5>1, <5>2
      <4>3. step[t] = (IF t = "master" THEN 23 ELSE 20)
        BY <2>0, <4>1, IterateTable DEF At0
      <4>4. iter(t) < N
        BY <2>0, <4>1, <4>3 DEF DoneOK
      <4>5. CASE t = "master"
        <5>1. step'[t] = 24 /\ mode'[t] = "run"
          BY <2>0, <3>1, <4>1, <4>3, <4>5 DEF Iterate, Continue, TypesOK
        <5> QED BY <2>0, <2>4, <4>2, <4>4, <4>5, <5>1 DEF DoneOK
      <4>6. CASE t # "master"
        <5>1. step'[t] = 1 /\ mode'[t] = (IF iter(t) + 1 < N THEN "run" ELSE "ended")
          BY <2>0, <3>1, <4>6 DEF Iterate, TypesOK
        <5> QED BY <2>0, <2>4, <4>2, <4>4, <5>1 DEF DoneOK
      <4> QED BY <4>5, <4>6
    <3>2. CASE Listen(t)
      <4>1. mode[t] = "run" /\ OpOf(t, step[t]) = "listen" /\ counter_start' = counter_start /\ step'[t] = 1
            /\ mode'[t] = (IF iter(t) < N THEN "run" ELSE "ended")
        BY <2>0, <3>2 DEF Listen, At, TypesOK
      <4>2. iter(t)' = iter(t)
        BY <4>1 DEF iter, counter_end, get_counter_start, gcd_num_counter
      <4>3. iter(t) <= N
        BY <2>0, <2>4, <4>1 DEF DoneOK
      <4> QED BY <2>0, <2>4, <4>1, <4>2, <4>3 DEF DoneOK
    <3>3. CASE Inside(t) \/ Quiet(t) \/ Spoils(t) \/ Turn(t)
      <4>1. counter_start' = counter_start
        BY <3>3 DEF Inside, Quiet, Spoils, Keeps, Turn
      <4>2. iter(t)' = iter(t)
        BY <4>1 DEF iter, counter_end, get_counter_start, gcd_num_counter
      <4>3. mode'[t] = "run" => mode[t] = "run" /\ (step'[t] = step[t] \/ OpOf(t, step[t]) # "listen")
        <5>1. CASE Inside(t)
          BY <5>1 DEF Inside, StepsTo
        <5>2. CASE Quiet(t) \/ Spoils(t)
          BY <5>2 DEF Quiet, Spoils, Keeps
        <5>3. CASE Turn(t)
          BY <2>0, <5>3 DEF Turn, At
        <5> QED BY <3>3, <5>1, <5>2, <5>3
      <4>4. t = "master" /\ step[t] = 24 => OpOf(t, step[t]) = "listen"
        BY DEF OpOf
      <4>5. mode'[t] = "ended" => Erred'
        <5>1. mode'[t] = "ended" => Iterate(t) \/ Listen(t) \/ Erred
          BY <1>1, <2>0, EndsAfterError
        <5>2. CASE Iterate(t) \/ Listen(t)
          BY <3>1, <3>2, <5>2, <2>0, <3>3, <4>1 DEF Inside, StepsTo, Quiet, Spoils, Keeps, Turn, Iterate, Listen, At
        <5> QED BY <2>1, <5>1, <5>2
      <4> QED BY <2>0, <4>2, <4>3, <4>4, <4>5 DEF DoneOK
    <3> QED BY <1>1, <2>0, <3>1, <3>2, <3>3, Effects
  <2> QED BY <2>2, <2>3, <2>5 DEF DoneInv
<1>2. CASE Assign \/ Done \/ UNCHANGED vars
  <2>1. UNCHANGED <<step, mode, counter_start, error_flag, corruption_flag>>
    BY <1>2 DEF Assign, Done, vars, threadVars, counterVars, stateVars
  <2>2. result' = AllOnes => Erred \/ Failures
    <3>1. CASE Assign
      <4>1. num_valid_iterations # AllOnes
        BY DEF FormInv, DataOK, AllOnes
      <4> QED BY <3>1, <4>1 DEF Assign, DoneInv
    <3>2. CASE Done \/ UNCHANGED vars
      BY <3>2 DEF Done, vars, DoneInv
    <3> QED BY <1>2, <3>1, <3>2
  <2>3. \A u \in Threads : iter(u)' = iter(u)
    BY <2>1 DEF iter, counter_end, get_counter_start, gcd_num_counter
  <2> QED BY <2>1, <2>2, <2>3 DEF DoneInv, DoneOK, Erred
<1> QED BY <1>1, <1>2 DEF Next

LEMMA ReachInit == Init => ReachInv /\ DoneInv
<1> SUFFICES ASSUME Init PROVE ReachInv /\ DoneInv
  OBVIOUS
<1>1. \A t \in Threads : step[t] = 1 /\ counter_start[t] = 0 /\ counter_value[t] = 0
           /\ mode[t] = (IF Iterations = 0 THEN "ended" ELSE "run")
  BY DEF Init
<1>2. \A t \in Threads : Reached(t, 1, entry[t]) = -1
  BY DEF Reached, Threads
<1>3. \A t \in Threads : iter(t) = 0
  <2>1. counter_end \in Nat \ {0}
    BY Counts
  <2> HIDE DEF counter_end
  <2> QED BY <1>1, <2>1 DEF iter
<1>4. ReachInv
  BY <1>1, <1>2 DEF ReachInv
<1>5. \A t \in Threads : DoneOK(t)
  BY <1>1, <1>3, PipelineAssumption DEF DoneOK
<1>6. corruption_flag = FALSE /\ result # AllOnes
  BY DEF Init, Running, AllOnes
<1> QED BY <1>4, <1>5, <1>6 DEF DoneInv

\* Two threads of the same round that both wait: what is waited for would be
\* behind the other one's fence.
LEMMA NoCycle ==
  ASSUME NEW i, NEW d, NEW j, NEW e, NEW m \in Int, NEW n \in Int, EntryOK("master", i, d), EntryOK("slave", j, e),
         EntriesOK(i, d, m, j, e, n), OpOf("master", i) = "fence", OpOf("slave", j) = "fence",
         Reached("slave", j, e) < CountOf("master", i) + d, Reached("master", i, d) < CountOf("slave", j) + e
  PROVE  FALSE
<1>0. G \in Nat /\ G = gcd_max_iterations + 2 /\ gcd_max_iterations \in Nat /\ d \in Nat /\ e \in Nat
      /\ i \in {2, 7, 8, 11, 13, 16, 19, 21} /\ j \in {2, 4, 7, 12, 14, 17}
      /\ (i # 8 => d = 0) /\ (j # 4 => e = 0)
  BY Counts DEF EntryOK, Entry, OpOf
<1>1. (i \in {7, 8, 11, 13, 16, 19, 21} /\ j = 4 => e <= gcd_max_iterations)
      /\ (i = 8 /\ j \in {12, 14, 17} => d <= gcd_max_iterations)
  BY <1>0 DEF EntriesOK
<1>2. CASE j = 4
  BY <1>0, <1>1, <1>2 DEF Reached, CountOf
<1>3. CASE j # 4
  BY <1>0, <1>1, <1>3 DEF Reached, CountOf
<1> QED BY <1>2, <1>3
\* Completes (thread_state::fence_absolute, repeated_square_fast_work): as long
\* as nobody has raised an error one of the threads can go on, and a call that
\* ends without one has done the whole batch, for any number of squarings and
\* of gcd entries.
THEOREM AlwaysCompletes == Spec => []Completes
<1>1. CountInv /\ RoundInv /\ FormInv /\ ReachInv /\ DoneInv => Completes
  <2> SUFFICES ASSUME CountInv, RoundInv, FormInv, ReachInv, DoneInv,
                      \A t \in Threads : mode[t] \in {"run", "ended"} /\ ~error_flag[t]
               PROVE  IF \A t \in Threads : mode[t] = "ended"
                        THEN /\ num_valid_iterations = Iterations
                             /\ result \in {Running, Iterations} \/ (Failures /\ result = AllOnes)
                        ELSE \E t \in Threads : mode[t] = "run" /\ ~Waits(t)
    BY DEF Completes
  <2> DEFINE i == step["master"]
             d == entry["master"]
             m == exit_entry["master"]
             j == step["slave"]
             e == entry["slave"]
             n == exit_entry["slave"]
             c == counter_start["master"]
             b == counter_start["slave"]
             v == counter_value["master"]
             w == counter_value["slave"]
             N == Iterations
  <2>0. "master" \in Threads /\ "slave" \in Threads /\ \A t \in Threads : t \in {"master", "slave"}
    BY DEF Threads
  <2>1. ~Erred /\ TypesOK /\ DataOK /\ EndInv /\ EntryInv /\ DoneOK("master") /\ DoneOK("slave")
        /\ At0("master") /\ At0("slave")
    BY <2>0 DEF Erred, CountInv, FormInv, DoneInv
  <2>2. /\ v >= c + Reached("master", i, d) /\ w >= b + Reached("slave", j, e)
        /\ EntryOK("master", i, d) /\ EntryOK("slave", j, e) /\ m \in Int /\ n \in Int
        /\ c \in Nat /\ b \in Nat /\ v \in Int /\ w \in Int /\ N \in Nat
        /\ d \in Nat /\ e \in Nat /\ counter_end = 2 * G + 3 /\ G \in Nat
    BY <2>0, <2>1, Counts, PipelineAssumption DEF ReachInv, At0, TypesOK
  <2>3. /\ Reached("master", i, d) \in Int /\ Reached("slave", j, e) \in Int
        /\ CountOf("master", i) \in Nat /\ CountOf("slave", j) \in Nat
    <3> HIDE DEF i, d, j, e
    <3> QED BY <2>0, <2>2, ReachedTable, TableTypes
  <2>4. CASE \A t \in Threads : mode[t] = "ended"
    <3>1. iter("master") = N /\ i = 1
      BY <2>0, <2>1, <2>4 DEF DoneOK
    <3>2. num_valid_iterations = N
      BY <2>1, <2>2, <3>1 DEF DataOK
    <3>3. result \in {Running, N} \/ (Failures /\ result = AllOnes)
      BY <2>1, <3>2 DEF EndInv, DoneInv
    <3> QED BY <2>4, <3>2, <3>3
  <2>5. ASSUME ~\A t \in Threads : mode[t] = "ended", \A t \in Threads : mode[t] = "run" => Waits(t) PROVE FALSE
    <3>1. mode["master"] = "run" => OpOf("master", i) = "fence" /\ w < c + CountOf("master", i) + d
      <4>1. Current("master").op = OpOf("master", i) /\ Current("master").at = CountOf("master", i) /\ Other("master") = "slave"
        BY <2>0, <2>1, CurrentIs DEF Other
      <4> QED BY <2>0, <2>5, <4>1 DEF Waits, At, FenceTarget
    <3>2. mode["slave"] = "run" => OpOf("slave", j) = "fence" /\ v < b + CountOf("slave", j) + e
      <4>1. Current("slave").op = OpOf("slave", j) /\ Current("slave").at = CountOf("slave", j) /\ Other("slave") = "master"
        BY <2>0, <2>1, CurrentIs DEF Other
      <4> QED BY <2>0, <2>5, <4>1 DEF Waits, At, FenceTarget
    <3>3. /\ mode["master"] = "run" => iter("master") < N
          /\ mode["slave"] = "run" => iter("slave") < N
          /\ mode["master"] = "ended" => iter("master") = N /\ i = 1
          /\ mode["slave"] = "ended" => iter("slave") = N /\ j = 1
      <4>1. OpOf("master", 24) # "fence"
        BY DEF OpOf
      <4> QED BY <2>1, <3>1, <4>1 DEF DoneOK
    <3>4. /\ mode["master"] \in {"run", "ended"} /\ mode["slave"] \in {"run", "ended"}
          /\ mode["master"] = "run" \/ mode["slave"] = "run"
      BY <2>0, <2>5
    <3>5. iter("master") \in Nat /\ iter("slave") \in Nat
      <4>1. WholeRounds(c) /\ WholeRounds(b)
        BY <2>0 DEF RoundInv
      <4> QED BY <2>2, <4>1, RoundOf DEF iter
    <3>6. CASE Together /\ InStep
      <4>1. iter("master") = iter("slave")
        BY <3>6 DEF Together, iter
      <4>2. mode["master"] = "run" /\ mode["slave"] = "run"
        BY <2>2, <3>3, <3>4, <3>5, <4>1
      <4>3. b = c /\ EntriesOK(i, d, m, j, e, n)
        BY <2>1, <3>6 DEF Together, EntryInv, SlaveAt
      <4>4. OpOf("master", i) = "fence" /\ w < c + CountOf("master", i) + d
            /\ OpOf("slave", j) = "fence" /\ v < b + CountOf("slave", j) + e
        BY <3>1, <3>2, <4>2
      <4> HIDE DEF i, d, j, e, m, n, c, b, v, w
      <4> DEFINE rm == Reached("master", i, d)
                 rs == Reached("slave", j, e)
                 cm == CountOf("master", i)
                 cs == CountOf("slave", j)
      <4>5. rm \in Int /\ rs \in Int /\ cm \in Nat /\ cs \in Nat /\ v >= c + rm /\ w >= b + rs /\ w < c + cm + d /\ v < b + cs + e
        BY <2>2, <2>3, <4>4
      <4> HIDE DEF rm, rs, cm, cs
      <4>6. rs < cm + d /\ rm < cs + e
        BY <2>2, <4>3, <4>5
      <4>7. Reached("slave", j, e) < CountOf("master", i) + d /\ Reached("master", i, d) < CountOf("slave", j) + e
        BY <4>6 DEF rm, rs, cm, cs
      <4> QED BY <2>2, <4>3, <4>4, <4>7, NoCycle
    <3>7. CASE SlaveWaits
      <4>1. b = c + counter_end /\ j \in {1, 2}
        BY <3>7 DEF SlaveWaits
      <4>2. iter("slave") = iter("master") + 1
        <5>1. WholeRounds(c)
          BY <2>0 DEF RoundInv
        <5>2. (c + counter_end) \div counter_end = (c \div counter_end) + 1
          BY <2>2, <5>1, RoundOf
        <5> QED BY <4>1, <5>2 DEF iter
      <4>3. mode["master"] = "run"
        BY <2>2, <3>3, <3>4, <3>5, <4>2
      <4>4. OpOf("master", i) = "fence" /\ w < c + CountOf("master", i) + d
        BY <3>1, <4>3
      <4>5. Reached("slave", j, e) >= -1
        BY <4>1, <2>2 DEF Reached
      <4>6. i \in 11 .. 23
        BY <3>7 DEF SlaveWaits
      <4> HIDE DEF i, d, j, e, m, n, c, b, v, w
      <4>7. d = 0 /\ CountOf("master", i) <= 2 * G + 2
        BY <2>2, <4>6 DEF EntryOK, CountOf
      <4> QED BY <2>2, <2>3, <4>1, <4>4, <4>5, <4>7
    <3>8. CASE SlaveEnds
      <4>1. j = 20 /\ OpOf("slave", 20) = "iterate"
        BY <3>8 DEF SlaveEnds, OpOf
      <4> QED BY <3>2, <3>3, <3>4, <4>1
    <3> QED BY <3>6, <3>7, <3>8, Aligned
  <2>6. CASE ~\A t \in Threads : mode[t] = "ended"
    BY <2>5, <2>6
  <2> QED BY <2>4, <2>6
<1> QED BY <1>1, FormInit, FormNext, CountInit, CountStep, RoundInit, RoundNext, ReachInit, ReachNext, DoneNext, PTL
    DEF Spec
==============================================================================
