# A formal model of chiavdf

chiavdf evaluates a verifiable delay function, repeated squaring in a class
group of unknown order, and proves the results. This directory holds TLA+
modules that model the program, TLC configurations that check them on small
instances, and proofs checked by TLAPS. Source paths below are relative to
`src/` of the repository.

## 1. The system

### Components

| component | state it keeps | operations | correct when |
|---|---|---|---|
| squaring loop, `repeated_square` (vdf.h) | `num_iterations`, `last_checkpoint`, the form | run a batch of the fast algorithm, finish an early-ending batch with one slow squaring, redo a corrupted batch, publish `weso->iterations`, change the stride, stop at the maximum | what is published has been stored |
| 2-weso table, `TwoWesolowskiCallback` (callback.h) | `forms`, packed `transition_state`, `kl` | `OnIteration`, `IncreaseConstants`, `GetFormCopy` | each published power reads back as its form, no store is out of bounds |
| `ProveTwoWeso` (vdf.h), `TwoWesolowskiProver` (provers.h) | depth, prover threads | wait for the loop, read `y`, start a prover, recurse, poll, answer or unwind | reads are of the right power; a request is answered |
| two-thread squaring, `square_state_type` (vdf_fast.h) | form slots, `ab_index`, phase data, `num_valid_iterations`, `corruption_flag` | five phases per thread, `assign`, `init` | no data race; the form is the one after `num_valid_iterations` |
| thread counters, `thread_state` (threading.h) | `counter_value`, `error_flag`, `last_fence` | `advance`, `fence`, `raise_error` | fences order the accesses, nobody spins for ever |
| `ProverManager` (vdf.h) | `provers`, `pending_segments`, `done_segments`, `pending_iters`, `max_proving_iteration` | event loop, scheduling, `Prove`, `stop` | bounded threads, gapless proofs, requests served, a stop ends |
| `InterruptableProver` (provers.h) | `is_paused`, `is_finished`, `is_fully_finished` | start, pause, resume, finish, stop | |
| n-weso rings, `FastAlgorithmCallback` (callback.h) | a ring of `kWindowSize` segments for each bucket, `checkpoints` | `OnIteration`, `GetForm` | a prover reads its segment, not a later one |
| `FastStorage` (fast_storage.h) | `pending_intermediates`, `intermediates_stored` | `SubmitCheckpoint`, six storage threads, `GetFinishedSegment` | a finished segment is stored completely |
| sessions (vdf_client.cpp) | threads, stop flags, the socket | initial messages, read iteration, start proof, write proof, stop, join, STOP and ACK | the peer gets whole answers, and STOP when nothing is left to come |
| provers' sums (prover_impl.hpp, prover_slow.h), verifier (verifier.h) | none | blocks, segments, walk over a blob | the verifier accepts what the provers write, and nothing else of it |
| form serialization (bqfc.c, proof_common.h) | none | compress, write, read, decompress | reading inverts writing |
| class group (nucomp.h, Reducer.h, xgcd_partial.c, vdf_new.h, vdf_original.h) | none | compose, square, reduce, power | all implementations agree with the group |
| discriminants (create_discriminant.h, primetest.h) | none | hash, sieve, test | primes of the right length and residue |
| gcd kernels (gcd_*.h, asm_gcd_*.h), fixed-size integers (gpu_integer*.h) | none | partial gcd in three layers, long division | Euclid's remainders and cofactors, to the bit |
| hardware client (hw/hw_vdf_client.cpp) | connections and their states, the engines | connect, handle messages, start, stop, restart, change the frequency | engines are off at the end, lost jobs are restarted |
| hardware proofs (hw/hw_proof.cpp) | values, valid bits, queued and finished proofs, reference counts | add value, queue, compute, retrieve, stop | a proof's chain is complete when it is sent |
| hardware driver and emulator (hw/) | mode of the bridge, handles, reset line, job registers | open, reset, PLL, voltage, alarms, jobs | what the driver remembers is what the board is set to |

The squaring loop calls its callback's `OnIteration` for each squaring, from a
thread of the two-thread pipeline. The callback stores forms; the proving
threads read them once `weso->iterations`, an atomic, says they are there. In
the n-weso mode the loop, the provers, the storage threads and the session talk
to the event loop through one flag, `new_event`, and the event loop talks to the
threads of `Prove` through two condition variables. The session starts the
threads and, on a stop signal, sets flags, notifies and joins them. In the
hardware client one event loop serves all connections and shares the state of
each VDF with the auxiliary threads of its proof engine.

### What is hard

- forms are read by other threads while the table grows, its stride changes or
  a ring wraps around;
- the fast algorithm may end early or leave a corrupted state behind after
  `OnIteration` was called;
- two threads share `square_state` without locks, ordered by counters only, and
  either may fail or time out anywhere;
- provers finish in any order, also after having been paused;
- a stop, a closed connection or a failing write may come anywhere, and
  condition variables are notified without their mutex;
- vectors of proofs grow and are renumbered while threads hold indices;
- the arithmetic takes its quotients from the leading bits of numbers, with
  rare paths at the boundaries of words, table slots and signs.

`PROJECT.json` lists the hazards with the lines where they bite.

## 2. Modules

| module | models | used with |
|---|---|---|
| TwoWesoStore, TwoWesoStore_proofs | loop, table and provers of the 2-weso mode | |
| SquarePipeline, SquarePipeline_proofs | the two squaring threads and their counters | |
| ProverManager, ProverManager_proofs | the n-weso manager and its provers | extends Wesolowski for the bytes it sends |
| FastStorage, FastStorage_proofs | the n-weso rings, with and without the storage threads | |
| VdfService | what a session promises to its peer (abstract) | refined by Session |
| Session, Session_proofs | `vdf_client`'s session in its three modes | |
| HwProof, HwProof_proofs | the hardware client's proof engine | |
| HwDriver | the driver of the board and its bridge | extended by HwClient |
| HwClient, HwClient_proofs | the event loop, the connections and the emulated engines | |
| DataLemmas | induction, powers of two, sums; the proofs about Wesolowski | extends Wesolowski; extended by the proofs that need it |
| Forms, NuComp, FormCodec, Primality | forms; composition and reduction; serialization; prime test and discriminants | each extends the one before |
| Wesolowski | provers' sums, proofs of several segments, verifier | no recursive operators, so that it can be proved about |
| FixedInteger, GcdKernels, GcdAsm | fixed-size integers; the C++ gcd; the assembly gcd | each extends the one before |
| Algorithms | the questions asked of the algorithm modules, and the reference definitions | extends all of them |

### TwoWesoStore

`VdfStep` is the squaring thread, one action for each thing the loop can do
(`StartBatch`, `FastIteration`, `FastComplete`, `FastPremature`,
`ExtraIteration`, `FastCorrupted`, `RedoIteration`, `Advance`,
`RoundIteration`, `Switch`, `Republish`, `CheckMaximum`, `LoopStopped`), and
`ProverStep(r)` the thread that proves request `r`. The form after `p`
squarings is the number `p`; a slot never written, or written from a corrupted
state, holds `NoForm`. The strides 10 and 100 are the code's. A `SetForm` whose
`assign` fails leaves the slot alone. The packed 64-bit `transition_state` is a
record, since both halves travel in one atomic word.

### SquarePipeline

`repeated_square_fast_multithread`: the program of each thread is a sequence of
steps, put together from the phases (`phase_0_master` ... `phase_4_slave`, as in
the code). A step says what it reads, what it writes and how it can fail.
Data are tags: the number of the squaring they belong to, or `Bad` when they
were computed from anything else. At the end `assign` may refuse the form although
no thread failed. `fence_absolute` keeps `last_fence`;
`raise_error` is two stores. `exit_flag` of a gcd is `exit_entry`. The spin
limit is a nondeterministic timeout (constant `Timeouts`), and failing
validations and gcds are nondeterministic too (`Failures`).

### ProverManager

`LoopStep` is the event loop, cut where it takes or gives up a lock;
`ProveStep(r)` the thread in `Prove`; `OnFinish(sg)` a prover; `SessionStep` is
`SessionFastAlgorithm` after the stop signal with `ProverManager::stop` inside
it. A condition variable's wait has a step that evaluates the predicate
(`CheckLast`, `CheckProof`) and one that falls asleep (`FallAsleep`); in between
the thread holds the mutex, so actions that need it wait, and a notification,
which does not need it, is lost. Time counts in units of `1 << 15` iterations, a
small segment has `SegmentUnit` of them, and a segment of the next bucket is
`Ratio` (4 in the code) times as long.

What `Prove` writes is a function of the segments it took: `ProofSegments(r)`
are these, with the proofs that their provers compute (Wesolowski's
`ProvedSegment`), and the last one that `Prove` computes itself; `Blob(r)` puts
them together. `FormAt` is the form after so many units, and a unit counts as
one squaring in the exponents, which keeps TLC's numbers small.
`PrimesAssumption` says that the primes are at least 2^`BlockBits`: `HashPrime`
sets the highest of 264 bits (proof_common.h:82), and k is the rounded logarithm
of a length.

### FastStorage

The rings are functions from bucket and position to the iteration stored there.
If `multi_proc_machine` is false the loop stores (`OnIteration`); if it is true
the loop only submits every half segment, and `ThreadStep(t)` is a storage
thread: take the first pending form, store its intermediates one by one, and set
its half of `intermediates_stored`. That array is plain memory, so a store of one
thread may reach the others later (`buffered`, `Flush`). `RunEventLoop` takes
over what `GetFinishedSegment` finds. Batches may end early or be corrupted.
`leftBehind` remembers that a storage thread was overtaken by a whole window,
which is what the comment on `kWindowSize` excludes.

### VdfService and Session

Session is one connection: the main thread reads the kind of prover, the
discriminant and the form, answers OK and reads iterations; a worker squares; a
thread per accepted iteration waits, proves, takes `socket_mutex` and writes a
size and a body. The 2-weso mode refuses iterations that are not unique or too
big and, when `kMaxProcessesAllowed` threads were started, those that are not
smaller than all before. A smaller one is still taken, and the flag of its
thread is then written after the last entry of `stop_vector` (vdf_client.cpp:304),
before the largest iteration would be evicted. That is undefined behaviour, and
the session's `pc` is "undefined" from there on. The peer may close at any time, and from then on a read or a write
may throw, which unwinds the session or ends the process. `Width` is 2^64: the
test for too big an iteration subtracts from an unsigned number and is modelled
modulo `Width`.

VdfService says what the peer may see: OK first, at most one whole answer for
each accepted request, STOP last and only when no request is open. Session
implements it under the mapping at the end of the module (`ImplementsService`):
frames that are complete are what was said, threads that have not ended are open
requests. The state "undefined" has a phase of its own, after which VdfService
promises nothing, and the properties of Session do not either.

### HwProof

One action for each function that the event loop calls (`Request`, `AddValue`,
`Complete`, `Restart`, `Retrieve`, `EraseAndSend`, `StopProof`, `ClearState`,
`InitState`), each with its calls to queue and start proofs inside, and for each
step of an auxiliary thread where it touches shared state (`CalcValues`,
`ComputeProof`, `PushBegin`, `PushEnd`, `MarkDone`, `ClearBusy`; `CountDown` is
the late decrement of `n_proof_threads`). A form is its position; a proof is a
record with its predecessor `prev`, its reference count and flags, as in
`struct vdf_proof`.

### HwDriver and HwClient

HwDriver is `init_hw` call by call; any call of the bridge's library may fail,
at most `MaxFaults` times. `SetPLLFrequency` is `ProgramPLL`; at entry 0 of the
table, where init_hw starts and to which the frequency may be lowered later, it
resets the board, and a write of that reset that fails is ignored. `active_mode` is what the driver believes and `bridge`
what the bridge is set to. HwClient goes on with the event loop, which looks at
one connection or one engine per step. Changing the frequency and stopping write
to several engines; each write is a step (`EngineWrite`) and may fail. A connection
that ends in state STOPPED goes through `stop_conn` again and is sent another
STOP (`stops` counts them). The
emulator's job threads (`ThreadStarts`, `ThreadRuns`) run beside it. `init_done`
is "garbage" until it is first assigned, as the struct is not initialized.

### The algorithms

These modules are operators, translated function by function. Loops are
recursive functions in Wesolowski, about which theorems are proved, and recursive
operators in the others, which the prover cannot use. Numbers are small but
the sizes they are cut by are small too: limbs of 6 bits in `xgcd_partial` and
`Reducer`, bytes of 2 bits in the codec, words of 12 bits and doubles with 10
fraction bits in the gcd. So numbers of several limbs, tables with slots, and
quotients that do not fit occur within TLC's 32-bit integers. GMP's functions
are their mathematical meaning. In Wesolowski a form is the exponent it has over
the first form, so that composition is addition; B is a prime chosen by a
function of x and y in place of the hash.

`GcdAsm` has both builds: `cel` (doubles and the table of continued fractions)
and `avx2` (64-bit integers and reciprocals). It follows the generated program's
jumps and flags, and leaves registers and spills out.

## 3. Runs

| run | question | bounds |
|---|---|---|
| two_weso | table, switch and maximum with a faulty batch; a prover whose segments lie on both sides of the switch; answers | one request (the theorems of section 5 hold for any number); switch and capacity are not aligned with batches and publications; the loop passes the switch, rounds up and reaches the maximum |
| square | races, consistency, both threads end after any failure, and end well without one | three squarings: the first, the last and one between, so each slot is reused; up to two gcd entries |
| manager | `max_proving_iteration`, the choice of segments when more are needed than fit a proof, the verifier's answer to what is sent | small and long segments on two threads; a request that a long segment and the last one serve, and one that needs more small segments than fit; primes from 5 to 23, blocks of 2 bits |
| manager_live | threads are bounded; requests are answered unless stopped | one request, one thread, proofs of at most two blobs |
| session | frames, the refinement of VdfService, answers, stops | two processes allowed and three iterations read, so that the limit is reached, refuses an iteration and is passed |
| storage | rings and halves, with two storage threads or none | segments of 6 and 12 iterations, strides that do not divide them, a window of two segments, in which the ring of the small ones wraps around (theorem `RingAlwaysHolds` is about every bucket's ring); one fault |
| hw_proof | chains, whole proofs, requests, stops | two requests, long enough for a checkpoint, two threads, a restart and two challenges |
| hw_client | engines, the board, connections, stops and restarts | two engines in use and one that is not, one failing call, two frequencies |
| algorithms | all algorithms against their references | see below |
| manager_holes, manager_stop, session_one_weso | findings, see section 4 | the smallest that show them |

The run algorithms chooses a question and answers it; an action property
compares the answer of the code's algorithm with a reference. Forms: every pair
of classes of eight discriminants up to 1439, against composition by its
congruences. Partial gcd: every pair up to 130 with every limit. Primality: every
number up to 1200, so that both halves of the test meet numbers that only the
other one refuses. Proofs: every length up to 12 with every k and l up to 3 and
4, every chain of up to three segments. Gcd: numbers of up to three words with
thresholds of no, one and two words; base kernels on single words at table
boundaries; division of three limbs by two with all signs.

Deadlock is checked in two_weso, square and algorithms (where a question is
answered and the next one asked). Elsewhere the bound on the run, or
the end of a session, stops the system, so those configurations switch the check
off and progress is the liveness properties'.

Fairness. Every thread is scheduled by the operating system, so each has weak
fairness. A paused prover is exempt; nothing obliges a peer to ask, to answer or
to stop; faults are never obliged to happen. In HwProof the chip goes on
reporting values until its end, as the event loop reads its registers in turn.

## 4. Findings

Three runs are expected to violate a property that a comment of the code states.

- manager_holes: `Prove` takes entries of `done_segments` without testing
  `is_empty`. When the second long segment is finished before the first, and
  the small ones already reach far enough, the proof contains the placeholder.
- manager_stop: `stop` notifies without the waiters' mutexes. A thread between
  its predicate and its sleep is never woken and the session never ends.
- session_one_weso: `ProveOneWesolowski` polls `IsFinished` and does not look at
  the stop. A prover that saw the stop never sets it, and the join never returns.

Observed while modelling, without a line of the repository that says otherwise:

- a stop after the first wait of `Prove` skips its loop, and for an iteration
  that is a multiple of `1 << 16` the last element of an empty vector is read
  (vdf.h:577);
- the event that a thread is free precedes `is_fully_finished` (provers.h:194),
  so a fast event loop leaves the thread unused until the next event
  (vdf.h:659);
- on a machine with storage threads nothing but speed keeps them behind the
  squaring loop, so that the checkpoint at the end of a segment may be copied
  before it is set (vdf.h:721);
- the choice of segments in `Prove` can be insufficient when another request
  raised `max_proving_iteration` (four or more threads) or when more than 63
  segments are needed; such a request is tried again every minute;
- `stop_vector` has an entry for each allowed process, but threads keep their
  places in it when they end, and a smaller iteration than all before is taken
  past the limit: its thread writes after the end of the array
  (vdf_client.cpp:255,304). The test for too big an iteration
  (vdf_client.cpp:297) never refuses one;
- a proof thread of the hardware client counts `n_proof_threads` down after the
  flag for which `hw_stop_proof` waits (hw/hw_proof.cpp:728-729): the decrement
  may hit the count of the next challenge. `RequestsComputed` exempts that case
  (`Miscounted`);
- lowering the frequency to entry 0 resets the board and ignores failures
  (hw/vdf_driver.cpp:333-335): the board may stay in reset until the frequency is
  lowered again. `BoardMatches` admits this case and no other;
- an end of file after the acknowledgement was awaited runs `stop_conn` again,
  which writes a second STOP (hw/hw_vdf_client.cpp:198, 223-229, 398);
- for a negative a the `gcd` of gpu_integer_gcd.h (lines 85-88) gives the
  cofactor of b the wrong sign, against its own comment (lines 63-67) and the
  assertion for a threshold of zero (line 98): for -5 and 3 it is -2. Only a test
  asks for this cofactor (vdf_test.h:81), of numbers that are not negative.
  `CofactorsCorrect` states the sign that the code gives;
- `PulmarkReducer` leaves (1, -1, c) as it is, where the other reductions give
  the identity (1, 1, c); the comparisons reduce again;
- `xgcd_partial` tests its limit between groups of words' steps and may pass it
  by a stage; `SerializeForm` does not look at the result of `bqfc_serialize`;
- `is_prime_bpsw` refuses the primes it divides by;
- the assembly refuses some gcds that the C++ does (heads of b and threshold
  equal under Lehmer's condition), and the C++ `gcd_64`, which nothing calls,
  refuses a matrix entry that the assembly takes.

## 5. Proofs

Every theorem holds for all values of the constants that satisfy the assumption
of its module: any number of requests, threads, engines, squarings or faults.
The assumptions say that sizes are positive, that bounds are naturals and that a
batch is shorter than what it is a part of; TLC evaluates them in every run.

| theorem | property | along |
|---|---|---|
| TwoWesoStore_proofs: TypeCorrect, CapacitySuffices, CheckpointsStored, FreshReads, RightOutputs, PublishedStable | `TypeOK`, `NeverOutOfBounds`, `PublishedAreStored`, `ReadsAreFresh`, `ProofsClaimRightOutputs`; `PublishedNeverOverwritten`, which no run repeats | `IInv` |
| SquarePipeline_proofs: NeverADataRace, FormAlwaysMatches, AlwaysCompletes | `NoDataRace`, `FormMatchesCount`, `Completes` | `CountInv`, `RoundInv`, `FormInv`, `ReachInv` |
| ProverManager_proofs: ThreadsNeverExceeded, MaxIsAlwaysProvable, ProofsAlwaysTile | `ThreadsBounded`, `MaxIsProvable`, `ProofsTile` | `ThreadInv`, `TileInv` |
| ProverManager_proofs: BlobsAlwaysVerify | `BlobsVerify` | `TileInv`, `PassedInv`, DataLemmas |
| DataLemmas: GenerateProofIsTheProof, ParallelProofIsTheProof | what the provers compute (no state) | the digits of 2^T div B |
| DataLemmas: TheProofVerifies, ChainsAreAccepted, ProveTwoWesoIsAccepted | what the verifier accepts (no state) | induction over the walk |
| FastStorage_proofs: HalvesAreStoredOnce, RingAlwaysHolds | `EveryHalfOnce`, `RingHoldsFinished` | `BaseInv`, `OnceInv`, `RingInv` |
| Session_proofs: FramesAreWhole, SessionImplementsService | `FramesWhole`, `ImplementsService` | `SafeInv`, `FlagsInv` |
| HwProof_proofs: ChainsAlwaysIntact, ProofsAreSentWhole | `ChainsIntact`, `SentProofsWhole` | `ProofInv` |
| HwClient_proofs: BoardAlwaysMatches, EnginesAreOffAtExit, OnlyStopAfterStop | `BoardMatches`, `EnginesOffAtExit`, `OnlyStopFollowsStop` | `DriverInv`, `ClientInv` |

None of the properties is inductive; what the invariants add, and why, follows.

### The 2-weso table

The code's numbers satisfy `MarginAssumption`: 10 * ((1 << 15) + 10000 + 120) is
below 500000. `IInv` adds
- `LoopInv`: the inner loops stay within a batch, and `iterations` does not
  overtake `num_iterations`;
- `OverrunInv`: how far past its stopping point the loop can get, one
  publication step, one batch and one rounding;
- `SwitchInv`: the switch happens at a multiple of 100, soon after
  `kSwitchIters`, with `switch_index` a tenth of it;
- `StoreInv`: every stored power up to `Reach`, not only the published ones, is
  in its slot. `Reach` is what the loop has handed over; in a corrupted batch it
  stays at the batch's beginning;
- `ReaderInv`: a prover only runs on segments that are published, and the `y`
  read so far are right.

`PositionsIncrease` (positions grow with the powers across the switch) gives
that two checkpoints never share a slot, and `NextInBounds` that the margin of
500000 iterations pays for the tenfold checkpoints stored between
`kSwitchIters` and the actual switch. `PublishedNeverOverwritten` (theorem
`PublishedStable`) says of steps what `PublishedAreStored` says of states; the
run checks the latter, which a checkpoint that is overwritten breaks as well.

### The two squaring threads

First the program of each thread is turned into a table (`OpOf`, `CountOf`): 24
entries for the master and 20 for the slave, whatever the number of gcd entries.
`CountInv` bounds what a thread has published by where it is, also after an
error (`Published`, from above), and what it has seen of the other by the fences
it has passed (`Waited`, from below). `RoundInv` says that rounds start at
multiples of `counter_end`; it follows that the threads are in the same round,
or the slave waits at the first fence of the next, or has not left the last one
(`Aligned`). `NoDataRace` is then a comparison of two tables of uses
and changes, for the pairs of positions that the counters let be (`Disjoint`).

`FormMatchesCount` needs to know which fields hold data of the current squaring
at each pair of positions (`MasterHas`, `SlaveHas`; together `ClaimInv`), that a
gcd's entry with `exit_flag` exists where the other thread looks for it
(`EntryInv`), that calls of `OnIteration` are one behind between `Turn` and the
call (`ListenInv`), and that nobody stops in between (`EndInv`). A failing thread
leaves its phase's fields spoilt, and the claims about them are void because the
other thread's next fence fails.

`Completes` needs the bound from below (`ReachInv`): while nobody has raised an
error each thread has published all that its position says. Two threads that
both wait then contradict each other (`NoCycle`). `DoneInv` says that a thread
ends after the whole batch or an error, and that `assign` refuses the form only
then or if validations may fail.

### The n-weso manager

`ThreadsBounded` is inductive with the type of `segments` (`ThreadInv`):
finishing, collecting and stopping make fewer provers run, and only `Schedule`
adds one. `CandidateIsNotRunning` and `WorstIsOne` carry that case: a turn that
finds every thread taken pauses a prover that really is running before another
starts. `MaxIsProvable` rests on the chain that the loop over the
buckets finds (`Provable`) and on finished segments staying finished. For
`ProofsTile` the invariant `TileInv` follows each thread of `Prove`: what it has
taken so far tiles an interval from 0 that does not pass the requested
iteration, and is sent only after its length was tested. The segments that the
loop over the buckets adds are a run of one bucket (`AddsRun`), and adding a run
to a tiling tiles (`Tiles`).

`BlobsVerify` joins this to the arithmetic of the next section. When a proof is
sent, its segments tile 0 up to the last checkpoint (`TileInv`), and with the
last segment they are a chain of forms, each proved by itself
(`ProofSegmentsChain`), which the verifier accepts (`ChainVerifies`). That the
primes of all these segments are long enough needs their ends to be within the
run: `PassedInv` says that a thread that is past its first wait asked for
nothing beyond what the squarings reached. The manager's placeholders are
excluded, as manager_holes shows that they can be sent.

### Provers and verifier

A form is its exponent, so a proof is a number, and the one Wesolowski defines
is x * (2^T div B). `GenerateProof` never divides 2^T: it takes the digits of the
quotient one by one (`GetBlock`), adds up the stored forms that have the same
digit, weighs these sums by the halves of the digit, and shifts by k for each of
the l blocks.

- `BlockIsDigit`: GetBlock(i, k, T, B) is what 2^(T - k i) div B exceeds 2^k times
  2^(T - k (i + 1)) div B by, and it is below 2^k, so that `ys` has a place
  for it.
- `DigitsAddUp`: the digits that `HasBlock` admits, times their weights, sum to
  2^T div B, by induction over the number of digits (a sum that telescopes).
  What remains at its end is 2^(T mod k) div B, which is 0 only because B is at
  least 2^k: with a shorter B the code would miss the highest digit.
- `HalvesWeighted`: the two double loops over the halves of b give the sum of b
  times ys[b], for odd k too; `CollectedSum` changes the order of summation, so
  that it becomes a sum over the stored forms.
- `BlocksSum`: l turns of the outer loop add up the digits at i * l + j over all
  i and j, and `PlacesAddUp` that this meets each digit once (`SumOfRows`);
  positions past the last digit contribute nothing.

`ParallelProofIsTheProof` splits the same turns in two and shifts the upper ones.

For the verifier, `TheProofVerifies` is the division of 2^T by B with remainder;
`WalkPasses` is the induction over the segments of a blob, from its end, that
carries the form reached and the iterations that remain; `ChainVerifies` puts
the two together for `Assembled`, with or without the checks. `ChainsAreAccepted`
is about any sequence of lengths. `ProveTwoWesoIsAccepted` needs besides that the
part a level proves is at most what the level was given, so that the iterations
that remain never are negative.

These theorems hold for every T, k and l and for any function `BOf` whose values are
long enough. They say that right proofs are accepted. That a wrong claim is
refused (`ClaimsExact`) is a property of the bounded inputs of the run
algorithms: in exponents over the integers a forger could divide, which he
cannot in the class group.

### Rings and storage threads

`BaseInv` keeps halves aligned, `last_checkpoint` within a half of the loop, the
form to be submitted right (`LoopInv`), and the forms in threads and in
`pending_intermediates` right (`PendingInv`, `HandInv`). `OnceInv` says that the
halves below `last_checkpoint` are partitioned into pending, in hand and done,
and no two threads have the same; the property's sum of cardinalities follows
from it. `RingInv` says what a slot holds: without storage threads, every stored
iteration until the loop may be a window ahead of it (`SoloRing`); with them,
every iteration a thread has been at until a form a window ahead is submitted,
unless a thread was left behind (`MultiRing`). That two iterations of a window
have different positions is `GetPosition` modulo a ring, whose length is a power
of `Ratio` (`GeometricGrows`).

### The session

`SafeInv` is the type, what the main thread's position says about threads and
wire (`MainInv`), and that whoever has written a size and not its body holds
`socket_mutex` (`WireInv`). `FlagsInv` says that each thread of a 2-weso session
has its entry of `stop_vector`, cleared before the thread was started, whatever
the array held at first; so no thread gives up before the stop.

`SessionImplementsService` is the step simulation: the initial states map to
initial states of VdfService, and each action maps to one of its actions or
leaves what the peer sees unchanged. Writing a body is the answer, the start of
a thread the request, and a thread that ends without writing gives it up. STOP
maps to the service's `SayStop` because the main thread has joined all threads by
then. The case of an overrun `stop_vector` stays excluded, as in the property.

### The hardware client's proofs

`ProofInv` is about the vector of proofs and its queue (`QueueInv`), the threads
and `done_proofs`. An entry of the vector is wiped out or live. A live one
continues a live checkpoint in front of it, and if it was started so was that
(`Linked`). Only with the exact count is the wiping safe: the `ref_cnt` of a
waiting proof is the number of requests that need it (`Counted`), plus one
while a request is being queued behind it; the operators take that `tail` as a
parameter, because `hw_proof_inc_ref` counts a request before it is there. The
count of a started proof is not exact, since `hw_proof_dec_ref` stops at it, and
nothing is said of it. The queue has exactly the waiting proofs, none before one
that it continues (`InOrder`), so that the first of the queue can be started.

Each operator on the queue has a lemma that it keeps `QueueInv` and that what was
started stays where it is (`Continues`): `QueueProofKeeps`, `IncRefKeeps`,
`DecRefKeeps`, `DisplacedKeeps`, `QueueSegmentsKeeps`, `ProcessReqKeeps`,
`QueueRequestsKeeps`, `StartKeeps`. `DecRefKeeps` is the heart: what is wiped out
is what only dropped requests needed (`GoneIs`), so whatever is left keeps its
chain. `ThreadInv` and `DoneInv` then say that threads and `done_proofs`,
also as an unfinished erase or push_back has found it, have started and finished
requests. Overwriting one update with the other may lose a finished request, but
adds none, which is why `SentProofsWhole` survives the race. `SegmentsAddUp`
gives the sum of the segments along a chain.

### Hardware client and driver

`DriverInv` is how handles, mode, reset and voltage go together as `init_hw`
goes on, and that a board in use is only left in reset at the first entry of the
frequency table. For the engines, `ClientInv` ties a connection's state to its proof
state and its last write (`ConnInv`), says that the writes still to be done to a
stopping engine switch it off (`TodoInv`), and counts: an engine without a proof
state is off, or else failed writes and writes to come are at least two
(`EngineInv`). Stopping an engine writes to it twice (`DisableEngine`),
so one failing write is covered. `OnlyStopAfterStop` follows from `ConnInv`: once
STOP was sent the connection is stopped or closed and has no other last write,
so that all it may get is the second STOP of an end of file.

### Induction

The prover cannot instantiate the library's induction theorems, which take an
operator. `DataLemmas` restates them about sets: a set of naturals has a least
element, a set with 0 and closed under successor has all of Nat, also one that
has each natural whose predecessors it has, and a recursive function given by
a step function exists (`RecursiveFunction`). With these the recursive
functions of ProverManager, FastStorage, Session, HwProof and Wesolowski are
shown to be what they are meant to be. Powers of two are known to the prover
only as the number of subsets (`FS_SUBSET`), from which `PowerOfTwo` gets the
doubling and `PowerOfSum` the rest. Sums are `SumOf`; lemmas say how they grow
(`SumOfMore`), split (`SumSplit`), scale (`SumScaled`) and that the sums of a
table by rows and by columns agree (`SumSwapped`).

### Only model-checked

- Liveness: `TwoWesoStops`, `RequestAnswered`, `Returns`, `RequestsServed`,
  `RequestsAnswered`, `StopExits`, `LostJobRestarted`, `RequestsComputed`,
  `StopEnds`; and `StorageStops`, which uses ENABLED.
- The algorithm modules other than Wesolowski declare recursive operators, which
  the prover cannot use; they are checked over bounded inputs. `ProofsVerify`
  and `ClaimsExact` are action properties of the module Algorithms, which extends
  all of them; the facts behind `ProofsVerify` are the theorems of DataLemmas,
  the refusals in `ClaimsExact` are only checked.

## 6. Plan

Every safety invariant and action property of the state machines that a run
checks is a theorem, but for `StorageStops`, and so is what the provers compute
and the verifier accepts. What is left is TLC's: liveness, ENABLED, and the other
algorithms. The next to rewrite with recursive functions would be the form
codec and the reductions of forms.

## 7. Not modelled

- The PLL table (hw/pll_freqs.cpp, a quarter of all lines) is generated data;
  HwDriver only needs its length.
- The code generator (asm_types.h, asm_base.h, asm_main.h, asm_vm.h) allocates
  registers and prints assembly. What the printed program computes is modelled.
- The AVX-512 integers (asm_avx512_ifma.h, avx512_integer.h) are straight-line
  lane arithmetic with a carry at the end; they are a build option and have no
  control of their own.
- The vendor's USB library, GMP and SHA-256 are external. Splitting of USB
  transfers, register layouts and decimal digits of messages are left out.
- Floating-point choices of k and l, temperatures, statistics and logging do not
  affect the properties.
- `repeated_square_fast_single_thread` runs the phases of SquarePipeline without
  concurrency.
- The bindings convert arguments; tests and benchmarks exercise the rest.
