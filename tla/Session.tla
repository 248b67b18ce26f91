------------------------------ MODULE Session ------------------------------
(***************************************************************************)
(* vdf_client: one connection, one session, in one of three modes.  The    *)
(* main thread reads the order and then iterations, a squaring thread      *)
(* publishes how far it is, and one thread per accepted iteration proves   *)
(* and writes the proof.  The peer may close the connection at any time;   *)
(* writing to it then may or may not throw.                                *)
(* What ProverManager::Prove does is ProverManager's subject and what      *)
(* ProveTwoWeso reads is TwoWesoStore's; here they wait, prove and return. *)
(***************************************************************************)
EXTENDS Integers, Sequences, FiniteSets, FiniteSetsExt, SequencesExt

CONSTANTS
  Iters,                \* iteration numbers the peer sends
  MaxIteration,         \* where the 2-weso loop stops; bounds the others too
  kMaxProcessesAllowed, \* 100, also the length of stop_vector
  Margin,               \* the 500000 of "Too big iter"
  Width,                \* 2^64
  MaxReads              \* bound: iterations read in a session

ASSUME SessionAssumption ==
  /\ Iters \subseteq 1 .. Width - 1 /\ MaxIteration \in Nat
  /\ kMaxProcessesAllowed \in Nat \ {0} /\ Margin \in Nat /\ Width \in Nat \ {0}
  /\ MaxReads \in Nat

VARIABLES
  mode,            \* prover_type_buf[0]: "S", "N", "T", or "none" before
  pc,              \* the main thread
  stopped,
  worker,          \* vdf_worker: "none", "running" or "ended"
  iterations,      \* weso->iterations
  threads,         \* the proving threads: [iters, pc]
  stop_vector,     \* stop_vector[t]: the flag of thread t
  seen_iterations, \* pairs of an iteration and a thread
  socket_mutex,    \* who holds it: Free, Main or a thread
  wire,            \* what has been written: [what, by]
  peer,            \* "open" or "closed"
  reads            \* iterations read

threadVars == <<worker, iterations, threads, stop_vector, seen_iterations>>
socketVars == <<socket_mutex, wire, peer>>
vars == <<mode, pc, stopped, threadVars, socketVars, reads>>

Free == -1
Main == 0
Started == DOMAIN threads

\* Returned from main with 0 or 1, ended by std::terminate, or past the end of
\* stop_vector, from where on anything may happen.
Ended == {"exit", "failed", "terminated", "undefined"}
Alive == pc \notin Ended

WriteBy(what, by) == wire' = Append(wire, [what |-> what, by |-> by])

Launch(iters) == threads' = Append(threads, [iters |-> iters, pc |-> "wait"])

----------------------------------------------------------------------------
(***************************************************************************)
(* main, InitSession, and the way to the first iteration                   *)
(***************************************************************************)

\* The error of this read is not looked at: without a byte the type is
\* whatever the buffer held.
ReadProverType ==
  /\ pc = "type"
  /\ \/ mode' \in {"S", "N", "T"} /\ pc' = "init"
     \/ pc' = "exit" /\ UNCHANGED mode
  /\ UNCHANGED <<stopped, threadVars, socketVars, reads>>

\* Its exceptions (end of file, invalid sizes) are caught by main only.
InitSession ==
  /\ pc = "init"
  /\ \/ peer = "open" /\ pc' = "form"
     \/ pc' = "failed"
  /\ UNCHANGED <<mode, stopped, threadVars, socketVars, reads>>

\* DeserializeForm accepts the initial form or throws.  The n-weso session
\* then starts the squaring thread and the manager before it says OK.
DeserializeForm ==
  /\ pc = "form"
  /\ \/ pc' = "finish" /\ UNCHANGED worker
     \/ /\ pc' = "ok"
        /\ worker' = IF mode = "N" THEN "running" ELSE "none"
  /\ UNCHANGED <<mode, stopped, iterations, threads, stop_vector,
                 seen_iterations, socketVars, reads>>

\* An exception thrown while threads are joinable ends in std::terminate.
Unwind == pc' = IF worker = "none" THEN "finish" ELSE "terminated"

\* The 2-weso session starts the squaring thread after OK.
WriteOK ==
  /\ pc = "ok"
  /\ \/ /\ WriteBy("OK", Main)
        /\ pc' = IF mode = "S" THEN "first" ELSE "read"
        /\ worker' = IF mode = "S" THEN "none" ELSE "running"
     \/ peer = "closed" /\ Unwind /\ UNCHANGED <<wire, worker>>
  /\ UNCHANGED <<mode, stopped, iterations, threads, stop_vector,
                 seen_iterations, socket_mutex, peer, reads>>

----------------------------------------------------------------------------
(***************************************************************************)
(* The sessions' loops over ReadIteration                                  *)
(***************************************************************************)

\* What ReadIteration may bring while the connection is open.
Incoming(i) == i \in Iters /\ peer = "open" /\ reads < MaxReads

\* The first iteration of SessionOneWeso starts both threads.
FirstIteration(i) ==
  /\ pc = "first" /\ Incoming(i)
  /\ reads' = reads + 1 /\ pc' = "read" /\ worker' = "running" /\ Launch(i)
  /\ UNCHANGED <<mode, stopped, iterations, stop_vector, seen_iterations,
                 socketVars>>

\* The stop comes at once; or the iteration cannot be read, or the callback
\* cannot have its memory.  Nothing runs yet.
FirstStop ==
  /\ pc = "first" /\ pc' = "finish"
  /\ UNCHANGED <<mode, stopped, threadVars, socketVars, reads>>

\* `Warning: did not receive stop signal'
IgnoreOneWeso(i) ==
  /\ pc = "read" /\ mode = "S" /\ Incoming(i)
  /\ reads' = reads + 1
  /\ UNCHANGED <<mode, pc, stopped, threadVars, socketVars>>

IterationFast(i) ==
  /\ pc = "read" /\ mode = "N" /\ Incoming(i)
  /\ reads' = reads + 1 /\ Launch(i)
  /\ UNCHANGED <<mode, pc, stopped, worker, iterations, stop_vector,
                 seen_iterations, socketVars>>

Unique(i) == \A seen \in seen_iterations : seen[1] # i

\* An int that is negative, converted to uint64_t by the comparison.
TooBig(i) == i >= (kMaxProcessesAllowed - Margin) % Width

\* min_iter starts at 1ULL << 62.
MinIter == Min({Width \div 4} \union {seen[1] : seen \in seen_iterations})

\* threads only grows: proofs that are done take up room as well.
Room(i) == Len(threads) < kMaxProcessesAllowed \/ i < MinIter

\* Mutant: the flag of the new thread is not cleared.
FlagsKept(t) == stop_vector

Flags(t) == [stop_vector EXCEPT ![t] = FALSE]

\* Duplicates, iterations that are too big, and iterations for which there is
\* no room are ignored.  A smaller one than all before is taken past the limit
\* too: its flag is the element after the last of stop_vector, written before
\* the largest iteration is told to stop to make room for it.
IterationTwoWeso(i) ==
  /\ pc = "read" /\ mode = "T" /\ Incoming(i) /\ reads' = reads + 1
  /\ LET t == Len(threads) + 1
         accepted == Unique(i) /\ ~TooBig(i) /\ Room(i)
     IN  \/ /\ ~accepted
            /\ UNCHANGED <<pc, threads, stop_vector, seen_iterations>>
         \/ /\ accepted /\ t <= kMaxProcessesAllowed
            /\ Launch(i) /\ stop_vector' = Flags(t)
            /\ seen_iterations' = seen_iterations \union {<<i, t>>}
            /\ UNCHANGED pc
         \/ /\ accepted /\ t > kMaxProcessesAllowed
            /\ pc' = "undefined"
            /\ UNCHANGED <<threads, stop_vector, seen_iterations>>
  /\ UNCHANGED <<mode, stopped, worker, iterations, socketVars>>

\* Mutant: the last thread is not told.
StopSignalAllButLast ==
  /\ pc = "read" /\ peer = "open"
  /\ stopped' = TRUE /\ pc' = "join"
  /\ stop_vector' = [t \in DOMAIN stop_vector |->
                       stop_vector[t] \/ t \in Started \ {Len(threads)}]
  /\ UNCHANGED <<mode, worker, iterations, threads, seen_iterations,
                 socketVars, reads>>

\* Iteration 0, `Got stop signal!'.  pm.stop() is part of it in n-weso mode.
StopSignal ==
  /\ pc = "read" /\ peer = "open"
  /\ stopped' = TRUE /\ pc' = "join"
  /\ stop_vector' = [t \in DOMAIN stop_vector |->
                       stop_vector[t] \/ t \in Started]
  /\ UNCHANGED <<mode, worker, iterations, threads, seen_iterations,
                 socketVars, reads>>

\* ReadIteration throws: the connection is closed, or what came is no number.
ReadFails ==
  /\ pc = "read" /\ Unwind
  /\ UNCHANGED <<mode, stopped, threadVars, socketVars, reads>>

\* Mutant: only the squaring thread is joined.
JoinWorkerOnly ==
  /\ pc = "join" /\ worker = "ended" /\ pc' = "finish"
  /\ UNCHANGED <<mode, stopped, threadVars, socketVars, reads>>

Join ==
  /\ pc = "join" /\ worker = "ended"
  /\ \A t \in Started : threads[t].pc = "done"
  /\ pc' = "finish"
  /\ UNCHANGED <<mode, stopped, threadVars, socketVars, reads>>

\* FinishSession.  A write that throws ends it as well.
FinishSession ==
  /\ pc = "finish" /\ socket_mutex = Free
  /\ \/ WriteBy("STOP", Main) /\ socket_mutex' = Main /\ pc' = "ack"
     \/ peer = "closed" /\ pc' = "exit" /\ UNCHANGED <<wire, socket_mutex>>
  /\ UNCHANGED <<mode, stopped, threadVars, peer, reads>>

\* The peer acknowledges, or sends something else, or closes: all the same.
ReadAck ==
  /\ pc = "ack" /\ socket_mutex' = Free /\ pc' = "exit"
  /\ UNCHANGED <<mode, stopped, threadVars, wire, peer, reads>>

----------------------------------------------------------------------------
(***************************************************************************)
(* The squaring thread, reduced to what it publishes                       *)
(***************************************************************************)

Square ==
  /\ Alive /\ worker = "running" /\ ~stopped /\ iterations < MaxIteration
  /\ iterations' = iterations + 1
  /\ UNCHANGED <<mode, pc, stopped, worker, threads, stop_vector,
                 seen_iterations, socketVars, reads>>

\* The stop, `Maximum possible number of iterations reached!', or a 1-weso
\* loop past the iteration it was started for.
WorkerEnds ==
  /\ Alive /\ worker = "running" /\ worker' = "ended"
  /\ \/ stopped
     \/ mode = "T" /\ iterations = MaxIteration
     \/ mode = "S" /\ iterations > threads[1].iters
  /\ UNCHANGED <<mode, pc, stopped, iterations, threads, stop_vector,
                 seen_iterations, socketVars, reads>>

----------------------------------------------------------------------------
(***************************************************************************)
(* CreateAndWriteProof and its variants                                    *)
(***************************************************************************)

\* The stop signal that thread t was given.
Told(t) == IF mode = "T" THEN stop_vector[t] ELSE stopped

Goto(t, to) == threads' = [threads EXCEPT ![t].pc = to]

OutsideThreads == <<mode, pc, stopped, worker, iterations, stop_vector,
                    seen_iterations, reads>>

\* The wait for the iteration, in ProveOneWesolowski and ProveTwoWeso: left
\* with nothing on a stop.
Wait(t) ==
  /\ threads[t].pc = "wait" /\ mode # "N"
  /\ \/ Told(t) /\ Goto(t, "check")
     \/ ~Told(t) /\ iterations >= threads[t].iters /\ Goto(t, "prove")
  /\ UNCHANGED <<OutsideThreads, socketVars>>

\* ProverManager::Prove returns with a proof.
ProveFast(t) ==
  /\ threads[t].pc = "wait" /\ mode = "N" /\ iterations >= threads[t].iters
  /\ Goto(t, "check")
  /\ UNCHANGED <<OutsideThreads, socketVars>>

\* ProverManager::Prove returns on a stop, unless it missed the notification:
\* see ProverManager!StopCompletes.
ProveFastStopped(t) ==
  /\ threads[t].pc = "wait" /\ mode = "N" /\ stopped
  /\ Goto(t, "check")
  /\ UNCHANGED <<OutsideThreads, socketVars>>

\* GenerateProof to its end, which sets is_finished.
ProveWhole(t) ==
  /\ threads[t].pc = "prove" /\ Goto(t, "check")
  /\ UNCHANGED <<OutsideThreads, socketVars>>

\* PerformExtraStep sees the stop and GenerateProof returns unfinished.  The
\* 2-weso caller looks at the stop signal; the 1-weso caller only at
\* IsFinished, for ever.
ProveInterrupted(t) ==
  /\ threads[t].pc = "prove" /\ Told(t)
  /\ Goto(t, IF mode = "S" THEN "poll" ELSE "check")
  /\ UNCHANGED <<OutsideThreads, socketVars>>

\* `Got stop signal before completing the proof!'
Check(t) ==
  /\ threads[t].pc = "check"
  /\ Goto(t, IF Told(t) THEN "done" ELSE "lock")
  /\ UNCHANGED <<OutsideThreads, socketVars>>

\* Mutant: WriteProof without the lock_guard.
LockNot(t) ==
  /\ threads[t].pc = "lock" /\ Goto(t, "size")
  /\ UNCHANGED <<OutsideThreads, socketVars>>

Lock(t) ==
  /\ threads[t].pc = "lock" /\ socket_mutex = Free
  /\ socket_mutex' = t /\ Goto(t, "size")
  /\ UNCHANGED <<OutsideThreads, wire, peer>>

WriteSize(t) ==
  /\ threads[t].pc = "size"
  /\ WriteBy("size", t) /\ Goto(t, "body")
  /\ UNCHANGED <<OutsideThreads, socket_mutex, peer>>

WriteBody(t) ==
  /\ threads[t].pc = "body"
  /\ WriteBy("body", t) /\ Goto(t, "done") /\ socket_mutex' = Free
  /\ UNCHANGED <<OutsideThreads, peer>>

\* A write throws in a thread that catches nothing.
WriteThrows(t) ==
  /\ threads[t].pc \in {"size", "body"} /\ peer = "closed"
  /\ pc' = "terminated"
  /\ UNCHANGED <<mode, stopped, threadVars, socketVars, reads>>

ThreadStep(t) ==
  /\ Alive
  /\ \/ Wait(t) \/ ProveFast(t) \/ ProveWhole(t) \/ ProveInterrupted(t)
     \/ Check(t) \/ Lock(t) \/ WriteSize(t) \/ WriteBody(t) \/ WriteThrows(t)

----------------------------------------------------------------------------
\* The peer (a timelord, not part of this repository): it closes the connection when it likes.
PeerClose ==
  /\ Alive /\ peer = "open" /\ peer' = "closed"
  /\ UNCHANGED <<mode, pc, stopped, threadVars, socket_mutex, wire, reads>>

Init ==
  /\ mode = "none" /\ pc = "type" /\ stopped = FALSE
  /\ worker = "none" /\ iterations = 0 /\ threads = << >>
  /\ stop_vector \in [1 .. kMaxProcessesAllowed -> BOOLEAN]  \* not initialised
  /\ seen_iterations = {} /\ socket_mutex = Free /\ wire = << >>
  /\ peer = "open" /\ reads = 0

MainStep ==
  \/ ReadProverType \/ InitSession \/ DeserializeForm \/ WriteOK
  \/ Join \/ FinishSession \/ ReadAck

ReadStep ==
  \/ FirstStop \/ StopSignal \/ ReadFails
  \/ \E i \in Iters : \/ FirstIteration(i) \/ IgnoreOneWeso(i)
                      \/ IterationFast(i) \/ IterationTwoWeso(i)

Next ==
  \/ MainStep \/ ReadStep \/ Square \/ WorkerEnds \/ PeerClose
  \/ \E t \in Started : ThreadStep(t) \/ (Alive /\ ProveFastStopped(t))

Spec == Init /\ [][Next]_vars

\* Every thread of the process runs, and the peer answers STOP or goes away;
\* nothing makes it send iterations.  ProveFastStopped may never come.
Fairness ==
  /\ WF_vars(MainStep) /\ WF_vars(Square) /\ WF_vars(WorkerEnds)
  /\ \A t \in 1 .. MaxReads : WF_vars(t \in Started /\ ThreadStep(t))

FairSpec == Spec /\ Fairness

----------------------------------------------------------------------------
(***************************************************************************)
(* Properties                                                              *)
(***************************************************************************)

\* The two writes of a proof arrive as one message: between a size and its
\* body there is nothing of another thread and no STOP, and nothing but a
\* crash leaves a size without its body.
FramesWhole ==
  \A n \in DOMAIN wire : wire[n].what = "size" =>
    IF n < Len(wire) THEN wire[n + 1] = [what |-> "body", by |-> wire[n].by]
    ELSE pc = "terminated" \/ threads[wire[n].by].pc = "body"

\* The session as its peer sees it.
Open(i) ==
  Cardinality({t \in Started : threads[t].iters = i /\ threads[t].pc # "done"})

\* A process that has ended owes nothing.
Unanswered == [i \in Iters |-> IF Alive THEN Open(i) ELSE 0]

Phase ==
  CASE pc = "undefined" -> "undefined"
    [] pc \in {"ack", "exit", "failed", "terminated"} -> "over"
    [] pc \in {"type", "init", "form", "ok"} -> "opening"
    [] pc = "finish" /\ wire = << >> -> "opening"
    [] pc \in {"join", "finish"} /\ wire # << >> -> "stopping"
    [] OTHER -> "serving"

Message(token) ==
  IF token.what = "body" THEN [what |-> "proof", iters |-> threads[token.by].iters]
  ELSE [what |-> token.what, iters |-> 0]

\* A size says nothing by itself.
Said == FlattenSeq([n \in DOMAIN wire |->
  IF wire[n].what = "size" THEN << >> ELSE <<Message(wire[n])>>])

Service == INSTANCE VdfService WITH
  Capacity <- kMaxProcessesAllowed,
  phase <- Phase, taken <- Len(threads), said <- Said,
  open <- Unanswered

\* Every session implements VdfService: nothing is said before OK, a request
\* is answered at most once and given up only on a stop, and STOP comes last,
\* when no thread is left that could write.
ImplementsService == Service!Spec

\* A 1-weso or 2-weso request within reach of the loop is answered unless the
\* peer stops the session or the connection fails.
RequestAnswered ==
  \A t \in 1 .. kMaxProcessesAllowed :
    t \in Started /\ mode \in {"S", "T"} /\ threads[t].iters <= MaxIteration
      ~> \/ \E n \in DOMAIN wire : wire[n] = [what |-> "body", by |-> t]
         \/ pc # "read"

\* The stop signal ends a 2-weso session: all threads are joined and the
\* process exits, also when they are proving or about to write.
TwoWesoStops == mode = "T" /\ pc = "join" ~> ~Alive

\* `Tell client I've stopped everything, wait for ACK and close': the stop
\* signal ends a 1-weso session.
OneWesoStops == mode = "S" /\ pc = "join" ~> ~Alive

=============================================================================
