----------------------------- MODULE HwClient ------------------------------
(***************************************************************************)
(* The hardware client: its event loop serves one connection to the        *)
(* timelord per VDF engine, starts and stops the engines and hands their   *)
(* values to the proof engine (HwProof).  The engines are the emulator's,  *)
(* whose job threads run beside the loop.                                  *)
(*                                                                         *)
(* The loop is one thread: what it reads from a socket or a register is a  *)
(* choice in its step.  Where it uses what was never set, the model ends   *)
(* in "undefined".                                                         *)
(***************************************************************************)
EXTENDS HwDriver, FiniteSets

CONSTANTS
  N_HW_VDFS,
  vdfs_mask,        \* the engines in use, a subset of 1 .. N_HW_VDFS
  auto_freq,
  g_skip_thres,     \* values without progress before a restart
  MaxSessions,      \* bound: connections of an engine
  MaxThreads        \* bound: job threads of an engine at a time

ASSUME HwClientAssumption ==
  /\ N_HW_VDFS \in Nat \ {0} /\ vdfs_mask \subseteq 1 .. N_HW_VDFS
  /\ auto_freq \in BOOLEAN /\ g_skip_thres \in Nat /\ MaxSessions \in Nat
  /\ MaxThreads \in Nat \ {0}

VARIABLES
  pc, i,            \* where the loop is, and for which engine
  g_stopping,
  state,            \* conn_state
  init_done,        \* "garbage" until something writes it
  wrote,            \* "data" or "STOP", what was written last to it
  stops,            \* how often STOP was written to it
  sessions,         \* connections made
  running_mask,
  value,            \* what the status said
  n_skipped,
  todo,             \* engine writes that are left, and where they lead
  eng               \* job_state of the emulator

clientVars == <<g_stopping, state, init_done, wrote, stops, sessions,
                running_mask, value, n_skipped>>
vars == <<driverVars, pc, i, clientVars, todo, eng>>

Vdfs == 1 .. N_HW_VDFS
Ended == pc \in {"exit", "died", "undefined"}
At(label) == phase = "ready" /\ pc = label

----------------------------------------------------------------------------
(***************************************************************************)
(* The emulator.  A status says "same" (or nothing at all), "new", "last"  *)
(* (the new value ends the job) or "bad" (an error is injected).           *)
(***************************************************************************)

NoJob == [init_done |-> FALSE, stopping |-> TRUE, running |-> FALSE,
          new |-> 0, in_loop |-> 0, fresh |-> FALSE]

disable_engine(e) == IF e.init_done THEN [e EXCEPT !.stopping = TRUE] ELSE e
enable_engine(e) == [e EXCEPT !.stopping = FALSE]

\* start_job when no old thread is running.
start_job(e) ==
  [e EXCEPT !.init_done = TRUE, !.stopping = FALSE, !.new = @ + 1,
            !.fresh = FALSE]

\* run_job's thread comes to its loop.
ThreadStarts(j) ==
  /\ eng[j].new > 0
  /\ eng' = [eng EXCEPT ![j].new = @ - 1, ![j].in_loop = @ + 1,
                        ![j].running = TRUE]
  /\ UNCHANGED <<driverVars, pc, i, clientVars, todo>>

\* A squaring, or the end of the loop after a stop; one thread clears the flag
\* for all.  (A loop that has reached its last iteration is stopped by Completed.)
ThreadRuns(j) ==
  /\ eng[j].in_loop > 0
  /\ eng' = IF eng[j].stopping
       THEN [eng EXCEPT ![j].in_loop = @ - 1, ![j].running = FALSE]
       ELSE [eng EXCEPT ![j].fresh = TRUE]
  /\ UNCHANGED <<driverVars, pc, i, clientVars, todo>>

\* update_status and inject_error
Statuses(e) ==
  IF e.init_done /\ ~e.stopping /\ e.fresh THEN {"new", "last", "bad"}
  ELSE {"same"}

----------------------------------------------------------------------------
(***************************************************************************)
(* Engine control.  A register write that fails changes nothing, and the   *)
(* callers do not look at it.                                              *)
(***************************************************************************)

\* The writes that start_hw_vdf, stop_hw_vdf and adjust_hw_freq make.
EnableEngine(j) == <<[op |-> "off", j |-> j], [op |-> "on", j |-> j]>>
DisableEngine(j) == <<[op |-> "off", j |-> j], [op |-> "off", j |-> j]>>
start_hw_vdf(j) == EnableEngine(j) \o <<[op |-> "job", j |-> j]>>
stop_hw_vdf(j) == DisableEngine(j)

InOrder(js) == [n \in 1 .. Cardinality(js) |->
  CHOOSE j \in js : Cardinality({k \in js : k < j}) = n - 1]

hw_vdf_control(js, op) == [n \in 1 .. Cardinality(js) |->
  [op |-> op, j |-> InOrder(js)[n]]]

adjust_hw_freq(js, op) ==
  hw_vdf_control(js, "off") \o <<[op |-> op, j |-> 0]>> \o hw_vdf_control(js, "on")

Do(writes, next) == [left |-> writes, next |-> next]
NothingToDo == Do(<< >>, "conn")

\* One write less; after the last one the loop goes on.
Done ==
  IF Len(todo.left) = 1 THEN pc' = todo.next /\ todo' = NothingToDo
  ELSE pc' = pc /\ todo' = [todo EXCEPT !.left = Tail(@)]

\* The next write; a new job waits until the old thread has left its loop.
EngineWrite(ok) ==
  /\ pc = "engine"
  /\ LET w == todo.left[1] IN
     /\ w.op \in {"off", "on", "job"} /\ Count(ok)
     /\ w.op = "job" => eng[w.j].new + eng[w.j].in_loop < MaxThreads
                        \/ eng[w.j].running
     /\ IF w.op = "job" /\ eng[w.j].running
          THEN /\ ok /\ ~eng[w.j].stopping
               /\ eng' = [eng EXCEPT ![w.j].stopping = TRUE]
               /\ UNCHANGED <<pc, todo>>
          ELSE /\ Done
               /\ eng' = IF ~ok THEN eng ELSE [eng EXCEPT ![w.j] =
                    CASE w.op = "off" -> disable_engine(@)
                      [] w.op = "on" -> enable_engine(@)
                      [] w.op = "job" -> start_job(@)]
  /\ SpiTransfer(ok)
  /\ UNCHANGED <<phase, spi_ft_handle, gpio_ft_handle, boardVars, i, clientVars>>

\* SetPLLFrequency(0.0, freq_idx + direction).  Entry 0 is taken for the first
\* setting: the board is reset again, which the emulator's engines do not see,
\* and the search ends at once, as no entry is below 0.0.  There is nothing
\* below entry 0 and nothing above the last.
AdjustFreq(ok) ==
  /\ pc = "engine" /\ todo.left[1].op \in {"up", "down"}
  /\ LET idx == freq_idx + (IF todo.left[1].op = "up" THEN 1 ELSE -1) IN
     \/ /\ idx \in 0 .. VALID_PLL_FREQS - 1
        /\ Count(ok) /\ Done
        /\ \E reset_ok, pll_ok, locked \in BOOLEAN :
             /\ ok <=> reset_ok /\ pll_ok
             /\ IF idx = 0 THEN ResetLine(reset_ok)
                ELSE reset_ok /\ UNCHANGED reset_line
             /\ ProgramPLL(idx, pll_ok, locked)
     \/ /\ idx \notin 0 .. VALID_PLL_FREQS - 1
        /\ ok /\ pc' = "undefined"
        /\ UNCHANGED <<todo, faults, reset_line, freq_idx, active_mode, bridge>>
  /\ UNCHANGED <<phase, spi_ft_handle, gpio_ft_handle, voltage_set, i,
                 clientVars, eng>>

----------------------------------------------------------------------------
(***************************************************************************)
(* The event loop                                                          *)
(***************************************************************************)

\* On to the next connection.
NextConn ==
  IF i < N_HW_VDFS THEN pc' = "conn" /\ i' = i + 1 ELSE pc' = "status" /\ i' = 1

\* write_data throws on an error, and nobody catches it.
Throw ==
  /\ pc' = "died"
  /\ UNCHANGED <<driverVars, i, clientVars, todo, eng>>

\* Mutant: the proofs are stopped, the engine is not.
StopConnKeepsEngine(next) ==
  /\ wrote' = [wrote EXCEPT ![i] = "STOP"]
  /\ state' = [state EXCEPT ![i] = "STOPPED"]
  /\ init_done' = [init_done EXCEPT ![i] = "no"]
  /\ pc' = next
  /\ stops' = [stops EXCEPT ![i] = @ + 1]
  /\ UNCHANGED <<driverVars, i, g_stopping, sessions, running_mask, value,
                 n_skipped, todo, eng>>

\* stop_conn: the timelord is told, proofs and engine are stopped.  Before the
\* first challenge init_done may be anything.
stop_conn(next) ==
  /\ wrote' = [wrote EXCEPT ![i] = "STOP"]
  /\ state' = [state EXCEPT ![i] = "STOPPED"]
  /\ init_done' = [init_done EXCEPT ![i] = IF @ = "yes" THEN "no" ELSE @]
  /\ \/ /\ init_done[i] = "yes"
        /\ todo' = Do(stop_hw_vdf(i), next) /\ pc' = "engine"
     \/ /\ init_done[i] # "yes"
        /\ pc' = next /\ UNCHANGED todo
     \/ /\ init_done[i] = "garbage"
        /\ pc' = "undefined" /\ UNCHANGED todo
  /\ stops' = [stops EXCEPT ![i] = @ + 1]
  /\ UNCHANGED <<driverVars, i, g_stopping, sessions, running_mask, value,
                 n_skipped, eng>>

close_conn ==
  /\ state' = [state EXCEPT ![i] = "CLOSED"]
  /\ NextConn
  /\ UNCHANGED <<driverVars, g_stopping, init_done, wrote, stops, sessions,
                 running_mask, value, n_skipped, todo, eng>>

SkipConn ==
  /\ At("conn") /\ i \notin vdfs_mask
  /\ NextConn
  /\ UNCHANGED <<driverVars, clientVars, todo, eng>>

\* A closed connection: init_conn, unless the client stops.
Connect ==
  /\ At("conn") /\ i \in vdfs_mask /\ state[i] = "CLOSED"
  /\ \/ /\ ~g_stopping /\ sessions[i] < MaxSessions
        /\ sessions' = [sessions EXCEPT ![i] = @ + 1]
        /\ state' = [state EXCEPT ![i] = "WAITING"]
        /\ wrote' = [wrote EXCEPT ![i] = "none"]
        /\ stops' = [stops EXCEPT ![i] = 0]
     \/ UNCHANGED <<sessions, state, wrote, stops>>
  /\ NextConn
  /\ UNCHANGED <<driverVars, g_stopping, init_done, running_mask, value,
                 n_skipped, todo, eng>>

\* A connection in one of the states that are read from.
Serves(states) == At("conn") /\ i \in vdfs_mask /\ state[i] \in states

\* Mutant: connections that idle are not stopped.
GlobalStopBusyOnly ==
  /\ Serves({"WAITING", "RUNNING"}) /\ g_stopping
  /\ stop_conn("stopped") \/ Throw

\* Global stop requested
GlobalStop ==
  /\ Serves({"WAITING", "RUNNING", "IDLING"}) /\ g_stopping
  /\ stop_conn("stopped") \/ Throw

\* read_data gives nothing, or not yet the whole challenge.
NoData ==
  /\ Serves({"WAITING", "RUNNING", "IDLING"}) /\ ~g_stopping
  /\ NextConn
  /\ UNCHANGED <<driverVars, clientVars, todo, eng>>

\* read_data sees the end of the stream or an error.
EndOfStream ==
  /\ Serves({"WAITING", "RUNNING", "IDLING"}) /\ ~g_stopping
  /\ stop_conn("close") \/ Throw

\* Data of the wrong form, a message cut by the stream among them, throws.
BadData ==
  /\ Serves({"WAITING", "RUNNING", "IDLING"}) /\ ~g_stopping
  /\ Throw

\* A challenge: init_vdf_state and start_hw_vdf.
Challenge ==
  /\ Serves({"WAITING"}) /\ ~g_stopping
  /\ init_done' = [init_done EXCEPT ![i] = "yes"]
  /\ n_skipped' = [n_skipped EXCEPT ![i] = 0]
  /\ todo' = Do(start_hw_vdf(i), "ok") /\ pc' = "engine"
  /\ UNCHANGED <<driverVars, i, g_stopping, state, wrote, stops, sessions,
                 running_mask, value, eng>>

WriteOK ==
  /\ At("ok")
  /\ \/ Throw
     \/ /\ wrote' = [wrote EXCEPT ![i] = "data"]
        /\ state' = [state EXCEPT ![i] = "RUNNING"]
        /\ NextConn
        /\ UNCHANGED <<driverVars, g_stopping, init_done, stops, sessions,
                       running_mask, value, n_skipped, todo, eng>>

\* Mutant: proofs that are finished are sent after the stop too.
HandleProofsStopped ==
  /\ At("stopped") \/ Serves({"RUNNING", "IDLING"})
  /\ wrote' = [wrote EXCEPT ![i] = "data"]
  /\ UNCHANGED <<driverVars, pc, i, g_stopping, state, init_done, stops, sessions,
                 running_mask, value, n_skipped, todo, eng>>

\* handle_proofs sends a finished proof (HwProof!Retrieve).
handle_proofs ==
  /\ Serves({"RUNNING", "IDLING"}) /\ ~g_stopping
  /\ \/ Throw
     \/ /\ wrote' = [wrote EXCEPT ![i] = "data"]
        /\ UNCHANGED <<driverVars, pc, i, g_stopping, state, init_done,
                       stops, sessions, running_mask, value, n_skipped, todo, eng>>

\* handle_iters finds the stop among the requests (HwProof!Request).
StopRequested ==
  /\ Serves({"RUNNING", "IDLING"}) /\ ~g_stopping
  /\ stop_conn("stopped")

\* The connection was stopped: whatever is read, ACK or not or nothing yet, it is
\* closed; at the end of the stream read_data runs stop_conn once more before.
ReadAck ==
  /\ At("stopped")
  /\ close_conn \/ stop_conn("close") \/ Throw

CloseEnded == At("close") /\ close_conn

\* read_hw_status of the running engines; what a failed read leaves in the
\* buffer is old or wrong.
read_hw_status(ok) ==
  /\ At("status") /\ Count(ok)
  /\ running_mask' = {j \in vdfs_mask : state[j] = "RUNNING"}
  /\ running_mask' # {}
  /\ \E v \in [Vdfs -> {"none", "same", "new", "last", "bad"}] :
       /\ \A j \in Vdfs :
            v[j] \in IF j \notin running_mask' THEN {"none"}
                     ELSE IF ok THEN Statuses(eng[j]) ELSE {"same", "bad"}
       /\ value' = v
       /\ eng' = [j \in Vdfs |->
            IF j \notin running_mask' \/ ~ok THEN eng[j]
            ELSE [eng[j] EXCEPT !.fresh = FALSE]]
  /\ pc' = "value" /\ i' = 1
  /\ SpiTransfer(ok)
  /\ UNCHANGED <<phase, spi_ft_handle, gpio_ft_handle, boardVars, g_stopping,
                 state, init_done, wrote, stops, sessions, n_skipped, todo>>

\* Nothing runs: the loop ends when the client stops and all is closed.
NoneRunning ==
  /\ At("status")
  /\ {j \in vdfs_mask : state[j] = "RUNNING"} = {}
  /\ running_mask' = {}
  /\ pc' = IF g_stopping /\ \A j \in Vdfs : state[j] = "CLOSED"
             THEN "exit" ELSE "freq"
  /\ UNCHANGED <<driverVars, i, g_stopping, state, init_done, wrote, stops, sessions,
                 value, n_skipped, todo, eng>>

\* On to the next engine's value.
NextValue ==
  IF i < N_HW_VDFS THEN pc' = "value" /\ i' = i + 1 ELSE pc' = "freq" /\ i' = 1

Restart ==
  Do(stop_hw_vdf(i)
       \o (IF auto_freq THEN adjust_hw_freq(running_mask \ {i}, "down") ELSE << >>)
       \o start_hw_vdf(i), "next")

\* Mutant: a value without progress is skipped for ever.
AddValueNoRestart ==
  /\ At("value") /\ i \in running_mask /\ value[i] \in {"same", "new"}
  /\ n_skipped' = [n_skipped EXCEPT ![i] = 0]
  /\ NextValue /\ UNCHANGED todo
  /\ value' = [value EXCEPT ![i] = "none"]
  /\ UNCHANGED <<driverVars, g_stopping, state, init_done, wrote, stops, sessions,
                 running_mask, eng>>

\* hw_proof_add_value takes or skips the value.
AddValue ==
  /\ At("value") /\ i \in running_mask
  /\ \/ /\ value[i] = "new"
        /\ n_skipped' = [n_skipped EXCEPT ![i] = 0]
        /\ NextValue /\ UNCHANGED todo
     \/ /\ value[i] = "same"
        /\ IF n_skipped[i] + 1 > g_skip_thres
             THEN /\ n_skipped' = [n_skipped EXCEPT ![i] = 0]
                  /\ todo' = Restart /\ pc' = "engine" /\ UNCHANGED i
             ELSE /\ n_skipped' = [n_skipped EXCEPT ![i] = @ + 1]
                  /\ NextValue /\ UNCHANGED todo
  /\ value' = [value EXCEPT ![i] = "none"]
  /\ UNCHANGED <<driverVars, g_stopping, state, init_done, wrote, stops, sessions,
                 running_mask, eng>>

\* A form that is not of the discriminant: the job starts again from the last
\* good form (HwProof!Restart).
BadValue ==
  /\ At("value") /\ i \in running_mask /\ value[i] = "bad"
  /\ n_skipped' = [n_skipped EXCEPT ![i] = 0]
  /\ todo' = Restart /\ pc' = "engine"
  /\ value' = [value EXCEPT ![i] = "none"]
  /\ UNCHANGED <<driverVars, i, g_stopping, state, init_done, wrote, stops,
                 sessions, running_mask, eng>>

\* The value completes the job.
Completed ==
  /\ At("value") /\ i \in running_mask /\ value[i] = "last"
  /\ n_skipped' = [n_skipped EXCEPT ![i] = 0]
  /\ state' = [state EXCEPT ![i] = "IDLING"]
  /\ todo' = Do(stop_hw_vdf(i), "next") /\ pc' = "engine"
  /\ value' = [value EXCEPT ![i] = "none"]
  /\ UNCHANGED <<driverVars, i, g_stopping, init_done, wrote, stops, sessions,
                 running_mask, eng>>

SkipValue ==
  /\ \/ At("value") /\ i \notin running_mask
     \/ At("next")
  /\ NextValue
  /\ UNCHANGED <<driverVars, clientVars, todo, eng>>

\* When the period is over and the next entry is not above max_freq, the
\* frequency goes up for the engines that were running in this turn.
AutoFreq ==
  /\ At("freq")
  /\ i' = 1
  /\ \/ pc' = "conn" /\ UNCHANGED todo
     \/ /\ auto_freq
        /\ pc' = "engine"
        /\ todo' = Do(adjust_hw_freq(running_mask, "up"), "conn")
  /\ running_mask' = {}
  /\ UNCHANGED <<driverVars, g_stopping, state, init_done, wrote, stops, sessions,
                 value, n_skipped, eng>>

\* SIGINT or SIGTERM
Signal ==
  /\ phase = "ready" /\ ~g_stopping /\ ~Ended
  /\ g_stopping' = TRUE
  /\ UNCHANGED <<driverVars, pc, i, state, init_done, wrote, stops, sessions,
                 running_mask, value, n_skipped, todo, eng>>

LoopStep ==
  \/ SkipConn \/ Connect \/ GlobalStop \/ NoData \/ EndOfStream \/ BadData
  \/ Challenge \/ WriteOK \/ handle_proofs \/ StopRequested \/ ReadAck
  \/ CloseEnded \/ NoneRunning \/ AddValue \/ BadValue \/ Completed
  \/ SkipValue \/ AutoFreq
  \/ \E ok \in BOOLEAN : read_hw_status(ok) \/ EngineWrite(ok) \/ AdjustFreq(ok)

Startup == init_hw /\ UNCHANGED <<pc, i, clientVars, todo, eng>>

Init ==
  /\ DriverInit
  /\ pc = "conn" /\ i = 1 /\ g_stopping = FALSE
  /\ state = [j \in Vdfs |-> "CLOSED"]
  /\ init_done = [j \in Vdfs |-> "garbage"]
  /\ wrote = [j \in Vdfs |-> "none"] /\ stops = [j \in Vdfs |-> 0]
  /\ sessions = [j \in Vdfs |-> 0]
  /\ running_mask = {} /\ value = [j \in Vdfs |-> "none"]
  /\ n_skipped = [j \in Vdfs |-> 0]
  /\ todo = NothingToDo /\ eng = [j \in Vdfs |-> NoJob]

Next ==
  \/ Startup \/ LoopStep \/ Signal
  \/ \E j \in Vdfs : ThreadStarts(j) \/ ThreadRuns(j)

\* The loop goes round and the emulator's threads run; nothing obliges the
\* timelord to answer or anything to fail.
Fairness ==
  /\ WF_vars(Startup) /\ WF_vars(LoopStep)
  /\ \A j \in Vdfs : WF_vars(ThreadStarts(j)) /\ WF_vars(ThreadRuns(j))

Spec == Init /\ [][Next]_vars /\ Fairness

----------------------------------------------------------------------------
(***************************************************************************)
(* Properties                                                              *)
(***************************************************************************)

\* When the client has ended, no engine computes and every proof state is
\* cleared: also for an engine that a change of frequency switched on again
\* after its job was complete, and also if one write to the board failed.
EnginesOffAtExit ==
  pc = "exit" /\ faults <= 1 =>
    \A j \in Vdfs : (eng[j].init_done => eng[j].stopping) /\ init_done[j] # "yes"

\* What was told to a connection cannot be taken back: after STOP no proof and no
\* OK goes to it, whatever order signal, request, end of stream and completion
\* come in.  Only when the stream ends while ACK is waited for does stop_conn run
\* again: it writes a second STOP, finds nothing to stop, and the connection is
\* closed before the loop looks at another one.
OnlyStopFollowsStop ==
  [][\A j \in Vdfs : stops[j] > 0 =>
       \/ wrote'[j] = "STOP" /\ stops'[j] = stops[j]
       \/ /\ i = j /\ pc = "stopped" /\ stops[j] = 1
          /\ wrote'[j] = "STOP" /\ stops'[j] = 2
          /\ pc' \in {"close", "undefined"}
       \/ state[j] = "CLOSED" /\ wrote'[j] = "none" /\ stops'[j] = 0]_vars

\* A signal ends the client, whatever the timelord and the board do.
StopExits == g_stopping ~> Ended

\* An engine that lost its job is given it again: no failed write and no change
\* of frequency leaves a running connection without a computation for ever.
LostJobRestarted ==
  \A j \in Vdfs :
    state[j] = "RUNNING" ~> eng[j].in_loop > 0 \/ state[j] # "RUNNING" \/ Ended
=============================================================================
