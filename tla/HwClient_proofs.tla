--------------------------- MODULE HwClient_proofs ---------------------------
(***************************************************************************)
(* Proofs about the hardware client and its driver, for any number of      *)
(* engines, sessions, frequencies and failing calls.                       *)
(***************************************************************************)
EXTENDS HwClient, DataLemmas, SequenceTheorems

Ops == {"off", "on", "job", "up", "down"}
Write == [op : Ops, j : 0 .. N_HW_VDFS]
Labels == {"conn", "engine", "ok", "stopped", "close", "status", "value",
           "next", "freq", "exit", "died", "undefined"}

\* Where the loop is, or will be when its writes to the engines are done.
Target == IF pc = "engine" THEN todo.next ELSE pc

Job == [init_done : BOOLEAN, stopping : BOOLEAN, running : BOOLEAN,
        new : Int, in_loop : Int, fresh : BOOLEAN]

ClientTypes ==
  /\ pc \in Labels /\ i \in Vdfs /\ faults \in Nat
  /\ state \in [Vdfs -> {"CLOSED", "WAITING", "RUNNING", "IDLING", "STOPPED"}]
  /\ init_done \in [Vdfs -> {"garbage", "yes", "no"}]
  /\ wrote \in [Vdfs -> {"none", "data", "STOP"}]
  /\ stops \in [Vdfs -> Nat]
  /\ running_mask \in SUBSET Vdfs
  /\ eng \in [Vdfs -> Job]

\* The writes an engine may be given: it is switched on only while its proof
\* state exists.
Permitted(done) ==
  {w \in Write : w.op \in {"on", "job"} => w.j \in Vdfs /\ done[w.j] = "yes"}

\* Some writes are left; those of a stop are one or two that switch the engine off.
TodoInv ==
  pc = "engine" =>
    /\ todo \in [left : Seq(Permitted(init_done)), next : {"ok", "stopped", "close", "conn", "next"}]
    /\ todo.left # << >>
    /\ todo.next \in {"stopped", "close"} =>
         Len(todo.left) <= 2 /\ todo.left \in Seq({[op |-> "off", j |-> i]})

\* Handles, mode and reset line as init_hw goes on; the loop runs only on a
\* board that is ready.  While the board is in reset nothing sets the PLL, so
\* entry 1 stays the one remembered: the only one that a lowering to entry 0,
\* which is what left the board in reset, can come from.
DriverInv ==
  /\ active_mode # "none" /\ phase # "deleted" => bridge = active_mode
  /\ phase \in {"reset", "pll", "voltage", "sense", "pvt", "ready"} => IsOpen
  /\ phase \in {"voltage", "sense", "pvt"} => reset_line = "high"
  /\ freq_idx \in Nat
  /\ phase = "ready" => reset_line = "high" \/ freq_idx = 1
  /\ phase \in {"sense", "pvt", "ready"} => voltage_set
  /\ pc # "conn" => phase = "ready"

\* What the state of a connection says about its proof state and about what was
\* written to it last; where ACK is waited for, STOP was written once.
ConnInv ==
  /\ \A j \in Vdfs :
       /\ stops[j] > 0 => wrote[j] = "STOP"
       /\ wrote[j] = "STOP" => state[j] \in {"STOPPED", "CLOSED"}
       /\ state[j] \in {"STOPPED", "CLOSED"} => init_done[j] # "yes"
       /\ state[j] \in {"RUNNING", "IDLING"} => init_done[j] = "yes"
  /\ Target = "ok" => state[i] = "WAITING" /\ init_done[i] = "yes"
  /\ Target \in {"value", "next", "freq"} =>
       \A j \in running_mask : state[j] \in {"RUNNING", "IDLING"}
  /\ Target \in {"stopped", "close"} => state[i] = "STOPPED"
  /\ Target = "stopped" => stops[i] = 1
  /\ pc = "exit" => \A j \in Vdfs : state[j] = "CLOSED"

\* The writes that will still switch engine j off.
OffsLeft(j) ==
  IF pc = "engine" /\ todo.next \in {"stopped", "close"} /\ j = i
    THEN Len(todo.left) ELSE 0

\* An engine without a proof state is off, or its writes are still to come, or
\* both have failed.
EngineInv ==
  \A j \in Vdfs : init_done[j] # "yes" =>
    \/ eng[j].init_done => eng[j].stopping
    \/ faults + OffsLeft(j) >= 2

ClientInv == ClientTypes /\ TodoInv /\ ConnInv /\ EngineInv

----------------------------------------------------------------------------
(***************************************************************************)
(* The driver                                                              *)
(***************************************************************************)

ModeMatches == active_mode # "none" => bridge = active_mode

\* Whichever call of SetMode fails, the remembered mode is the bridge's.
LEMMA SetModeMatches ==
  ASSUME NEW mode, NEW ok \in BOOLEAN, ModeMatches, SetMode(mode, ok)
  PROVE  ModeMatches'
  BY DEF SetMode, ModeMatches

LEMMA TransferMatches ==
  ASSUME NEW ok \in BOOLEAN, ModeMatches, SpiTransfer(ok) \/ i2c_TransmitX(ok)
  PROVE  ModeMatches'
  BY SetModeMatches DEF SpiTransfer, i2c_TransmitX

\* Every step of init_hw keeps the driver's part of the invariant.
LEMMA StartupKeepsDriver ==
  ASSUME DriverInv, Startup
  PROVE  DriverInv'
<1>1. PICK ok \in BOOLEAN :
        \/ Open(ok) \/ Reset(ok) \/ SetPLLFrequency(ok) \/ SetBoardVoltage(ok)
        \/ GetPower(ok) \/ SetTempAlarms(ok) \/ Close(ok)
  BY DEF Startup, init_hw
<1>2. pc = "conn" /\ pc' = "conn"
  BY <1>1
  DEF Startup, DriverInv, Open, Reset, SetPLLFrequency, SetBoardVoltage, GetPower,
      SetTempAlarms, Close
<1>3. CASE Open(ok)
  <2>1. ModeMatches'
    <3>1. ModeMatches
      BY <1>3 DEF DriverInv, ModeMatches, Open
    <3>2. CASE UNCHANGED <<active_mode, bridge>>
      BY <3>1, <3>2 DEF ModeMatches
    <3>3. CASE \E done \in BOOLEAN : SetMode("spi", done)
      BY <3>1, <3>3, SetModeMatches
    <3> QED BY <1>3, <3>2, <3>3 DEF Open, OpenHandles, OpenClk
  <2>2. CASE ok
    BY <1>2, <1>3, <2>1, <2>2
    DEF Open, OpenHandles, OpenClk, DriverInv, ModeMatches, IsOpen, boardVars
  <2>3. CASE ~ok
    BY <1>2, <1>3, <2>1, <2>3 DEF Open, DriverInv, ModeMatches, boardVars
  <2> QED BY <2>2, <2>3
<1>4. CASE Reset(ok)
  BY <1>2, <1>4 DEF Reset, DriverInv, IsOpen
<1>5. CASE SetPLLFrequency(ok)
  <2>1. ModeMatches'
    BY <1>5, TransferMatches DEF SetPLLFrequency, ProgramPLL, DriverInv, ModeMatches
  <2>2. PICK locked \in BOOLEAN :
          /\ ProgramPLL(StartIdx, ok, locked)
          /\ phase' = IF locked THEN "voltage" ELSE "failed"
    BY <1>5 DEF SetPLLFrequency
  <2>3. freq_idx' \in Nat /\ (phase' = "voltage" => reset_line' = "high")
    BY <2>2, HwDriverAssumption DEF ProgramPLL, DriverInv
  <2> QED BY <1>2, <1>5, <2>1, <2>2, <2>3 DEF SetPLLFrequency, DriverInv, ModeMatches, IsOpen
<1>6. CASE SetBoardVoltage(ok)
  <2>1. ModeMatches'
    BY <1>6, TransferMatches DEF SetBoardVoltage, I2CWriteReg, DriverInv, ModeMatches
  <2> QED BY <1>2, <1>6, <2>1 DEF SetBoardVoltage, DriverInv, ModeMatches, IsOpen
<1>7. CASE GetPower(ok)
  <2>1. ModeMatches'
    BY <1>7, TransferMatches DEF GetPower, I2CReadReg, DriverInv, ModeMatches
  <2> QED BY <1>2, <1>7, <2>1 DEF GetPower, DriverInv, ModeMatches, IsOpen, boardVars
<1>8. CASE SetTempAlarms(ok)
  <2>1. ModeMatches'
    BY <1>8, TransferMatches DEF SetTempAlarms, DriverInv, ModeMatches
  <2> QED BY <1>2, <1>8, <2>1 DEF SetTempAlarms, DriverInv, ModeMatches, IsOpen, boardVars
<1>9. CASE Close(ok)
  BY <1>2, <1>9 DEF Close, DriverInv, boardVars
<1> QED BY <1>1, <1>3, <1>4, <1>5, <1>6, <1>7, <1>8, <1>9

\* A change of frequency: at entry 0, which only entry 1 is lowered to, the reset
\* may leave the chip in reset, and without the reset line high no entry is
\* remembered.
LEMMA AdjustFreqKeepsBoard ==
  ASSUME NEW ok \in BOOLEAN, AdjustFreq(ok), ModeMatches, freq_idx \in Nat,
         reset_line = "high" \/ freq_idx = 1
  PROVE  ModeMatches' /\ freq_idx' \in Nat /\ (reset_line' = "high" \/ freq_idx' = 1)
<1> DEFINE step == IF todo.left[1].op = "up" THEN 1 ELSE -1
<1>1. CASE \E reset_ok, pll_ok, locked \in BOOLEAN :
             /\ freq_idx + step \in 0 .. VALID_PLL_FREQS - 1
             /\ IF freq_idx + step = 0 THEN ResetLine(reset_ok) ELSE UNCHANGED reset_line
             /\ ProgramPLL(freq_idx + step, pll_ok, locked)
  <2>1. PICK reset_ok \in BOOLEAN, pll_ok \in BOOLEAN, locked \in BOOLEAN :
             /\ freq_idx + step \in 0 .. VALID_PLL_FREQS - 1
             /\ IF freq_idx + step = 0 THEN ResetLine(reset_ok) ELSE UNCHANGED reset_line
             /\ ProgramPLL(freq_idx + step, pll_ok, locked)
    BY <1>1
  <2>2. ModeMatches'
    BY <2>1, TransferMatches DEF ProgramPLL
  <2>3. CASE locked
    <3>1. reset_line' = "high" /\ freq_idx' = freq_idx + step
      BY <2>1, <2>3 DEF ProgramPLL
    <3>2. freq_idx + step \in Nat
      BY <2>1, HwDriverAssumption
    <3> QED BY <2>2, <3>1, <3>2
  <2>4. CASE ~locked /\ freq_idx + step # 0
    BY <2>1, <2>2, <2>4 DEF ProgramPLL
  <2>5. CASE ~locked /\ freq_idx + step = 0
    <3>1. freq_idx' = freq_idx
      BY <2>1, <2>5 DEF ProgramPLL
    <3>2. freq_idx = 1
      BY <2>5
    <3> QED BY <2>2, <3>1, <3>2
  <2> QED BY <2>3, <2>4, <2>5
<1>2. CASE UNCHANGED <<reset_line, freq_idx, active_mode, bridge>>
  BY <1>2 DEF ModeMatches
<1> QED BY <1>1, <1>2 DEF AdjustFreq

\* The event loop leaves the board as it was handed over, apart from the mode,
\* the frequency and what its lowering does to the reset line.
LEMMA LoopKeepsDriver ==
  ASSUME DriverInv, LoopStep
  PROVE  DriverInv'
<1>1. phase = "ready" /\ phase' = "ready" /\ IsOpen' = IsOpen
      /\ voltage_set' = voltage_set /\ ModeMatches
      /\ freq_idx \in Nat /\ (reset_line = "high" \/ freq_idx = 1)
  BY DEF LoopStep, DriverInv, SkipConn, Connect, GlobalStop, NoData, EndOfStream,
         BadData, Challenge, WriteOK, handle_proofs, StopRequested, ReadAck, CloseEnded,
         NoneRunning, AddValue, BadValue, Completed, SkipValue, AutoFreq,
         read_hw_status, EngineWrite, AdjustFreq, At, Serves, driverVars, boardVars,
         Throw, stop_conn, close_conn, IsOpen, ModeMatches
<1>2. CASE \E ok \in BOOLEAN : read_hw_status(ok) \/ EngineWrite(ok)
  <2>1. ModeMatches'
    BY <1>1, <1>2, TransferMatches DEF read_hw_status, EngineWrite
  <2>2. UNCHANGED <<reset_line, freq_idx>>
    BY <1>2 DEF read_hw_status, EngineWrite, boardVars
  <2> QED BY <1>1, <2>1, <2>2 DEF DriverInv, ModeMatches
<1>3. CASE \E ok \in BOOLEAN : AdjustFreq(ok)
  BY <1>1, <1>3, AdjustFreqKeepsBoard DEF DriverInv, ModeMatches
<1>4. CASE UNCHANGED <<active_mode, bridge, reset_line, freq_idx>>
  BY <1>1, <1>4 DEF DriverInv, ModeMatches
<1> QED BY <1>2, <1>3, <1>4
  DEF LoopStep, SkipConn, Connect, GlobalStop, NoData, EndOfStream,
      BadData, Challenge, WriteOK, handle_proofs, StopRequested, ReadAck, CloseEnded,
      NoneRunning, AddValue, BadValue, Completed, SkipValue, AutoFreq, driverVars,
      Throw, stop_conn, close_conn

LEMMA NextKeepsDriver ==
  ASSUME DriverInv, [Next]_vars
  PROVE  DriverInv'
<1>1. CASE Signal \/ (\E j \in Vdfs : ThreadStarts(j) \/ ThreadRuns(j)) \/ UNCHANGED vars
  BY <1>1 DEF Signal, ThreadStarts, ThreadRuns, vars, driverVars, DriverInv, IsOpen
<1> QED BY <1>1, StartupKeepsDriver, LoopKeepsDriver DEF Next

LEMMA InitDriver == Init => DriverInv
  BY DEF Init, DriverInit, DriverInv

\* BoardMatches (init_hw and the mode in ftdi_driver): the driver's mode is the
\* bridge's, and a board that was handed over is open and has its voltage, whatever
\* the library's calls did.  It is out of reset too, unless the frequency was
\* lowered to the first entry of the table, whose reset ignores its failures.
THEOREM BoardAlwaysMatches == Spec => []BoardMatches
<1>1. DriverInv => BoardMatches
  BY DEF DriverInv, BoardMatches
<1> QED BY <1>1, InitDriver, NextKeepsDriver, PTL DEF Spec

----------------------------------------------------------------------------
(***************************************************************************)
(* The writes to the engines                                               *)
(***************************************************************************)

\* hw_vdf_control gives one write for each engine of the set and no other.
LEMMA ControlWrites ==
  ASSUME NEW js \in SUBSET Vdfs, NEW op \in Ops
  PROVE  hw_vdf_control(js, op) \in Seq({[op |-> op, j |-> k] : k \in js})
<1>1. IsFiniteSet(Vdfs) /\ Vdfs \subseteq Nat
  BY FS_Interval, HwClientAssumption DEF Vdfs
<1>2. IsFiniteSet(js) /\ Cardinality(js) \in Nat /\ js \subseteq Nat
  BY <1>1, FS_Subset, FS_CardinalityType
<1>3. ASSUME NEW n \in 1 .. Cardinality(js) PROVE InOrder(js)[n] \in js
  <2>1. n - 1 \in Nat /\ n - 1 < Cardinality(js)
    BY <1>2
  <2>2. \E k \in js : Cardinality({b \in js : b < k}) = n - 1
    BY <1>2, <2>1, ElementOfRank
  <2> QED BY <2>2 DEF InOrder
<1>4. hw_vdf_control(js, op) \in
        [1 .. Cardinality(js) -> {[op |-> op, j |-> k] : k \in js}]
  BY <1>3 DEF hw_vdf_control
<1> QED BY <1>2, <1>4, SeqDef

\* The engines of the mask may be switched off and on again.
LEMMA AdjustPermitted ==
  ASSUME NEW done, NEW js \in SUBSET Vdfs, \A j \in js : done[j] = "yes",
         NEW op \in {"up", "down"}
  PROVE  adjust_hw_freq(js, op) \in Seq(Permitted(done)) /\ adjust_hw_freq(js, op) # << >>
<1>0. js \subseteq 0 .. N_HW_VDFS /\ 0 \in 0 .. N_HW_VDFS
  BY HwClientAssumption DEF Vdfs
<1>1. \A o \in {"off", "on"} : {[op |-> o, j |-> k] : k \in js} \subseteq Permitted(done)
  <2>1. ASSUME NEW o \in {"off", "on"}, NEW k \in js
        PROVE  [op |-> o, j |-> k] \in Permitted(done)
    BY <1>0, <2>1 DEF Permitted, Write, Ops
  <2> QED BY <2>1
<1>2. /\ hw_vdf_control(js, "off") \in Seq(Permitted(done))
      /\ hw_vdf_control(js, "on") \in Seq(Permitted(done))
  <2>1. \A o \in {"off", "on"} : hw_vdf_control(js, o) \in Seq({[op |-> o, j |-> k] : k \in js})
    BY ControlWrites DEF Ops
  <2>2. ASSUME NEW o \in {"off", "on"} PROVE hw_vdf_control(js, o) \in Seq(Permitted(done))
    BY <1>1, <2>1, SeqMonotonic
  <2> QED BY <2>2
<1>3. [op |-> op, j |-> 0] \in Permitted(done)
  BY <1>0 DEF Permitted, Write, Ops
<1>4. <<[op |-> op, j |-> 0]>> \in Seq(Permitted(done))
  BY <1>3
<1>5. /\ hw_vdf_control(js, "off") \o <<[op |-> op, j |-> 0]>> \in Seq(Permitted(done))
      /\ Len(hw_vdf_control(js, "off") \o <<[op |-> op, j |-> 0]>>) > 0
  BY <1>2, <1>4, ConcatProperties, LenProperties
<1> DEFINE front == hw_vdf_control(js, "off") \o <<[op |-> op, j |-> 0]>>
<1>6. adjust_hw_freq(js, op) = front \o hw_vdf_control(js, "on")
  BY DEF adjust_hw_freq
<1> HIDE DEF front
<1>7. front \o hw_vdf_control(js, "on") \in Seq(Permitted(done))
      /\ Len(front \o hw_vdf_control(js, "on")) = Len(front) + Len(hw_vdf_control(js, "on"))
  BY <1>2, <1>5, ConcatProperties DEF front
<1>8. Len(front) > 0 /\ Len(front) \in Nat /\ Len(hw_vdf_control(js, "on")) \in Nat
  BY <1>2, <1>5, LenProperties DEF front
<1>9. Len(adjust_hw_freq(js, op)) > 0
  BY <1>6, <1>7, <1>8
<1> QED BY <1>6, <1>7, <1>9

\* An engine with a proof state may be started.
LEMMA StartPermitted ==
  ASSUME NEW done, NEW k \in Vdfs, done[k] = "yes"
  PROVE  start_hw_vdf(k) \in Seq(Permitted(done)) /\ start_hw_vdf(k) # << >>
<1>1. k \in 0 .. N_HW_VDFS
  BY HwClientAssumption DEF Vdfs
<1>2. \A o \in {"off", "on", "job"} : [op |-> o, j |-> k] \in Permitted(done)
  BY <1>1 DEF Permitted, Write, Ops
<1> QED BY <1>2 DEF start_hw_vdf, EnableEngine

\* Every engine may be stopped, by two writes.
LEMMA StopPermitted ==
  ASSUME NEW done, NEW k \in Vdfs
  PROVE  /\ stop_hw_vdf(k) \in Seq(Permitted(done)) /\ stop_hw_vdf(k) # << >>
         /\ Len(stop_hw_vdf(k)) = 2 /\ stop_hw_vdf(k) \in Seq({[op |-> "off", j |-> k]})
<1>1. k \in 0 .. N_HW_VDFS
  BY HwClientAssumption DEF Vdfs
<1>2. [op |-> "off", j |-> k] \in Permitted(done)
  BY <1>1 DEF Permitted, Write, Ops
<1> QED BY <1>2 DEF stop_hw_vdf, DisableEngine

\* A restart: stop, lower frequency for the others, start.
LEMMA RestartPermitted ==
  ASSUME ClientTypes, NEW done, done[i] = "yes", \A j \in running_mask : done[j] = "yes"
  PROVE  /\ Restart.left \in Seq(Permitted(done)) /\ Restart.left # << >>
         /\ Restart = [left |-> Restart.left, next |-> "next"]
<1>0. i \in Vdfs /\ running_mask \ {i} \in SUBSET Vdfs
  BY DEF ClientTypes
<1> DEFINE mid == IF auto_freq THEN adjust_hw_freq(running_mask \ {i}, "down") ELSE << >>
<1>1. mid \in Seq(Permitted(done))
  <2>1. adjust_hw_freq(running_mask \ {i}, "down") \in Seq(Permitted(done))
    BY <1>0, AdjustPermitted
  <2> QED BY <2>1
<1>2. stop_hw_vdf(i) \in Seq(Permitted(done)) /\ start_hw_vdf(i) \in Seq(Permitted(done))
      /\ start_hw_vdf(i) # << >>
  BY <1>0, StartPermitted, StopPermitted
<1>3. Restart = [left |-> (stop_hw_vdf(i) \o mid) \o start_hw_vdf(i), next |-> "next"]
  BY DEF Restart, Do
<1> HIDE DEF mid
<1>4. stop_hw_vdf(i) \o mid \in Seq(Permitted(done))
  BY <1>1, <1>2, ConcatProperties
<1> DEFINE front == stop_hw_vdf(i) \o mid
<1> HIDE DEF front
<1>5. front \o start_hw_vdf(i) \in Seq(Permitted(done)) /\ front \o start_hw_vdf(i) # << >>
  <2>1. front \in Seq(Permitted(done))
    BY <1>4 DEF front
  <2>2. front \o start_hw_vdf(i) \in Seq(Permitted(done))
        /\ Len(front \o start_hw_vdf(i)) = Len(front) + Len(start_hw_vdf(i))
    BY <2>1, <1>2, ConcatProperties
  <2>3. Len(start_hw_vdf(i)) > 0 /\ Len(front) \in Nat /\ Len(start_hw_vdf(i)) \in Nat
    BY <1>2, <2>1, LenProperties
  <2>4. Len(front \o start_hw_vdf(i)) > 0
    BY <2>2, <2>3
  <2> QED BY <2>2, <2>4
<1> QED BY <1>3, <1>5 DEF front

----------------------------------------------------------------------------
(***************************************************************************)
(* The event loop                                                          *)
(***************************************************************************)

LEMMA InitClient == Init => ClientInv
<1> SUFFICES ASSUME Init PROVE ClientInv
  OBVIOUS
<1>1. 1 \in Vdfs
  BY HwClientAssumption DEF Vdfs
<1>2. ClientTypes
  BY <1>1 DEF Init, DriverInit, ClientTypes, NoJob, Job, Labels
<1>3. TodoInv /\ ConnInv /\ EngineInv
  BY DEF Init, TodoInv, ConnInv, EngineInv, Target, NoJob
<1> QED BY <1>2, <1>3 DEF ClientInv

\* The index of the next connection or value is one of an engine.
LEMMA NextIndex ==
  ASSUME ClientTypes, NextConn \/ NextValue
  PROVE  i' \in Vdfs /\ pc' \in {"conn", "status", "value", "freq"}
BY HwClientAssumption DEF ClientTypes, NextConn, NextValue, Vdfs

\* Steps that leave connections and engines alone and go to the next connection.
LEMMA NextConnKeeps ==
  ASSUME ClientInv, pc = "conn", NextConn, faults' = faults,
         UNCHANGED <<clientVars, eng>>
  PROVE  ClientInv'
<1>1. pc' \in {"conn", "status"} /\ i' \in Vdfs
  BY NextIndex DEF ClientInv, NextConn
<1>2. ClientTypes'
  BY <1>1 DEF ClientInv, ClientTypes, clientVars, Labels, Job
<1>3. TodoInv' /\ ConnInv' /\ EngineInv'
  BY <1>1 DEF ClientInv, TodoInv, ConnInv, EngineInv, Target, OffsLeft, clientVars
<1> QED BY <1>2, <1>3 DEF ClientInv

LEMMA ConnectKeeps ==
  ASSUME ClientInv, Connect
  PROVE  ClientInv'
<1>1. pc = "conn" /\ pc' \in {"conn", "status"} /\ i \in Vdfs /\ i' \in Vdfs
  BY NextIndex DEF ClientInv, ClientTypes, NextConn, Connect, At
<1>2. ClientTypes'
  <2>1. /\ state' \in [Vdfs -> {"CLOSED", "WAITING", "RUNNING", "IDLING", "STOPPED"}]
        /\ wrote' \in [Vdfs -> {"none", "data", "STOP"}]
        /\ stops' \in [Vdfs -> Nat]
    BY <1>1 DEF ClientInv, ClientTypes, Connect
  <2>2. UNCHANGED <<faults, init_done, running_mask, eng>>
    BY DEF Connect, driverVars
  <2> QED BY <1>1, <2>1, <2>2 DEF ClientInv, ClientTypes, Labels
<1>3. TodoInv' /\ ConnInv' /\ EngineInv'
  BY <1>1 DEF ClientInv, ClientTypes, TodoInv, ConnInv, EngineInv, Target, OffsLeft, Connect,
       driverVars
<1> QED BY <1>2, <1>3 DEF ClientInv

LEMMA ThrowKeeps ==
  ASSUME ClientInv, pc # "engine", Throw
  PROVE  ClientInv'
<1>1. ClientTypes'
  BY DEF ClientInv, ClientTypes, clientVars, driverVars, Throw, Labels, Job
<1>2. TodoInv' /\ ConnInv' /\ EngineInv'
  BY DEF ClientInv, TodoInv, ConnInv, EngineInv, Target, OffsLeft, clientVars,
         driverVars, Throw
<1> QED BY <1>1, <1>2 DEF ClientInv

LEMMA StopConnKeeps ==
  ASSUME ClientInv, NEW next \in {"stopped", "close"}, stop_conn(next),
         \/ pc = "conn" /\ state[i] \in {"WAITING", "RUNNING", "IDLING"}
         \/ pc = "stopped" /\ next = "close"
  PROVE  ClientInv'
<1>0. i \in Vdfs /\ i' = i /\ faults' = faults /\ faults \in Nat
  BY DEF ClientInv, ClientTypes, stop_conn, driverVars
<1>1. ClientTypes'
  <2>1. stops' \in [Vdfs -> Nat]
    <3>1. stops \in [Vdfs -> Nat] /\ stops' = [stops EXCEPT ![i] = @ + 1]
      BY DEF ClientInv, ClientTypes, stop_conn
    <3> QED BY <1>0, <3>1
  <2>2. pc' \in Labels /\ UNCHANGED <<faults, running_mask, eng>>
    BY DEF stop_conn, Labels, driverVars
  <2>3. /\ state' \in [Vdfs -> {"CLOSED", "WAITING", "RUNNING", "IDLING", "STOPPED"}]
        /\ init_done' \in [Vdfs -> {"garbage", "yes", "no"}]
        /\ wrote' \in [Vdfs -> {"none", "data", "STOP"}]
    BY <1>0 DEF ClientInv, ClientTypes, stop_conn
  <2> QED BY <1>0, <2>1, <2>2, <2>3 DEF ClientInv, ClientTypes
<1>2. TodoInv'
  <2>1. CASE pc' = "engine"
    <3>1. todo' = Do(stop_hw_vdf(i), next)
      BY <2>1 DEF stop_conn
    <3>2. /\ stop_hw_vdf(i) \in Seq(Permitted(init_done')) /\ stop_hw_vdf(i) # << >>
          /\ Len(stop_hw_vdf(i)) = 2 /\ stop_hw_vdf(i) \in Seq({[op |-> "off", j |-> i]})
      BY <1>0, StopPermitted
    <3>3. todo' = [left |-> stop_hw_vdf(i), next |-> next]
      BY <3>1 DEF Do
    <3>4. todo' \in [left : Seq(Permitted(init_done')), next : {"ok", "stopped", "close", "conn", "next"}]
      BY <3>3, <3>2
    <3>5. todo'.left # << >> /\ Len(todo'.left) <= 2
          /\ todo'.left \in Seq({[op |-> "off", j |-> i']})
      <4>1. todo'.left = stop_hw_vdf(i)
        BY <3>3
      <4>2. Len(todo'.left) <= 2
        BY <4>1, <3>2
      <4> QED BY <1>0, <4>1, <4>2, <3>2, Zenon
    <3> QED BY <3>4, <3>5 DEF TodoInv
  <2> QED BY <2>1 DEF TodoInv
<1>3. ConnInv'
  <2>1. stops'[i] = stops[i] + 1 /\ stops[i] \in Nat
        /\ (pc = "conn" => stops[i] = 0)
    BY <1>0 DEF ClientInv, ClientTypes, ConnInv, stop_conn
  <2> QED BY <1>0, <2>1 DEF ClientInv, ClientTypes, ConnInv, Target, stop_conn, Do
<1>4. EngineInv'
  <2>1. ASSUME NEW j \in Vdfs, init_done'[j] # "yes"
        PROVE  (eng'[j].init_done => eng'[j].stopping) \/ faults' + OffsLeft(j)' >= 2
    <3>1. CASE j = i /\ init_done[i] = "yes"
      <4>1. pc' = "engine" /\ todo' = Do(stop_hw_vdf(i), next)
        BY <3>1 DEF stop_conn
      <4>2. Len(stop_hw_vdf(i)) = 2
        BY <1>0, StopPermitted
      <4>3. todo'.left = stop_hw_vdf(i) /\ todo'.next = next /\ j = i'
        BY <1>0, <3>1, <4>1 DEF Do
      <4>4. OffsLeft(j)' = 2
        BY <4>1, <4>2, <4>3 DEF OffsLeft
      <4> QED BY <1>0, <4>4
    <3>2. CASE ~(j = i /\ init_done[i] = "yes")
      <4>1. init_done[j] # "yes" /\ eng' = eng
        BY <1>0, <2>1, <3>2 DEF stop_conn, ClientInv, ClientTypes
      <4>2. (eng[j].init_done => eng[j].stopping) \/ faults >= 2
        BY <1>0, <4>1 DEF ClientInv, EngineInv, OffsLeft
      <4>3. OffsLeft(j)' \in Nat
        <5>1. CASE pc' = "engine" /\ todo' = Do(stop_hw_vdf(i), next)
          BY <1>0, <5>1, StopPermitted DEF OffsLeft, Do
        <5>2. CASE pc' # "engine"
          BY <5>2 DEF OffsLeft
        <5> QED BY <5>1, <5>2 DEF stop_conn
      <4> QED BY <1>0, <4>1, <4>2, <4>3
    <3> QED BY <3>1, <3>2
  <2> QED BY <2>1 DEF EngineInv
<1> QED BY <1>1, <1>2, <1>3, <1>4 DEF ClientInv

\* Writes that are no stop of a connection may be begun.
LEMMA BeginWrites ==
  ASSUME NEW ws, NEW next \in {"ok", "conn", "next"},
         ws \in Seq(Permitted(init_done')) /\ ws # << >>,
         pc' = "engine", todo' = [left |-> ws, next |-> next]
  PROVE  TodoInv' /\ (\A j \in Vdfs : OffsLeft(j)' = 0) /\ Target' = next
<1>1. todo'.left = ws /\ todo'.next = next
  OBVIOUS
<1>2. todo' \in [left : Seq(Permitted(init_done')), next : {"ok", "stopped", "close", "conn", "next"}]
  OBVIOUS
<1>3. TodoInv'
  BY <1>1, <1>2 DEF TodoInv
<1>4. (\A j \in Vdfs : OffsLeft(j)' = 0) /\ Target' = next
  BY <1>1 DEF OffsLeft, Target
<1> QED BY <1>3, <1>4

LEMMA ChallengeKeeps ==
  ASSUME ClientInv, Challenge
  PROVE  ClientInv'
<1>0. i \in Vdfs /\ i' = i /\ pc = "conn" /\ pc' = "engine" /\ faults' = faults
      /\ eng' = eng /\ state' = state /\ wrote' = wrote /\ stops' = stops /\ running_mask' = running_mask
      /\ state[i] = "WAITING" /\ init_done'[i] = "yes"
      /\ \A j \in Vdfs : j # i => init_done'[j] = init_done[j]
  BY DEF ClientInv, ClientTypes, Challenge, driverVars, Serves, At
<1>1. ClientTypes'
  BY <1>0 DEF ClientInv, ClientTypes, Challenge, Labels, Job, driverVars
<1>2. start_hw_vdf(i) \in Seq(Permitted(init_done')) /\ start_hw_vdf(i) # << >>
  BY <1>0, StartPermitted
<1>3. todo' = [left |-> start_hw_vdf(i), next |-> "ok"]
  BY DEF Challenge, Do
<1>4. TodoInv' /\ (\A j \in Vdfs : OffsLeft(j)' = 0) /\ Target' = "ok"
  BY <1>0, <1>2, <1>3, BeginWrites
<1>5. ConnInv'
  BY <1>0, <1>4 DEF ClientInv, ConnInv
<1>6. EngineInv'
  BY <1>0, <1>4 DEF ClientInv, EngineInv, OffsLeft
<1> QED BY <1>1, <1>4, <1>5, <1>6 DEF ClientInv

LEMMA WriteOKKeeps ==
  ASSUME ClientInv, WriteOK
  PROVE  ClientInv'
<1>1. CASE Throw
  BY <1>1, ThrowKeeps DEF WriteOK, At
<1>2. CASE ~Throw
  <2>1. pc = "ok" /\ pc' \in {"conn", "status"} /\ i \in Vdfs /\ i' \in Vdfs
    BY <1>2, NextIndex DEF ClientInv, ClientTypes, NextConn, WriteOK, At
  <2>2. ClientTypes'
    BY <1>2, <2>1 DEF ClientInv, ClientTypes, WriteOK, Labels, Job, driverVars
  <2>3. TodoInv' /\ ConnInv' /\ EngineInv'
    BY <1>2, <2>1 DEF ClientInv, ClientTypes, TodoInv, ConnInv, EngineInv, Target,
         OffsLeft, WriteOK, driverVars
  <2> QED BY <2>2, <2>3 DEF ClientInv
<1> QED BY <1>1, <1>2

LEMMA handle_proofsKeeps ==
  ASSUME ClientInv, handle_proofs
  PROVE  ClientInv'
<1>1. CASE Throw
  BY <1>1, ThrowKeeps DEF handle_proofs, Serves, At
<1>2. CASE ~Throw
  <2>1. pc = "conn" /\ pc' = "conn" /\ i \in Vdfs /\ i' = i
    BY <1>2 DEF ClientInv, ClientTypes, handle_proofs, Serves, At
  <2>2. ClientTypes'
    BY <1>2, <2>1 DEF ClientInv, ClientTypes, handle_proofs, Labels, Job, driverVars
  <2>3. TodoInv' /\ ConnInv' /\ EngineInv'
    BY <1>2, <2>1 DEF ClientInv, ClientTypes, TodoInv, ConnInv, EngineInv, Target,
         OffsLeft, handle_proofs, Serves, driverVars
  <2> QED BY <2>2, <2>3 DEF ClientInv
<1> QED BY <1>1, <1>2

LEMMA CloseKeeps ==
  ASSUME ClientInv, pc \in {"stopped", "close"}, close_conn
  PROVE  ClientInv'
<1>1. pc' \in {"conn", "status"} /\ i \in Vdfs /\ i' \in Vdfs
  BY NextIndex DEF ClientInv, ClientTypes, NextConn, close_conn
<1>2. ClientTypes'
  BY <1>1 DEF ClientInv, ClientTypes, close_conn, Labels, Job, driverVars
<1>3. TodoInv' /\ ConnInv' /\ EngineInv'
  BY <1>1 DEF ClientInv, ClientTypes, TodoInv, ConnInv, EngineInv, Target,
       OffsLeft, close_conn, driverVars
<1> QED BY <1>2, <1>3 DEF ClientInv

LEMMA NoneRunningKeeps ==
  ASSUME ClientInv, NoneRunning
  PROVE  ClientInv'
<1>1. pc = "status" /\ pc' \in {"exit", "freq"} /\ running_mask' = {}
  BY DEF NoneRunning, At
<1>2. ClientTypes'
  BY <1>1 DEF ClientInv, ClientTypes, NoneRunning, Labels, Job, driverVars
<1>3. TodoInv' /\ ConnInv' /\ EngineInv'
  BY <1>1 DEF ClientInv, ClientTypes, TodoInv, ConnInv, EngineInv, Target,
       OffsLeft, NoneRunning, driverVars
<1> QED BY <1>2, <1>3 DEF ClientInv

LEMMA SkipValueKeeps ==
  ASSUME ClientInv, SkipValue
  PROVE  ClientInv'
<1>1. pc \in {"value", "next"} /\ pc' \in {"value", "freq"} /\ i' \in Vdfs
  BY NextIndex DEF ClientInv, NextValue, SkipValue, At
<1>2. ClientTypes'
  BY <1>1 DEF ClientInv, ClientTypes, SkipValue, clientVars, driverVars, Labels, Job
<1>3. TodoInv' /\ ConnInv' /\ EngineInv'
  BY <1>1 DEF ClientInv, TodoInv, ConnInv, EngineInv, Target, OffsLeft, clientVars,
       driverVars, SkipValue
<1> QED BY <1>2, <1>3 DEF ClientInv

LEMMA StatusKeeps ==
  ASSUME ClientInv, NEW ok \in BOOLEAN, read_hw_status(ok)
  PROVE  ClientInv'
<1>1. /\ pc = "status" /\ pc' = "value" /\ i' = 1 /\ 1 \in Vdfs
      /\ running_mask' = {j \in vdfs_mask : state[j] = "RUNNING"}
      /\ running_mask' \in SUBSET Vdfs
      /\ state' = state /\ init_done' = init_done /\ wrote' = wrote /\ stops' = stops
  BY HwClientAssumption DEF read_hw_status, At, Vdfs
<1>2. faults \in Nat /\ faults' \in Nat /\ faults' >= faults
  BY DEF ClientInv, ClientTypes, read_hw_status, Count
<1>3. eng' \in [Vdfs -> Job]
      /\ \A j \in Vdfs : eng'[j].init_done = eng[j].init_done
                         /\ eng'[j].stopping = eng[j].stopping
  <2>1. eng' = [j \in Vdfs |->
            IF j \notin running_mask' \/ ~ok THEN eng[j]
            ELSE [eng[j] EXCEPT !.fresh = FALSE]]
    BY DEF read_hw_status
  <2>2. eng \in [Vdfs -> Job]
    BY DEF ClientInv, ClientTypes
  <2> QED BY <2>1, <2>2 DEF Job
<1>4. ClientTypes'
  BY <1>1, <1>2, <1>3 DEF ClientInv, ClientTypes, Labels
<1>5. TodoInv' /\ ConnInv'
  BY <1>1 DEF ClientInv, ClientTypes, TodoInv, ConnInv, Target
<1>6. EngineInv'
  BY <1>1, <1>2, <1>3 DEF ClientInv, EngineInv, OffsLeft
<1> QED BY <1>4, <1>5, <1>6 DEF ClientInv

\* A value of an engine is looked at: its connection may come to idle, and then
\* its engine is stopped or restarted, or nothing is written.
LEMMA ValueKeeps ==
  ASSUME ClientInv, pc = "value", i \in running_mask, faults' = faults,
         UNCHANGED <<init_done, wrote, stops, running_mask, eng>>,
         state' = state \/ state' = [state EXCEPT ![i] = "IDLING"],
         \/ NextValue
         \/ pc' = "engine" /\ i' = i /\ todo' \in {Restart, Do(stop_hw_vdf(i), "next")}
  PROVE  ClientInv'
<1>0. i \in Vdfs /\ running_mask \in SUBSET Vdfs
      /\ \A j \in running_mask : state[j] \in {"RUNNING", "IDLING"} /\ init_done[j] = "yes"
  BY DEF ClientInv, ClientTypes, ConnInv, Target
<1>1. /\ state' \in [Vdfs -> {"CLOSED", "WAITING", "RUNNING", "IDLING", "STOPPED"}]
      /\ \A j \in Vdfs : \/ state'[j] = state[j]
                         \/ state'[j] = "IDLING" /\ state[j] \in {"RUNNING", "IDLING"}
  BY <1>0 DEF ClientInv, ClientTypes
<1>2. i' \in Vdfs /\ pc' \in {"engine", "value", "freq"}
      /\ (pc' # "engine" => pc' \in {"value", "freq"})
  BY <1>0, NextIndex DEF NextValue, ClientInv
<1>3. ClientTypes'
  BY <1>1, <1>2 DEF ClientInv, ClientTypes, Labels
<1>4. TodoInv' /\ (\A j \in Vdfs : OffsLeft(j)' = 0) /\ Target' \in {"value", "next", "freq"}
  <2>1. CASE pc' # "engine"
    BY <1>2, <2>1 DEF TodoInv, OffsLeft, Target
  <2>2. CASE pc' = "engine" /\ todo' = Restart
    <3>1. /\ Restart.left \in Seq(Permitted(init_done')) /\ Restart.left # << >>
          /\ Restart = [left |-> Restart.left, next |-> "next"]
      BY <1>0, RestartPermitted DEF ClientInv
    <3> DEFINE ws == Restart.left
    <3>2. ws \in Seq(Permitted(init_done')) /\ ws # << >>
          /\ todo' = [left |-> ws, next |-> "next"]
      BY <2>2, <3>1
    <3> HIDE DEF ws
    <3> QED BY <2>2, <3>2, BeginWrites
  <2>3. CASE pc' = "engine" /\ todo' = Do(stop_hw_vdf(i), "next")
    <3>1. stop_hw_vdf(i) \in Seq(Permitted(init_done')) /\ stop_hw_vdf(i) # << >>
      BY <1>0, StopPermitted
    <3>2. todo' = [left |-> stop_hw_vdf(i), next |-> "next"]
      BY <2>3 DEF Do
    <3> QED BY <2>3, <3>1, <3>2, BeginWrites
  <2> QED BY <2>1, <2>2, <2>3 DEF NextValue
<1>5. ConnInv'
  <2>1. pc' # "exit" /\ Target' \notin {"ok", "stopped", "close"}
    BY <1>2, <1>4
  <2> QED BY <1>0, <1>1, <1>4, <2>1 DEF ClientInv, ConnInv
<1>6. EngineInv'
  BY <1>4 DEF ClientInv, EngineInv, OffsLeft
<1> QED BY <1>3, <1>4, <1>5, <1>6 DEF ClientInv

LEMMA AutoFreqKeeps ==
  ASSUME ClientInv, AutoFreq
  PROVE  ClientInv'
<1>0. /\ pc = "freq" /\ pc' \in {"conn", "engine"} /\ i' = 1 /\ 1 \in Vdfs
      /\ running_mask' = {} /\ faults' = faults
      /\ UNCHANGED <<state, init_done, wrote, stops, eng>>
  BY HwClientAssumption DEF AutoFreq, At, Vdfs, driverVars
<1>1. ClientTypes'
  BY <1>0 DEF ClientInv, ClientTypes, Labels
<1>2. TodoInv' /\ (\A j \in Vdfs : OffsLeft(j)' = 0) /\ Target' = "conn"
  <2>1. CASE pc' = "conn"
    BY <2>1 DEF TodoInv, OffsLeft, Target
  <2>2. CASE pc' = "engine"
    <3>1. running_mask \in SUBSET Vdfs /\ \A j \in running_mask : init_done'[j] = "yes"
      BY <1>0 DEF ClientInv, ClientTypes, ConnInv, Target
    <3>2. adjust_hw_freq(running_mask, "up") \in Seq(Permitted(init_done'))
          /\ adjust_hw_freq(running_mask, "up") # << >>
      BY <3>1, AdjustPermitted
    <3>3. todo' = [left |-> adjust_hw_freq(running_mask, "up"), next |-> "conn"]
      BY <2>2 DEF AutoFreq, Do
    <3> QED BY <2>2, <3>2, <3>3, BeginWrites
  <2> QED BY <1>0, <2>1, <2>2
<1>3. ConnInv'
  BY <1>0, <1>2 DEF ClientInv, ConnInv
<1>4. EngineInv'
  BY <1>0, <1>2 DEF ClientInv, EngineInv, OffsLeft
<1> QED BY <1>1, <1>2, <1>3, <1>4 DEF ClientInv

\* The signal, and init_hw's steps, which only count failures.
LEMMA OutsideKeeps ==
  ASSUME ClientInv, faults' \in Nat, faults' >= faults,
         UNCHANGED <<pc, i, state, init_done, wrote, stops, running_mask, todo, eng>>
  PROVE  ClientInv'
<1>1. ClientTypes' /\ TodoInv' /\ ConnInv'
  BY DEF ClientInv, ClientTypes, TodoInv, ConnInv, Target
<1>2. \A j \in Vdfs : OffsLeft(j) \in Nat
  BY LenProperties DEF ClientInv, TodoInv, OffsLeft
<1>3. \A j \in Vdfs : OffsLeft(j)' = OffsLeft(j)
  BY DEF OffsLeft
<1>4. EngineInv'
  BY <1>2, <1>3 DEF ClientInv, ClientTypes, EngineInv
<1> QED BY <1>1, <1>4 DEF ClientInv

\* The emulator's threads do not start or stop a job.
LEMMA ThreadKeeps ==
  ASSUME ClientInv, NEW k \in Vdfs, ThreadStarts(k) \/ ThreadRuns(k)
  PROVE  ClientInv'
<1>1. faults' = faults /\ UNCHANGED <<pc, i, state, init_done, wrote, stops, running_mask, todo>>
  BY DEF ThreadStarts, ThreadRuns, driverVars, clientVars
<1>2. eng' \in [Vdfs -> Job]
      /\ \A j \in Vdfs : eng'[j].init_done = eng[j].init_done
                         /\ eng'[j].stopping = eng[j].stopping
  <2>1. eng \in [Vdfs -> Job]
    BY DEF ClientInv, ClientTypes
  <2>2. CASE ThreadStarts(k)
    <3> DEFINE e == eng[k]
               f == [init_done |-> e.init_done, stopping |-> e.stopping, running |-> TRUE,
                     new |-> e.new - 1, in_loop |-> e.in_loop + 1, fresh |-> e.fresh]
    <3>1. e \in Job
      BY <2>1
    <3>2. eng' = [eng EXCEPT ![k] = f]
      BY <2>1, <2>2, <3>1 DEF ThreadStarts, Job
    <3>3. f \in Job /\ f.init_done = e.init_done /\ f.stopping = e.stopping
      BY <3>1 DEF Job
    <3> HIDE DEF f
    <3>4. eng' \in [Vdfs -> Job]
      BY <2>1, <3>2, <3>3
    <3>5. ASSUME NEW j \in Vdfs
          PROVE  eng'[j].init_done = eng[j].init_done /\ eng'[j].stopping = eng[j].stopping
      BY <2>1, <3>2, <3>3
    <3> QED BY <3>4, <3>5
  <2>3. CASE ThreadRuns(k) /\ eng[k].stopping
    <3> DEFINE mid == [eng EXCEPT ![k].in_loop = @ - 1]
    <3>1. eng' = [mid EXCEPT ![k].running = FALSE]
      BY <2>3, Zenon DEF ThreadRuns
    <3>2. mid \in [Vdfs -> Job]
          /\ \A j \in Vdfs : mid[j].init_done = eng[j].init_done
                             /\ mid[j].stopping = eng[j].stopping
      BY <2>1 DEF Job
    <3> HIDE DEF mid
    <3> QED BY <3>1, <3>2 DEF Job
  <2>4. CASE ThreadRuns(k) /\ ~eng[k].stopping
    BY <2>1, <2>4 DEF ThreadRuns, Job
  <2> QED BY <2>2, <2>3, <2>4
<1>3. ClientTypes' /\ TodoInv' /\ ConnInv'
  BY <1>1, <1>2 DEF ClientInv, ClientTypes, TodoInv, ConnInv, Target
<1>4. EngineInv'
  BY <1>1, <1>2 DEF ClientInv, EngineInv, OffsLeft
<1> QED BY <1>3, <1>4 DEF ClientInv

\* One write less leaves the loop on its way to the same place.
LEMMA DoneKeeps ==
  ASSUME ClientInv, pc = "engine", Done, i' = i, init_done' = init_done
  PROVE  /\ TodoInv' /\ pc' \in Labels \ {"exit"} /\ Target' = Target
         /\ \A j \in Vdfs : /\ OffsLeft(j) \in Nat
                            /\ OffsLeft(j)' = IF OffsLeft(j) = 0 THEN 0 ELSE OffsLeft(j) - 1
<1>1. /\ todo \in [left : Seq(Permitted(init_done)), next : {"ok", "stopped", "close", "conn", "next"}]
      /\ todo.left # << >> /\ todo.left \in Seq(Permitted(init_done))
      /\ Len(todo.left) \in Nat /\ Len(todo.left) > 0
      /\ todo.next \in {"stopped", "close"} =>
         Len(todo.left) <= 2 /\ todo.left \in Seq({[op |-> "off", j |-> i]})
  BY LenProperties, EmptySeq DEF ClientInv, TodoInv
<1>2. CASE Len(todo.left) = 1
  <2>1. pc' = todo.next /\ pc' # "engine"
    BY <1>1, <1>2 DEF Done
  <2>2. TodoInv' /\ pc' \in Labels \ {"exit"} /\ Target' = Target
    BY <1>1, <2>1 DEF TodoInv, Labels, Target
  <2>3. \A j \in Vdfs : OffsLeft(j)' = 0 /\ OffsLeft(j) \in {0, 1}
    BY <1>2, <2>1 DEF OffsLeft
  <2> QED BY <2>2, <2>3
<1>3. CASE Len(todo.left) # 1
  <2>1. pc' = "engine" /\ todo'.left = Tail(todo.left) /\ todo'.next = todo.next
        /\ todo' = [left |-> Tail(todo.left), next |-> todo.next]
    BY <1>1, <1>3 DEF Done
  <2>2. /\ Tail(todo.left) \in Seq(Permitted(init_done)) /\ Len(Tail(todo.left)) = Len(todo.left) - 1
        /\ (todo.next \in {"stopped", "close"} => Tail(todo.left) \in Seq({[op |-> "off", j |-> i]}))
    BY <1>1, HeadTailProperties
  <2>3. Tail(todo.left) # << >>
    <3> DEFINE n == Len(todo.left)
               m == Len(Tail(todo.left))
    <3>0. n \in Nat /\ n > 0 /\ n # 1 /\ m = n - 1
      BY <1>1, <1>3, <2>2
    <3> HIDE DEF n, m
    <3>1. m > 0
      BY <3>0
    <3>2. Len(Tail(todo.left)) > 0
      BY <3>1 DEF m
    <3> QED BY <2>2, <3>2, EmptySeq
  <2>4. todo' \in [left : Seq(Permitted(init_done')), next : {"ok", "stopped", "close", "conn", "next"}]
    BY <1>1, <2>1, <2>2
  <2>5. todo'.left # << >> /\ (todo'.next \in {"stopped", "close"} =>
          Len(todo'.left) <= 2 /\ todo'.left \in Seq({[op |-> "off", j |-> i']}))
    <3>1. todo.next \in {"stopped", "close"} => Len(todo'.left) <= 2
      BY <1>1, <2>1, <2>2
    <3> QED BY <2>1, <2>2, <2>3, <3>1, Zenon
  <2>6. TodoInv' /\ pc' \in Labels \ {"exit"} /\ Target' = Target
    BY <2>1, <2>4, <2>5 DEF TodoInv, Labels, Target
  <2>7. ASSUME NEW j \in Vdfs
        PROVE  /\ OffsLeft(j) \in Nat
               /\ OffsLeft(j)' = IF OffsLeft(j) = 0 THEN 0 ELSE OffsLeft(j) - 1
    BY <1>1, <2>1, <2>2 DEF OffsLeft
  <2> QED BY <2>6, <2>7
<1> QED BY <1>2, <1>3

\* A write to an engine, or to the board: a job is begun only for an engine with
\* a proof state, and a stop's write that fails is one failure.
LEMMA EngineWriteKeeps ==
  ASSUME ClientInv, NEW ok \in BOOLEAN, EngineWrite(ok)
  PROVE  ClientInv'
<1> DEFINE w == todo.left[1]
<1>0. /\ pc = "engine" /\ i' = i /\ i \in Vdfs
      /\ UNCHANGED <<state, init_done, wrote, stops, running_mask>>
      /\ faults \in Nat /\ faults' = (IF ok THEN faults ELSE faults + 1)
      /\ w.op \in {"off", "on", "job"} /\ eng \in [Vdfs -> Job]
  BY DEF ClientInv, ClientTypes, EngineWrite, clientVars, Count
<1>1. /\ w \in Permitted(init_done)
      /\ todo.next \in {"stopped", "close"} => w = [op |-> "off", j |-> i]
  <2>1. /\ todo.left \in Seq(Permitted(init_done)) /\ todo.left # << >>
        /\ todo.next \in {"stopped", "close"} => todo.left \in Seq({[op |-> "off", j |-> i]})
    BY <1>0 DEF ClientInv, TodoInv
  <2>2. 1 \in 1 .. Len(todo.left)
    BY <2>1, LenProperties, EmptySeq
  <2>3. w \in Permitted(init_done)
    BY <2>1, <2>2, ElementOfSeq
  <2>4. todo.next \in {"stopped", "close"} => w \in {[op |-> "off", j |-> i]}
    BY <2>1, <2>2, ElementOfSeq
  <2> QED BY <2>3, <2>4
<1>2. CASE w.op = "job" /\ eng[w.j].running
  <2>1. /\ ok /\ pc' = pc /\ todo' = todo /\ w.j \in Vdfs /\ init_done[w.j] = "yes"
        /\ eng' = [eng EXCEPT ![w.j].stopping = TRUE]
    BY <1>1, <1>2 DEF EngineWrite, Permitted
  <2>2. eng' \in [Vdfs -> Job] /\ \A j \in Vdfs : j # w.j => eng'[j] = eng[j]
    BY <1>0, <2>1 DEF Job
  <2>3. ClientTypes' /\ TodoInv' /\ ConnInv'
    BY <1>0, <2>1, <2>2 DEF ClientInv, ClientTypes, TodoInv, ConnInv, Target
  <2>4. EngineInv'
    BY <1>0, <2>1, <2>2 DEF ClientInv, EngineInv, OffsLeft
  <2> QED BY <2>3, <2>4 DEF ClientInv
<1>3. CASE ~(w.op = "job" /\ eng[w.j].running)
  <2>1. /\ Done
        /\ eng' = IF ~ok THEN eng ELSE [eng EXCEPT ![w.j] =
                    CASE w.op = "off" -> disable_engine(@)
                      [] w.op = "on" -> enable_engine(@)
                      [] w.op = "job" -> start_job(@)]
    BY <1>3 DEF EngineWrite
  <2>2. /\ TodoInv' /\ pc' \in Labels \ {"exit"} /\ Target' = Target
        /\ \A j \in Vdfs : /\ OffsLeft(j) \in Nat
                           /\ OffsLeft(j)' = IF OffsLeft(j) = 0 THEN 0 ELSE OffsLeft(j) - 1
    BY <1>0, <2>1, DoneKeeps
  <2>3. /\ eng' \in [Vdfs -> Job]
        /\ \A j \in Vdfs : j # w.j \/ ~ok => eng'[j] = eng[j]
        /\ \A j \in Vdfs : j = w.j /\ ok /\ w.op = "off" =>
             (eng'[j].init_done => eng'[j].stopping)
    <3>1. CASE ~ok
      BY <1>0, <2>1, <3>1
    <3>2. CASE ok /\ w.op = "off"
      <4>1. eng' = [eng EXCEPT ![w.j] = disable_engine(@)]
        BY <2>1, <3>2
      <4>2. \A e \in Job : disable_engine(e) \in Job
                           /\ (disable_engine(e).init_done => disable_engine(e).stopping)
        BY DEF disable_engine, Job
      <4> QED BY <1>0, <3>2, <4>1, <4>2
    <3>3. CASE ok /\ w.op = "on"
      <4>1. eng' = [eng EXCEPT ![w.j] = enable_engine(@)]
        BY <2>1, <3>3
      <4>2. \A e \in Job : enable_engine(e) \in Job
        BY DEF enable_engine, Job
      <4> QED BY <1>0, <3>3, <4>1, <4>2
    <3>4. CASE ok /\ w.op = "job"
      <4>1. eng' = [eng EXCEPT ![w.j] = start_job(@)]
        BY <2>1, <3>4
      <4>2. ASSUME NEW e \in Job PROVE start_job(e) \in Job
        <5> DEFINE g == [e EXCEPT !.init_done = TRUE, !.stopping = FALSE]
                   h == [g EXCEPT !.new = @ + 1]
        <5>1. g \in Job
          BY DEF Job
        <5>2. start_job(e) = [h EXCEPT !.fresh = FALSE]
          BY Zenon DEF start_job
        <5> HIDE DEF g
        <5>3. h \in Job
          BY <5>1 DEF Job
        <5> HIDE DEF h
        <5> QED BY <5>2, <5>3 DEF Job
      <4> QED BY <1>0, <3>4, <4>1, <4>2
    <3> QED BY <1>0, <3>1, <3>2, <3>3, <3>4
  <2>4. ClientTypes'
    BY <1>0, <2>2, <2>3 DEF ClientInv, ClientTypes
  <2>5. ConnInv'
    BY <1>0, <2>2 DEF ClientInv, ConnInv
  <2>6. ASSUME NEW j \in Vdfs, init_done'[j] # "yes"
        PROVE  (eng'[j].init_done => eng'[j].stopping) \/ faults' + OffsLeft(j)' >= 2
    <3>1. (eng[j].init_done => eng[j].stopping) \/ faults + OffsLeft(j) >= 2
      BY <1>0, <2>6 DEF ClientInv, EngineInv
    <3>2. OffsLeft(j) # 0 => w.op = "off" /\ w.j = j
      BY <1>1 DEF OffsLeft
    <3>3. w.op \in {"on", "job"} => w.j # j
      BY <1>0, <1>1, <2>6 DEF Permitted
    <3>4. CASE ~ok
      BY <1>0, <2>2, <2>3, <3>1, <3>4
    <3>5. CASE ok /\ j = w.j
      BY <1>0, <2>3, <3>3, <3>5
    <3>6. CASE ok /\ j # w.j
      BY <1>0, <2>2, <2>3, <3>1, <3>2, <3>6
    <3> QED BY <3>4, <3>5, <3>6
  <2>7. EngineInv'
    BY <2>6 DEF EngineInv
  <2> QED BY <2>2, <2>4, <2>5, <2>7 DEF ClientInv
<1> QED BY <1>2, <1>3

LEMMA AdjustFreqKeeps ==
  ASSUME ClientInv, NEW ok \in BOOLEAN, AdjustFreq(ok)
  PROVE  ClientInv'
<1> DEFINE w == todo.left[1]
<1>0. /\ pc = "engine" /\ i' = i /\ eng' = eng
      /\ UNCHANGED <<state, init_done, wrote, stops, running_mask>>
      /\ faults \in Nat /\ w.op \in {"up", "down"}
  BY DEF ClientInv, ClientTypes, AdjustFreq, clientVars
<1>1. todo.next \notin {"stopped", "close"}
  <2>1. SUFFICES ASSUME todo.next \in {"stopped", "close"} PROVE FALSE
    OBVIOUS
  <2>2. todo.left \in Seq({[op |-> "off", j |-> i]}) /\ todo.left # << >>
    BY <1>0, <2>1 DEF ClientInv, TodoInv
  <2>3. 1 \in 1 .. Len(todo.left)
    BY <2>2, LenProperties, EmptySeq
  <2>4. w \in {[op |-> "off", j |-> i]}
    BY <2>2, <2>3, ElementOfSeq
  <2> QED BY <1>0, <2>4
<1>2. CASE Count(ok) /\ Done
  <2>1. /\ TodoInv' /\ pc' \in Labels \ {"exit"} /\ Target' = Target
        /\ \A j \in Vdfs : OffsLeft(j)' = 0 /\ OffsLeft(j) = 0
    BY <1>0, <1>1, <1>2, DoneKeeps DEF OffsLeft
  <2>2. faults' \in Nat /\ faults' >= faults
    BY <1>0, <1>2 DEF Count
  <2>3. ClientTypes' /\ ConnInv'
    BY <1>0, <2>1, <2>2 DEF ClientInv, ClientTypes, ConnInv
  <2>4. EngineInv'
    BY <1>0, <2>1, <2>2 DEF ClientInv, EngineInv
  <2> QED BY <2>1, <2>3, <2>4 DEF ClientInv
<1>3. CASE pc' = "undefined" /\ faults' = faults
  <2>1. ClientTypes' /\ TodoInv'
    BY <1>0, <1>3 DEF ClientInv, ClientTypes, TodoInv, Labels
  <2>2. ConnInv'
    BY <1>0, <1>3 DEF ClientInv, ConnInv, Target
  <2>3. EngineInv'
    BY <1>0, <1>1, <1>3 DEF ClientInv, EngineInv, OffsLeft
  <2> QED BY <2>1, <2>2, <2>3 DEF ClientInv
<1> QED BY <1>2, <1>3 DEF AdjustFreq

LEMMA NextKeepsClient ==
  ASSUME ClientInv, [Next]_vars
  PROVE  ClientInv'
<1>0. faults \in Nat
  BY DEF ClientInv, ClientTypes
<1>1. CASE Startup
  <2>1. faults' \in Nat /\ faults' >= faults
    <3>1. \A ok : Count(ok) => faults' \in Nat /\ faults' >= faults
      BY <1>0 DEF Count
    <3>2. \E ok : Count(ok)
      BY <1>1 DEF Startup, init_hw, Open, Reset, SetPLLFrequency, SetBoardVoltage,
         GetPower, SetTempAlarms, Close
    <3> QED BY <3>1, <3>2
  <2> QED BY <1>1, <2>1, OutsideKeeps DEF Startup, clientVars
<1>2. CASE Signal \/ UNCHANGED vars
  BY <1>0, <1>2, OutsideKeeps DEF Signal, vars, driverVars, clientVars
<1>3. CASE \E j \in Vdfs : ThreadStarts(j) \/ ThreadRuns(j)
  BY <1>3, ThreadKeeps
<1>4. CASE SkipConn \/ NoData
  BY <1>4, NextConnKeeps DEF SkipConn, NoData, Serves, At, driverVars
<1>5. CASE Connect \/ Challenge \/ WriteOK \/ handle_proofs
  BY <1>5, ConnectKeeps, ChallengeKeeps, WriteOKKeeps, handle_proofsKeeps
<1>6. CASE GlobalStop \/ EndOfStream \/ BadData \/ StopRequested
  BY <1>6, StopConnKeeps, ThrowKeeps
     DEF GlobalStop, EndOfStream, BadData, StopRequested, Serves, At
<1>7. CASE ReadAck \/ CloseEnded
  BY <1>7, CloseKeeps, StopConnKeeps, ThrowKeeps DEF ReadAck, CloseEnded, At
<1>8. CASE NoneRunning \/ SkipValue \/ AutoFreq
  BY <1>8, NoneRunningKeeps, SkipValueKeeps, AutoFreqKeeps
<1>9. CASE AddValue \/ BadValue \/ Completed
  BY <1>9, ValueKeeps DEF AddValue, BadValue, Completed, At, driverVars
<1>10. CASE \E ok \in BOOLEAN : read_hw_status(ok) \/ EngineWrite(ok) \/ AdjustFreq(ok)
  BY <1>10, StatusKeeps, EngineWriteKeeps, AdjustFreqKeeps
<1> QED BY <1>1, <1>2, <1>3, <1>4, <1>5, <1>6, <1>7, <1>8, <1>9, <1>10
        DEF Next, LoopStep

----------------------------------------------------------------------------

\* When the client has ended, no engine computes and no proof state is left,
\* unless two writes to the board have failed: for any number of engines, any
\* order of stops, restarts and changes of frequency.
THEOREM EnginesAreOffAtExit == Spec => []EnginesOffAtExit
<1>1. ClientInv => EnginesOffAtExit
  BY DEF ClientInv, ClientTypes, ConnInv, EngineInv, OffsLeft, EnginesOffAtExit
<1> QED BY <1>1, InitClient, NextKeepsClient, PTL DEF Spec

\* A connection that was told STOP is written to again only when it is a new one,
\* or with one more STOP when its stream ends before ACK, and then it is closed.
THEOREM OnlyStopAfterStop == Spec => OnlyStopFollowsStop
<1>1. ASSUME ClientInv, [Next]_vars
      PROVE  [\A j \in Vdfs : stops[j] > 0 =>
                \/ wrote'[j] = "STOP" /\ stops'[j] = stops[j]
                \/ /\ i = j /\ pc = "stopped" /\ stops[j] = 1
                   /\ wrote'[j] = "STOP" /\ stops'[j] = 2
                   /\ pc' \in {"close", "undefined"}
                \/ state[j] = "CLOSED" /\ wrote'[j] = "none" /\ stops'[j] = 0]_vars
  <2>1. SUFFICES ASSUME NEW j \in Vdfs, stops[j] > 0
        PROVE  \/ wrote'[j] = "STOP" /\ stops'[j] = stops[j]
               \/ /\ i = j /\ pc = "stopped" /\ stops[j] = 1
                  /\ wrote'[j] = "STOP" /\ stops'[j] = 2
                  /\ pc' \in {"close", "undefined"}
               \/ state[j] = "CLOSED" /\ wrote'[j] = "none" /\ stops'[j] = 0
    OBVIOUS
  <2>2. /\ wrote[j] = "STOP" /\ state[j] \in {"STOPPED", "CLOSED"} /\ init_done[j] # "yes"
        /\ i \in Vdfs /\ stops \in [Vdfs -> Nat] /\ wrote \in [Vdfs -> {"none", "data", "STOP"}]
    BY <1>1, <2>1 DEF ClientInv, ClientTypes, ConnInv
  <2>3. CASE UNCHANGED <<wrote, stops>>
    BY <2>2, <2>3
  <2>4. CASE WriteOK
    BY <1>1, <2>2, <2>4 DEF WriteOK, Throw, clientVars, At, ClientInv, ConnInv, Target
  <2>5. CASE handle_proofs
    BY <2>2, <2>5 DEF handle_proofs, Serves, Throw, clientVars
  <2>6. CASE Connect
    BY <2>2, <2>6 DEF Connect
  <2>7. CASE GlobalStop \/ EndOfStream \/ StopRequested
    BY <2>2, <2>7 DEF GlobalStop, EndOfStream, StopRequested, Serves, stop_conn, Throw, clientVars
  <2>8. CASE ReadAck /\ stop_conn("close")
    <3>1. pc = "stopped" /\ state[i] = "STOPPED" /\ stops[i] = 1 /\ init_done[i] # "yes"
      BY <1>1, <2>2, <2>8 DEF ReadAck, At, ClientInv, ConnInv, Target
    <3> QED BY <2>2, <2>8, <3>1 DEF stop_conn
  <2> QED BY <1>1, <2>3, <2>4, <2>5, <2>6, <2>7, <2>8
     DEF Next, LoopStep, Startup, Signal, ThreadStarts, ThreadRuns, vars, clientVars,
         SkipConn, NoData, BadData, Challenge, ReadAck, CloseEnded, close_conn, Throw,
         NoneRunning, SkipValue, AutoFreq, AddValue, BadValue, Completed, read_hw_status,
         EngineWrite, AdjustFreq
<1> QED BY <1>1, InitClient, NextKeepsClient, PTL DEF Spec, OnlyStopFollowsStop

=============================================================================
