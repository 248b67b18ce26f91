----------------------------- MODULE HwDriver ------------------------------
(***************************************************************************)
(* The driver of the VDF board: init_hw opens the FT4222 bridge, programs  *)
(* the PLL, the voltage and the alarms, and every call of the bridge's     *)
(* library may fail.                                                       *)
(*                                                                         *)
(* The bridge's SPI interface works either as an SPI or as an I2C master,  *)
(* and the driver remembers which in active_mode.  What the bridge itself  *)
(* is set to (bridge) and the board's reset line are external.             *)
(***************************************************************************)
EXTENDS Integers, Sequences

CONSTANTS
  VALID_PLL_FREQS,   \* entries of the frequency table, numbered from 0
  StartIdx,          \* the entry of the frequency that init_hw is given
  MaxFaults          \* bound: failing calls of the library

ASSUME HwDriverAssumption ==
  /\ VALID_PLL_FREQS \in Nat \ {0} /\ StartIdx \in 0 .. VALID_PLL_FREQS - 1
  /\ MaxFaults \in Nat

VARIABLES
  phase,          \* how far init_hw is
  spi_ft_handle, gpio_ft_handle,   \* not NULL
  active_mode, bridge,
  reset_line,     \* "low" holds the chip in reset
  freq_idx,
  voltage_set,
  faults

driverVars == <<phase, spi_ft_handle, gpio_ft_handle, active_mode, bridge,
                reset_line, freq_idx, voltage_set, faults>>
boardVars == <<reset_line, freq_idx, voltage_set>>

IsOpen == spi_ft_handle /\ gpio_ft_handle

\* One more call has failed, or none has.
Count(ok) ==
  /\ ok \/ faults < MaxFaults
  /\ faults' = IF ok THEN faults ELSE faults + 1

----------------------------------------------------------------------------

\* Mutant: the mode is remembered before the library's calls are checked.
SetModeEarly(mode, ok) ==
  /\ active_mode' = mode
  /\ \/ ok /\ bridge' = mode
     \/ ~ok /\ mode # active_mode /\ bridge' \in {bridge, "none"}
  /\ mode = active_mode => ok

\* SetMode: a mode is left, the new one is entered, and each call of the
\* library may be the one that fails.
SetMode(mode, ok) ==
  IF mode = active_mode THEN ok /\ UNCHANGED <<active_mode, bridge>>
  ELSE \/ ok /\ active_mode' = mode /\ bridge' = mode
       \/ /\ ~ok /\ active_mode # "none"              \* FT4222_UnInitialize
          /\ UNCHANGED <<active_mode, bridge>>
       \/ /\ ~ok /\ active_mode' = "none"             \* ..._Init
          /\ bridge' = IF active_mode = "none" THEN bridge ELSE "none"
       \/ /\ ~ok /\ mode = "spi"                      \* SetCS, SetDrivingStrength
          /\ active_mode' = "none" /\ bridge' = "spi"

\* A device is looked for; without one nothing is opened.
OpenClk(found) ==
  /\ ~found
  /\ UNCHANGED <<spi_ft_handle, gpio_ft_handle, active_mode, bridge>>

\* The bridge's two handles, set up one after the other.
OpenHandles(ok) ==
  \/ /\ ok /\ spi_ft_handle' = TRUE /\ gpio_ft_handle' = TRUE
     /\ SetMode("spi", TRUE)
  \/ /\ ~ok /\ spi_ft_handle' \in BOOLEAN
     /\ gpio_ft_handle' \in {FALSE, spi_ft_handle'}
     /\ \/ UNCHANGED <<active_mode, bridge>>
        \/ gpio_ft_handle' /\ \E done \in BOOLEAN : SetMode("spi", done)

Open(ok) ==
  /\ phase = "closed" /\ Count(ok)
  /\ OpenHandles(ok) \/ OpenClk(ok)
  /\ phase' = IF ok THEN "reset" ELSE "failed"
  /\ UNCHANGED boardVars

\* What GPIO2 may be like after it was driven, or not, and after it was let go.
SetGPIO(line, value, ok) == IF ok THEN {value} ELSE {line, "low"}
TriGPIO(line) == {line}

\* VdfDriver::Reset pulls GPIO2 low, drives it high and lets go of it; where it
\* fails it returns, and SetPLLFrequency does not look at its result.
ResetLine(ok) ==
  \/ reset_line' \in TriGPIO("high")                \* ok, or TriGPIO fails
  \/ ~ok /\ reset_line' \in SetGPIO("low", "high", FALSE)
  \/ ~ok /\ reset_line' \in SetGPIO(reset_line, "low", FALSE)

\* SetPLLFrequency's first part in init_hw, as entry_index is 0.
Reset(ok) ==
  /\ phase = "reset" /\ Count(ok)
  /\ ResetLine(ok)
  /\ phase' = "pll"
  /\ UNCHANGED <<spi_ft_handle, gpio_ft_handle, active_mode, bridge, freq_idx,
                 voltage_set>>

\* WriteRaw and ReadRaw set the bridge's mode before the transfer.
SpiTransfer(ok) ==
  \E done \in BOOLEAN : SetMode("spi", done) /\ (ok => done)

\* The dividers are written, and nobody looks whether they were; then the
\* acknowledgement and the lock are waited for, five reads each.  Only when both
\* come, which a chip in reset does not give, the new entry is remembered.
ProgramPLL(idx, ok, locked) ==
  /\ locked => reset_line' = "high"
  /\ ok /\ reset_line' = "high" => locked
  /\ SpiTransfer(ok \/ locked)
  /\ freq_idx' = IF locked THEN idx ELSE freq_idx

\* SetPLLFrequency(freq, 0): the first entry that is not below the frequency.
SetPLLFrequency(ok) ==
  /\ phase = "pll" /\ Count(ok)
  /\ UNCHANGED <<spi_ft_handle, gpio_ft_handle, reset_line, voltage_set>>
  /\ \E locked \in BOOLEAN :
       /\ ProgramPLL(StartIdx, ok, locked)
       /\ phase' = IF locked THEN "voltage" ELSE "failed"

\* Registers behind the I2C bus; too few bytes are a failure too.
i2c_TransmitX(ok) ==
  \E done \in BOOLEAN : SetMode("i2c", done) /\ (ok => done)
I2CWriteReg(ok) == i2c_TransmitX(ok)
I2CReadReg(ok) == i2c_TransmitX(ok)

\* SetBoardVoltage: a voltage out of range is refused before anything is
\* written, and init_hw gives up on either failure.
SetBoardVoltage(ok) ==
  /\ phase = "voltage" /\ Count(ok)
  /\ I2CWriteReg(ok)
  /\ voltage_set' = ok
  /\ phase' = IF ok THEN "sense" ELSE "failed"
  /\ UNCHANGED <<spi_ft_handle, gpio_ft_handle, reset_line, freq_idx>>

\* GetBoardVoltage, GetBoardCurrent and GetPower; failures are only logged.
GetPower(ok) ==
  /\ phase = "sense" /\ Count(ok)
  /\ I2CReadReg(ok)
  /\ phase' = "pvt"
  /\ UNCHANGED <<spi_ft_handle, gpio_ft_handle, boardVars>>

\* EnablePvt and the two alarms; nobody looks at a register write's result.
SetTempAlarms(ok) ==
  /\ phase = "pvt" /\ Count(ok)
  /\ SpiTransfer(ok)
  /\ phase' = "ready"
  /\ UNCHANGED <<spi_ft_handle, gpio_ft_handle, boardVars>>

\* Close, when both handles are open and again by the destructor.
Close(ok) ==
  /\ phase = "failed" /\ Count(ok)
  /\ \/ ok /\ spi_ft_handle' = FALSE /\ gpio_ft_handle' = FALSE
     \/ ~ok /\ spi_ft_handle' \in {FALSE, spi_ft_handle}
            /\ gpio_ft_handle' = gpio_ft_handle
  /\ bridge' = IF ok \/ ~spi_ft_handle' THEN "none" ELSE bridge
  /\ phase' = "deleted"
  /\ UNCHANGED <<active_mode, boardVars>>

init_hw ==
  \E ok \in BOOLEAN :
    \/ Open(ok) \/ Reset(ok) \/ SetPLLFrequency(ok) \/ SetBoardVoltage(ok)
    \/ GetPower(ok) \/ SetTempAlarms(ok) \/ Close(ok)

DriverInit ==
  /\ phase = "closed"
  /\ spi_ft_handle = FALSE /\ gpio_ft_handle = FALSE
  /\ active_mode = "none" /\ bridge = "none"
  /\ reset_line \in {"low", "high"}   \* some boards drive GPIO2 low at first
  /\ freq_idx = 0 /\ voltage_set = FALSE
  /\ faults = 0

----------------------------------------------------------------------------
\* The mode the driver remembers is the one the bridge is in, whichever call
\* of SetMode failed: a transfer never goes out in the other mode.  Although
\* Reset's result is ignored, a board that init_hw hands over is out of reset,
\* open, and its voltage set.  Later a lowering to entry 0 resets it again and
\* may leave it in reset; then entry 1 is still the one remembered, whatever is
\* tried meanwhile, so that the next lowering comes back to the reset.
BoardMatches ==
  /\ active_mode # "none" /\ phase # "deleted" => bridge = active_mode
  /\ phase \in {"voltage", "sense", "pvt"} => reset_line = "high"
  /\ phase = "ready" => /\ voltage_set /\ IsOpen
                        /\ reset_line = "high" \/ freq_idx = 1

=============================================================================
