---------------------------- MODULE PowerManager -----------------------------
(***************************************************************************)
(* The execution state of the emulator (DLX_exec_state and FAULT_OR_WARN in *)
(* src/include/dlx_defs.h) and the device that turns the machine off        *)
(* (src/src/devices/dlx_power_manager.c).                                   *)
(***************************************************************************)

CONSTANT StrictMode   \* config->strict_mode

ASSUME StrictModeAssumption == StrictMode \in BOOLEAN

VARIABLE execState

ExecStates == {"RUNNING", "HALT", "FAULT", "SIGNAL", "TIMEOUT", "CRITICAL"}

PowerInit == execState = "RUNNING"

\* FAULT_OR_WARN: a program error stops the machine in strict mode only.
FaultOrWarn == execState' = IF StrictMode THEN "FAULT" ELSE execState

\* A write, of any value and width, turns the machine off.
PowerManagerWrite == execState' = "HALT"
=============================================================================
