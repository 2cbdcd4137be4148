--------------------------- MODULE StartupCircuit ----------------------------
(***************************************************************************)
(* The Startup Circuit (src/src/devices/dlx_startup_circuit.c): a flip-flop *)
(* set at reset and cleared by any write, which tells an entry at address 0 *)
(* caused by the reset from one caused by a trap.                           *)
(***************************************************************************)
EXTENDS Naturals

VARIABLE startup   \* the flip-flop, 1 from reset until the first write

StartupInit == startup = 1

StartupReadValue == startup

StartupWrite == startup' = 0
=============================================================================
