-------------------------- MODULE MCMachineHistory ---------------------------
(* Values of the constants for model checking the safety of the machine. *)
EXTENDS MachineHistory, MCMap

\* A jump to 20 makes the program fetch from the Input Port, one to 28 from the
\* Interrupt Controller; from 4 it falls through into RAM.
MCJumpTargets == {0, 20, 28}
MCCodeAddresses == {4}

\* Every region, device and timer register, and misaligned addresses.
MCDataAddresses == {0, 2, 8, 12, 16, 20, 24, 28, 32, 36, 37, 40, 42, 43, 44}
=============================================================================
