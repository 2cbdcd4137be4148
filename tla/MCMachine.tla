------------------------------ MODULE MCMachine ------------------------------
(* Values of the constants for model checking the liveness of Machine. *)
EXTENDS MachineProperties, MCMap

\* One address per device that matters to interrupts and to output.
MCDeviceAddresses == {20, 24, 28, 36, 40}
=============================================================================
