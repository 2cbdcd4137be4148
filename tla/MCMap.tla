-------------------------------- MODULE MCMap --------------------------------
(* Values of the constants for model checking: a memory map of 48 bytes with *)
(* every region of the real one, in the same order: ROM at 0..7, RAM at      *)
(* 8..11, nothing at 12..15 and from 44 on, devices between.                 *)

\* Indexed in the order of registration: Interrupt Controller, Startup Circuit,
\* Input Port, Output Port, Power Manager, Timer.
MCDeviceBase == <<28, 16, 20, 24, 32, 36>>

MCInput == <<7, 9>>
MCShortInput == <<7>>
=============================================================================
