----------------------------- MODULE WordMemory ------------------------------
(***************************************************************************)
(* The memory that src/docs/architecture/Memory.md promises, used in any    *)
(* way: every step is an access of the array of words.                      *)
(***************************************************************************)
EXTENDS WordLanes

VARIABLE access   \* the last access: its kind, address, width and value

WordNext ==
  \/ access'.kind = "load"  /\ LoadStep(access'.address, access'.width, access'.value)
  \/ access'.kind = "store" /\ StoreStep(access'.address, access'.width, access'.value)

WordSpec == WordInit /\ [][WordNext]_<<words, access>>
=============================================================================
