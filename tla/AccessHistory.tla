---------------------------- MODULE AccessHistory ----------------------------
(***************************************************************************)
(* The machine beside the last access its program made, to compare what an  *)
(* access does with what the documents say of it.                           *)
(***************************************************************************)
EXTENDS Machine

VARIABLE access   \* <<kind, address, width>> of the access just executed, or None

None == <<"none", 0, 0>>

AInit == Init /\ access = None

AUnobserved ==
  \/ Driver \/ Tick \/ TakeInterrupt \/ NoInterrupt \/ Fetch \/ ResetLine \/ UserTypes
  \/ Exited \/ Compute \/ Jump \/ MoveToSpecial \/ SoftwareInterrupt \/ NestedInterrupt
  \/ Rfe \/ DebugStop \/ Unimplemented \/ ExecuteUnknown

ANext ==
  \/ \E a \in DataAddresses, n \in Widths :
       Load(a, n) /\ access' = <<"load", a, n>>
  \/ \E a \in DataAddresses, n \in Widths, v \in StoredWords :
       Store(a, n, v) /\ access' = <<"store", a, n>>
  \/ AUnobserved /\ access' = None

ASpec == AInit /\ [][ANext]_<<vars, access>>

\* The accesses docs/architecture/Devices.md lists for the Timer; "any other
\* access size is an invalid access", "any other access to the second 4 bytes,
\* writes included, is an invalid access".
TimerSupports ==
  {<<"load", 0, 4>>, <<"store", 0, 4>>, <<"load", 4, 4>>, <<"load", 6, 2>>, <<"load", 7, 1>>}

\* In strict mode an access the Timer does not support stops the machine, as an
\* access to an unmapped address does: "An access the device does not support is
\* treated as an access to an unmapped address" (docs/internals/Device-Model.md).
UnsupportedAccessFaults ==
  (/\ StrictMode
   /\ access # None
   /\ DeviceAt(access[2]) = TimerDev
   /\ <<access[1], access[2] - DeviceBase[TimerDev], access[3]>> \notin TimerSupports)
  => execState # "RUNNING"
=============================================================================
