--------------------------- MODULE MachineHistory ----------------------------
(***************************************************************************)
(* The machine beside history variables: which trap the running handler     *)
(* serves, and which bytes the program has received.  They observe the      *)
(* machine and never constrain it.                                          *)
(***************************************************************************)
EXTENDS MachineProperties

VARIABLES
  handler,     \* the trap being handled: "none", "hardware" or "software"
  resume,      \* where the program was to continue when the trap was taken
  untouched,   \* since a hardware trap nothing that clears a line was accessed
  delivered    \* the fresh bytes the program has read from the Input Port

historyVars == <<handler, resume, untouched, delivered>>

HInit ==
  /\ Init
  /\ handler = "none" /\ resume = 0 /\ untouched = FALSE /\ delivered = <<>>

\* A trap begins to be handled, unless one already is: whatever a nested trap
\* did to the registers, the interrupted program still waits at the same place.
Trapped(kind) ==
  IF handler = "none" THEN handler' = kind /\ resume' = pc
                      ELSE UNCHANGED <<handler, resume>>

HTakeInterrupt ==
  /\ TakeInterrupt
  /\ Trapped("hardware") /\ untouched' = TRUE
  /\ UNCHANGED delivered

HSoftwareInterrupt ==
  /\ SoftwareInterrupt
  /\ Trapped("software") /\ untouched' = FALSE
  /\ UNCHANGED delivered

HRfe ==
  /\ Rfe
  /\ handler' = "none" /\ untouched' = FALSE
  /\ UNCHANGED <<resume, delivered>>

\* A handler that enables interrupts or overwrites IAR gives up its trap.
HMoveToSpecial ==
  /\ MoveToSpecial
  /\ handler' = IF ien' = 0 /\ iar' = iar THEN handler ELSE "none"
  /\ untouched' = (untouched /\ handler' # "none")
  /\ UNCHANGED <<resume, delivered>>

\* What a read of the bus, by a load or a fetch, adds to the history.
ObserveRead(a, n) ==
  LET d == IF ReadRoute(a, n) = "device" THEN DeviceAt(a) ELSE NoDevice
  IN /\ untouched' = (untouched /\ d \notin {IC, InPort, TimerDev})
     /\ delivered' = IF d = InPort /\ inReady = 1
                       THEN Append(delivered, InputReadValue) ELSE delivered
     /\ UNCHANGED <<handler, resume>>

HFetch == Fetch /\ ObserveRead(pc, 4)

HLoad(a, n) == Load(a, n) /\ ObserveRead(a, n)

HStore(a, n, v) ==
  /\ Store(a, n, v)
  /\ untouched' = (untouched /\ DeviceAt(a) # TimerDev)
  /\ UNCHANGED <<handler, resume, delivered>>

Unobserved ==
  \/ Driver \/ Tick \/ NoInterrupt \/ ResetLine \/ UserTypes \/ Exited
  \/ Compute \/ Jump \/ NestedInterrupt \/ DebugStop \/ Unimplemented \/ ExecuteUnknown

HNext ==
  \/ HTakeInterrupt \/ HSoftwareInterrupt \/ HRfe \/ HMoveToSpecial \/ HFetch
  \/ \E a \in DataAddresses, n \in Widths : HLoad(a, n)
  \/ \E a \in DataAddresses, n \in Widths, v \in StoredWords : HStore(a, n, v)
  \/ Unobserved /\ UNCHANGED historyVars

HSpec == HInit /\ [][HNext]_<<vars, historyVars>>

-----------------------------------------------------------------------------
\* While a handler runs, interrupts stay disabled, IAR still holds the address
\* to resume at and CR the kind of trap, however many requests are raised
\* meanwhile: RFE resumes the interrupted program where it was, and the handler
\* can tell a system call from a device (docs/architecture/Interrupts.md).
TrapIsIntact ==
  handler # "none" =>
    /\ ien = 0
    /\ iar = resume
    /\ cr = IF handler = "software" THEN SoftwareCause ELSE 0

\* A hardware trap always has a source to find: until the handler clears a line
\* itself, however long it takes, the controller reports the device of highest
\* priority among those that ask, and never NoLine.
HandlerFindsSource ==
  (handler = "hardware" /\ untouched /\ phase \in {"fetch", "exec"}) =>
    /\ Pending # {}
    /\ ICReadValue \in Pending
    /\ \A i \in Pending : ICReadValue <= i

\* The program receives the typed bytes in order, each exactly once: those read
\* fresh, then the one in the latch, are what was taken from the terminal.
InputIsIntact ==
  delivered \o (IF inReady = 1 THEN <<inData>> ELSE <<>>) = SubSeq(Input, 1, taken)
=============================================================================
