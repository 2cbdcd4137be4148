--------------------------- MODULE LevelInterrupts ---------------------------
(***************************************************************************)
(* What the interrupt path promises, without controller, lines, polling or  *)
(* phases (docs/architecture/Interrupts.md): sources raise requests between *)
(* two instructions and keep them raised until the program serves them; an  *)
(* instruction starts with a trap exactly when interrupts are enabled and   *)
(* some request is raised at that moment.  So no request is lost, delayed   *)
(* by an instruction, or delivered when there is none.                      *)
(***************************************************************************)
CONSTANT Sources   \* the devices that may ask for an interrupt

VARIABLES
  requests,   \* the sources whose request is raised
  enabled,    \* interrupts are enabled
  busy        \* an instruction is being fetched or executed

levelVars == <<requests, enabled, busy>>

LevelInit == requests = {} /\ enabled = FALSE /\ busy = FALSE

\* A source raises its request; it never withdraws one by itself.
Raise ==
  /\ ~busy
  /\ \E s \in Sources \ requests : requests' = requests \union {s}
  /\ UNCHANGED <<enabled, busy>>

\* An instruction cycle that starts with a trap.
Trap ==
  /\ ~busy /\ enabled /\ requests # {}
  /\ enabled' = FALSE /\ busy' = TRUE
  /\ UNCHANGED requests

\* An instruction cycle that does not.
Begin ==
  /\ ~busy /\ (~enabled \/ requests = {})
  /\ busy' = TRUE
  /\ UNCHANGED <<requests, enabled>>

\* The program serves one source, by an access to its device.
Serve ==
  /\ busy
  /\ \E s \in requests : requests' = requests \ {s}
  /\ UNCHANGED <<enabled, busy>>

\* The program enables or disables interrupts, or traps by itself.
SetEnabled ==
  /\ busy
  /\ enabled' \in BOOLEAN
  /\ UNCHANGED <<requests, busy>>

\* The end of the cycle; the fetch that fails serves nothing but ends it too.
Finish ==
  /\ busy
  /\ busy' = FALSE
  /\ UNCHANGED <<requests, enabled>>

LevelNext == Raise \/ Trap \/ Begin \/ Serve \/ SetEnabled \/ Finish

LevelSpec == LevelInit /\ [][LevelNext]_levelVars
=============================================================================
