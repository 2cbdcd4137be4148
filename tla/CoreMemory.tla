----------------------------- MODULE CoreMemory ------------------------------
(***************************************************************************)
(* The accesses of the core, whatever program it runs, against the array of *)
(* words.                                                                   *)
(***************************************************************************)
EXTENDS CoreProperties, MemoryView

\* What a program sees of the ROM and the RAM is the array of words the documents
\* promise, and nothing else than its stores touches it: a store is one of the
\* array's, and a fetch, or a load whatever its width, delivers what a load of the
\* array does (a word load that stops the machine delivers nothing).  The lanes, the
\* sign, the address and the register are the core's work, the bytes the bus's.
AccessesTheWordArray ==
  [][LET i        == Decode(ir)
         a        == EffectiveAddress(i)
         n        == AccessWidth(i.name)
         executed == phase = "exec" /\ phase' = "reset"
     IN
     /\ phase = "fetch" /\ phase' # "fetch" => WordArray!LoadStep(pc, 4, ir')
     /\ executed /\ i.name \in LoadNames =>
          LET value == ReadValue(a, n) IN
          /\ WordArray!LoadStep(a, n, value)
          /\ gpr'[i.rb] = IF i.rb = 0 \/ (i.name = "LW" /\ execState' # "RUNNING")
                            THEN gpr[i.rb] ELSE LoadResult(i.name, value)
     /\ executed /\ i.name \in StoreNames => WordArray!StoreStep(a, n, gpr[i.rb])
     /\ ~(executed /\ i.name \in StoreNames) => UNCHANGED View]_coreVars
=============================================================================
