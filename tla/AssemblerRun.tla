---------------------------- MODULE AssemblerRun -----------------------------
(***************************************************************************)
(* One execution of the assembler (main() and open_file() in                *)
(* src/tools/asm.py): the source file and those it includes are read, the   *)
(* lines are parsed, and the words are written one by one.  The recursion   *)
(* of open_file is an explicit stack.                                       *)
(***************************************************************************)
EXTENDS Assembler

CONSTANTS
  Files,     \* the files of the host, by canonical name (os.path.realpath)
  Paths,     \* the names under which a file may be given
  RealPath   \* [Paths -> Files]

ASSUME PathsAssumption == RealPath \in [Paths -> Files]

VARIABLES
  disk,       \* [Files -> contents]
  argument,   \* sys.argv[1]
  target,     \* sys.argv[2]
  stage,      \* what main() is doing: see Stages
  stack,      \* the calls of open_file, the innermost last
  included,   \* included_files
  lines,      \* the lines read so far
  parsed,     \* what parse() returned
  written,    \* instructions assembled and given to f.write
  outFile,    \* f, the output: see OutFiles
  report      \* what the error message tells of the line that caused it

runVars ==
  <<disk, argument, target, stage, stack, included, lines, parsed, written, outFile, report>>

Stages  == {"open", "read", "compare", "parse", "create", "assemble", "done", "failed"}
Reports == {"none", "no line", "line", "line and text"}

\* f is cut when something it was given never reached the file, or may not have.
OutFiles == {"unopened", "open", "closed", "cut"}

\* What a file holds: the items of a source, the words of a binary, or its words
\* and a part of one more.  A file that cannot be read is as good as absent.
Contents(kind, items) == [kind |-> kind, items |-> items]
Absent                == Contents("absent", <<>>)

\* While f is open, this is what has been written to it: the words that reached
\* the file, then those in the buffer of f, which holds whole words.
Output == disk[RealPath[target]]

\* The items of a source file: what is left when comments and blank lines are
\* removed.
Include(path) == [kind |-> "include", path |-> path, line |-> <<>>]
Holds(line)   == [kind |-> "line", path |-> "", line |-> line]
Malformed     == [kind |-> "malformed", path |-> "", line |-> <<>>]   \* no quoted path

RunInit ==
  /\ stage = "open" /\ report = "none"
  /\ stack = <<>> /\ included = {} /\ lines = <<>>
  /\ parsed = Parsing /\ written = 0 /\ outFile = "unopened"

Fail(what) == stage' = "failed" /\ report' = what

-----------------------------------------------------------------------------
\* open_file.

\* Mutant: an included file is read when the files around it have ended.
PushBelow(continued, f) == <<[file |-> f, rest |-> disk[f].items]>> \o continued

Push(continued, f) == Append(continued, [file |-> f, rest |-> disk[f].items])

\* A file met before, under any of its names, is skipped; one that is not there
\* is an error, which says what `missing' says.
Enter(path, continued, missing) ==
  LET f == RealPath[path] IN
  /\ included' = included \cup {f}
  /\ IF f \in included
       THEN stage' = "read" /\ stack' = continued /\ UNCHANGED report
     ELSE IF disk[f] = Absent
       THEN Fail(missing) /\ UNCHANGED stack
       ELSE stage' = "read" /\ stack' = Push(continued, f) /\ UNCHANGED report

OpenSource ==
  /\ stage = "open"
  /\ Enter(argument, <<>>, "no line")
  /\ UNCHANGED <<disk, argument, target, lines, parsed, written, outFile>>

Top  == Last(stack)
Item == Head(Top.rest)

\* The caller's frame, or this one, after its next item.
Advanced == Append(Front(stack), [Top EXCEPT !.rest = Tail(@)])

ReadLine ==
  /\ stage = "read" /\ stack # <<>> /\ Top.rest # <<>> /\ Item.kind = "line"
  /\ lines' = Append(lines, Item.line)
  /\ stack' = Advanced
  /\ UNCHANGED <<disk, argument, target, stage, included, parsed, written, outFile, report>>

\* Mutant: the directive is met again and again.
ReadIncludeStays ==
  /\ stage = "read" /\ stack # <<>> /\ Top.rest # <<>> /\ Item.kind = "include"
  /\ Enter(Item.path, stack, "line")
  /\ UNCHANGED <<disk, argument, target, lines, parsed, written, outFile>>

ReadInclude ==
  /\ stage = "read" /\ stack # <<>> /\ Top.rest # <<>> /\ Item.kind = "include"
  /\ Enter(Item.path, Advanced, "line")
  /\ UNCHANGED <<disk, argument, target, lines, parsed, written, outFile>>

ReadMalformed ==
  /\ stage = "read" /\ stack # <<>> /\ Top.rest # <<>> /\ Item.kind = "malformed"
  /\ Fail("line")
  /\ UNCHANGED <<disk, argument, target, stack, included, lines, parsed, written, outFile>>

Return ==
  /\ stage = "read" /\ stack # <<>> /\ Top.rest = <<>>
  /\ stack' = Front(stack)
  /\ UNCHANGED <<disk, argument, target, stage, included, lines, parsed, written, outFile, report>>

AllRead ==
  /\ stage = "read" /\ stack = <<>>
  /\ stage' = "compare"
  /\ UNCHANGED <<disk, argument, target, stack, included, lines, parsed, written, outFile, report>>

-----------------------------------------------------------------------------
\* main.

\* Mutant: the names are compared instead of the files.
CompareNames ==
  /\ stage = "compare"
  /\ IF target = argument THEN Fail("no line") ELSE stage' = "parse" /\ UNCHANGED report
  /\ UNCHANGED <<disk, argument, target, stack, included, lines, parsed, written, outFile>>

\* The output may not be one of the files read, under any name.
Compare ==
  /\ stage = "compare"
  /\ IF RealPath[target] \in included
       THEN Fail("no line") ELSE stage' = "parse" /\ UNCHANGED report
  /\ UNCHANGED <<disk, argument, target, stack, included, lines, parsed, written, outFile>>

ParseLines ==
  /\ stage = "parse"
  /\ parsed' = Parse(lines)
  /\ IF parsed'.ok THEN stage' = "create" /\ UNCHANGED report ELSE Fail("line")
  /\ UNCHANGED <<disk, argument, target, stack, included, lines, written, outFile>>

\* The output is truncated before the first instruction is assembled.  An open()
\* that fails is not caught: the interpreter reports it, and exits with 1 too.
Create ==
  /\ stage = "create"
  /\ \/ /\ stage' = "assemble" /\ outFile' = "open"
        /\ disk' = [disk EXCEPT ![RealPath[target]] = Contents("binary", <<>>)]
        /\ UNCHANGED report
     \/ Fail("no line") /\ UNCHANGED <<disk, outFile>>
  /\ UNCHANGED <<argument, target, stack, included, lines, parsed, written>>

\* A write to the file fails, or its close does: some of the words given to f are
\* in the file, and perhaps a part of the next of them.
Cut ==
  /\ outFile' = "cut"
  /\ \E n \in 0..written, kind \in {"binary", "torn"} :
       /\ kind = "torn" => n < written
       /\ disk' = [disk EXCEPT ![RealPath[target]] = Contents(kind, SubSeq(Output.items, 1, n))]

\* The end of the with block closes f, which flushes it.
Close == outFile' = "closed" /\ UNCHANGED disk

Current         == parsed.instructions[written + 1]
CurrentAccepted == Accepted(Current.parts, Current.address, parsed.symbols)

\* An instruction that is rejected ends the run, and with it the block.
AssembleNext ==
  /\ stage = "assemble" /\ written < Len(parsed.instructions)
  /\ \/ /\ CurrentAccepted
        /\ disk' = [disk EXCEPT ![RealPath[target]].items =
                      Append(@, Encoded(Current.parts, Current.address, parsed.symbols))]
        /\ written' = written + 1
        /\ UNCHANGED <<stage, outFile, report>>
     \/ /\ ~CurrentAccepted
        /\ Fail("line and text")
        /\ Close \/ Cut
        /\ UNCHANGED written
  /\ UNCHANGED <<argument, target, stack, included, lines, parsed>>

\* f.write raises OSError, or the close that follows the last one does.  Nothing
\* catches it: as for Create.
WriteFails ==
  /\ stage = "assemble"
  /\ written < Len(parsed.instructions) => CurrentAccepted
  /\ Fail("no line")
  /\ Cut
  /\ UNCHANGED <<argument, target, stack, included, lines, parsed, written>>

\* Mutant: an error of the close goes unnoticed.
FinishUnchecked ==
  /\ stage = "assemble" /\ written = Len(parsed.instructions)
  /\ stage' = "done"
  /\ Close \/ Cut
  /\ UNCHANGED <<argument, target, stack, included, lines, parsed, written, report>>

Finish ==
  /\ stage = "assemble" /\ written = Len(parsed.instructions)
  /\ stage' = "done"
  /\ Close
  /\ UNCHANGED <<argument, target, stack, included, lines, parsed, written, report>>

\* The exit status is 0 or 1.
Ended == stage \in {"done", "failed"} /\ UNCHANGED runVars

RunStep ==
  \/ OpenSource \/ ReadLine \/ ReadInclude \/ ReadMalformed \/ Return \/ AllRead
  \/ Compare \/ ParseLines \/ Create \/ AssembleNext \/ WriteFails \/ Finish

RunNext == RunStep \/ Ended
=============================================================================
