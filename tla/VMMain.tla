------------------------------- MODULE VMMain -------------------------------
(***************************************************************************)
(* vm_main of main.c: the arguments are parsed, vm_load turns the listing  *)
(* in the file into instructions, one line per step, and then the machine  *)
(* of VM runs.                                                             *)
(*                                                                         *)
(* A line is what vm_load can tell apart of its text: the opcode, up to    *)
(* the next blank or tab or the end of the line (.op); the numbers after   *)
(* it up to the first text that is none (.nums); which of them, if any,    *)
(* skip and strtoll read up to different places, as in 5-3, - and +5       *)
(* (.glued, else 0); and where the line ends (.ends):                      *)
(*   opcode   right behind the opcode, in a newline or with the file,      *)
(*   number   with the file, right behind the last number,                 *)
(*   blank    with the file, in separators behind the opcode or a number,  *)
(*   more     in all other cases: something else follows there, if only    *)
(*            the newline.                                                 *)
(* The label before the opcode is skipped, and what follows the numbers is *)
(* not looked at.  A line fits into LINE_LENGTH.                           *)
(***************************************************************************)
EXTENDS VM

CONSTANTS
  CommandLines,   \* .argv; whether there is a file (.found), and its lines (.lines)
  HalfOperand     \* 2^31: operands other than the immediate of Set are int32_t

ASSUME OperandAssumption == HalfOperand \in Nat /\ HalfOperand \in 2 .. Half

Line == { line \in [op : STRING, nums : Seq(Int), glued : Nat,
                     ends : {"opcode", "number", "blank", "more"}] :
            line.ends = "opcode" => line.nums = << >> }

ASSUME CommandLinesAssumption ==
  \A line \in CommandLines :
    line.argv \in Seq(Int) /\ line.found \in BOOLEAN /\ line.lines \in Seq(Line)

VARIABLE file     \* the lines that fgets has not read yet

mvars == <<vars, file>>

Int32 == INSTANCE Words WITH Half <- HalfOperand

-----------------------------------------------------------------------------
parse_cmdline_args(argv) == [i \in 1 .. Len(argv) |-> strtoll(argv[i])]

\* The enumeration of the machine's opcodes, and the table of the loader.
vm_opcode_t == << "Move", "Set", "Add", "Multiply", "Negate", "Not", "Jump",
                  "JumpIfZero", "Call", "Return", "LessThan", "Equals" >>
instructions_short_call ==                                  \* mutant: Call of 2
  << <<"Move", 2>>, <<"Set", -1>>, <<"Add", 3>>, <<"Multiply", 3>>, <<"Negate", 2>>,
     <<"Not", 2>>, <<"Jump", 1>>, <<"JumpIfZero", 2>>, <<"Call", 2>>, <<"Return", 1>>,
     <<"LessThan", 3>>, <<"Equals", 3>> >>
instructions ==
  << <<"Move", 2>>, <<"Set", -1>>, <<"Add", 3>>, <<"Multiply", 3>>, <<"Negate", 2>>,
     <<"Not", 2>>, <<"Jump", 1>>, <<"JumpIfZero", 2>>, <<"Call", 3>>, <<"Return", 1>>,
     <<"LessThan", 3>>, <<"Equals", 3>> >>

Known(name)        == \E i \in 1 .. Len(instructions) : instructions[i][1] = name
which_opcode(name) == CHOOSE i \in 1 .. Len(instructions) : instructions[i][1] = name

\* The k-th call of parse_arg on a line: strtoll makes 0 of what is no number.
parse_arg(line, k) == IF k <= Len(line.nums) THEN strtoll(line.nums[k]) ELSE 0

\* Its asserts: strtoll and skip end at different places, or skip runs into
\* the NUL at the end of the string, which strchr finds in every set.
ParseArgAsserts(line, k) ==
  \/ k = line.glued
  \/ line.ends = "number" /\ k >= Len(line.nums)
  \/ line.ends = "blank"  /\ k > Len(line.nums)

\* find does not stop at a newline: the name of an opcode right before it is
\* unknown, and with the end of the file there parse_arg asserts.
Loadable(line) ==
  /\ Known(line.op) /\ line.ends # "opcode"
  /\ LET nargs == instructions[which_opcode(line.op)][2] IN
     \A k \in 1 .. IF nargs = -1 THEN 2 ELSE nargs : ~ParseArgAsserts(line, k)

Loaded(line) ==
  LET i     == which_opcode(line.op)
      nargs == instructions[i][2]
      slot(k) == IF k <= nargs THEN Int32!Wrap(parse_arg(line, k)) ELSE 0
  IN  [op |-> vm_opcode_t[i],
       a  |-> Int32!Wrap(parse_arg(line, 1)),
       b  |-> IF nargs = -1 THEN parse_arg(line, 2) ELSE slot(2),
       c  |-> slot(3)]

-----------------------------------------------------------------------------
\* What vm_main starts from, as an invocation of VM: no instructions yet.
Started(line) ==
  [code |-> << >>, args |-> parse_cmdline_args(line.argv), line |-> line]

\* vm_main is the only caller of vm_load.
ASSUME StartedAssumption == Invocations = { Started(line) : line \in CommandLines }

MainInit == Init /\ file = program.line.lines

Loading == status = "init" /\ (file # << >> \/ ~program.line.found)

LoadLine ==
  /\ Loading
  /\ program.line.found
  /\ Loadable(Head(file))
  /\ program' = [program EXCEPT !.code = Append(@, Loaded(Head(file)))]
  /\ file' = Tail(file)
  /\ UNCHANGED <<value_array, stacks, pc, status, result>>

\* The asserts of vm_load, which_opcode, skip and parse_arg.
LoadAborts ==
  /\ Loading
  /\ program.line.found => ~Loadable(Head(file))
  /\ status' = "aborted"
  /\ UNCHANGED <<program, value_array, stacks, pc, result, file>>

\* vm_push_args and vm_run.
Run == ~Loading /\ Next /\ UNCHANGED file

MainNext == LoadLine \/ LoadAborts \/ Run

MainSpec == MainInit /\ [][MainNext]_mvars /\ WF_mvars(MainNext)

-----------------------------------------------------------------------------
(* What VM.md says of a line: the opcode is one of those it lists, each    *)
(* with the number of operands it gives there (VM.md:260-346).             *)
Taken(op) == IF op \in ThreeSlotOps \union {"Call"} THEN 3
             ELSE IF op \in TwoSlotOps \union {"Set", "JumpIfZero"} THEN 2 ELSE 1

\* All operands are there, each of them a number, and the text goes on.
Complete(line) ==
  /\ line.op \in Opcodes
  /\ Len(line.nums) >= Taken(line.op)
  /\ line.glued \notin 1 .. Taken(line.op)
  /\ line.ends = "number" => Len(line.nums) > Taken(line.op)

\* Operands are missing, and something that is no number stands in the place
\* of the first of them, if only the newline.  VM.md knows no such line.
Short(line) ==
  /\ line.op \in Opcodes
  /\ Len(line.nums) < Taken(line.op)
  /\ line.glued \notin 1 .. Taken(line.op)
  /\ line.ends = "more"

\* The instruction's k-th operand is x: the number written, or 0 for one that
\* is missing; slots and targets have 32 bits.
Says(line, k, x) ==
  LET written == strtoll(IF k > Len(line.nums) THEN 0 ELSE line.nums[k]) IN
  IF k > Taken(line.op) THEN x = 0
  ELSE IF line.op = "Set" /\ k = 2 THEN x = written
  ELSE x \in Int32!Word /\ (x - written) % (2 * HalfOperand) = 0

(* vm_load loads all of a listing or nothing: once the machine runs, every *)
(* line had all of its operands, or lacked some at its end, and the        *)
(* instruction has those that were written, up to multiples of 2^32, and 0 *)
(* for those that were not.  A listing is only refused at a line of        *)
(* neither kind: an opcode VM.md does not know or with nothing behind it,  *)
(* an operand that is no number, or one that the file ends in or before    *)
(* (vm.c:138-179).                                                         *)
LoadsListing ==
  LET lines == program.line.lines
      code  == program.code
  IN
  /\ status \in {"running", "returned", "undefined"} =>
       /\ program.line.found
       /\ Len(code) = Len(lines)
       /\ \A n \in 1 .. Len(lines) : Complete(lines[n]) \/ Short(lines[n])
  /\ \A n \in 1 .. Len(code) :
       /\ code[n].op = lines[n].op
       /\ Says(lines[n], 1, code[n].a)
       /\ Says(lines[n], 2, code[n].b)
       /\ Says(lines[n], 3, code[n].c)
  /\ status = "aborted" /\ program.line.found /\ Len(code) < Len(lines) =>
       LET line == lines[Len(code) + 1] IN ~Complete(line) /\ ~Short(line)

(* The process ends: true of listings that always reach a Return, or are   *)
(* refused, and of no use to code that loops.                              *)
Stops == <>(status \in Stopped)
=============================================================================
