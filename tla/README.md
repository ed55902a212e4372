# A verification development for SimpLang

SimpLang is a small language of integer expressions, `let`, `loop`/`recur`,
`if` and functions (`README.md`, `ASSIGNMENTS.md`). This repository implements
it several times over: a C program (`src/schani/course`) with a scanner, a
parser, a tree-walking interpreter and a bytecode machine (`VM.md`), and a
Swift program (`src/simplang/Sources`) with a scanner, a shunting-yard parser
and an interpreter. The modules here model these programs in TLA+, check them
with TLC on small instances, and prove most of their properties with TLAPS for
all instances.

Contents: 1 the system, 2 the modules, 3 what the runs check and show, 4 what
is proved, 5 disagreements between code and documents, 6 what is not modelled,
7 what comes next. `PROJECT.json` maps every definition to the lines it
stands for, and lists the hazards at their lines with the properties that cover
them.

To run something: `tlc -config MCVMCode.cfg MCVMCode.tla`, `tlapm Memory_proofs.tla`.

## 1. The system

### Parts, their state and operations

| Part | State | Operations | What makes it correct |
|---|---|---|---|
| Bytecode machine (`vm.c`) | value array, stack pointer, call stack, `pc` | `vm_init`, `vm_push_args`, one `case` of `vm_run` per opcode | calls and returns keep the frames `VM.md` describes; asserts catch both stacks running out; 64-bit arithmetic wraps |
| Bytecode loader (`vm.c`, `vm_main`) | the lines not yet read, the instructions so far | `vm_load`, `parse_arg`, `which_opcode` | the instructions are those of the file, or the process ends before it runs |
| Tree-walking interpreter (`interpreter.c`) | the C stack, a heap of environment nodes | `eval`, `eval_expr`, `eval_function`, `env_bind`, `env_free` | the value the language gives the program; no node used after it is freed, none lost |
| C parser, operators (`parse_expr`) | two arrays, level and index | join, skip, next level | precedence and associativity; ends with one tree |
| C parser, recursive descent (`parser.c`) | one token ahead, the C stack, two arrays per open `parse_expr` | `parse_primary`, `parse_args`, `parse_function`, `parse_program` | the tree the grammar gives the tokens, or an assert |
| C scanner (`scanner.c`) | one character ahead, the token so far | `scan_init`, `scan` | the tokens of the longest match; always comes to an end |
| Memory pools (`pools.c/h`) | chunks, active chunk, fill pointer | `pool_init/alloc/reset/free` | blocks lie in chunks and do not overlap |
| Dynamic arrays, strings (`dynarr.*`, `dynstring.*`) | length, capacity and block of each | append, remove, set; the functions of `dynstring.h` | each is a list of its own, whatever grows or shrinks next to it |
| Swift parser, operators (`parseBinaryExpression`) | result stack, operator stack | push, `createBinaryExpression` | as for C; no forced unwrap fails |
| Swift parser, recursive descent | tokens left, known functions, a stack of scopes | `parsePrimaryExpression`, `parseBindings`, `parseParams`, `parseFunction` | the tree the grammar gives the tokens, or a failing assert; one scope per open expression |
| Swift interpreter (`parser.swift`, `utils.swift`) | the thread's stack, `Memory.variableStacks`, `Debug` | `eval` of each class, `evalWithParams`, push and pop of bindings | the value the language gives the program; scopes balanced |
| Swift scanner (`scanner.swift`) | `currentChar`, `nextChar`, the tokens so far | `tokenize` | as for C |
| Drivers (`main.c`, `main.swift`) | the command line | `vm_main`, `eval_program_main`; `--interpret` | wrong command lines are refused before anything is evaluated |
| Swift VM, tests, build files | see section 6 | | |

### How they interact

Everything is called by its caller and returns to it; there is one thread and
nothing is persistent. In C, `main` calls `vm_main`: `vm_init`, `vm_load`,
`vm_push_args`, `vm_run` on one `vm_t`. The other entry points of `main.c`
(commented out, selected by editing the file) chain scanner, parser and
interpreter: `scan` is called for one token ahead by the parser, both allocate
from the one pool in the context, the parser through several dynamic arrays
that grow at the same time because `parse_expr` recurses while its arrays are
open. The interpreter reads the trees and keeps its environments in `malloc`'d
lists that frames of the C stack, and the results of `recur`, share. In Swift
the scanner yields all tokens, the parser fills the global
`Memory.functions`, and the `eval` methods of the tree read and change the
global `Memory.variableStacks`.

### What is hard

No concurrency and no messages; what is hard is state shared between the
active calls of one thread, and what a limit or an odd program does to it:

* `vm.c` does not save frames: a return recomputes the caller's stack pointer
  from the `Call` instruction whose index it finds on the call stack, in an
  order in which two stack pointers are in use (hazards at vm.c:206-212);
* `vm_load` turns text into instructions with one table whose order must be
  that of an enumeration elsewhere, and with functions whose corner cases
  (`strchr` finds the NUL, `strtoll` saturates) decide what is refused
  (vm.c:78-179);
* `interpreter.c` cuts environments back while a `recur` carries new ones that
  hang above what is kept (interpreter.c:194-206);
* the parsers destroy, in a loop over it, the array they go through
  (parser.c:84-97), or pop two stacks that must stay in step
  (parser.swift:464-479), and do so in nested calls that each have arrays or
  stacks of their own;
* both parsers decide what a name is by what they have seen of the file: in C
  by the next token, in Swift by the functions defined so far
  (parser.swift:622);
* the scanners hold the character that ends a token for the next one, at the
  end of the file as well (scanner.c:81, scanner.swift:286);
* pools, arrays and strings compute sizes whose off-by-ones compensate each
  other (pools.h:53, dynstring.c:36-57);
* variables in Swift are one global structure that every way of leaving a
  scope has to restore (parser.swift:347-371);
* limits: the two stacks of the machine, `malloc` and the chunks of a pool,
  64-bit overflow, asserts that end the process.

## 2. The modules

### Words

A word is a number of `-Half .. Half-1`; `Half` stands for 2^63, and `Wrap` is
what a register keeps. The C Makefile compiles without optimization, where
signed overflow wraps as the programs in `examples/` expect. `strtoll` stops at
the ends of the range. Everything that computes uses `Words`, with a `Half` per
run.

### The bytecode machine: Bytecode, VM, FrameMachine, VMFrames, VMMain

`Bytecode` has the instructions and the calling convention of `VM.md`. `VM`
has one action per `case` of `vm_run`. `value_array`, `stack_pointer`,
`call_stack`, `call_stack_pointer` and `pc` are the variables of C;
`program` is the command line (the instructions loaded and the arguments), and
`status` says where the process is: `init` until `vm_push_args`, `running`,
then `returned`, `aborted` (an assert of `get_slot`, `cs_push` or the
`Return`), or `undefined` (a fetch outside the instructions, which C does not
check). Jumps out of the program are thus part of the model; what the machine
does after one is not.

`FrameMachine` is the abstract specification: what `VM.md` promises of calls
and returns, with explicit frames that hold the caller's stack pointer, the
instruction to go on at and the slot of the result. `VMFrames` adds to `VM` two
history variables that no action reads, `frames` and `images` (the value array
at each open call), and states the properties; `ImplementsFrames` is the
refinement `FrameMachine!Spec` under `memory <- value_array,
sp <- stack_pointer`.

`VMMain` is `vm_main`: it loads a listing, one line per step, and then takes
the steps of `VM`. A line of the listing is a record of what `vm_load` can tell
apart of its text: the opcode's name (up to a blank, a tab or the end of the
line, for `find` does not stop at the newline), the numbers behind it, whether
one of them is glued to further characters, and where the line ends (right
behind the opcode; with the file, behind a number or in blanks; or otherwise).
Slots and targets are cut to `int32_t`, operands that are missing before the
newline are 0, and what the asserts of `skip`, `find`, `parse_arg` and
`which_opcode` catch is `LoadAborts`. The reference for it does not look at the
loader's table: `Taken` has the number of operands `VM.md` gives an opcode,
`Complete` says that a line has all of them, each a number that is there,
`Short` that some at the end are missing, which `VM.md` does not provide for,
and `Says` what number the k-th operand is.

### The language: Syntax, Semantics, Programs

`Syntax` has the trees (`expr_t`; the Swift classes correspond to them), the
shapes the parsers make (`Shaped`: how many operands and names a node has) and
the precedences of `README.md`. `Semantics` is the reference: the meaning of a
program as a recursive function from expressions and environments to an integer
or to one of three ways of not having a value: `unbound` (a name that stands
for nothing), `illegal` (a `recur` in the wrong place) and `unknown` (a call
with a wrong number of arguments, of which the documents say nothing).
`Programs` is a grammar of small programs, legal and illegal, that both
interpreters are run on. `SamplePrograms` has programs of the repository, the
tokens they are written with (`ProgramText`: with as many parentheses as
possible, or as few), and `Changed`, every way to go wrong in a token.

### The C interpreter: Interp, EvalProgramMain

One step per entry into, or return to, a C function. `stack` is the C stack, a
frame per active `eval` or `eval_function` with its parameters (`e`, `env`,
`loop`, `lenv`) and locals (`i`: operands begun, `old`: environment at entry,
`vals`: left operand or arguments). `res` is the `intp_result_t` being
returned: an integer, or the `loop_env` of a `recur`. `heap` maps the addresses
of allocated environment nodes to name, value and next node; `malloc` returns
the lowest free address, so that a node freed too early is reused at once, and
NULL when `MaxNodes` are taken, which `env_bind` does not check (`Crash`).
Asserts of `env_lookup`, `eval`, `int_result` and `call_function` are `Abort`.
An argument that was not passed reads as any word. `Walk` goes down a list of
nodes, to a name or to where an environment is cut back, and says which nodes it
has passed. `Exprs` are the expressions that a program may consist of; all that
the model asks of them is that they are trees (`WellFormed`). Comparing
`status`, `result` with `Semantics` is `MeansReference`.

`EvalProgramMain` is `eval_program_main`: `Parser` takes its steps on the tokens
of a file, then the command line is compared with the parameters of `main`, and
`Interp` takes its own. Its exit codes 1 and 2 are `Refuse`.

### Operators: Reductions, Grammar, OperatorParser, ShuntingYard

`OperatorParser` is the second half of `parse_expr`: one step is one turn of
its inner loop over `expr_arr` and `op_arr`, `p` the level and `i` the index.
`ShuntingYard` is `parseBinaryExpression` in one scope (a nested call works on
stacks of its own, which `enterNewScope` pushes): one step is one operand
pushed, one operator pushed, or one expression made. Operands are what
`parse_primary` or `parsePrimaryExpression` returned.

Both implement the same abstract specification, `Reductions`: a sequence of
trees with operators between them, in which a step joins the neighbours of an
operator that binds tighter than the one before and no less than the one
after. For C the numbers are the precedences of `README.md`; for Swift they are
the raw values of `Operator`, which are not (section 5). The state maps
directly for C; for Swift the trees are `resultStack \o operands`, the
operators `operatorStack \o ops`. `Grammar` is the second reference: at the root
of a chain is the last of the operators that bind least, and `Trees` has the
trees of all parts of a chain, a recursive function of their first and last
operand.

### The parsers: Tokens, Parser, SwiftParser, TokenGrammar, SwiftMain

`Tokens` is the enumeration of `compiler.h` with the functions that ask for a
kind by comparing places in it. `Parser` is the recursive descent in C.
`callers` is the C stack: each activation of `parse_primary`, `parse_args` or
`parse_function` that waits has the part of its node that it has made (`node`),
what it waits for (`place`), and the arrays of the `parse_expr` that called it.
A step goes from one call or return to the next; the tokens consumed between
two calls are consumed in one step, and the asserts of `expect_token` are the
single action `Abort`, with `Wanted` for what the code would have gone on with.
The loops of `parse_expr` are the actions of `OperatorParser`, which is
instantiated with the arrays of the innermost one.

`SwiftParser` is laid out in the same way; its stacks of stacks are `scopes`,
with `resultStack` and `operatorStack` for the tops, and the pops are those of
`ShuntingYard`. A name in `knownFunctions` begins a call; arguments are whatever
primary expressions come out as parenthesized (`ret.paren`), and anything else
ends the process. `SwiftMain` is `main.swift` with `--interpret`: the parser,
then `SwiftInterp`, under one specification, `MainSpec`.

`TokenGrammar` is the reference for both: the set of trees that the grammar of
`ASSIGNMENTS.md` gives a sequence of tokens, by taking the sequence apart at
the separators that are inside nothing, with `Grammar` for the operators. Its
parameter is the strength of the operators: `Precedence` for C, the raw values
for Swift (section 5).

### The scanners: Scanner, SwiftScanner

One step per character. `rest` begins with the lookahead, `ds` has the
characters of the token being scanned. `at` says where in `scan` the process
is: before a token, in one of its inner loops, or between the two characters of
`&&`, `||` or `==`. Characters are strings of length one; the classes
(`isalpha`, `isdigit`, `isspace`) are parameters. `SwiftScanner` extends it with
the actions in which `scanner.swift` differs: the loop for names, numbers that
do not fit, and `EndIndexRead`, the end of the process when `nextChar` is read
at `endIndex`, which a build may or may not have; `ScannersSpec` is one scanner
or the other. Their reference is `LongestMatch`, a recursive function over the
texts: white space apart, the longest prefix that is spelled like a token
(`Spellings`, `IsIdentifier`, `IsNumber`) is the first token, and what is behind
it gives the others.

### Memory: Pools, Lists, Containers, DynStrings

`Pools` has the four operations on `active_chunk`, `fill_ptr` and the set of
chunks that are not NULL; `blocks` is a history of what was handed out. Sizes
are in longs. The ways in which an allocation fails are actions: the chunk
that `pool_init` did not get (nobody looks at its result), a `malloc` that
fails in the loop of `_pool_alloc` after the active chunk has advanced, and the
assert when there is no further chunk.

`Containers` puts dynamic arrays and strings in one pool, down to the bytes: a
memory of bytes, elements of `POOLS_GRANULARITY` bytes, `memcpy`, `memmove` and
stores as changes of regions of it. `pool_alloc` in it is the operation of `Pools`, and
the NULL it may return, which nobody looks at, is the end. `DynStrings` adds the rest of `dynstring.h`: texts appended, strings
copied, shortened at either end, trimmed and split, as the loops of `strncpy`
and `memmove` they are made of (`MemorySpec`). Chunks are cleared when they come
from `malloc`, as `pools.c` does, and after that bytes stay until they are
overwritten; `pool_reset`, which nothing in the program calls, is in `Pools` only. The abstract specification is `Lists`, in which
one list at a time is made from a text or another list, grows at its end,
changes in one place, loses an end or its blanks, or is split at its first
blank, and the others do not change; the refinement mapping reads the lists
back out of the bytes (an element whose bytes do not belong together reads as
`"torn"`). One call is no step of `Lists`: `ds_split_ws` of an empty string makes
the new string of what it finds behind the NUL (section 5). `ImplementsLists`
names it, as `SplitsEmpty`: of such a step it says that the string was empty and
that only the new one changes, and becomes some text; every other step is one of
`Lists`.

### The Swift interpreter: SwiftInterp

Frames as in `Interp`, one step per call of or return to an `eval` method.
`variableStacks` is `Memory.variableStacks`: per function being run, a
dictionary of stacks of values. A name that is not in a dictionary has an empty
stack. `invocations` and `currentDepth` are those of `Debug`; the number of
lines is counted up to `MaxInvocations`. Failing asserts, forced unwraps and
indices out of range are `Trap` (`trapped`), a negation that overflows too
(`overflow`). Parsing decides whether a name is a variable or a function; the
programs given to the interpreter as trees call functions that are defined.
The property about scopes counts, for each activation of a function, the
bindings made by its frames (`FramesOf`, `InForce`).

### Proofs

The modules whose names end in `_proofs` extend those they are about.
`Basics_proofs` has what they share: numbers, sequences, the smallest element
of a set of numbers, induction over `Nat` and the existence of recursive
functions (both stated for sets and functions, which every prover here can
instantiate), and lemmas about the trees of `Grammar`. `VMFrames_proofs` is
about the machine and its loader, `OperatorParser_proofs` and
`ShuntingYard_proofs` about the operators, `EvalProgramMain_proofs` and
`SwiftMain_proofs` about parser and interpreter of each program,
`Scanner_proofs` about both scanners, `Memory_proofs` about pools and what is
in them.

## 3. The runs

All actions fire in the passing runs. Definitions marked as mutants in the
modules are plausible mistakes in the definition they stand next to;
`PROJECT.json` pairs each property with one that must violate it.

| Run | Module | States | Question |
|---|---|---|---|
| vm_programs | MCVMPrograms | 27 318 | Are listings loaded or refused, and do the programs of the repository compute what they should? |
| vm_code | MCVMCode | 64 280 | Do calls and returns keep their frames on code nobody would write? |
| interp_programs | MCInterpPrograms | 176 715 | From tokens to results: are programs parsed and run, and wrong ones refused? |
| interp_exprs | MCInterpExprs | 505 930 | Memory and meaning on every program of a grammar |
| scanner | MCScanner | 244 438 | Do both scanners find the tokens of the longest match? |
| memory | MCMemory | 128 673 | Are blocks sound, and are arrays and strings lists of their own? |
| operator_parser | MCOperatorParser | 24 520 | Does `parse_expr` yield the tree of the grammar? |
| shunting_yard | MCShuntingYard | 22 395 | Does the Swift parser yield the tree of its raw values? |
| swift_exprs | MCSwiftInterpExprs | 508 048 | Parsing, scopes and meaning in Swift |
| shunting_yard_readme, swift_underscore, swift_loop_memory | | | section 5 |

**vm_programs.** Listings of the example of `VM.md`, `add3.sbc`, `fac.sbc` and
the division code of `nextprime-simple.sbc` (recursive, with shifts and signs)
are loaded and return what arithmetic gives (`ComputesExpected`), and the
process ends (`Stops`). The listings are printed from tables of instructions,
as they should be; or oddly, with operands that differ by 2^32, with zeros left
out at the end of lines (but not the blank before the newline), with more
numbers than are wanted; or wrongly, with an unknown opcode, an opcode with
nothing behind it but the newline, an operand in each place that is glued to
something, or a file that ends in or before the last operand of any line.
`LoadsListing`: once the machine runs, every line was complete, or short of
operands at its end, and has become the instruction with the operands written,
up to multiples of 2^32, and 0 for the missing ones; and a listing is refused
only at a line that is neither. `ComputesExpected` also has that what is loaded
is the table the listing was printed from, and that those printed wrongly are
refused. Words have 16 bits and operands 8, so that factorials
overflow, operands are cut and the division's bit loops end; the word width
occurs in the division code once and is adapted there. The value array has 72
slots and the call stack 18 entries, what these programs need.

**vm_code.** Every program of three instructions out of 17 and a final
`Return`, on three argument lists, one of them longer than the array. The menu
calls into the middle of other code, lowers the stack pointer, falls through
into callees, stores below the callee's slots, and jumps out of the program;
words of two bits overflow on nearly every operation; four slots and two call
stack entries run out. Three instructions suffice for two nested calls and a
return between them, and the theorems of section 4 do not depend on
the bound. `EntryIsCall`: what a return pops is the place of a `Call`.
`CallStackDeterminesFrames`: the frame computed from it is the one the caller
had. `OutermostSP`: the program itself always runs with the stack pointer it
was started with. `FramesPreserved`: with code that follows the calling
convention, no slot below a callee's stack pointer changes until it returns;
programs in the menu that break it are excluded by the property's
precondition, and those left include nested calls. `ImplementsFrames`: the
refinement.

**interp_programs.** The tokens of `fac`, `fib`, `div` (with overflow) and the
tests of `let` and `loop`, with all parentheses or the fewest possible, are
parsed to the tree of the grammar and run to the expected results
(`ComputesExpected`). With 48 environment nodes, a loop of 100 turns would crash
if a turn lost one. Four sample programs, which have every form of the language
and all operators between them, are given with every token left out, replaced
by, or preceded by every kind of token, with any two neighbours exchanged, and
cut off anywhere. Most of these are no programs. `ParsesByGrammar`: the parser
ends in an assert if and only if the grammar gives the tokens no tree, and has
the one tree the grammar gives otherwise. Those that turn out to be programs get
more arguments than their `main` takes, so that they are refused and not run.
`ArraysInStep`: however deep calls of `parse_expr` are nested, the two arrays of
each are in step. `Ends`: parsing comes to an end for all of the inputs, and
evaluation for those that are run. One wrong token at any place is what the
bound is about: the parser stops at the first one it does not want, so that a
second one only matters where the first makes another program.

**interp_exprs.** All programs of `Programs` for all arguments of two bits:
calculations, shadowing bindings, and loops with a `recur` in a `let`, in an
operand, in an inner loop, with too many or too few arguments, with calls.
`EnvironmentsLive`: nobody holds a freed node. `HeapAccountedFor`: the number
of nodes is exactly the number of bindings in force, so nothing leaks and loops
run in constant memory. `IntResultNeverFails`: the assert in `int_result` has
nothing to catch, as another one fails first. `MeansReference`: the result is
that of `Semantics`, and the asserts fail for, and only for, programs that
break a rule. Nine nodes are enough for the deepest of the programs that do
not recurse and too few for some that do, so that `Crash` occurs as well.

**operator_parser, shunting_yard.** All chains of up to five operands over the
six operators. Four operators are enough for every combination of lower, equal
and higher neighbours on both sides of two adjacent joins; longer chains are
covered by the theorems. `OneTreeLeft` is the two asserts at the end of
`parse_expr`; `Returns` that its loops end; `OperandsSuffice` that no pop in
Swift finds an empty stack; `WaitingOperatorsIncrease` the invariant of the
operator stack; `ParsesByGrammar` and `ParsesByRawValue` compare with
`Grammar`, `ImplementsReductions` with `Reductions`.

**scanner.** Every text of up to four characters out of twelve (letters that
make a keyword, an underscore, two digits, white space, a parenthesis, `&`, `|`,
`=`, an illegal character and the NUL), and two texts with all tokens; the
integers have seven bits, so that numbers of three digits overflow.
`ScansLongestMatch` says at every step that the tokens returned, followed by
those in what is collected or not yet read, are the tokens of the file; the
reference takes the longest prefix that is spelled like a token. Four characters
hold any two tokens next to each other, and a third character after each of
them. In C it is not asked of texts with a NUL, which the scanner takes for
`&&` (section 5), nor in Swift of those with an underscore, which it gets wrong.
`ScannerEnds` is asked of all texts, and `TypeOK`, which is what the parsers
count on, too. `CHECK_DEADLOCK` is off, as scanning ends.

**memory.** One pool of chunks of 7, 14 and 28 longs of two bytes, and three
scenarios. *requests*: allocations that fit in the first chunk, fill it exactly,
fit only in a later one or in none, `malloc` that fails at any point, and resets;
at most five blocks between resets, which is more than the first two chunks hold
of the larger requests. *parse*: one array of up to five elements, which moves
when it gets the fifth, one of up to two, and a string of up to six characters,
which moves twice, so that blocks left behind lie at the end of a chunk; one
removal or assignment and one block of somebody else at any point. *strings*:
every sequence of up to four calls of `dynstring.c` for two strings, with texts
that begin or end with blanks, which includes cutting a string to nothing and
splitting it. (The bounds are `MaxBlocks`, `MaxChars`,
`MaxEdits`, `MaxOther`, `MaxCalls`.) `BlocksInChunks` has blocks end one long
before their chunk does, on which `dynstring.c` relies: `CopiesInChunk`, what
`reallocString` reads beyond its block is in the chunk. `StringsTerminated`: the
byte after a string is NUL, and if the string is empty, there is another NUL in
its block, so that `ds_split_ws` does not read the memory of others.
`ImplementsLists` is the refinement, but for splits of empty strings.
`CHECK_DEADLOCK` is off as the behaviours end when all is as long as it may get.

**swift_exprs.** The programs of `interp_exprs` that have only defined calls,
with names bound twice in one `let` or `loop` and a wrong number of arguments of
`main`, given as trees; and `fac`, `fib`, a loop and the changed samples of
interp_programs, given as tokens, the changed ones without arguments, so that
they are parsed and then refused. Words have three bits. `ScopesBalanced`: every
stack of values holds exactly as many values as there are bindings of the name
in force, through every return of a value or a `recur`. `MeansReference` as
above, but for negations that overflow (section 5); programs with a `recur` in
the wrong place are promised nothing. `StacksInStep`: each open
`parseBinaryExpression` has a scope of its own, with its two stacks in step.
`ParsesByGrammar`: the tree is that of the grammar with the raw values for
precedences, and parsing fails if and only if the grammar has none, or a name is
used as what it is not by then (a function's name as a variable, or the other
way round). `EndsWithProgram`: parsing always ends, and so does the evaluation of
the programs given as tokens and, among those given as trees, of those without a
loop and those whose loops count up to a wrap. (`fac` of the greatest integer,
here as in 64 bits, does not end, and is not among them.)

**Fairness.** One thread that nothing suspends or blocks: weak fairness of the
next-state relation, `WF_vars(Next)`, is all that is assumed, for `Stops`,
`Ends`, `ScannerEnds`, `Returns` and `EndsWithProgram`.

## 4. What is proved

With TLAPS, for all values of the constants that the modules' assumptions
admit. Those are:

* `Half` is at least 2 (`HalfAssumption`), and operands are not wider than words
  (`OperandAssumption`);
* programs are sequences of instructions and arguments are words
  (`InvocationsAssumption` of `VM`); the sizes of the two stacks are natural
  numbers (`SizesAssumption`); the lines of a listing are records of `Line`, and
  the machine starts from a command line (`CommandLinesAssumption`,
  `StartedAssumption`), as `vm_main` is the only caller of `vm_load`;
* the programs of an interpreter that runs alone are made of trees and have a
  `main`, and their arguments are words (`ExprsAssumption`,
  `InvocationsAssumption`; that parser and driver see to it is proved below); the
  number of nodes, or of lines of `Debug`, is a natural number
  (`MaxNodesAssumption`, `MaxInvocationsAssumption`);
* the tokens of a file are records as the scanners return them, and what is on the
  command line after it are numbers (`CommandLinesAssumption` of `EvalProgramMain`
  and `SwiftMain`); operators are strings, which the provers have to be told
  (`LiteralsAssumption`);
* a chain has an operand more than operators (`ChainsAssumption`);
* chunks are not empty and requests not negative (`PoolsAssumption`); elements
  and bytes have a size, and texts are sequences of bytes other than the NUL
  (`ContainersAssumption`, `TextsAssumption`, `NoneAssumption`); a `long` has more
  than one byte (`LongAssumption`);
* classes of characters are as in the C locale: digits begin no word, white space
  is in none, the letters of keywords are letters, the characters of operators
  belong to no class, and EOF is no character (`CharactersAssumption`).

TLC evaluates them in the runs. One hypothesis more, `AllTrees`, is part of the
statement of the theorems about whole programs: every node with the operands and
names of its kind, made of trees in `Exprs`, is itself in `Exprs`. `Exprs` occurs
in no action of `MainSpec`, only in what the invariants say of types, so this
chooses a parameter of the proof and restricts no behaviour: the set of all finite
trees satisfies it, and `ExprsAssumption` too. Finite instances, which is what TLC
needs, do not satisfy it.

Every inductive invariant below was checked with TLC on the runs of its module
before it was proved, but for `TreesInv` and `MainInv`, which speak of all trees.

**The machine** (`VMFrames_proofs`), for every program, argument list, word width
and size of the stacks: `TypeCorrect`, `EntriesAreCalls`, `FramesDetermined`,
`OutermostKeepsSP`, `CallersPreserved`, `VMImplementsFrames`. `TypeOK` is not
inductive alone: a return may read any entry of the call stack, so `VMInv` adds
that the entries in use are places of calls. `HInv` then adds what the history is
(`HistoryType`), what `vm_push_args` has checked (`AtStart`), that the call stack
determines the frames, that the outermost stack pointer stays, and that with
conventional code the stack pointers of open calls increase (`Nested`). The last
is what makes `FramesPreserved` hold: a store at or above the newest stack
pointer is above all older ones, and a return stores at or above the stack
pointer it goes back to. The refinement needs one step per action, and `HInv` for
the return: the frame `FrameMachine` keeps is the one `vm.c` computes.

**The loader** (the same module), for every listing: `LoadsListingAlways`, and
`MachineTypedAlways`, by which the machine it starts is one that the theorems
above are about. `LoadInv` says where in the listing `vm_load` is, that the
instructions so far are those of the lines before (`LoadedSoFar`), and that the
machine only runs at the end. The work is in two lemmas: the table of `vm_load`
has under every name the operands `VM.md` gives it, in the order of the
enumeration, so that the `Loadable` lines are those that are `Complete` and those
that are `Short`; and an operand cut to 32 bits is congruent to the number
written.

**parse_expr** (`OperatorParser_proofs`), for chains of every length:
`TypeCorrect`, `AssertsHold`, `JoinsByPrecedence`, `ParsesEveryChain`. `PInv`
adds `LevelsDone` to `TypeOK`: the operators left are at the current level or
later ones, and those before `i` at later ones only. So when an operator is
joined its neighbour to the left binds less and the one to the right no more, and
after the last level none is left. `ParsesEveryChain`, that the tree is the one
`Grammar` gives, rests on an invariant over the whole loop (`TreeKept`): the
chain that is left has the tree of the chain at the beginning, as joining two
neighbours at such a place keeps the tree of the grammar. That is proved in
`Basics_proofs` by induction over the length of the part in which they are.

**The shunting yard** (`ShuntingYard_proofs`), for chains of every length:
`PopsSucceed`, `StacksCorrect`, `JoinsByRawValue`, `ParsesEveryChain`. The
invariant is `TypeOK`, which relates the lengths of the stacks, with
`WaitingOperatorsIncrease` and `TreeKept`.

**Recursive descent**, for every sequence of tokens. In C (`EvalProgramMain_proofs`)
`ArraysInStepAlways` and `ReturnsOneOperandAlways`, that `parse_expr` returns
with one operand: `ParserInv` says of every activation that waits that its
arrays are in step, and of the innermost one, in its loops, what
`OperatorParser_proofs` has shown, which is instantiated with its arrays. In
Swift (`SwiftMain_proofs`) `StacksInStepAlways` and `PopsFindOperandsAlways`:
there are as many scopes as activations that wait for a
`parseBinaryExpression`, each with its stacks in step, so that no forced pop
fails.

**The trees they make**, for every sequence of tokens and every depth of nesting:
`MakesDefinitionsAlways` in both modules, that what is handed to the interpreter
are definitions as that expects them. `TreesInv` says that what a primary
expression returns and what is collected in arrays or on stacks are expressions
in `Exprs` and no definitions; that operators there are binary operators; and of
every activation that waits, that its node fits its place (`Unfinished`): the
bindings of a `let` are one name ahead of their right hand sides, a body is read
when they are equal, a unary operator has no operand yet. `ParserInv` is needed
with it, for what is taken from an array or a stack is there only because those
are in step.

**The C interpreter** (`EvalProgramMain_proofs`), for every program, every
argument and any number of nodes: `TypeOKAlways`, `IntResultNeverFailsAlways`,
`EnvironmentsLiveAlways`, `HeapAccountedForAlways`, from `IInvAlways`. Of these
only the types are nearly inductive. `IInv` adds `Control` to them (how far each
frame has come; that every frame but the last waits for the one above; and which
loop a `recur` of that one goes back to, which is none below an operand that must
be an integer) and `Layout` of the heap into `Segs`. The nodes can be listed by
age so that each frame has a segment of the list, of as many nodes as it has bound
names; in it each node leads to the one before, and the first to the environment
the segment is based on, which like all others the frame holds is older; a
`recur` on its way has the newest segment, based on the environment around the
loop it goes to. A binding extends the newest segment, and what `env_free` frees
is the newest segment. `EnvironmentsLive` and `HeapAccountedFor` would not do
alone: neither says which nodes are between the environment a frame has and the
one it began with.
From the tokens on, `MainIntResultNeverFails`, `MainEnvironmentsLive` and
`MainHeapAccountedFor` are the same for `MainSpec`, by `MainInv`: `ParserInv`,
`TreesInv` and `IInv`, and that nothing is evaluated while tokens are left
(`NotCalled`). When `main` is called, `TreesInv` and `strtoll` give what
`InvocationsAssumption` asks of a program.

**The Swift interpreter** (`SwiftMain_proofs`), for every program:
`ScopesBalancedAlways`, from `InterpreterInvariantAlways`. `ScopesBalanced` does
not say how many values a frame that leaves its scope has pushed; `IInv` adds the
types and, in `Control`, how far each frame has come, and that a call has a
defined function and as many operands as that has parameters. The lemmas say how
a frame that is added, removed or changed changes the numbers of bindings in
force and of functions being run. `MainScopesBalanced` is the same for `MainSpec`,
from the tokens on, by `MainInv` as in C; here a program that was refused or that
trapped before `main` stays `NotCalled`.

**The scanners** (`Scanner_proofs`), for every alphabet and every text:
`TokensAlwaysGood` (`TypeOK`, what the parsers count on: an identifier is no
keyword, a number fits a word) and `ScansLongestMatchAlways`. `ScInv` says that
what is collected fits the place in the code; a token ends only where no longer
beginning of the text spells anything, so that what `scan` returns is what
`LongestMatch` takes. Texts with a NUL in C, and with an underscore in Swift, are
excluded from the second (section 5).

**Memory** (`Memory_proofs`), for chunks, requests, arrays and strings of any size
and number: `AlwaysInChunks` and `AlwaysDisjoint` for pools, where `FilledUpTo`
makes them inductive (blocks of the active chunk end below `fill_ptr`, and none
lies in a later chunk); then `MemoryInvAlways`, `ContainersTypeAlways`,
`StringsTerminatedAlways`, `CopiesInChunkAlways`, and `ListsImplemented`, the
refinement of `Lists`. `MemoryInv` is `PoolInv`, that each array and string has a
block of the pool for itself (`BlocksOwned`), and that its header and bytes are
`Sound`. Every call changes one container, or for `ds_split_ws` two, and
leaves the bytes of the others alone, as blocks are disjoint; what
it does to its own is the step of `Lists`, case by case of the calls, except for
`SplitsEmpty`. For that, and for `StringsTerminated`, `LeftoverInv` says what is
behind the NUL of a string: memory that no block has is as `pools.c` cleared it;
in the block of a string are only characters and NULs; and a NUL is wherever no
character can have been (`Clean`: in the last byte there is room for, and beyond
the longest string the model has). So what
`ds_split_ws` takes from behind the NUL of an empty string ends in the block of
that string.

**Only model-checked:** that results are those of arithmetic (`ComputesExpected`)
and of the language (`MeansReference`); that the trees of whole programs are those
of `TokenGrammar` (`ParsesByGrammar` of interp_programs and swift_exprs);
liveness (`Stops`, `Ends`, `ScannerEnds`, `Returns`, `EndsWithProgram`). Liveness
under fairness is beyond the proof system, and so are `RECURSIVE` operators, which
`Semantics` and `TokenGrammar` are made of. `PoolInv`, `MemoryInv`, `LeftoverInv`, `IInv`,
`ParserInv`, `TreesInv`, `LoadInv` and `ScInv` are the other way round: they are proved, and
no run has them as properties.

## 5. Where code and documents disagree

Three runs are expected to find a violation:

* **shunting_yard_readme** (`ParsesByReadme`): `hasLowerPrecedence` compares the
  raw values of the cases of `Operator`, which are all different, so that
  `1&&2||3` becomes `1&&(2||3)` and `1==2<3` becomes `1==(2<3)`, where
  `README.md:91-95` and `ASSIGNMENTS.md:495-501` have equal precedence and
  association to the left.
* **swift_underscore** (`ScansUnderscores`): the loop of `tokenize` asks whether
  `currentChar` is an underscore, where `nextChar` is meant (scanner.swift:311).
  An identifier that begins with `_` takes in everything up to the end of the
  file, where `consume` asserts, and `a_b` is scanned as `a` and `_b`;
  `ASSIGNMENTS.md:26-27` allows underscores anywhere.
* **swift_loop_memory** (`LoopMemoryConstant`): `Debug.invocations` grows by two
  lines per call, also when nobody asked for it; `ASSIGNMENTS.md:410-411`
  demands that a loop not take more memory the more often it recurs.

Others, found on the way, that no run shows:

* Swift's `-` traps on the least integer (parser.swift:88), where
  `ASSIGNMENTS.md:207-210` has whatever fits into 64 bits; `+` and `*` wrap.
  `SwiftInterp` has it as `overflow`, and `MeansReference` excuses it.
* `vm_main` has 32768 slots and `VM.md:14-16` asks for at least a million (the
  rest of `VM` is the same for any size).
* `README.md:93-98` has `!` below `<` and `==`, and both parsers bind it
  tightest.
* `strchr` finds the NUL at the end of a set. So `vm_load` aborts when the file
  ends in a digit instead of a newline, or in blanks where an operand should be,
  and a NUL in a source file is the token after `*` for `scan`, which is `&&`.
* `VM.md:260-346` gives every opcode its operands, but `vm_load` takes lines that
  lack some at the end, and has 0 for them: `strtoll` makes that of the newline
  that stops `skip` (vm.c:97-101). Only if nothing but the newline is behind the
  opcode is the line refused, and then for its opcode: `find` is given a blank
  and a tab, and runs on over the newline (vm.c:150).
* The Swift parser lets a file without tokens pass as a program.
* `call_function` does not compare numbers of arguments, and a missing one is
  read from beyond the array.
* `ds_split_ws` does not look at the last character. On an empty string its loop
  ends with `i` 0, which is not `length - 1`, so that it copies from `data[1]` on,
  behind the NUL (dynstring.c:243-247): after `ds_new_from("a b")` and
  `ds_shrink_rear(3)` the new string is `" b"`, which had been cut off. What it
  finds ends in the block of that string (section 4). Nothing calls it.
* `ValueArray.get` in Swift, which nothing calls, asserts an index above 0 where
  `set` allows 0.

## 6. What is not modelled

* The text of a bytecode line: `VMMain` starts from records. `fgets` would cut a
  line of 127 characters or more in two, and labels are skipped.
* `ds_empty`, whose string has no pool; `ds_split_path`, which is a copy and a
  shortening; that `ds_append_string` with more bytes than the text has would
  read beyond it. Nothing in this program calls them.
* `env_bind` uses what `malloc` returns without a look; `Crash` is what follows,
  and the heap is not followed further.
* What happens to the addresses of parsers' nodes: trees are values in `Parser`
  and `Interp`, and that their blocks keep their contents is what the run
  `memory` is about.
* In the drivers: the options that print tokens, trees or the list of
  invocations, and reading files. `--parse-exp` and `--parse-func` begin with
  another of the calls modelled.
* The Swift `VM` holds a parser and has no instructions yet.
* `test.py`, the examples (their programs are inputs of two runs), the build
  files, and `interpreter-schani.exe`, which has no source here.

## 7. Plan

Done, in this order: the bytecode machine with its abstract specification and
proofs; the reference semantics and the C interpreter; the operator parsers
with their common abstract specification and proofs; pools with proofs and the
containers in them; the Swift interpreter; the loader with `vm_main`; both
recursive-descent parsers, composed with their interpreters, against the
grammar; both scanners against the longest match; the rest of the strings.

Then the proofs, in the order of section 4. On the way to them the model changed
in a few places to what can be reasoned about: `Grammar` and `LongestMatch` are
recursive functions instead of operators, constants have assumptions, and the
reference of `LoadsListing` reads the lines itself.

What is left:

1. A composition of each scanner with its parser, so that the theorems above hold
   from the characters on; `TokensAlwaysGood` and `CommandLinesAssumption` say the
   same of a token, in two modules.
2. A reference for whole programs that is not `RECURSIVE`, as `Grammar` is for
   chains, to prove that recursive descent yields its trees.
