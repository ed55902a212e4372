----------------------------- MODULE MCVMPrograms -----------------------------
(***************************************************************************)
(* The machine on the programs of the repository, on 16-bit words: the     *)
(* example VM.md works through, tests/vm-2.4/add3.sbc, tests/vm-2.6/fac.sbc *)
(* and the division code of examples/nextprime-simple.sbc.  Each is run on *)
(* several arguments and its result is compared with arithmetic; some are  *)
(* loaded from listings with something odd or wrong in them.               *)
(***************************************************************************)
EXTENDS VMMain

\* The array only has to hold the deepest chain of calls these programs make.
MCArraySize == 72
MCCallStackSize == 18
MCHalf == 32768
MCHalfOperand == 128

Code(table) ==
  [k \in 1 .. Len(table) |->
     [op |-> table[k][1], a |-> table[k][2], b |-> table[k][3], c |-> table[k][4]]]

\* tests/vm-2.4/add3.sbc
Add3 == Code(<<
  <<"Add", 0, -3, -2>>, <<"Add", 0, -1, 0>>, <<"Set", 1, 10, 0>>,
  <<"Add", 0, 0, 1>>, <<"Return", 0, 0, 0>> >>)

\* VM.md: the sum of three arguments and 10, times 5, four times over.
TimesFive == Code(<<
  <<"Add", 0, -3, -2>>, <<"Add", 0, -1, 0>>, <<"Set", 1, 10, 0>>,
  <<"Add", 0, 0, 1>>, <<"Move", 1, 0, 0>>, <<"Set", 0, 4, 0>>,
  <<"Call", 12, 2, 1>>, <<"Set", 2, -1, 0>>, <<"Add", 0, 0, 2>>,
  <<"JumpIfZero", 0, 11, 0>>, <<"Jump", 6, 0, 0>>, <<"Return", 1, 0, 0>>,
  <<"Set", 0, 5, 0>>, <<"Multiply", 0, -1, 0>>, <<"Return", 0, 0, 0>> >>)

\* tests/vm-2.6/fac.sbc
Fac == Code(<<
  <<"Set", 0, 1, 0>>, <<"Set", 1, 2, 0>>, <<"LessThan", 2, -1, 1>>,
  <<"JumpIfZero", 2, 5, 0>>, <<"Return", 0, 0, 0>>,
  <<"Multiply", 0, 0, 1>>, <<"Set", 3, 1, 0>>, <<"Add", 1, 1, 3>>,
  <<"Jump", 2, 0, 0>> >>)

\* examples/nextprime-simple.sbc, instructions 0 to 122, which hold shifts,
\* leading zeros (recursive), signs, division and remainder.  The jump at 0
\* leads to the main program below instead of instruction 180, and the word
\* width at 48 is 16 instead of 64.
Remainder == Code(<<
  <<"Jump", 123, 0, 0>>, <<"Move", 1, -2, 0>>, <<"Move", 2, -1, 0>>,
  <<"Set", 4, 63, 0>>, <<"LessThan", 3, 2, 4>>, <<"JumpIfZero", 3, 12, 0>>,
  <<"Set", 3, 2, 0>>, <<"Multiply", 1, 1, 3>>, <<"Set", 3, 1, 0>>,
  <<"Add", 2, 2, 3>>, <<"Jump", 3, 0, 0>>, <<"Jump", 14, 0, 0>>,
  <<"Set", 3, 0, 0>>, <<"LessThan", 0, 1, 3>>, <<"Return", 0, 0, 0>>,
  <<"Move", 1, -2, 0>>, <<"Set", 2, 0, 0>>, <<"LessThan", 3, 2, -1>>,
  <<"JumpIfZero", 3, 25, 0>>, <<"Set", 3, 2, 0>>, <<"Multiply", 1, 1, 3>>,
  <<"Set", 3, 1, 0>>, <<"Add", 2, 2, 3>>, <<"Jump", 17, 0, 0>>,
  <<"Jump", 26, 0, 0>>, <<"Return", 1, 0, 0>>, <<"Return", 0, 0, 0>>,
  <<"Set", 1, 0, 0>>, <<"Set", 2, 0, 0>>, <<"Add", 4, -1, 2>>,
  <<"Set", 5, 64, 0>>, <<"LessThan", 3, 4, 5>>, <<"JumpIfZero", 3, 43, 0>>,
  <<"Move", 6, -2, 0>>, <<"Add", 7, -1, 2>>, <<"Call", 1, 8, 4>>,
  <<"Move", 5, 2, 0>>, <<"Call", 15, 6, 3>>, <<"Add", 1, 1, 3>>,
  <<"Set", 3, 1, 0>>, <<"Add", 2, 2, 3>>, <<"Jump", 29, 0, 0>>,
  <<"Jump", 44, 0, 0>>, <<"Return", 1, 0, 0>>, <<"Return", 0, 0, 0>>,
  <<"Set", 2, 0, 0>>, <<"Equals", 1, -1, 2>>, <<"JumpIfZero", 1, 50, 0>>,
  <<"Set", 0, 16, 0>>, <<"Jump", 60, 0, 0>>, <<"Set", 2, 0, 0>>,
  <<"LessThan", 1, -1, 2>>, <<"JumpIfZero", 1, 55, 0>>, <<"Set", 0, 0, 0>>,
  <<"Jump", 60, 0, 0>>, <<"Set", 3, 2, 0>>, <<"Multiply", 2, -1, 3>>,
  <<"Call", 45, 3, 1>>, <<"Set", 2, 1, 0>>, <<"Add", 0, 1, 2>>,
  <<"Return", 0, 0, 0>>, <<"Set", 2, 0, 0>>, <<"Equals", 1, -1, 2>>,
  <<"JumpIfZero", 1, 66, 0>>, <<"Set", 0, 0, 0>>, <<"Jump", 72, 0, 0>>,
  <<"Set", 2, 0, 0>>, <<"LessThan", 1, -1, 2>>, <<"JumpIfZero", 1, 71, 0>>,
  <<"Set", 0, -1, 0>>, <<"Jump", 72, 0, 0>>, <<"Set", 0, 1, 0>>,
  <<"Return", 0, 0, 0>>, <<"Move", 3, -2, 0>>, <<"Call", 61, 4, 2>>,
  <<"Move", 4, -1, 0>>, <<"Call", 61, 5, 3>>, <<"Multiply", 1, 2, 3>>,
  <<"Move", 4, -2, 0>>, <<"Call", 61, 5, 3>>, <<"Multiply", 2, -2, 3>>,
  <<"Move", 5, -1, 0>>, <<"Call", 61, 6, 4>>, <<"Multiply", 3, -1, 4>>,
  <<"Move", 5, 3, 0>>, <<"Call", 45, 6, 4>>, <<"Set", 5, 0, 0>>,
  <<"Set", 7, -1, 0>>, <<"Add", 6, 4, 7>>, <<"Set", 8, 0, 0>>,
  <<"LessThan", 7, 6, 8>>, <<"JumpIfZero", 7, 94, 0>>, <<"Multiply", 0, 5, 1>>,
  <<"Jump", 115, 0, 0>>, <<"Move", 8, 3, 0>>, <<"Move", 9, 6, 0>>,
  <<"Call", 15, 10, 7>>, <<"LessThan", 8, 2, 7>>, <<"JumpIfZero", 8, 100, 0>>,
  <<"Jump", 110, 0, 0>>, <<"Negate", 8, 7, 0>>, <<"Add", 2, 2, 8>>,
  <<"Set", 9, 1, 0>>, <<"Move", 10, 6, 0>>, <<"Call", 15, 11, 8>>,
  <<"Add", 5, 5, 8>>, <<"Set", 8, -1, 0>>, <<"Add", 6, 6, 8>>,
  <<"Jump", 89, 0, 0>>, <<"Jump", 115, 0, 0>>, <<"Move", 2, 2, 0>>,
  <<"Move", 5, 5, 0>>, <<"Set", 8, -1, 0>>, <<"Add", 6, 6, 8>>,
  <<"Jump", 89, 0, 0>>, <<"Return", 0, 0, 0>>, <<"Move", 2, -2, 0>>,
  <<"Move", 3, -1, 0>>, <<"Call", 73, 4, 1>>, <<"Multiply", 3, -1, 1>>,
  <<"Negate", 2, 3, 0>>, <<"Add", 0, -2, 2>>, <<"Return", 0, 0, 0>>,
  \* the main program: the remainder of the two arguments
  <<"Move", 2, -2, 0>>, <<"Move", 3, -1, 0>>, <<"Call", 116, 4, 1>>,
  <<"Return", 1, 0, 0>> >>)

-----------------------------------------------------------------------------
(* The expected results, from arithmetic.                                  *)

Factorial[n \in 0 .. 9] == IF n < 2 THEN 1 ELSE n * Factorial[n - 1]

Abs(x) == IF x < 0 THEN -x ELSE x
Rem(x, y) == LET r == Abs(x) % Abs(y) IN IF x < 0 THEN -r ELSE r

(* Listings.  Each is printed from a table of instructions, as it should   *)
(* be or with something amiss; .refused says whether vm_load must abort.   *)

OperandsOf(ins) ==
  CASE ins.op \in ThreeSlotOps \union {"Call"} -> <<ins.a, ins.b, ins.c>>
    [] ins.op \in TwoSlotOps \union {"Set", "JumpIfZero"} -> <<ins.a, ins.b>>
    [] ins.op \in {"Jump", "Return"} -> <<ins.a>>

Text(ins)   == [op |-> ins.op, nums |-> OperandsOf(ins), glued |-> 0, ends |-> "more"]
Listing(code) == [k \in 1 .. Len(code) |-> Text(code[k])]

Start(code, lines, refused, argv, expected) ==
  [found |-> TRUE, lines |-> lines, argv |-> argv,
   code |-> code, refused |-> refused, expected |-> expected]

Good(code, argv, expected) == Start(code, Listing(code), FALSE, argv, expected)

\* Loaded, but odd: the first operands of all lines written 2^32 too large or
\* too small, zeros at the end left out (a blank and the newline stay), more
\* numbers than the opcode takes (and those glued, or the end of the file),
\* blanks at the end of the file, an operand beyond 64 bits.
TrimZeros(nums) ==
  SubSeq(nums, 1, CHOOSE n \in 0 .. Len(nums) :
                    /\ \A k \in n + 1 .. Len(nums) : nums[k] = 0
                    /\ n > 0 => nums[n] # 0)
Odd(code, argv, expected) ==
  LET lines == Listing(code)
      more(k) == [lines EXCEPT ![k].nums = Append(@, 7), ![k].glued = Len(lines[k].nums) + 1]
  IN  { Start(code, ls, FALSE, argv, expected) :
          ls \in { [k \in 1 .. Len(lines) |->
                      [lines[k] EXCEPT !.nums[1] = @ + d * 2 * HalfOperand]] : d \in {-1, 1} }
                 \union { [k \in 1 .. Len(lines) |-> [lines[k] EXCEPT !.nums = TrimZeros(@)]] }
                 \union { more(k) : k \in 1 .. Len(lines) }
                 \union { [more(Len(lines)) EXCEPT ![Len(lines)].ends = "number"],
                          [lines EXCEPT ![Len(lines)].ends = "blank"] } }

\* Refused: an opcode nobody knows or with nothing behind it, an operand that
\* is not a number, a file that ends in the last operand of a line, or before
\* it.
Bad(code, argv) ==
  LET lines  == Listing(code)
      upto(k) == SubSeq(lines, 1, k)
      last(k) == Len(lines[k].nums)
  IN  { Start(code, ls, TRUE, argv, 0) :
          ls \in UNION { { [lines EXCEPT ![k].op = "Returns"],
                           [lines EXCEPT ![k].ends = "opcode", ![k].nums = << >>],
                           [upto(k) EXCEPT ![k].ends = "number"],
                           [upto(k) EXCEPT ![k].ends = "blank",
                                           ![k].nums = SubSeq(@, 1, last(k) - 1)] }
                         \union { [lines EXCEPT ![k].glued = j] : j \in 1 .. last(k) }
                       : k \in 1 .. Len(lines) } }

Saturate == Code(<< <<"Set", 0, 32767, 0>>, <<"Add", 0, 0, -1>>, <<"Return", 0, 0, 0>> >>)
Saturated ==
  Start(Saturate, [Listing(Saturate) EXCEPT ![1].nums[2] = 70000], FALSE, <<-40000>>, -1)

MCCommandLines ==
  {Good(Add3, <<123, 456, 789>>, 1378), Good(Add3, <<32767, 1, 0>>, -32758), Saturated}
  \union {Good(TimesFive, <<x, 2, 3>>, (x + 15) * 625) : x \in {-15, 1, 20}}
  \union {Good(Fac, <<n>>, Wrap(Factorial[n])) : n \in {0, 1, 2, 5, 8, 9}}
  \union {Good(Remainder, <<x, y>>, Rem(x, y)) :
            x \in {0, 7, 100, -17, 3001}, y \in {1, 3, -4, 120}}
  \union Odd(TimesFive, <<1, 2, 3>>, 10000) \union Odd(Fac, <<5>>, 120)
  \union Bad(TimesFive, <<1, 2, 3>>) \union Bad(Add3, <<1, 2, 3>>)
  \union {[Good(Fac, <<5>>, 120) EXCEPT !.found = FALSE, !.refused = TRUE, !.lines = << >>]}

MCInvocations == { Started(line) : line \in MCCommandLines }

(* The machine computes what the program was written to compute: the       *)
(* instructions are those of the table, the result is the one arithmetic   *)
(* gives, overflow wrapping; and of a listing with something amiss in it   *)
(* nothing is run.                                                         *)
ComputesExpected ==
  LET line == program.line IN
  /\ line.refused => status \in {"init", "aborted"}
  /\ status \in {"running", "returned"} => program.code = line.code
  /\ status \in Stopped /\ ~line.refused =>
       status = "returned" /\ result = line.expected
=============================================================================
