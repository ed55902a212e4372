------------------------------- MODULE Words --------------------------------
(***************************************************************************)
(* The 64-bit integers of the C programs.  They are built with -O0, where  *)
(* signed overflow wraps.  Half stands for 2^63: a word is any number that *)
(* fits in the machine's width, and Wrap is what a register keeps of a     *)
(* number.                                                                 *)
(***************************************************************************)
EXTENDS Integers

CONSTANT Half

ASSUME HalfAssumption == Half \in Nat /\ Half > 1

Word == (-Half) .. (Half - 1)

WrapUnsigned(x) == x % (2 * Half)                   \* mutant: uint64_t
Wrap(x) == ((x + Half) % (2 * Half)) - Half

\* A C truth value kept as an integer: `cond ? 1 : 0`.
Truth(b) == IF b THEN 1 ELSE 0

\* strtoll, as C programs read numbers: it stops at the ends of the range.
strtoll_wraps(n) == Wrap(n)                                    \* mutant
strtoll(n) == IF n < -Half THEN -Half ELSE IF n >= Half THEN Half - 1 ELSE n
=============================================================================
