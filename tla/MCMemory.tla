------------------------------ MODULE MCMemory ------------------------------
(***************************************************************************)
(* A pool of three chunks of 7, 14 and 28 longs of two bytes, in three     *)
(* scenarios.  "requests": allocations that fit in the first chunk, only   *)
(* in a later one, or in none, and resets, with at most MaxBlocks blocks   *)
(* between these.  "parse": two arrays and a string grow, at most MaxEdits *)
(* elements are removed or set, and MaxOther blocks are taken by others.   *)
(* One array moves when it gets its fifth element; the string moves at its *)
(* first and third character, and the block it leaves may be the last of a *)
(* chunk.  "strings": MaxCalls calls of dynstring.c for two strings.       *)
(***************************************************************************)
EXTENDS DynStrings, TLC

CONSTANTS exprs, ops, name, word, x1, x2, x3, x4, x5, op1, ch, blank

VARIABLES scenario, calls     \* calls: what is bounded in the scenario, so far

MaxBlocks == 5
MaxEdits  == 1
MaxOther  == 1
MaxCalls  == 4
MCRequests == {0, 1, 6, 7, 13, 28}
MCArrays   == {exprs, ops}
MCStrings  == {name, word}
MCPointers == exprs :> <<x1, x2, x3, x4, x5>> @@ ops :> <<op1>>
MCChars    == {ch}
MCTexts    == { << >>, <<ch, blank, ch, blank>>, <<blank, ch>> }
MCBlanks   == {blank}

MCInit == Init /\ scenario \in {"requests", "parse", "strings"} /\ calls = 0

InRequests ==
  /\ scenario = "requests"
  /\ PoolNext /\ Cardinality(blocks') <= MaxBlocks
  /\ UNCHANGED <<memory, arr, str, calls>>

InParse ==
  /\ scenario = "parse"
  /\ \/ Grow /\ str'[word] = None /\ UNCHANGED calls
     \/ Edit /\ calls < MaxEdits /\ calls' = calls + 1
     \/ Other /\ calls < MaxOther /\ calls' = calls + 1

\* The first string is made first, for they are alike.
InStrings ==
  /\ scenario = "strings"
  /\ calls < MaxCalls /\ calls' = calls + 1
  /\ StringNext \/ Other
  /\ str'[name] # None

MCNext == (InRequests \/ InParse \/ InStrings) /\ UNCHANGED scenario
MCSpec == MCInit /\ [][MCNext]_<<contvars, scenario, calls>>
=============================================================================
