----------------------------- MODULE DynStrings -----------------------------
(***************************************************************************)
(* The other functions of dynstring.c, on the memory of Containers.  A     *)
(* text given from outside is a sequence of characters without NUL.        *)
(***************************************************************************)
EXTENDS Containers, FiniteSetsExt

CONSTANTS
  Texts,            \* what is given from outside
  Blanks            \* isspace; all of them are white space to ds_split_ws, too

ASSUME TextsAssumption ==
  /\ (Chars \cup Blanks) \cap {NUL, "outside"} = {}
  /\ \A text \in Texts : text \in Seq(Chars \cup Blanks) /\ Len(text) <= MaxChars

\* sizeof(long): the block of a string has more than one byte.
ASSUME LongAssumption == POOLS_GRANULARITY > 1

\* The characters from the k-th byte of a block up to the first NUL.
CString(mem, data, k) ==
  LET end == Min({ n \in k .. k + MaxChars : Read(mem, Byte(data, n)) \in {NUL, "outside"} })
  IN  [n \in 1 .. end - k |-> mem[Byte(data, k + n - 1)]]

Char(s, i) == memory[Byte(str[s].data, i)]

ds_new_from(s, text)            == Create(s, text)
ds_new_from_bytes(s, text, num) == Create(s, SubSeq(text, 1, num))
ds_copy(s, t)                   == str[t] # None /\ Create(s, CString(memory, str[t].data, 0))

\* strncpy; the caller has as many characters as it says.
ds_append_string(s, text) == AppendText(s, text)

-----------------------------------------------------------------------------
(* The functions that shorten a string in its place, as what they make of  *)
(* memory and of the length.                                               *)

Shorter(mem, length) == [mem |-> mem, length |-> length]
Shortens(s, to) ==
  /\ str[s] # None
  /\ memory' = to.mem
  /\ str' = [str EXCEPT ![s].length = to.length]
  /\ UNCHANGED <<poolvars, arr>>

AtMost(num, length) == IF num > length THEN length ELSE num

shrunk_without_nul(mem, data, length, num) ==       \* mutant: the NUL is left behind
  LET n == AtMost(num, length) IN
  Shorter(Moved(mem, data, 0, data, n, length - n), length - n)
ShrunkFront(mem, data, length, num) ==
  LET n == AtMost(num, length) IN
  Shorter(Moved(mem, data, 0, data, n, length + 1 - n), length - n)
ShrunkRear(mem, data, length, num) ==
  LET n == AtMost(num, length) IN
  Shorter(Stored(mem, data, length - n, 1, NUL), length - n)

ds_shrink_front(s, num) == Shortens(s, ShrunkFront(memory, str[s].data, str[s].length, num))
ds_shrink_rear(s, num)  == Shortens(s, ShrunkRear(memory, str[s].data, str[s].length, num))

\* Every blank at the end is overwritten.
WithoutRear(mem, data, length) ==
  LET keep == Max({0} \cup { n \in 1 .. length : mem[Byte(data, n - 1)] \notin Blanks }) IN
  Shorter(Stored(mem, data, keep, length - keep, NUL), keep)
WithoutFront(mem, data, length) ==
  LET blanks == Min({ n \in 0 .. length : mem[Byte(data, n)] \notin Blanks }) IN
  ShrunkFront(mem, data, length, blanks)

ds_remove_rear_ws(s)  == Shortens(s, WithoutRear(memory, str[s].data, str[s].length))
ds_remove_front_ws(s) == Shortens(s, WithoutFront(memory, str[s].data, str[s].length))
ds_remove_outer_ws(s) ==
  LET rear == WithoutRear(memory, str[s].data, str[s].length) IN
  Shortens(s, WithoutFront(rear.mem, str[s].data, rear.length))

-----------------------------------------------------------------------------
\* Where the loop of ds_split_ws stops: a blank that is the last character is
\* not looked at.
SplitsAt(s) ==
  Min({ i \in 0 .. str[s].length - 2 : Char(s, i) \in Blanks } \cup {str[s].length - 1})

SplitNothing(s, t) == str[s].length > 0 /\ SplitsAt(s) = str[s].length - 1 /\ Create(t, << >>)

SplitWords(s, t) ==
  LET i     == SplitsAt(s)
      text  == CString(memory, str[s].data, i + 1)
      data  == Place(Padded(Len(text) + 1))
  IN
  /\ str[s].length > 0 /\ i < str[s].length - 1
  /\ str[t] = None
  /\ pool_alloc(Padded(Len(text) + 1))
  /\ memory' = Stored(Written(memory, data, 0, Append(text, NUL)), str[s].data, i, 1, NUL)
  /\ str' = [str EXCEPT ![s].length = i,
                        ![t] = [length |-> Len(text), allocated |-> Len(text) + 1, data |-> data]]
  /\ UNCHANGED arr

\* Of an empty string the loop looks at nothing and i is not length - 1: the
\* text behind the NUL, up to the next one, is what the new string gets.
SplitEmpty(s, t) == str[s].length = 0 /\ Create(t, CString(memory, str[s].data, 1))

ds_split_ws(s, t) ==
  str[s] # None /\ (SplitNothing(s, t) \/ SplitWords(s, t) \/ SplitEmpty(s, t))

-----------------------------------------------------------------------------
StringNext ==
  \E s \in Strings :
    \/ ds_new(s)
    \/ \E text \in Texts :
         \/ ds_new_from(s, text) \/ ds_append_string(s, text)
         \/ \E num \in 0 .. Len(text) : ds_new_from_bytes(s, text, num)
    \/ \E c \in Chars : ds_append_char(s, c)
    \/ \E num \in 0 .. MaxChars : ds_shrink_front(s, num) \/ ds_shrink_rear(s, num)
    \/ ds_remove_rear_ws(s) \/ ds_remove_front_ws(s) \/ ds_remove_outer_ws(s)
    \/ \E t \in Strings : ds_copy(s, t) \/ ds_split_ws(s, t)

\* Any calls in any order, and any failures.
MemoryNext == Grow \/ Edit \/ Other \/ StringNext
MemorySpec == Init /\ [][MemoryNext]_contvars

(* To its clients every array and string is a list of its own, however the *)
(* others grow around it, and whatever of a string is copied or cut off.   *)
(* Only when ds_split_ws is given an empty string it is not the text of    *)
(* any list that the new one gets, but what was left behind the NUL: that  *)
(* step still leaves all others alone (dynstring.c:243-249).               *)
D == INSTANCE Lists WITH Names <- Arrays \cup Strings,
                         lists <- [n \in Arrays \cup Strings |-> Contents(n)]
SplitsEmpty == \E s, t \in Strings : ds_split_ws(s, t) /\ D!SplitOfEmpty(s, t)
ImplementsLists ==
  D!Init /\ [][D!Next \/ SplitsEmpty]_[n \in Arrays \cup Strings |-> Contents(n)]

-----------------------------------------------------------------------------
(* A string up to its NUL.                                                 *)
StringHeaders == [length : 0 .. MaxChars, allocated : Nat, data : Addresses]
StringSound(s) ==
  /\ str[s] \in StringHeaders
  /\ str[s].length < str[s].allocated
  /\ memory[Byte(str[s].data, str[s].length)] = NUL
  /\ \A i \in 0 .. str[s].length - 1 : memory[Byte(str[s].data, i)] \in Chars \cup Blanks

ASSUME NoneAssumption ==
  None \notin ArrayHeaders \cup StringHeaders \cup Seq(Items \cup Blanks)

Sound(n) == IF n \in Arrays THEN ArraySound(n) ELSE StringSound(n)

MemoryInv ==
  /\ PoolInv
  /\ DOMAIN arr = Arrays /\ DOMAIN str = Strings
  /\ BlocksOwned
  /\ \A n \in Names : Live(n) => Sound(n)

(* What is found behind the NUL of a string, after it was cut or moved:    *)
(* memory that no block has is as pools.c cleared it, and in the block of  *)
(* a string are nothing but characters and NULs, of which the last byte it *)
(* has room for is one.                                                    *)
InBlock(b, k) == InRegion(b, [chunk |-> k.chunk, at |-> k.at], 0, POOLS_GRANULARITY * k.size)

Clean(mem, data, bytes) ==
  \A j \in 0 .. POOLS_GRANULARITY * Padded(bytes) - 1 :
    LET x == mem[Byte(data, j)] IN
    /\ x \in Chars \cup Blanks \cup {NUL}
    /\ j >= bytes - 1 \/ j >= MaxChars => x = NUL

LeftoverInv ==
  /\ \A b \in Bytes : memory[b] = NUL \/ \E k \in blocks : InBlock(b, k)
  /\ \A s \in Strings : str[s] # None => Clean(memory, str[s].data, str[s].allocated)
=============================================================================
