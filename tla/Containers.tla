----------------------------- MODULE Containers -----------------------------
(***************************************************************************)
(* dynarr.c, and what the scanner uses of dynstring.c, in one pool: the    *)
(* parser has several arrays and a string growing at the same time, each   *)
(* in blocks of its own, which it leaves behind when it outgrows them,     *)
(* while it takes blocks for its trees.  Memory is modelled by bytes; an   *)
(* array element fills a long, a character a byte.                         *)
(***************************************************************************)
EXTENDS Pools, Sequences

CONSTANTS
  POOLS_GRANULARITY,  \* the bytes of a long, and of a pointer
  Arrays, Strings,    \* the arrays and strings of a parse
  Pointers,           \* Pointers[a]: what is appended to array a, as long as it may get
  Replacement,        \* what an element is set to
  Chars,              \* the characters of the strings, of which NUL is none
  MaxChars,           \* the bound on the length of a string
  None                \* not initialized yet

VARIABLES
  memory,             \* the bytes of the chunks
  arr, str            \* dynarr_t and dynstring_t

contvars == <<poolvars, memory, arr, str>>

ASSUME ContainersAssumption ==
  /\ POOLS_GRANULARITY \in Nat \ {0}
  /\ Arrays \cap Strings = {}
  /\ \A a \in Arrays : Len(Pointers[a]) \in Nat /\ DOMAIN Pointers[a] = 1 .. Len(Pointers[a])
  /\ MaxChars \in Nat

NUL == "NUL"

Bytes == UNION { { <<c, k>> : k \in 0 .. POOLS_GRANULARITY * PoolSize(c) - 1 } :
                   c \in 0 .. POOLS_NUM_CHUNKS - 1 }

\* The longs that hold so many bytes.
Padded(bytes) == (bytes + POOLS_GRANULARITY - 1) \div POOLS_GRANULARITY

\* The address k bytes into the block at data, and whether b is one of the n
\* bytes from there.
Byte(data, k)         == <<data.chunk, POOLS_GRANULARITY * data.at + k>>
InRegion(b, data, k, n) ==
  b[1] = data.chunk /\ b[2] - Byte(data, 0)[2] \in k .. k + n - 1

\* What is read beyond the end of a chunk is anything.
Read(mem, b) == IF b \in Bytes THEN mem[b] ELSE "outside"

\* Memory after memcpy or memmove of n bytes, and after a store to n bytes.
Moved(mem, to, i, from, j, n) ==
  [b \in Bytes |->
     IF InRegion(b, to, i, n) THEN Read(mem, Byte(from, j - i + b[2] - Byte(to, 0)[2]))
     ELSE mem[b]]
Stored(mem, data, k, n, x) == [b \in Bytes |-> IF InRegion(b, data, k, n) THEN x ELSE mem[b]]

-----------------------------------------------------------------------------
(* dynarr.c                                                                *)

\* A store to the element at i, from 0 as in C.
Assigned(mem, data, i, x) == Stored(mem, data, POOLS_GRANULARITY * i, POOLS_GRANULARITY, x)

dynarr_init(a) ==
  LET size == Padded(POOLS_GRANULARITY * 4) IN
  /\ arr[a] = None
  /\ pool_alloc(size)
  /\ arr' = [arr EXCEPT ![a] = [length |-> 0, capacity |-> 4, data |-> Place(size)]]
  /\ UNCHANGED <<memory, str>>

\* Mutant: memcpy is given the number of elements, not of bytes.
copied_elements(a) == arr[a].length
Copied(a) == POOLS_GRANULARITY * arr[a].length

dynarr_append(a, x) ==
  LET full == arr[a].length >= arr[a].capacity
      size == Padded(POOLS_GRANULARITY * 2 * arr[a].capacity)
      data == IF full THEN Place(size) ELSE arr[a].data
  IN
  /\ IF full THEN pool_alloc(size) ELSE UNCHANGED poolvars
  /\ memory' = Assigned(IF full THEN Moved(memory, data, 0, arr[a].data, 0, Copied(a)) ELSE memory,
                        data, arr[a].length, x)
  /\ arr' = [arr EXCEPT ![a] =
       [length   |-> @.length + 1,
        capacity |-> IF full THEN 2 * @.capacity ELSE @.capacity,
        data     |-> data]]
  /\ UNCHANGED str

dynarr_remove(a, i) ==
  /\ arr[a] # None /\ i < arr[a].length
  /\ memory' = Moved(memory, arr[a].data, POOLS_GRANULARITY * i,
                     arr[a].data, POOLS_GRANULARITY * (i + 1),
                     POOLS_GRANULARITY * (arr[a].length - i - 1))
  /\ arr' = [arr EXCEPT ![a].length = @ - 1]
  /\ UNCHANGED <<poolvars, str>>

dynarr_set(a, i, x) ==
  /\ arr[a] # None /\ i < arr[a].length
  /\ memory' = Assigned(memory, arr[a].data, i, x)
  /\ UNCHANGED <<poolvars, arr, str>>

-----------------------------------------------------------------------------
(* dynstring.c, of which the scanner uses ds_new and ds_append_char        *)

\* Memory with a text in it, from the k-th byte of a block.
Written(mem, data, k, text) ==
  [b \in Bytes |-> IF InRegion(b, data, k, Len(text))
                   THEN text[b[2] - Byte(data, k)[2] + 1] ELSE mem[b]]

\* allocString, and a text with the NUL behind it.
Create(s, text) ==
  LET bytes == Len(text) + 1
      data  == Place(Padded(bytes)) IN
  /\ str[s] = None
  /\ pool_alloc(Padded(bytes))
  /\ str' = [str EXCEPT ![s] = [length |-> Len(text), allocated |-> bytes, data |-> data]]
  /\ memory' = Written(memory, data, 0, Append(text, NUL))
  /\ UNCHANGED arr

ds_new(s) == Create(s, << >>)

\* ASSURE_LENGTH, when n characters are added
grows_when_over(s, n) == str[s].length + n > str[s].allocated         \* mutant
Grows(s, n) == str[s].length + n >= str[s].allocated

\* Mutant: the block is only as long as is needed now.
realloc_needed(minSize) == Padded(minSize)
Reallocated(minSize) == Padded(minSize * 2)

\* reallocString copies the bytes it makes room for, more than there are.
AppendText(s, text) ==
  LET n       == Len(text)
      grows   == Grows(s, n)
      minSize == str[s].length + n + 1
      size    == Reallocated(minSize)
      data    == IF grows THEN Place(size) ELSE str[s].data
  IN
  /\ str[s] # None /\ str[s].length + n <= MaxChars
  /\ IF grows THEN pool_alloc(size) ELSE UNCHANGED poolvars
  /\ memory' = Written(IF grows THEN Moved(memory, data, 0, str[s].data, 0, minSize) ELSE memory,
                       data, str[s].length, Append(text, NUL))
  /\ str' = [str EXCEPT ![s] =
       [length    |-> @.length + n,
        allocated |-> IF grows THEN minSize * 2 ELSE @.allocated,
        data      |-> data]]
  /\ UNCHANGED arr

ds_append_char(s, c) == AppendText(s, <<c>>)

-----------------------------------------------------------------------------
(* Other users of the pool, as the parser for its trees: they fill the     *)
(* blocks they get, or malloc fails for one of them.                       *)

OtherAlloc ==
  \E size \in Requests :
    /\ pool_alloc(size)
    /\ memory' = Stored(memory, Place(size), 0, POOLS_GRANULARITY * size, "other")
    /\ UNCHANGED <<arr, str>>

Fails ==
  /\ \E size \in Requests : ActiveIsNull(size) \/ MallocFails(size) \/ AllocAborts(size)
  /\ UNCHANGED <<memory, arr, str>>

-----------------------------------------------------------------------------
\* A chunk is cleared when it comes from malloc.
Init ==
  /\ PoolInit
  /\ memory = [b \in Bytes |-> NUL]
  /\ arr = [a \in Arrays |-> None]
  /\ str = [s \in Strings |-> None]

\* Something is created or becomes longer ...
Grow ==
  \/ \E a \in Arrays :
       \/ dynarr_init(a)
       \/ arr[a] # None /\ arr[a].length < Len(Pointers[a])
            /\ dynarr_append(a, Pointers[a][arr[a].length + 1])
  \/ \E s \in Strings : ds_new(s) \/ \E c \in Chars : ds_append_char(s, c)

\* ... or an array changes in place.
Edit ==
  \E a \in Arrays : \E i \in 0 .. Len(Pointers[a]) - 1 :
    dynarr_remove(a, i) \/ dynarr_set(a, i, Replacement)

Other == OtherAlloc \/ Fails \/ (PoolOver /\ UNCHANGED contvars)

-----------------------------------------------------------------------------
TypeOK ==
  /\ PoolTypeOK
  /\ \A a \in Arrays : arr[a] = None \/ arr[a].length \in 0 .. arr[a].capacity
  /\ \A s \in Strings : str[s] = None \/ str[s].length \in 0 .. str[s].allocated - 1

(* The string find_keyword and atol read, up to the first NUL, is the one  *)
(* that was appended: nothing else writes to the byte after its end.  And  *)
(* ds_split_ws, which reads on behind that NUL if the string is empty,     *)
(* meets another one in the block of the string.                           *)
StringsTerminated ==
  \A s \in Strings : str[s] # None =>
    /\ memory[Byte(str[s].data, str[s].length)] = NUL
    /\ str[s].length = 0 =>
         \E j \in 1 .. POOLS_GRANULARITY * Padded(str[s].allocated) - 1 :
           memory[Byte(str[s].data, j)] = NUL

(* What reallocString reads beyond the end of the old block, when the      *)
(* scanner appends a character, is still in the chunk of that block.       *)
CopiesInChunk ==
  \A s \in Strings :
    str[s] # None /\ Grows(s, 1) => Byte(str[s].data, str[s].length + 1) \in Bytes

\* What a client reads.
ItemsOf(a) == { Pointers[a][j] : j \in DOMAIN Pointers[a] } \cup { Replacement }
nth(a, i) ==
  LET read == { memory[Byte(arr[a].data, POOLS_GRANULARITY * i + j)] :
                  j \in 0 .. POOLS_GRANULARITY - 1 }
  IN  IF \E x \in ItemsOf(a) : read = {x} THEN CHOOSE x \in read : TRUE ELSE "torn"
Contents(n) ==
  IF n \in Arrays
    THEN IF arr[n] = None THEN None
         ELSE [k \in 1 .. arr[n].length |-> nth(n, k - 1)]
    ELSE IF str[n] = None THEN None
         ELSE [k \in 1 .. str[n].length |-> memory[Byte(str[n].data, k - 1)]]

Items == Chars \cup UNION { ItemsOf(a) : a \in Arrays }

-----------------------------------------------------------------------------
(* Why the others do not change: every array and string has one of the     *)
(* blocks of the pool for itself ...                                       *)
Names == Arrays \cup Strings
Header(n) == IF n \in Arrays THEN arr[n] ELSE str[n]
Live(n)   == Header(n) # None
Room(n)   == IF n \in Arrays THEN POOLS_GRANULARITY * arr[n].capacity ELSE str[n].allocated
Block(n)  == [chunk |-> Header(n).data.chunk, at |-> Header(n).data.at, size |-> Padded(Room(n))]

BlocksOwned ==
  /\ \A n \in Names : Live(n) => Block(n) \in blocks
  /\ \A m, n \in Names : m # n /\ Live(m) /\ Live(n) => Block(m) # Block(n)

(* ... which holds all of it.                                              *)
Addresses    == [chunk : Nat, at : Nat]
ArrayHeaders == [length : Nat, capacity : Nat \ {0}, data : Addresses]
ArraySound(a) ==
  /\ arr[a] \in ArrayHeaders
  /\ arr[a].length <= arr[a].capacity
  /\ \A i \in 0 .. arr[a].length - 1 : \E x \in ItemsOf(a) :
       \A j \in 0 .. POOLS_GRANULARITY - 1 :
         memory[Byte(arr[a].data, POOLS_GRANULARITY * i + j)] = x
=============================================================================
