------------------------------- MODULE Pools -------------------------------
(***************************************************************************)
(* pools.c and pools.h: memory is handed out from a chunk front to back;   *)
(* when a request does not fit, the next chunk, twice as long, is used.    *)
(* Nothing is given back before pool_reset or pool_free.  Sizes and places *)
(* are in longs, as fill_ptr is.                                           *)
(***************************************************************************)
EXTENDS Integers

CONSTANTS
  POOLS_FIRST_CHUNK_SIZE,
  POOLS_NUM_CHUNKS,
  Requests                \* the sizes asked for, in longs

VARIABLES
  active_chunk, fill_ptr,
  chunks,                 \* the chunks that are not NULL
  blocks,                 \* what was handed out since pool_init or pool_reset
  pool                    \* "running", or why the pool is not used any more

poolvars == <<active_chunk, fill_ptr, chunks, blocks, pool>>

ASSUME PoolsAssumption ==
  /\ POOLS_FIRST_CHUNK_SIZE \in Nat \ {0}
  /\ POOLS_NUM_CHUNKS \in Nat \ {0}
  /\ Requests \subseteq Nat

PoolSize(c) == POOLS_FIRST_CHUNK_SIZE * 2^c

\* pool_init; main does not look at its result.
PoolInit ==
  /\ active_chunk = 0 /\ fill_ptr = 0 /\ blocks = {} /\ pool = "running"
  /\ chunks \in { {0}, {} }

FitsActiveOrEqual(size) == fill_ptr + size <= PoolSize(active_chunk)   \* mutant
FitsActive(size) == fill_ptr + size < PoolSize(active_chunk)

\* Where the loop of _pool_alloc stops: at the first of the later chunks that
\* can hold the block, if there is one.
StopsAt(size) ==
  { c \in active_chunk + 1 .. POOLS_NUM_CHUNKS - 1 :
      size < PoolSize(c) /\ \A d \in active_chunk + 1 .. c - 1 : size >= PoolSize(d) }
HasRoom(size) == FitsActive(size) \/ StopsAt(size) # {}

\* The place of the block that pool_alloc hands out.
Place(size) ==
  IF FitsActive(size) THEN [chunk |-> active_chunk, at |-> fill_ptr]
  ELSE [chunk |-> CHOOSE c \in StopsAt(size) : TRUE, at |-> 0]

\* Mutant: after the loop fill_ptr stays 0.
filled_in_active(size) == IF FitsActive(size) THEN Place(size).at + size ELSE 0
Filled(size) == Place(size).at + size

pool_alloc(size) ==
  /\ pool = "running"
  /\ HasRoom(size)
  /\ FitsActive(size) => active_chunk \in chunks
  /\ active_chunk' = Place(size).chunk
  /\ fill_ptr' = Filled(size)
  /\ chunks' = chunks \cup (active_chunk + 1 .. Place(size).chunk)
  /\ blocks' = blocks \cup
       { [chunk |-> Place(size).chunk, at |-> Place(size).at, size |-> size] }
  /\ UNCHANGED pool

\* The callers use the null pointer they get without looking.  It is that of
\* a first chunk pool_init could not get ...
ActiveIsNull(size) ==
  /\ pool = "running"
  /\ FitsActive(size) /\ active_chunk \notin chunks
  /\ fill_ptr' = fill_ptr + size
  /\ pool' = "null"
  /\ UNCHANGED <<active_chunk, chunks, blocks>>

\* ... or malloc fails for one of the chunks the loop goes through.
MallocFails(size) ==
  /\ pool = "running"
  /\ ~FitsActive(size)
  /\ \E c \in active_chunk + 1 .. POOLS_NUM_CHUNKS - 1 :
       /\ c \notin chunks
       /\ \A d \in active_chunk + 1 .. c - 1 : size >= PoolSize(d)
       /\ active_chunk' = c
       /\ chunks' = chunks \cup (active_chunk + 1 .. c - 1)
  /\ fill_ptr' = 0
  /\ pool' = "null"
  /\ UNCHANGED blocks

\* The assert on POOLS_NUM_CHUNKS in the loop.
AllocAborts(size) ==
  /\ pool = "running"
  /\ ~HasRoom(size)
  /\ active_chunk' = POOLS_NUM_CHUNKS
  /\ fill_ptr' = IF active_chunk = POOLS_NUM_CHUNKS - 1 THEN fill_ptr ELSE 0
  /\ chunks' = chunks \cup (active_chunk + 1 .. POOLS_NUM_CHUNKS - 1)
  /\ pool' = "aborted"
  /\ UNCHANGED blocks

\* The chunks stay for later; what was in them does not count any more.
pool_reset ==
  /\ pool = "running"
  /\ active_chunk' = 0 /\ fill_ptr' = 0 /\ blocks' = {}
  /\ UNCHANGED <<chunks, pool>>

pool_free ==
  /\ pool = "running"
  /\ chunks' = {} /\ blocks' = {} /\ pool' = "freed"
  /\ UNCHANGED <<active_chunk, fill_ptr>>

PoolOver == pool # "running" /\ UNCHANGED poolvars

PoolNext ==
  \/ \E size \in Requests :
       pool_alloc(size) \/ ActiveIsNull(size) \/ MallocFails(size) \/ AllocAborts(size)
  \/ pool_reset
  \/ pool_free
  \/ PoolOver

PoolSpec == PoolInit /\ [][PoolNext]_poolvars

-----------------------------------------------------------------------------
PoolTypeOK ==
  /\ active_chunk \in 0 .. POOLS_NUM_CHUNKS /\ fill_ptr \in Nat
  /\ chunks \subseteq 0 .. POOLS_NUM_CHUNKS - 1
  /\ blocks \subseteq [chunk : Nat, at : Nat, size : Nat]
  /\ pool \in {"running", "null", "aborted", "freed"}

(* A block lies in a chunk that was obtained from malloc, and ends at least*)
(* one long before it does, as the comparisons with >= have it: copying a  *)
(* byte more than the block holds, as reallocString of dynstring.c does,   *)
(* still reads the chunk.                                                  *)
BlocksInChunks ==
  \A b \in blocks : b.chunk \in chunks /\ b.at + b.size < PoolSize(b.chunk)

(* No long belongs to two of the blocks handed out.                        *)
BlocksDisjoint ==
  \A b, c \in blocks :
    b # c /\ b.chunk = c.chunk => b.at + b.size <= c.at \/ c.at + c.size <= b.at

-----------------------------------------------------------------------------
(* What makes the two inductive: the blocks of the active chunk lie below  *)
(* fill_ptr, and no block lies in a chunk after the active one.            *)
FilledUpTo ==
  pool = "running" =>
    \A b \in blocks : /\ b.chunk <= active_chunk
                      /\ b.chunk = active_chunk => b.at + b.size <= fill_ptr

PoolInv == PoolTypeOK /\ BlocksInChunks /\ FilledUpTo /\ BlocksDisjoint
=============================================================================
