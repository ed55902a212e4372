--------------------------- MODULE Memory_proofs ---------------------------
(***************************************************************************)
(* The pool for chunks of any size and any requests: the blocks handed out *)
(* lie in the chunks, and no two of them overlap.  The arrays and strings  *)
(* in it, for any number of them and any calls: each has a block for       *)
(* itself, which holds all of it (MemoryInv), with nothing but characters  *)
(* behind the NUL of a string (LeftoverInv), so that a call for one leaves *)
(* the others alone, and its clients see lists (the refinement of Lists,   *)
(* at the end).                                                            *)
(***************************************************************************)
EXTENDS DynStrings, SequenceTheorems, TLAPS

\* For the smallest and the greatest number of a set.
B == INSTANCE Basics_proofs WITH Half <- 2

-----------------------------------------------------------------------------
(* The pool.                                                               *)

LEMMA InitPoolInv == PoolInit => PoolInv
BY PoolsAssumption DEF PoolInit, PoolInv, PoolTypeOK, BlocksInChunks, FilledUpTo, BlocksDisjoint

\* Where the block goes: above everything in its chunk, and inside it.
LEMMA PlaceProperties ==
  ASSUME PoolInv, NEW size \in Nat, pool_alloc(size)
  PROVE  /\ Place(size) \in [chunk : 0 .. POOLS_NUM_CHUNKS - 1, at : Nat]
         /\ active_chunk' = Place(size).chunk
         /\ fill_ptr' = Place(size).at + size
         /\ active_chunk <= active_chunk'
         /\ active_chunk' \in chunks' /\ chunks \subseteq chunks'
         /\ chunks' \subseteq 0 .. POOLS_NUM_CHUNKS - 1
         /\ Place(size).at + size < PoolSize(Place(size).chunk)
         /\ \A b \in blocks :
              b.chunk = Place(size).chunk => b.at + b.size <= Place(size).at
<1>1. /\ active_chunk \in 0 .. POOLS_NUM_CHUNKS /\ fill_ptr \in Nat
      /\ chunks \subseteq 0 .. POOLS_NUM_CHUNKS - 1 /\ POOLS_NUM_CHUNKS \in Nat
      /\ blocks \subseteq [chunk : Nat, at : Nat, size : Nat]
      /\ pool = "running"
  BY PoolsAssumption DEF PoolInv, PoolTypeOK, pool_alloc
<1>2. /\ active_chunk' = Place(size).chunk /\ fill_ptr' = Place(size).at + size
      /\ chunks' = chunks \cup (active_chunk + 1 .. Place(size).chunk)
  BY DEF pool_alloc, Filled
<1>3. CASE FitsActive(size)
  <2>1. Place(size) = [chunk |-> active_chunk, at |-> fill_ptr]
    BY <1>3 DEF Place
  <2>2. active_chunk \in chunks
    BY <1>3 DEF pool_alloc
  <2>3. fill_ptr + size < PoolSize(active_chunk)
    BY <1>3 DEF FitsActive
  <2>4. chunks' = chunks
    BY <1>1, <1>2, <2>1
  <2> QED
    BY <1>1, <1>2, <2>1, <2>2, <2>3, <2>4 DEF PoolInv, FilledUpTo
<1>4. CASE ~FitsActive(size)
  <2>1. StopsAt(size) # {}
    BY <1>4 DEF pool_alloc, HasRoom
  <2>2. PICK c \in StopsAt(size) : Place(size) = [chunk |-> c, at |-> 0]
    BY <1>4, <2>1 DEF Place
  <2>3. c \in active_chunk + 1 .. POOLS_NUM_CHUNKS - 1 /\ size < PoolSize(c)
    BY DEF StopsAt
  <2>4. chunks' = chunks \cup (active_chunk + 1 .. c)
    BY <1>2, <2>2
  <2>5. \A b \in blocks : b.chunk # c
    BY <1>1, <2>3 DEF PoolInv, FilledUpTo
  <2>6. 0 + size < PoolSize(c)
    BY <2>3
  <2> QED
    BY <1>1, <1>2, <2>2, <2>3, <2>4, <2>5, <2>6
<1> QED
  BY <1>3, <1>4

LEMMA AllocKeepsPoolInv == ASSUME PoolInv, NEW size \in Nat, pool_alloc(size) PROVE PoolInv'
<1> PICK place : place = Place(size)
  OBVIOUS
<1> PICK new : new = [chunk |-> place.chunk, at |-> place.at, size |-> size]
  OBVIOUS
<1>1. /\ place \in [chunk : 0 .. POOLS_NUM_CHUNKS - 1, at : Nat]
      /\ active_chunk' = place.chunk /\ fill_ptr' = place.at + size
      /\ active_chunk <= active_chunk'
      /\ active_chunk' \in chunks' /\ chunks \subseteq chunks'
      /\ chunks' \subseteq 0 .. POOLS_NUM_CHUNKS - 1
      /\ place.at + size < PoolSize(place.chunk)
      /\ \A b \in blocks : b.chunk = place.chunk => b.at + b.size <= place.at
  BY PlaceProperties
<1>2. blocks' = blocks \cup { new } /\ pool' = "running" /\ pool = "running"
  BY DEF pool_alloc
<1>3. /\ new \in [chunk : Nat, at : Nat, size : Nat]
      /\ new.chunk = place.chunk /\ new.at = place.at /\ new.size = size
  BY <1>1, PoolsAssumption
<1>4. PoolTypeOK'
  BY <1>1, <1>2, <1>3, PoolsAssumption DEF PoolInv, PoolTypeOK
<1>5. BlocksInChunks'
  BY <1>1, <1>2, <1>3 DEF PoolInv, BlocksInChunks
<1>6. FilledUpTo'
  <2> SUFFICES ASSUME NEW b \in blocks'
               PROVE  /\ b.chunk <= active_chunk'
                      /\ b.chunk = active_chunk' => b.at + b.size <= fill_ptr'
    BY DEF FilledUpTo
  <2>1. CASE b = new
    BY <1>1, <1>3, <2>1
  <2>2. CASE b \in blocks
    <3>1. b \in [chunk : Nat, at : Nat, size : Nat] /\ b.chunk <= active_chunk
      BY <1>2, <2>2 DEF PoolInv, PoolTypeOK, FilledUpTo
    <3>2. active_chunk \in Nat /\ place.chunk \in Nat /\ place.at \in Nat
      BY <1>1, PoolsAssumption DEF PoolInv, PoolTypeOK
    <3> QED
      BY <1>1, <2>2, <3>1, <3>2
  <2> QED
    BY <1>2, <2>1, <2>2
<1>7. BlocksDisjoint'
  BY <1>1, <1>2, <1>3 DEF PoolInv, BlocksDisjoint
<1> QED
  BY <1>4, <1>5, <1>6, <1>7 DEF PoolInv

\* No other operation hands out a block.
LEMMA OthersKeepPoolInv ==
  ASSUME PoolInv, NEW size \in Nat,
         \/ ActiveIsNull(size) \/ MallocFails(size) \/ AllocAborts(size)
  PROVE  PoolInv'
<1>1. /\ blocks' = blocks /\ chunks \subseteq chunks' /\ pool' # "running"
      /\ pool' \in {"null", "aborted"}
  BY DEF ActiveIsNull, MallocFails, AllocAborts
<1>2. /\ active_chunk \in 0 .. POOLS_NUM_CHUNKS /\ fill_ptr \in Nat
      /\ chunks \subseteq 0 .. POOLS_NUM_CHUNKS - 1 /\ POOLS_NUM_CHUNKS \in Nat
  BY PoolsAssumption DEF PoolInv, PoolTypeOK
<1>3. /\ active_chunk' \in 0 .. POOLS_NUM_CHUNKS /\ fill_ptr' \in Nat
      /\ chunks' \subseteq 0 .. POOLS_NUM_CHUNKS - 1
  <2>1. CASE ActiveIsNull(size)
    BY <1>2, <2>1 DEF ActiveIsNull
  <2>2. CASE MallocFails(size)
    BY <1>2, <2>2 DEF MallocFails
  <2>3. CASE AllocAborts(size)
    BY <1>2, <2>3 DEF AllocAborts
  <2> QED
    BY <2>1, <2>2, <2>3
<1>4. PoolTypeOK'
  BY <1>1, <1>3 DEF PoolInv, PoolTypeOK
<1> QED
  BY <1>1, <1>4 DEF PoolInv, BlocksInChunks, FilledUpTo, BlocksDisjoint

LEMMA PoolInvStep == PoolInv /\ [PoolNext]_poolvars => PoolInv'
<1> SUFFICES ASSUME PoolInv, [PoolNext]_poolvars PROVE PoolInv'
  OBVIOUS
<1>1. ASSUME NEW size \in Requests,
             pool_alloc(size) \/ ActiveIsNull(size) \/ MallocFails(size) \/ AllocAborts(size)
      PROVE  PoolInv'
  BY <1>1, AllocKeepsPoolInv, OthersKeepPoolInv, PoolsAssumption
<1>2. CASE pool_reset \/ pool_free
  <2>1. /\ blocks' = {} /\ chunks' \subseteq chunks
        /\ active_chunk' \in 0 .. POOLS_NUM_CHUNKS /\ fill_ptr' \in Nat
        /\ pool' \in {"running", "freed"}
    BY <1>2, PoolsAssumption DEF pool_reset, pool_free, PoolInv, PoolTypeOK
  <2>2. PoolTypeOK'
    BY <2>1 DEF PoolInv, PoolTypeOK
  <2> QED
    BY <2>1, <2>2 DEF PoolInv, BlocksInChunks, FilledUpTo, BlocksDisjoint
<1>3. CASE PoolOver \/ UNCHANGED poolvars
  BY <1>3 DEF PoolOver, poolvars, PoolInv, PoolTypeOK, BlocksInChunks, FilledUpTo, BlocksDisjoint
<1> QED
  BY <1>1, <1>2, <1>3 DEF PoolNext

-----------------------------------------------------------------------------
LEMMA PoolInvAlways == PoolSpec => []PoolInv
BY InitPoolInv, PoolInvStep, PTL DEF PoolSpec

\* A block lies inside a chunk that malloc returned, with a long to spare.
THEOREM AlwaysInChunks == PoolSpec => []BlocksInChunks
<1>1. PoolInv => BlocksInChunks
  BY DEF PoolInv
<1> QED
  BY <1>1, PoolInvAlways, PTL

\* No two blocks handed out overlap.
THEOREM AlwaysDisjoint == PoolSpec => []BlocksDisjoint
<1>1. PoolInv => BlocksDisjoint
  BY DEF PoolInv
<1> QED
  BY <1>1, PoolInvAlways, PTL

-----------------------------------------------------------------------------
(* Longs and bytes.                                                        *)

LEMMA TimesMonotone ==
  ASSUME NEW x \in Int, NEW y \in Int, x <= y
  PROVE  POOLS_GRANULARITY * x <= POOLS_GRANULARITY * y
BY ContainersAssumption

LEMMA PaddedCovers ==
  ASSUME NEW bytes \in Nat
  PROVE  /\ Padded(bytes) \in Nat /\ bytes <= POOLS_GRANULARITY * Padded(bytes)
         /\ bytes > 0 => Padded(bytes) > 0
<1>1. Padded(bytes) \in Nat /\ bytes <= POOLS_GRANULARITY * Padded(bytes)
  BY ContainersAssumption DEF Padded
<1>2. bytes > 0 => Padded(bytes) > 0
  BY ContainersAssumption DEF Padded
<1> QED
  BY <1>1, <1>2

\* The bytes of the longs.
LEMMA PaddedBytes ==
  ASSUME NEW bytes \in Nat
  PROVE  /\ Padded(bytes) \in Nat /\ POOLS_GRANULARITY * Padded(bytes) \in Nat
         /\ bytes <= POOLS_GRANULARITY * Padded(bytes)
<1> PICK p \in Nat : p = Padded(bytes)
  BY PaddedCovers
<1>1. POOLS_GRANULARITY * p \in Nat
  BY ContainersAssumption
<1> QED
  BY <1>1, PaddedCovers

\* The bytes of the element at k, and those of m elements from the one at i.
LEMMA ElementRange ==
  ASSUME NEW k \in Int, NEW i \in Int, NEW m \in Int, NEW j \in 0 .. POOLS_GRANULARITY - 1
  PROVE  POOLS_GRANULARITY * k + j \in POOLS_GRANULARITY * i ..
                                        POOLS_GRANULARITY * i + POOLS_GRANULARITY * m - 1
           <=> k \in i .. i + m - 1
BY ContainersAssumption

\* A byte of one of the first m elements.
LEMMA ElementByte ==
  ASSUME NEW m \in Nat, NEW i \in 0 .. m - 1, NEW j \in 0 .. POOLS_GRANULARITY - 1
  PROVE  POOLS_GRANULARITY * i + j \in 0 .. POOLS_GRANULARITY * m - 1
<1>1. POOLS_GRANULARITY * (i + 1) <= POOLS_GRANULARITY * m
  BY TimesMonotone
<1> QED
  BY <1>1, ContainersAssumption

LEMMA PoolSizeType == ASSUME NEW c \in Nat PROVE PoolSize(c) \in Int
BY PoolsAssumption DEF PoolSize

\* A byte of a block that ends before its chunk does, or the byte after it.
LEMMA ByteOfBlock ==
  ASSUME NEW data \in Addresses, NEW size \in Nat, data.chunk \in 0 .. POOLS_NUM_CHUNKS - 1,
         data.at + size < PoolSize(data.chunk), NEW j \in 0 .. POOLS_GRANULARITY * size
  PROVE  Byte(data, j) \in Bytes
<1> DEFINE g == POOLS_GRANULARITY
           c == data.chunk
           at == data.at
<1>1. g \in Nat \ {0} /\ c \in 0 .. POOLS_NUM_CHUNKS - 1 /\ c \in Nat /\ at \in Nat
  BY ContainersAssumption, PoolsAssumption DEF Addresses
<1>2. PoolSize(c) \in Int
  BY <1>1, PoolSizeType
<1>3. g * at + j \in 0 .. g * PoolSize(c) - 1
  <2> PICK p \in Int : p = PoolSize(c)
    BY <1>2
  <2>1. at + size + 1 <= p
    BY <1>1
  <2>2. g * (at + size + 1) <= g * p
    BY <1>1, <2>1, TimesMonotone
  <2> QED
    BY <1>1, <2>2
<1>4. <<c, g * at + j>> \in Bytes
  BY <1>1, <1>3 DEF Bytes
<1> QED
  BY <1>4 DEF Byte

\* The region of a store, from its own block and from another one.
LEMMA InOwnRegion ==
  ASSUME NEW data \in Addresses, NEW j \in Int, NEW k \in Int, NEW n \in Int
  PROVE  InRegion(Byte(data, j), data, k, n) <=> j \in k .. k + n - 1
<1> PICK p \in Int : p = POOLS_GRANULARITY * data.at
  BY ContainersAssumption DEF Addresses
<1> QED
  BY DEF InRegion, Byte

LEMMA InOtherRegion ==
  ASSUME NEW d \in Addresses, NEW e \in Addresses, NEW sd \in Nat, NEW se \in Nat,
         d.chunk = e.chunk => d.at + sd <= e.at \/ e.at + se <= d.at,
         NEW j \in 0 .. POOLS_GRANULARITY * sd - 1, NEW n \in Nat, n <= POOLS_GRANULARITY * se
  PROVE  ~InRegion(Byte(d, j), e, 0, n)
<1>1. /\ d.at \in Nat /\ e.at \in Nat /\ POOLS_GRANULARITY \in Nat
      /\ POOLS_GRANULARITY * d.at \in Nat /\ POOLS_GRANULARITY * e.at \in Nat
      /\ POOLS_GRANULARITY * sd \in Nat /\ POOLS_GRANULARITY * se \in Nat
  BY ContainersAssumption DEF Addresses
<1>2. CASE d.at + sd <= e.at
  <2>1. POOLS_GRANULARITY * d.at + POOLS_GRANULARITY * sd <= POOLS_GRANULARITY * e.at
    BY <1>1, <1>2, TimesMonotone
  <2> QED
    BY <1>1, <2>1 DEF InRegion, Byte
<1>3. CASE e.at + se <= d.at
  <2>1. POOLS_GRANULARITY * e.at + POOLS_GRANULARITY * se <= POOLS_GRANULARITY * d.at
    BY <1>1, <1>3, TimesMonotone
  <2> QED
    BY <1>1, <2>1 DEF InRegion, Byte
<1>4. CASE d.chunk # e.chunk
  BY <1>4 DEF InRegion, Byte
<1> QED
  BY <1>2, <1>3, <1>4

\* What memory holds after each of the ways to change it.
LEMMA AfterStored ==
  ASSUME NEW mem, NEW data \in Addresses, NEW k \in Int, NEW n \in Int, NEW x,
         NEW j \in Int, Byte(data, j) \in Bytes
  PROVE  Stored(mem, data, k, n, x)[Byte(data, j)] =
           IF j \in k .. k + n - 1 THEN x ELSE mem[Byte(data, j)]
BY InOwnRegion DEF Stored

ByteWritten(mem, data, k, text, j) ==
  Written(mem, data, k, text)[Byte(data, j)] =
    IF j \in k .. k + Len(text) - 1 THEN text[j - k + 1] ELSE mem[Byte(data, j)]
ByteMoved(mem, to, i, from, m, n, j) ==
  Moved(mem, to, i, from, m, n)[Byte(to, j)] =
    IF j \in i .. i + n - 1 THEN Read(mem, Byte(from, m - i + j)) ELSE mem[Byte(to, j)]

LEMMA AfterWritten ==
  ASSUME NEW mem, NEW data \in Addresses, NEW k \in Int, NEW text, Len(text) \in Int,
         NEW j \in Int, Byte(data, j) \in Bytes
  PROVE  ByteWritten(mem, data, k, text, j)
<1>1. Byte(data, j)[2] - Byte(data, k)[2] + 1 = j - k + 1
  <2> PICK p \in Int : p = POOLS_GRANULARITY * data.at
    BY ContainersAssumption DEF Addresses
  <2> QED
    BY DEF Byte
<1>2. InRegion(Byte(data, j), data, k, Len(text)) <=> j \in k .. k + Len(text) - 1
  BY InOwnRegion
<1> QED
  BY <1>1, <1>2 DEF Written, ByteWritten

LEMMA AfterMoved ==
  ASSUME NEW mem, NEW to \in Addresses, NEW from, NEW i \in Int, NEW m \in Int, NEW n \in Int,
         NEW j \in Int, Byte(to, j) \in Bytes
  PROVE  ByteMoved(mem, to, i, from, m, n, j)
<1>1. m - i + Byte(to, j)[2] - Byte(to, 0)[2] = m - i + j
  <2> PICK p \in Int : p = POOLS_GRANULARITY * to.at
    BY ContainersAssumption DEF Addresses
  <2> QED
    BY DEF Byte
<1>2. InRegion(Byte(to, j), to, i, n) <=> j \in i .. i + n - 1
  BY InOwnRegion
<1> QED
  BY <1>1, <1>2 DEF Moved, ByteMoved

-----------------------------------------------------------------------------
(* A step that changes one array or string: it keeps its block or gets a   *)
(* new one, and nothing is written outside of that.                        *)

\* All of the records but that of n are kept.
OthersKept(n) ==
  /\ DOMAIN arr' = Arrays /\ DOMAIN str' = Strings
  /\ \A m \in Names \ {n} : IF m \in Arrays THEN arr'[m] = arr[m] ELSE str'[m] = str[m]
BlocksKept(n) == \A m \in Names \ {n} : Live(m)' = Live(m) /\ Block(m)' = Block(m)
WritesOnlyIn(data, bytes) ==
  \A b \in Bytes : InRegion(b, data, 0, bytes) \/ memory'[b] = memory[b]

LEMMA HeadersKept ==
  ASSUME NEW n, OthersKept(n), NEW m \in Names \ {n}
  PROVE  /\ Header(m)' = Header(m) /\ Live(m)' = Live(m)
         /\ Room(m)' = Room(m) /\ Block(m)' = Block(m)
<1>1. Header(m)' = Header(m)
  BY DEF OthersKept, Header
<1>2. Room(m)' = Room(m)
  BY DEF OthersKept, Room
<1> QED
  BY <1>1, <1>2 DEF Live, Block

\* What a sound record says of its block.
LEMMA BlockType ==
  ASSUME NEW n \in Names, Sound(n), Live(n)
  PROVE  /\ Header(n).data \in Addresses /\ Room(n) \in Nat /\ Room(n) > 0
         /\ Block(n) \in [chunk : Nat, at : Nat, size : Nat] /\ Block(n).size > 0
         /\ Block(n).size = Padded(Room(n)) /\ Room(n) <= POOLS_GRANULARITY * Block(n).size
         /\ Block(n).chunk = Header(n).data.chunk /\ Block(n).at = Header(n).data.at
<1>1. Header(n).data \in Addresses /\ Room(n) \in Nat /\ Room(n) > 0
  <2>1. CASE n \in Arrays
    BY <2>1, ContainersAssumption DEF Sound, ArraySound, ArrayHeaders, Header, Room
  <2>2. CASE n \notin Arrays
    BY <2>2, ContainersAssumption DEF Sound, StringSound, StringHeaders, Header, Room
  <2> QED
    BY <2>1, <2>2
<1>2. Padded(Room(n)) \in Nat /\ Padded(Room(n)) > 0 /\ Room(n) <= POOLS_GRANULARITY * Padded(Room(n))
  BY <1>1, PaddedCovers
<1> QED
  BY <1>1, <1>2 DEF Block, Addresses

LEMMA BlockTypeAfter ==
  ASSUME NEW n \in Names, Sound(n)', Live(n)'
  PROVE  /\ Header(n).data' \in Addresses /\ Room(n)' \in Nat /\ Room(n)' > 0
         /\ Block(n)'.size \in Nat
         /\ Block(n)'.size = Padded(Room(n)') /\ Room(n)' <= POOLS_GRANULARITY * Block(n)'.size
         /\ Block(n)'.chunk = Header(n).data'.chunk /\ Block(n)'.at = Header(n).data'.at
<1>1. Header(n).data' \in Addresses /\ Room(n)' \in Nat /\ Room(n)' > 0
  <2>1. CASE n \in Arrays
    BY <2>1, ContainersAssumption DEF Sound, ArraySound, ArrayHeaders, Header, Room
  <2>2. CASE n \notin Arrays
    BY <2>2, ContainersAssumption DEF Sound, StringSound, StringHeaders, Header, Room
  <2> QED
    BY <2>1, <2>2
<1>2. Padded(Room(n)') \in Nat /\ Room(n)' <= POOLS_GRANULARITY * Padded(Room(n)')
  BY <1>1, PaddedCovers
<1> QED
  BY <1>1, <1>2 DEF Block, Addresses

\* Its bytes, and the one after it, are in memory.
LEMMA OwnBytes ==
  ASSUME PoolInv, BlocksOwned, NEW n \in Names, Sound(n), Live(n), NEW j \in 0 .. Room(n)
  PROVE  Byte(Header(n).data, j) \in Bytes
<1>1. Block(n) \in blocks
  BY DEF BlocksOwned
<1>2. Block(n).chunk \in 0 .. POOLS_NUM_CHUNKS - 1 /\ Block(n).at + Block(n).size < PoolSize(Block(n).chunk)
  BY <1>1 DEF PoolInv, BlocksInChunks, PoolTypeOK
<1>3. Room(n) \in Nat /\ POOLS_GRANULARITY * Block(n).size \in Nat
  BY BlockType, ContainersAssumption
<1>4. j \in 0 .. POOLS_GRANULARITY * Block(n).size
  BY <1>3, BlockType
<1> QED
  BY <1>2, <1>4, BlockType, ByteOfBlock

\* So are all bytes of its block.
LEMMA OwnBlockBytes ==
  ASSUME PoolInv, BlocksOwned, NEW n \in Names, Sound(n), Live(n),
         NEW j \in 0 .. POOLS_GRANULARITY * Block(n).size - 1
  PROVE  Byte(Header(n).data, j) \in Bytes
<1>1. Block(n) \in blocks
  BY DEF BlocksOwned
<1>2. Block(n).chunk \in 0 .. POOLS_NUM_CHUNKS - 1 /\ Block(n).at + Block(n).size < PoolSize(Block(n).chunk)
  BY <1>1 DEF PoolInv, BlocksInChunks, PoolTypeOK
<1>3. POOLS_GRANULARITY * Block(n).size \in Nat
  BY BlockType, ContainersAssumption
<1>4. j \in 0 .. POOLS_GRANULARITY * Block(n).size
  BY <1>3
<1> QED
  BY <1>2, <1>4, BlockType, ByteOfBlock

\* None of them is in a block that does not overlap with its own.
LEMMA BytesApart ==
  ASSUME NEW m \in Names, Sound(m), Live(m), NEW j \in 0 .. Room(m) - 1,
         NEW data \in Addresses, NEW size \in Nat, NEW bytes \in Nat,
         bytes <= POOLS_GRANULARITY * size,
         Block(m).chunk = data.chunk =>
           Block(m).at + Block(m).size <= data.at \/ data.at + size <= Block(m).at
  PROVE  ~InRegion(Byte(Header(m).data, j), data, 0, bytes)
<1>1. /\ Header(m).data \in Addresses /\ Block(m).size \in Nat
      /\ Room(m) <= POOLS_GRANULARITY * Block(m).size /\ Room(m) \in Nat
      /\ Block(m).chunk = Header(m).data.chunk /\ Block(m).at = Header(m).data.at
  BY BlockType
<1>2. POOLS_GRANULARITY * Block(m).size \in Nat
  BY <1>1, ContainersAssumption
<1>3. j \in 0 .. POOLS_GRANULARITY * Block(m).size - 1
  BY <1>1, <1>2
<1> QED
  BY <1>1, <1>3, InOtherRegion

\* The blocks, when one is handed out, and when none is.
LEMMA NewBlockOwned ==
  ASSUME PoolInv, BlocksOwned, \A m \in Names : Live(m) => Sound(m),
         NEW n \in Names, BlocksKept(n), NEW size \in Nat, pool_alloc(size),
         Block(n)' = [chunk |-> Place(size).chunk, at |-> Place(size).at, size |-> size]
  PROVE  BlocksOwned'
<1>1. /\ blocks' = blocks \cup { Block(n)' }
      /\ \A b \in blocks : b.chunk = Place(size).chunk => b.at + b.size <= Place(size).at
      /\ Place(size).chunk \in Nat /\ Place(size).at \in Nat
  BY PlaceProperties, PoolsAssumption DEF pool_alloc
<1>2. ASSUME NEW m \in Names \ {n}, Live(m)
      PROVE  Block(m)' = Block(m) /\ Block(m) \in blocks /\ Block(m) # Block(n)'
  <2>1. Block(m)' = Block(m) /\ Block(m) \in blocks
    BY <1>2 DEF BlocksKept, BlocksOwned
  <2>2. Block(m).at \in Nat /\ Block(m).size \in Nat /\ Block(m).size > 0
    BY <1>2, BlockType
  <2> QED
    BY <1>1, <2>1, <2>2
<1>3. \A m \in Names \ {n} : Live(m)' => Live(m)
  BY DEF BlocksKept
<1>4. \A m \in Names : Live(m)' => Block(m)' \in blocks'
  BY <1>1, <1>2, <1>3
<1>5. ASSUME NEW m \in Names, NEW k \in Names, m # k, Live(m)', Live(k)'
      PROVE  Block(m)' # Block(k)'
  BY <1>2, <1>3, <1>5 DEF BlocksOwned
<1> QED
  BY <1>4, <1>5 DEF BlocksOwned

LEMMA SameBlocksOwned ==
  ASSUME BlocksOwned, blocks \subseteq blocks', NEW n, BlocksKept(n),
         n \in Names => Live(n) /\ Block(n)' = Block(n)
  PROVE  BlocksOwned'
<1>1. \A m \in Names : Live(m)' => Live(m) /\ Block(m)' = Block(m)
  BY DEF BlocksKept
<1> QED
  BY <1>1 DEF BlocksOwned

\* What happened to the pool, to n and to memory.
OneChanges(n) ==
  /\ OthersKept(n)
  /\ WritesOnlyIn(Header(n).data', Room(n)')
  /\ \/ UNCHANGED poolvars /\ Live(n) /\ Block(n)' = Block(n)
     \/ \E size \in Nat :
          /\ pool_alloc(size)
          /\ Block(n)' = [chunk |-> Place(size).chunk, at |-> Place(size).at, size |-> size]

\* A record that is kept says what it said, if its bytes are kept.
LEMMA KeptSound ==
  ASSUME NEW m \in Names, Live(m), Sound(m),
         IF m \in Arrays THEN arr'[m] = arr[m] ELSE str'[m] = str[m],
         \A j \in 0 .. Room(m) - 1 : memory'[Byte(Header(m).data, j)] = memory[Byte(Header(m).data, j)]
  PROVE  Sound(m)' /\ Contents(m)' = Contents(m)
<1>1. CASE m \in Arrays
  <2>1. /\ arr'[m] = arr[m] /\ ArraySound(m) /\ arr[m] # None /\ Header(m) = arr[m]
        /\ Room(m) = POOLS_GRANULARITY * arr[m].capacity
    BY <1>1 DEF Sound, Live, Header, Room
  <2>2. arr[m].length \in Nat /\ arr[m].capacity \in Nat /\ arr[m].length <= arr[m].capacity
    BY <2>1 DEF ArraySound, ArrayHeaders
  <2>3. ASSUME NEW i \in 0 .. arr[m].length - 1, NEW j \in 0 .. POOLS_GRANULARITY - 1
        PROVE  memory'[Byte(arr[m].data, POOLS_GRANULARITY * i + j)]
                 = memory[Byte(arr[m].data, POOLS_GRANULARITY * i + j)]
    <3>1. POOLS_GRANULARITY * i + j \in 0 .. POOLS_GRANULARITY * arr[m].capacity - 1
      BY <2>2, ElementByte
    <3> QED
      BY <2>1, <3>1
  <2>4. ArraySound(m)'
    BY <2>1, <2>3 DEF ArraySound
  <2>5. \A i \in 0 .. arr[m].length - 1 : nth(m, i)' = nth(m, i)
    <3> SUFFICES ASSUME NEW i \in 0 .. arr[m].length - 1 PROVE nth(m, i)' = nth(m, i)
      OBVIOUS
    <3>1. { memory'[Byte(arr'[m].data, POOLS_GRANULARITY * i + j)] : j \in 0 .. POOLS_GRANULARITY - 1 }
            = { memory[Byte(arr[m].data, POOLS_GRANULARITY * i + j)] : j \in 0 .. POOLS_GRANULARITY - 1 }
      BY <2>1, <2>3
    <3> QED
      BY <3>1 DEF nth
  <2>6. Contents(m)' = Contents(m)
    BY <1>1, <2>1, <2>2, <2>5 DEF Contents
  <2> QED
    BY <1>1, <2>4, <2>6 DEF Sound
<1>2. CASE m \notin Arrays
  <2>1. /\ str'[m] = str[m] /\ StringSound(m) /\ str[m] # None /\ Header(m) = str[m]
        /\ Room(m) = str[m].allocated
    BY <1>2 DEF Sound, Live, Header, Room
  <2>2. str[m].length \in Nat /\ str[m].allocated \in Nat /\ str[m].length < str[m].allocated
    BY <2>1, ContainersAssumption DEF StringSound, StringHeaders
  <2>3. \A j \in 0 .. str[m].length :
          memory'[Byte(str[m].data, j)] = memory[Byte(str[m].data, j)]
    BY <2>1, <2>2
  <2>4. StringSound(m)'
    BY <2>1, <2>2, <2>3 DEF StringSound, StringHeaders
  <2>5. \A k \in 1 .. str[m].length :
          memory'[Byte(str[m].data, k - 1)] = memory[Byte(str[m].data, k - 1)]
    BY <2>2, <2>3
  <2>6. Contents(m)' = Contents(m)
    BY <1>2, <2>1, <2>5 DEF Contents
  <2> QED
    BY <1>2, <2>4, <2>6 DEF Sound
<1> QED
  BY <1>1, <1>2

LEMMA OneChangeSuffices ==
  ASSUME MemoryInv, NEW n \in Names, OneChanges(n), Sound(n)', Live(n)'
  PROVE  MemoryInv' /\ \A m \in Names \ {n} : Contents(m)' = Contents(m)
<1>1. OthersKept(n) /\ PoolInv /\ BlocksOwned /\ \A m \in Names : Live(m) => Sound(m)
  BY DEF OneChanges, MemoryInv
<1>2. PoolInv' /\ BlocksOwned'
  <2> BlocksKept(n)
    BY <1>1, HeadersKept DEF BlocksKept
  <2>1. CASE UNCHANGED poolvars /\ Live(n) /\ Block(n)' = Block(n)
    <3>1. PoolInv'
      BY <1>1, <2>1, PoolInvStep
    <3> QED
      BY <1>1, <2>1, <3>1, SameBlocksOwned DEF poolvars
  <2>2. ASSUME NEW size \in Nat, pool_alloc(size),
               Block(n)' = [chunk |-> Place(size).chunk, at |-> Place(size).at, size |-> size]
        PROVE  PoolInv' /\ BlocksOwned'
    BY <1>1, <2>2, AllocKeepsPoolInv, NewBlockOwned
  <2> QED
    BY <2>1, <2>2 DEF OneChanges
<1>3. ASSUME NEW m \in Names \ {n}, Live(m)
      PROVE  Sound(m)' /\ Contents(m)' = Contents(m)
  <2>1. /\ Header(m)' = Header(m) /\ Room(m)' = Room(m) /\ Block(m)' = Block(m)
        /\ Live(m)' /\ Sound(m)
    BY <1>1, <1>3, HeadersKept
  <2>2. ASSUME NEW j \in 0 .. Room(m) - 1
        PROVE  memory'[Byte(Header(m).data, j)] = memory[Byte(Header(m).data, j)]
    <3>1. Byte(Header(m).data, j) \in Bytes
      BY <1>1, <1>3, <2>1, OwnBytes, BlockType
    <3>2. ~InRegion(Byte(Header(m).data, j), Header(n).data', 0, Room(n)')
      <4>1. /\ Header(n).data' \in Addresses /\ Block(n)'.size \in Nat
            /\ Room(n)' <= POOLS_GRANULARITY * Block(n)'.size /\ Room(n)' \in Nat
            /\ Block(n)'.chunk = Header(n).data'.chunk /\ Block(n)'.at = Header(n).data'.at
        BY BlockTypeAfter
      <4>2. Block(m)' \in blocks' /\ Block(n)' \in blocks' /\ Block(m)' # Block(n)'
        BY <1>2, <2>1 DEF BlocksOwned
      <4>3. Block(m).chunk = Block(n)'.chunk =>
              \/ Block(m).at + Block(m).size <= Block(n)'.at
              \/ Block(n)'.at + Block(n)'.size <= Block(m).at
        BY <1>2, <2>1, <4>2 DEF PoolInv, BlocksDisjoint
      <4> QED
        BY <1>3, <2>1, <4>1, <4>3, BytesApart
    <3> QED
      BY <1>1, <3>1, <3>2 DEF OneChanges, WritesOnlyIn
  <2> QED
    BY <1>1, <1>3, <2>1, <2>2, KeptSound DEF OthersKept
<1>4. MemoryInv'
  <2>1. DOMAIN arr' = Arrays /\ DOMAIN str' = Strings
    BY <1>1 DEF OthersKept
  <2>2. ASSUME NEW m \in Names, Live(m)' PROVE Sound(m)'
    <3>1. m # n => Live(m)
      BY <1>1, <2>2, HeadersKept
    <3> QED
      BY <1>3, <3>1
  <2> QED
    BY <1>2, <2>1, <2>2 DEF MemoryInv
<1>5. ASSUME NEW m \in Names \ {n}, ~Live(m) PROVE Contents(m)' = Contents(m)
  BY <1>1, <1>5 DEF OthersKept, Live, Header, Contents
<1> QED
  BY <1>3, <1>4, <1>5

\* Nothing is changed in an array or string: only the pool is used.
LEMMA OthersUse ==
  ASSUME MemoryInv, OtherAlloc \/ Fails \/ (PoolOver /\ UNCHANGED contvars) \/ UNCHANGED contvars
  PROVE  MemoryInv' /\ \A m \in Names : Contents(m)' = Contents(m)
<1>1. /\ PoolInv /\ BlocksOwned /\ \A m \in Names : Live(m) => Sound(m)
      /\ DOMAIN arr = Arrays /\ DOMAIN str = Strings
  BY DEF MemoryInv
<1>2. arr' = arr /\ str' = str
  BY DEF OtherAlloc, Fails, contvars
<1>3. \A m : /\ Header(m)' = Header(m) /\ Live(m)' = Live(m)
             /\ Room(m)' = Room(m) /\ Block(m)' = Block(m)
  BY <1>2 DEF Header, Live, Room, Block
<1>4. PoolInv' /\ blocks \subseteq blocks'
  <2>1. ASSUME NEW size \in Requests,
               pool_alloc(size) \/ ActiveIsNull(size) \/ MallocFails(size) \/ AllocAborts(size)
        PROVE  PoolInv' /\ blocks \subseteq blocks'
    <3>1. blocks \subseteq blocks'
      BY <2>1 DEF pool_alloc, ActiveIsNull, MallocFails, AllocAborts
    <3> QED
      BY <1>1, <2>1, <3>1, AllocKeepsPoolInv, OthersKeepPoolInv, PoolsAssumption
  <2>2. CASE UNCHANGED contvars
    BY <1>1, <2>2, PoolInvStep DEF contvars, poolvars
  <2> QED
    BY <2>1, <2>2 DEF OtherAlloc, Fails
<1>5. BlocksOwned'
  BY <1>1, <1>3, <1>4 DEF BlocksOwned
<1>6. ASSUME NEW m \in Names, Live(m), NEW j \in 0 .. Room(m) - 1
      PROVE  memory'[Byte(Header(m).data, j)] = memory[Byte(Header(m).data, j)]
  <2>1. ASSUME NEW size \in Requests, pool_alloc(size),
               memory' = Stored(memory, Place(size), 0, POOLS_GRANULARITY * size, "other")
        PROVE  memory'[Byte(Header(m).data, j)] = memory[Byte(Header(m).data, j)]
    <3>1. /\ size \in Nat /\ POOLS_GRANULARITY * size \in Nat
          /\ POOLS_GRANULARITY * size <= POOLS_GRANULARITY * size
      BY PoolsAssumption, ContainersAssumption
    <3>2. Byte(Header(m).data, j) \in Bytes
      BY <1>1, <1>6, OwnBytes, BlockType
    <3>3. /\ Place(size) \in Addresses
          /\ \A b \in blocks : b.chunk = Place(size).chunk => b.at + b.size <= Place(size).at
      BY <1>1, <2>1, <3>1, PlaceProperties, PoolsAssumption DEF Addresses
    <3>4. Block(m) \in blocks
      BY <1>1, <1>6 DEF BlocksOwned
    <3>5. ~InRegion(Byte(Header(m).data, j), Place(size), 0, POOLS_GRANULARITY * size)
      BY <1>1, <1>6, <3>1, <3>3, <3>4, BytesApart
    <3> QED
      BY <2>1, <3>2, <3>5 DEF Stored
  <2> QED
    BY <2>1 DEF OtherAlloc, Fails, contvars
<1>7. ASSUME NEW m \in Names, Live(m)
      PROVE  Sound(m)' /\ Contents(m)' = Contents(m)
  BY <1>1, <1>2, <1>6, <1>7, KeptSound
<1>8. ASSUME NEW m \in Names, ~Live(m) PROVE Contents(m)' = Contents(m)
  BY <1>2, <1>8 DEF Live, Header, Contents
<1> QED
  BY <1>1, <1>2, <1>3, <1>4, <1>5, <1>7, <1>8 DEF MemoryInv

LEMMA InitMemoryInv == Init => MemoryInv
<1> SUFFICES ASSUME Init PROVE MemoryInv
  OBVIOUS
<1>1. PoolInv
  BY InitPoolInv DEF Init
<1>2. \A n \in Names : ~Live(n)
  BY DEF Init, Live, Header, Names
<1> QED
  BY <1>1, <1>2 DEF Init, MemoryInv, BlocksOwned

-----------------------------------------------------------------------------
(* Arrays.  What a client reads of one is what its bytes say, before and   *)
(* after a step.                                                           *)

LEMMA ArrayNow ==
  ASSUME MemoryInv, NEW a \in Arrays, arr[a] # None
  PROVE  /\ arr[a] \in ArrayHeaders /\ arr[a].length <= arr[a].capacity
         /\ a \in Names /\ Header(a) = arr[a] /\ Live(a)
         /\ Room(a) = POOLS_GRANULARITY * arr[a].capacity
         /\ \A j \in 0 .. POOLS_GRANULARITY * arr[a].capacity : Byte(arr[a].data, j) \in Bytes
         /\ Contents(a) \in Seq(ItemsOf(a)) /\ Len(Contents(a)) = arr[a].length
         /\ \A k \in 1 .. arr[a].length : \A j \in 0 .. POOLS_GRANULARITY - 1 :
              memory[Byte(arr[a].data, POOLS_GRANULARITY * (k - 1) + j)] = Contents(a)[k]
<1>1. a \in Names /\ Header(a) = arr[a] /\ Live(a) /\ Room(a) = POOLS_GRANULARITY * arr[a].capacity
  BY DEF Names, Header, Live, Room
<1>2. PoolInv /\ BlocksOwned /\ Sound(a) /\ ArraySound(a)
  BY <1>1 DEF MemoryInv, Sound
<1>3. arr[a] \in ArrayHeaders /\ arr[a].length <= arr[a].capacity /\ arr[a].length \in Nat
  BY <1>2 DEF ArraySound, ArrayHeaders
<1>4. \A j \in 0 .. POOLS_GRANULARITY * arr[a].capacity : Byte(arr[a].data, j) \in Bytes
  BY <1>1, <1>2, OwnBytes
<1>5. ASSUME NEW i \in 0 .. arr[a].length - 1
      PROVE  /\ nth(a, i) \in ItemsOf(a)
             /\ \A j \in 0 .. POOLS_GRANULARITY - 1 :
                  memory[Byte(arr[a].data, POOLS_GRANULARITY * i + j)] = nth(a, i)
  <2>1. PICK x \in ItemsOf(a) : \A j \in 0 .. POOLS_GRANULARITY - 1 :
               memory[Byte(arr[a].data, POOLS_GRANULARITY * i + j)] = x
    BY <1>2 DEF ArraySound
  <2>2. 0 \in 0 .. POOLS_GRANULARITY - 1
    BY ContainersAssumption
  <2> DEFINE read == { memory[Byte(arr[a].data, POOLS_GRANULARITY * i + j)] :
                         j \in 0 .. POOLS_GRANULARITY - 1 }
  <2>3. read = {x}
    BY <2>1, <2>2
  <2>4. nth(a, i) = CHOOSE y \in {x} : TRUE
    BY <2>3 DEF nth
  <2> QED
    BY <2>1, <2>4
<1>6. Contents(a) = [k \in 1 .. arr[a].length |-> nth(a, k - 1)]
  BY DEF Contents
<1>7. \A k \in 1 .. arr[a].length : k - 1 \in 0 .. arr[a].length - 1
  BY <1>3
<1>8. Contents(a) \in Seq(ItemsOf(a)) /\ Len(Contents(a)) = arr[a].length
  BY <1>3, <1>5, <1>6, <1>7
<1> QED
  BY <1>1, <1>3, <1>4, <1>5, <1>6, <1>7, <1>8

LEMMA ArrayAfter ==
  ASSUME NEW a \in Arrays, arr'[a] \in ArrayHeaders, arr'[a].length <= arr'[a].capacity,
         NEW c \in Seq(ItemsOf(a)), Len(c) = arr'[a].length,
         \A k \in 1 .. Len(c) : \A j \in 0 .. POOLS_GRANULARITY - 1 :
           memory'[Byte(arr'[a].data, POOLS_GRANULARITY * (k - 1) + j)] = c[k]
  PROVE  Live(a)' /\ Sound(a)' /\ Contents(a)' = c
<1>1. Live(a)' /\ arr'[a] # None /\ Len(c) \in Nat
  BY NoneAssumption DEF Live, Header
<1>2. ASSUME NEW i \in 0 .. Len(c) - 1
      PROVE  /\ c[i + 1] \in ItemsOf(a)
             /\ \A j \in 0 .. POOLS_GRANULARITY - 1 :
                  memory'[Byte(arr'[a].data, POOLS_GRANULARITY * i + j)] = c[i + 1]
  <2>1. i + 1 \in 1 .. Len(c) /\ i + 1 - 1 = i
    BY <1>1
  <2> QED
    BY <2>1
<1>3. ArraySound(a)'
  BY <1>2 DEF ArraySound
<1>4. ASSUME NEW i \in 0 .. Len(c) - 1 PROVE nth(a, i)' = c[i + 1]
  <2> DEFINE read == { memory'[Byte(arr'[a].data, POOLS_GRANULARITY * i + j)] :
                         j \in 0 .. POOLS_GRANULARITY - 1 }
  <2>1. 0 \in 0 .. POOLS_GRANULARITY - 1
    BY ContainersAssumption
  <2>2. read = {c[i + 1]}
    BY <1>2, <2>1
  <2>3. nth(a, i)' = CHOOSE y \in {c[i + 1]} : TRUE
    BY <1>2, <2>2 DEF nth
  <2> QED
    BY <2>3
<1>5. Contents(a)' = [k \in 1 .. Len(c) |-> nth(a, k - 1)']
  BY <1>1 DEF Contents
<1>6. \A k \in 1 .. Len(c) : k - 1 \in 0 .. Len(c) - 1 /\ k - 1 + 1 = k
  BY <1>1
<1>7. \A k \in 1 .. Len(c) : nth(a, k - 1)' = c[k]
  BY <1>4, <1>6
<1>8. Contents(a)' = [k \in 1 .. Len(c) |-> c[k]]
  BY <1>5, <1>7
<1> QED
  BY <1>1, <1>3, <1>8 DEF Sound

\* The element at k after a store to the element at i.
ElementAssigned(mem, data, i, x) ==
  \A k \in Int : \A j \in 0 .. POOLS_GRANULARITY - 1 :
    Byte(data, POOLS_GRANULARITY * k + j) \in Bytes =>
      Assigned(mem, data, i, x)[Byte(data, POOLS_GRANULARITY * k + j)] =
        IF k = i THEN x ELSE mem[Byte(data, POOLS_GRANULARITY * k + j)]

LEMMA AfterAssigned ==
  ASSUME NEW mem, NEW data \in Addresses, NEW i \in Int, NEW x
  PROVE  ElementAssigned(mem, data, i, x)
<1> SUFFICES ASSUME NEW k \in Int, NEW j \in 0 .. POOLS_GRANULARITY - 1,
                    Byte(data, POOLS_GRANULARITY * k + j) \in Bytes
             PROVE  Assigned(mem, data, i, x)[Byte(data, POOLS_GRANULARITY * k + j)] =
                      IF k = i THEN x ELSE mem[Byte(data, POOLS_GRANULARITY * k + j)]
  BY DEF ElementAssigned
<1>1. POOLS_GRANULARITY * i \in Int /\ POOLS_GRANULARITY * k + j \in Int /\ POOLS_GRANULARITY \in Int
  BY ContainersAssumption
<1>2. POOLS_GRANULARITY * k + j \in POOLS_GRANULARITY * i .. POOLS_GRANULARITY * i + POOLS_GRANULARITY - 1
        <=> k = i
  <2>1. POOLS_GRANULARITY * k + j \in POOLS_GRANULARITY * i ..
                                 POOLS_GRANULARITY * i + POOLS_GRANULARITY * 1 - 1
          <=> k \in i .. i + 1 - 1
    BY ElementRange, SMTT(30)
  <2> QED
    BY <1>1, <2>1
<1> PICK from \in Int : from = POOLS_GRANULARITY * i
  BY <1>1
<1> PICK at \in Int : at = POOLS_GRANULARITY * k + j
  BY <1>1
<1>3. Stored(mem, data, from, POOLS_GRANULARITY, x)[Byte(data, at)] =
        IF at \in from .. from + POOLS_GRANULARITY - 1 THEN x ELSE mem[Byte(data, at)]
  BY <1>1, AfterStored
<1> QED
  BY <1>2, <1>3 DEF Assigned

\* What is written to a part of a block is in the block.
LEMMA PartOfRegion ==
  ASSUME NEW b \in Bytes, NEW data \in Addresses, NEW bytes \in Int, NEW k \in Nat, NEW n \in Int,
         k + n <= bytes, InRegion(b, data, k, n)
  PROVE  InRegion(b, data, 0, bytes)
<1>1. PICK c \in 0 .. POOLS_NUM_CHUNKS - 1 :
        \E at \in 0 .. POOLS_GRANULARITY * PoolSize(c) - 1 : b = <<c, at>>
  BY DEF Bytes
<1>2. b[2] \in Int
  BY <1>1
<1>3. Byte(data, 0)[2] \in Int
  BY ContainersAssumption DEF Byte, Addresses
<1> QED
  BY <1>2, <1>3 DEF InRegion

\* What is stored to elements is in the block of the array.
LEMMA AssignedInBlock ==
  ASSUME NEW mem, NEW data \in Addresses, NEW i \in Nat, NEW x, NEW capacity \in Nat, i < capacity
  PROVE  \A b \in Bytes : \/ InRegion(b, data, 0, POOLS_GRANULARITY * capacity)
                          \/ Assigned(mem, data, i, x)[b] = mem[b]
<1> SUFFICES ASSUME NEW b \in Bytes, ~InRegion(b, data, 0, POOLS_GRANULARITY * capacity)
             PROVE  Assigned(mem, data, i, x)[b] = mem[b]
  OBVIOUS
<1>1. POOLS_GRANULARITY * (i + 1) <= POOLS_GRANULARITY * capacity
  BY TimesMonotone
<1>2. /\ POOLS_GRANULARITY * i \in Nat /\ POOLS_GRANULARITY * capacity \in Int
      /\ POOLS_GRANULARITY \in Int
      /\ POOLS_GRANULARITY * i + POOLS_GRANULARITY <= POOLS_GRANULARITY * capacity
  BY <1>1, ContainersAssumption
<1>3. ~InRegion(b, data, POOLS_GRANULARITY * i, POOLS_GRANULARITY)
  BY <1>2, PartOfRegion
<1> QED
  BY <1>3 DEF Assigned, Stored

LEMMA MovedInBlock ==
  ASSUME NEW mem, NEW to \in Addresses, NEW i \in Nat, NEW from, NEW m, NEW n \in Int,
         NEW bytes \in Int, i + n <= bytes
  PROVE  \A b \in Bytes : InRegion(b, to, 0, bytes) \/ Moved(mem, to, i, from, m, n)[b] = mem[b]
BY PartOfRegion DEF Moved

LEMMA StoredInBlock ==
  ASSUME NEW mem, NEW data \in Addresses, NEW k \in Nat, NEW n \in Int, NEW x,
         NEW bytes \in Int, k + n <= bytes
  PROVE  \A b \in Bytes : InRegion(b, data, 0, bytes) \/ Stored(mem, data, k, n, x)[b] = mem[b]
BY PartOfRegion DEF Stored

LEMMA WrittenInBlock ==
  ASSUME NEW mem, NEW data \in Addresses, NEW k \in Nat, NEW text, Len(text) \in Int,
         NEW bytes \in Int, k + Len(text) <= bytes
  PROVE  \A b \in Bytes : InRegion(b, data, 0, bytes) \/ Written(mem, data, k, text)[b] = mem[b]
BY PartOfRegion DEF Written

\* The other records, when the one of an array or of a string is set.
LEMMA OthersKeptBySet ==
  ASSUME MemoryInv, NEW n \in Names, NEW header,
         IF n \in Arrays THEN arr' = [arr EXCEPT ![n] = header] /\ str' = str
                         ELSE str' = [str EXCEPT ![n] = header] /\ arr' = arr
  PROVE  OthersKept(n) /\ (IF n \in Arrays THEN arr'[n] = header ELSE str'[n] = header)
BY DEF MemoryInv, OthersKept, Names

\* A new block for an array or string.
LEMMA NewBlock ==
  ASSUME MemoryInv, NEW size \in Nat, pool_alloc(size)
  PROVE  /\ Place(size) \in Addresses
         /\ \A j \in 0 .. POOLS_GRANULARITY * size : Byte(Place(size), j) \in Bytes
<1>1. /\ Place(size) \in [chunk : 0 .. POOLS_NUM_CHUNKS - 1, at : Nat]
      /\ Place(size).at + size < PoolSize(Place(size).chunk)
  BY PlaceProperties DEF MemoryInv
<1>2. Place(size) \in Addresses /\ Place(size).chunk \in 0 .. POOLS_NUM_CHUNKS - 1
  BY <1>1, PoolsAssumption DEF Addresses
<1>3. ASSUME NEW j \in 0 .. POOLS_GRANULARITY * size PROVE Byte(Place(size), j) \in Bytes
  BY <1>1, <1>2, ByteOfBlock
<1> QED
  BY <1>2, <1>3

LEMMA PaddedElements ==
  ASSUME NEW n \in Nat
  PROVE  Padded(POOLS_GRANULARITY * n) = n
BY ContainersAssumption DEF Padded

LEMMA ArrayInit ==
  ASSUME MemoryInv, NEW a \in Arrays, dynarr_init(a)
  PROVE  /\ OneChanges(a) /\ Live(a)' /\ Sound(a)' /\ a \in Names
         /\ Contents(a) = None /\ Contents(a)' = << >>
<1> DEFINE size == Padded(POOLS_GRANULARITY * 4)
           header == [length |-> 0, capacity |-> 4, data |-> Place(size)]
<1>1. size = 4 /\ pool_alloc(4)
  BY PaddedElements DEF dynarr_init
<1>2. /\ Place(4) \in Addresses
      /\ \A j \in 0 .. POOLS_GRANULARITY * 4 : Byte(Place(4), j) \in Bytes
  BY <1>1, NewBlock
<1>3. /\ arr[a] = None /\ arr' = [arr EXCEPT ![a] = header] /\ str' = str /\ memory' = memory
      /\ a \in Names
  BY DEF dynarr_init, Names
<1>4. OthersKept(a) /\ arr'[a] = header
  BY <1>3, OthersKeptBySet
<1> HIDE DEF size
<1>5. header \in ArrayHeaders /\ header.length = 0 /\ header.capacity = 4 /\ header.data = Place(4)
  BY <1>1, <1>2 DEF ArrayHeaders
<1> HIDE DEF header
<1>6. Live(a)' /\ Sound(a)' /\ Contents(a)' = << >>
  <2>3. << >> \in Seq(ItemsOf(a)) /\ Len(<< >>) = 0
    OBVIOUS
  <2> PICK c \in Seq(ItemsOf(a)) : c = << >> /\ Len(c) = 0
    BY <2>3
  <2>1. arr'[a] \in ArrayHeaders /\ arr'[a].length <= arr'[a].capacity /\ Len(c) = arr'[a].length
    BY <1>4, <1>5
  <2>2. \A k \in 1 .. Len(c) : FALSE
    OBVIOUS
  <2> QED
    BY <2>1, <2>2, ArrayAfter
<1>7. Block(a)' = [chunk |-> Place(4).chunk, at |-> Place(4).at, size |-> 4]
  BY <1>4, <1>5, PaddedElements DEF Block, Header, Room
<1>8. WritesOnlyIn(Header(a)'.data, Room(a)')
  BY <1>3 DEF WritesOnlyIn
<1>9. OneChanges(a)
  BY <1>1, <1>4, <1>7, <1>8 DEF OneChanges
<1> QED
  BY <1>3, <1>6, <1>9 DEF Contents

LEMMA ArrayAppend ==
  ASSUME MemoryInv, NEW a \in Arrays, arr[a] # None, NEW x \in ItemsOf(a), dynarr_append(a, x)
  PROVE  /\ OneChanges(a) /\ Live(a)' /\ Sound(a)' /\ a \in Names
         /\ Contents(a)' = Append(Contents(a), x)
<1> DEFINE full == arr[a].length >= arr[a].capacity
           size == 2 * arr[a].capacity
           data == IF full THEN Place(size) ELSE arr[a].data
           room == IF full THEN 2 * arr[a].capacity ELSE arr[a].capacity
           len  == arr[a].length
           old  == arr[a].data
           c    == Contents(a)
           mem  == IF full THEN Moved(memory, data, 0, old, 0, POOLS_GRANULARITY * len) ELSE memory
           header == [length |-> len + 1, capacity |-> room, data |-> data]
<1>1. /\ arr[a] \in ArrayHeaders /\ len <= arr[a].capacity
      /\ a \in Names /\ Header(a) = arr[a] /\ Live(a)
      /\ Room(a) = POOLS_GRANULARITY * arr[a].capacity
      /\ \A j \in 0 .. POOLS_GRANULARITY * arr[a].capacity : Byte(old, j) \in Bytes
      /\ c \in Seq(ItemsOf(a)) /\ Len(c) = len
      /\ \A k \in 1 .. len : \A j \in 0 .. POOLS_GRANULARITY - 1 :
           memory[Byte(old, POOLS_GRANULARITY * (k - 1) + j)] = c[k]
  BY ArrayNow
<1>2. /\ len \in Nat /\ arr[a].capacity \in Nat \ {0} /\ old \in Addresses /\ size \in Nat
      /\ room \in Nat \ {0} /\ len + 1 <= room
  BY <1>1 DEF ArrayHeaders
<1>3. Padded(POOLS_GRANULARITY * 2 * arr[a].capacity) = size
  <2>1. POOLS_GRANULARITY * 2 * arr[a].capacity = POOLS_GRANULARITY * size
    BY <1>2, ContainersAssumption
  <2> QED
    BY <1>2, <2>1, PaddedElements
<1>4. /\ IF full THEN pool_alloc(size) ELSE UNCHANGED poolvars
      /\ memory' = Assigned(mem, data, len, x)
      /\ arr' = [arr EXCEPT ![a] = header]
      /\ str' = str
  <2>1. arr' = [arr EXCEPT ![a] =
                  [length   |-> arr[a].length + 1,
                   capacity |-> IF full THEN 2 * arr[a].capacity ELSE arr[a].capacity,
                   data     |-> data]]
    BY <1>3 DEF dynarr_append
  <2>2. memory' = Assigned(mem, data, len, x)
    BY <1>3 DEF dynarr_append, Copied
  <2>3. (IF full THEN pool_alloc(size) ELSE UNCHANGED poolvars) /\ str' = str
    BY <1>3 DEF dynarr_append
  <2> QED
    BY <2>1, <2>2, <2>3
<1>5. data \in Addresses /\ \A j \in 0 .. POOLS_GRANULARITY * room : Byte(data, j) \in Bytes
  <2>1. CASE full
    <3>1. size \in Nat /\ pool_alloc(size) /\ data = Place(size) /\ room = size
      BY <1>2, <1>4, <2>1
    <3>2. data \in Addresses /\ \A j \in 0 .. POOLS_GRANULARITY * size : Byte(data, j) \in Bytes
      <4> HIDE DEF size, data
      <4> QED
        BY <3>1, NewBlock
    <3> QED
      BY <3>1, <3>2
  <2>2. CASE ~full
    BY <1>1, <1>2, <2>2
  <2> QED
    BY <2>1, <2>2
<1>6. OthersKept(a) /\ arr'[a] = header
  <2>1. a \in Names /\ a \in Arrays /\ arr' = [arr EXCEPT ![a] = header] /\ str' = str
    BY <1>1, <1>4
  <2> HIDE DEF header
  <2> QED
    BY ONLY MemoryInv, <2>1, OthersKeptBySet
<1>7. /\ header \in ArrayHeaders /\ header.length = len + 1 /\ header.capacity = room
      /\ header.data = data
  BY <1>2, <1>5 DEF ArrayHeaders
<1> HIDE DEF full, size, data, room, len, old, c, mem, header
<1>8. ASSUME NEW k \in 1 .. len, NEW j \in 0 .. POOLS_GRANULARITY - 1
      PROVE  mem[Byte(data, POOLS_GRANULARITY * (k - 1) + j)] = c[k]
  <2> PICK at \in Int : at = POOLS_GRANULARITY * (k - 1) + j
    BY <1>2, ContainersAssumption
  <2>1. k - 1 \in 0 .. len - 1 /\ k - 1 \in 0 .. room - 1 /\ k - 1 \in 0 .. arr[a].capacity - 1
    BY <1>1, <1>2
  <2>2. /\ at \in 0 .. POOLS_GRANULARITY * len - 1
        /\ at \in 0 .. POOLS_GRANULARITY * room - 1
        /\ at \in 0 .. POOLS_GRANULARITY * arr[a].capacity - 1
    BY <1>2, <2>1, ElementByte
  <2>3. /\ POOLS_GRANULARITY * len \in Nat /\ POOLS_GRANULARITY * room \in Nat
        /\ POOLS_GRANULARITY * arr[a].capacity \in Nat
    BY <1>2, ContainersAssumption
  <2>4. Byte(data, at) \in Bytes /\ Byte(old, at) \in Bytes /\ memory[Byte(old, at)] = c[k]
    BY <1>1, <1>5, <2>2, <2>3, SMTT(30)
  <2>5. CASE full
    <3> PICK n \in Nat : n = POOLS_GRANULARITY * len
      BY <2>3
    <3>1. Moved(memory, data, 0, old, 0, n)[Byte(data, at)] = Read(memory, Byte(old, 0 - 0 + at))
      <4>1. at \in 0 .. 0 + n - 1
        BY <2>2
      <4>2. ByteMoved(memory, data, 0, old, 0, n, at)
        BY <1>5, <2>4, AfterMoved
      <4> QED
        BY <4>1, <4>2 DEF ByteMoved
    <3>2. 0 - 0 + at = at
      OBVIOUS
    <3> QED
      BY <2>4, <2>5, <3>1, <3>2 DEF Read, mem
  <2>6. CASE ~full
    <3>1. data = old /\ mem = memory
      BY <2>6 DEF data, old, mem
    <3> QED
      BY <2>4, <3>1
  <2> QED
    BY <2>5, <2>6
<1>9. ASSUME NEW k \in 1 .. len + 1, NEW j \in 0 .. POOLS_GRANULARITY - 1
      PROVE  memory'[Byte(data, POOLS_GRANULARITY * (k - 1) + j)] = Append(c, x)[k]
  <2>1. k - 1 \in 0 .. room - 1 /\ POOLS_GRANULARITY * room \in Nat
    BY <1>2, ContainersAssumption
  <2>2. Byte(data, POOLS_GRANULARITY * (k - 1) + j) \in Bytes
    BY <1>2, <1>5, <2>1, ElementByte
  <2>3. memory'[Byte(data, POOLS_GRANULARITY * (k - 1) + j)] =
          IF k - 1 = len THEN x ELSE mem[Byte(data, POOLS_GRANULARITY * (k - 1) + j)]
    <3> PICK i \in Int : i = k - 1
      OBVIOUS
    <3>2. len \in Int /\ data \in Addresses /\ Byte(data, POOLS_GRANULARITY * i + j) \in Bytes
      BY <1>2, <1>5, <2>2
    <3>1. Assigned(mem, data, len, x)[Byte(data, POOLS_GRANULARITY * i + j)] =
            IF i = len THEN x ELSE mem[Byte(data, POOLS_GRANULARITY * i + j)]
      <4>1. ElementAssigned(mem, data, len, x)
        BY ONLY <3>2, AfterAssigned
      <4> QED
        BY <3>2, <4>1 DEF ElementAssigned
    <3> QED
      BY <1>4, <3>1
  <2>4. CASE k = len + 1
    BY <1>1, <1>2, <2>3, <2>4
  <2>5. CASE k # len + 1
    <3>1. k \in 1 .. len /\ k - 1 # len
      BY <1>2, <2>5
    <3>2. Append(c, x)[k] = c[k]
      BY <1>1, <3>1
    <3> QED
      BY <1>8, <2>3, <3>1, <3>2
  <2> QED
    BY <2>4, <2>5
<1>10. Live(a)' /\ Sound(a)' /\ Contents(a)' = Append(c, x)
  <2>3. Append(c, x) \in Seq(ItemsOf(a)) /\ Len(Append(c, x)) = len + 1
    BY <1>1
  <2> PICK d \in Seq(ItemsOf(a)) : d = Append(c, x) /\ Len(d) = len + 1
    BY <2>3
  <2>1. arr'[a] \in ArrayHeaders /\ arr'[a].length <= arr'[a].capacity /\ Len(d) = arr'[a].length
    BY <1>2, <1>6, <1>7
  <2>2. \A k \in 1 .. Len(d) : \A j \in 0 .. POOLS_GRANULARITY - 1 :
          memory'[Byte(arr'[a].data, POOLS_GRANULARITY * (k - 1) + j)] = d[k]
    BY <1>6, <1>7, <1>9
  <2> QED
    BY <2>1, <2>2, ArrayAfter
<1>11. Room(a)' = POOLS_GRANULARITY * room /\ Header(a)'.data = data
  BY <1>6, <1>7 DEF Room, Header
<1>12. WritesOnlyIn(Header(a)'.data, Room(a)')
  <2>1. ASSUME NEW b \in Bytes, ~InRegion(b, data, 0, POOLS_GRANULARITY * room)
        PROVE  mem[b] = memory[b]
    <3>1. POOLS_GRANULARITY * len \in Int /\ POOLS_GRANULARITY * room \in Int
          /\ 0 + POOLS_GRANULARITY * len <= POOLS_GRANULARITY * room
      BY <1>2, TimesMonotone, ContainersAssumption
    <3>2. CASE full
      BY <1>5, <2>1, <3>1, <3>2, MovedInBlock DEF mem
    <3>3. CASE ~full
      BY <3>3 DEF mem
    <3> QED
      BY <3>2, <3>3
  <2>2. len < room /\ room \in Nat
    BY <1>2
  <2> QED
    BY <1>2, <1>4, <1>5, <1>11, <2>1, <2>2, AssignedInBlock DEF WritesOnlyIn
<1>13. OneChanges(a)
  <2>1. Block(a)' = [chunk |-> data.chunk, at |-> data.at, size |-> room]
    BY <1>2, <1>11, PaddedElements DEF Block
  <2>2. CASE full
    <3>1. data = Place(size) /\ room = size /\ pool_alloc(size)
      BY <1>4, <2>2 DEF data, room, size
    <3> QED
      BY <1>2, <1>6, <1>12, <2>1, <3>1 DEF OneChanges
  <2>3. CASE ~full
    <3>1. UNCHANGED poolvars /\ data = arr[a].data /\ room = arr[a].capacity
      BY <1>4, <2>3 DEF data, room
    <3>2. Block(a) = [chunk |-> data.chunk, at |-> data.at, size |-> room]
      BY <1>1, <1>2, <3>1, PaddedElements DEF Block
    <3> QED
      BY <1>1, <1>6, <1>12, <2>1, <3>1, <3>2 DEF OneChanges
  <2> QED
    BY <2>2, <2>3
<1> QED
  BY <1>1, <1>10, <1>13 DEF c

LEMMA ArraySet ==
  ASSUME MemoryInv, NEW a \in Arrays, NEW i \in Nat, NEW x \in ItemsOf(a), dynarr_set(a, i, x)
  PROVE  /\ OneChanges(a) /\ Live(a)' /\ Sound(a)' /\ a \in Names /\ Live(a)
         /\ i + 1 \in 1 .. Len(Contents(a))
         /\ Contents(a)' = [Contents(a) EXCEPT ![i + 1] = x]
<1> DEFINE len      == arr[a].length
           capacity == arr[a].capacity
           data     == arr[a].data
           c        == Contents(a)
<1>1. /\ arr[a] \in ArrayHeaders /\ len <= capacity
      /\ a \in Names /\ Header(a) = arr[a] /\ Live(a)
      /\ Room(a) = POOLS_GRANULARITY * capacity
      /\ \A j \in 0 .. POOLS_GRANULARITY * capacity : Byte(data, j) \in Bytes
      /\ c \in Seq(ItemsOf(a)) /\ Len(c) = len
      /\ \A k \in 1 .. len : \A j \in 0 .. POOLS_GRANULARITY - 1 :
           memory[Byte(data, POOLS_GRANULARITY * (k - 1) + j)] = c[k]
  BY ArrayNow DEF dynarr_set
<1>2. /\ len \in Nat /\ capacity \in Nat \ {0} /\ data \in Addresses /\ i < len
  BY <1>1 DEF ArrayHeaders, dynarr_set
<1>3. /\ memory' = Assigned(memory, data, i, x) /\ arr' = arr /\ str' = str
      /\ UNCHANGED poolvars
  BY DEF dynarr_set
<1>4. OthersKept(a)
  BY <1>3 DEF OthersKept, MemoryInv
<1> HIDE DEF len, capacity, data, c
<1>5. ASSUME NEW k \in 1 .. len, NEW j \in 0 .. POOLS_GRANULARITY - 1
      PROVE  memory'[Byte(data, POOLS_GRANULARITY * (k - 1) + j)] = [c EXCEPT ![i + 1] = x][k]
  <2> PICK m \in Int : m = k - 1
    OBVIOUS
  <2>1. m \in 0 .. capacity - 1 /\ POOLS_GRANULARITY * capacity \in Nat
    BY <1>1, <1>2, ContainersAssumption
  <2>2. POOLS_GRANULARITY * m + j \in 0 .. POOLS_GRANULARITY * capacity - 1
    BY <1>2, <2>1, ElementByte
  <2>3. Byte(data, POOLS_GRANULARITY * m + j) \in Bytes
    BY <1>1, <2>1, <2>2
  <2> PICK mem : mem = memory
    OBVIOUS
  <2>4. Assigned(mem, data, i, x)[Byte(data, POOLS_GRANULARITY * m + j)] =
          IF m = i THEN x ELSE mem[Byte(data, POOLS_GRANULARITY * m + j)]
    <3> PICK p \in Int : p = i
      OBVIOUS
    <3>1. ElementAssigned(mem, data, p, x)
      <4>1. p \in Int /\ data \in Addresses
        BY <1>2
      <4> QED
        BY ONLY <4>1, AfterAssigned
    <3> QED
      BY <2>3, <3>1 DEF ElementAssigned
  <2>5. [c EXCEPT ![i + 1] = x][k] = IF m = i THEN x ELSE c[k]
    BY <1>1, <1>2
  <2> QED
    BY <1>1, <1>3, <2>4, <2>5
<1>6. Live(a)' /\ Sound(a)' /\ Contents(a)' = [c EXCEPT ![i + 1] = x]
  <2>1. [c EXCEPT ![i + 1] = x] \in Seq(ItemsOf(a)) /\ Len([c EXCEPT ![i + 1] = x]) = len
    BY <1>1, <1>2
  <2> PICK d \in Seq(ItemsOf(a)) : d = [c EXCEPT ![i + 1] = x] /\ Len(d) = len
    BY <2>1
  <2>2. arr'[a] \in ArrayHeaders /\ arr'[a].length <= arr'[a].capacity /\ Len(d) = arr'[a].length
    BY <1>1, <1>3 DEF len, capacity
  <2>3. \A k \in 1 .. Len(d) : \A j \in 0 .. POOLS_GRANULARITY - 1 :
          memory'[Byte(arr'[a].data, POOLS_GRANULARITY * (k - 1) + j)] = d[k]
    BY <1>3, <1>5 DEF data
  <2> QED
    BY <2>2, <2>3, ArrayAfter
<1>7. Header(a)'.data = data /\ Room(a)' = POOLS_GRANULARITY * capacity /\ Block(a)' = Block(a)
  BY <1>1, <1>3 DEF Header, Room, Block, data, capacity
<1>8. WritesOnlyIn(Header(a)'.data, Room(a)')
  BY <1>1, <1>2, <1>3, <1>7, AssignedInBlock DEF WritesOnlyIn
<1>9. OneChanges(a)
  BY <1>1, <1>3, <1>4, <1>7, <1>8 DEF OneChanges
<1>10. i + 1 \in 1 .. Len(c)
  BY <1>1, <1>2
<1> QED
  BY <1>1, <1>6, <1>9, <1>10 DEF c

LEMMA ArrayRemove ==
  ASSUME MemoryInv, NEW a \in Arrays, NEW i \in Nat, dynarr_remove(a, i)
  PROVE  /\ OneChanges(a) /\ Live(a)' /\ Sound(a)' /\ a \in Names /\ Live(a)
         /\ i + 1 \in 1 .. Len(Contents(a))
         /\ Contents(a)' = D!Without(Contents(a), i + 1)
<1> DEFINE len      == arr[a].length
           capacity == arr[a].capacity
           data     == arr[a].data
           c        == Contents(a)
           from     == POOLS_GRANULARITY * (i + 1)
           to       == POOLS_GRANULARITY * i
           bytes    == POOLS_GRANULARITY * (len - i - 1)
           header   == [arr[a] EXCEPT !.length = @ - 1]
           d        == [k \in 1 .. len - 1 |-> IF k <= i THEN c[k] ELSE c[k + 1]]
<1>1. /\ arr[a] \in ArrayHeaders /\ len <= capacity
      /\ a \in Names /\ Header(a) = arr[a] /\ Live(a)
      /\ Room(a) = POOLS_GRANULARITY * capacity
      /\ \A j \in 0 .. POOLS_GRANULARITY * capacity : Byte(data, j) \in Bytes
      /\ c \in Seq(ItemsOf(a)) /\ Len(c) = len
      /\ \A k \in 1 .. len : \A j \in 0 .. POOLS_GRANULARITY - 1 :
           memory[Byte(data, POOLS_GRANULARITY * (k - 1) + j)] = c[k]
  BY ArrayNow DEF dynarr_remove
<1>2. /\ len \in Nat /\ capacity \in Nat \ {0} /\ data \in Addresses /\ i < len
  BY <1>1 DEF ArrayHeaders, dynarr_remove
<1>3. /\ memory' = Moved(memory, data, to, data, from, bytes)
      /\ arr' = [arr EXCEPT ![a] = header] /\ str' = str
      /\ UNCHANGED poolvars
  BY DEF dynarr_remove
<1>4. OthersKept(a) /\ arr'[a] = header
  BY <1>1, <1>3, OthersKeptBySet
<1>5. /\ header \in ArrayHeaders /\ header.length = len - 1 /\ header.capacity = capacity
      /\ header.data = data
  BY <1>1, <1>2 DEF ArrayHeaders
<1> HIDE DEF len, capacity, data, c, header
<1>6. ASSUME NEW k \in 1 .. len - 1, NEW j \in 0 .. POOLS_GRANULARITY - 1
      PROVE  memory'[Byte(data, POOLS_GRANULARITY * (k - 1) + j)] = d[k]
  <2> PICK m \in Int : m = k - 1
    OBVIOUS
  <2>1. m \in 0 .. capacity - 1 /\ m + 1 \in 0 .. capacity - 1 /\ POOLS_GRANULARITY * capacity \in Nat
    BY <1>1, <1>2, ContainersAssumption
  <2> PICK at \in Int : at = POOLS_GRANULARITY * m + j
    BY ContainersAssumption
  <2> PICK next \in Int : next = POOLS_GRANULARITY * (m + 1) + j
    BY ContainersAssumption
  <2>2. /\ at \in 0 .. POOLS_GRANULARITY * capacity - 1
        /\ next \in 0 .. POOLS_GRANULARITY * capacity - 1
    BY <1>2, <2>1, ElementByte
  <2>3. Byte(data, at) \in Bytes /\ Byte(data, next) \in Bytes
    BY <1>1, <2>1, <2>2
  <2>4. to \in Nat /\ from \in Nat /\ bytes \in Int /\ from - to + at = next
    <3>1. /\ POOLS_GRANULARITY * (i + 1) = POOLS_GRANULARITY * i + POOLS_GRANULARITY
          /\ POOLS_GRANULARITY * (m + 1) = POOLS_GRANULARITY * m + POOLS_GRANULARITY
      BY ContainersAssumption
    <3>2. POOLS_GRANULARITY * i \in Nat /\ POOLS_GRANULARITY \in Nat /\ POOLS_GRANULARITY * m \in Int
      BY ContainersAssumption
    <3>3. bytes \in Int
      BY <1>2, ContainersAssumption
    <3> QED
      BY <3>1, <3>2, <3>3
  <2>5. at \in to .. to + bytes - 1 <=> m \in i .. i + (len - i - 1) - 1
    <3> PICK n \in Int : n = len - i - 1
      BY <1>2
    <3>1. POOLS_GRANULARITY * m + j \in POOLS_GRANULARITY * i ..
                                   POOLS_GRANULARITY * i + POOLS_GRANULARITY * n - 1
            <=> m \in i .. i + n - 1
      <4>1. /\ m \in Int /\ i \in Int /\ n \in Int /\ j \in 0 .. POOLS_GRANULARITY - 1
        OBVIOUS
      <4> QED
        BY ONLY <4>1, ElementRange
    <3> QED
      BY <3>1
  <2> HIDE DEF to, from, bytes
  <2>6. Moved(memory, data, to, data, from, bytes)[Byte(data, at)] =
          IF at \in to .. to + bytes - 1 THEN Read(memory, Byte(data, from - to + at))
                                        ELSE memory[Byte(data, at)]
    <3>1. ByteMoved(memory, data, to, data, from, bytes, at)
      BY <1>2, <2>3, <2>4, AfterMoved
    <3> QED
      BY <3>1 DEF ByteMoved
  <2>7. memory'[Byte(data, at)] = IF m >= i THEN memory[Byte(data, next)] ELSE memory[Byte(data, at)]
    BY <1>2, <1>3, <2>3, <2>4, <2>5, <2>6 DEF Read
  <2>8. memory[Byte(data, at)] = c[k]
    BY <1>1, <1>2
  <2>9. memory[Byte(data, next)] = c[k + 1]
    <3>1. k + 1 \in 1 .. len /\ (k + 1) - 1 = m + 1
      BY <1>2
    <3> QED
      BY <1>1, <3>1
  <2>10. d[k] = IF m >= i THEN c[k + 1] ELSE c[k]
    OBVIOUS
  <2> QED
    BY <2>7, <2>8, <2>9, <2>10
<1>7. d \in Seq(ItemsOf(a)) /\ Len(d) = len - 1
  <2>1. \A k \in 1 .. len - 1 : c[k] \in ItemsOf(a) /\ c[k + 1] \in ItemsOf(a)
    BY <1>1, <1>2
  <2>2. d \in [1 .. len - 1 -> ItemsOf(a)] /\ len - 1 \in Nat
    BY <1>2, <2>1
  <2> QED
    BY <2>2
<1>8. d = D!Without(c, i + 1)
  <2> PICK n \in Nat : n = i + 1
    OBVIOUS
  <2> DEFINE s == SubSeq(c, 1, n - 1)
             t == SubSeq(c, n + 1, Len(c))
  <2>1. \A k \in 1 .. Len(c) : c[k] \in ItemsOf(a)
    BY <1>1
  <2>2. s \in Seq(ItemsOf(a)) /\ Len(s) = i /\ \A k \in 1 .. i : s[k] = c[k]
    <3>1. /\ s \in Seq(ItemsOf(a)) /\ Len(s) = IF 1 <= n - 1 THEN n - 1 - 1 + 1 ELSE 0
          /\ \A k \in 1 .. n - 1 - 1 + 1 : s[k] = c[1 + k - 1]
      BY <1>1, <1>2, <2>1, SubSeqProperties
    <3> QED
      BY <1>2, <3>1
  <2>3. t \in Seq(ItemsOf(a)) /\ Len(t) = len - i - 1 /\ \A k \in 1 .. len - i - 1 : t[k] = c[k + i + 1]
    <3>1. /\ t \in Seq(ItemsOf(a)) /\ Len(t) = IF n + 1 <= len THEN len - (n + 1) + 1 ELSE 0
          /\ \A k \in 1 .. len - (n + 1) + 1 : t[k] = c[n + 1 + k - 1]
      BY <1>1, <1>2, <2>1, SubSeqProperties
    <3>2. i \in Nat /\ len \in Nat /\ i < len /\ n = i + 1
      BY <1>2
    <3>3. Len(t) = len - i - 1
      BY ONLY <3>1, <3>2
    <3>4. ASSUME NEW k \in 1 .. len - i - 1 PROVE t[k] = c[k + i + 1]
      <4>1. k \in 1 .. len - (n + 1) + 1 /\ n + 1 + k - 1 = k + i + 1
        BY ONLY <3>2, k \in 1 .. len - i - 1
      <4>2. t[k] = c[n + 1 + k - 1]
        BY ONLY <3>1, <4>1
      <4> QED
        BY ONLY <4>1, <4>2
    <3> QED
      BY <3>1, <3>3, <3>4
  <2>4. D!Without(c, n) = s \o t
    BY DEF D!Without
  <2> HIDE DEF s, t, d
  <2>5. s \o t \in Seq(ItemsOf(a)) /\ Len(s \o t) = len - 1
    <3>1. s \o t \in Seq(ItemsOf(a)) /\ Len(s \o t) = Len(s) + Len(t)
      BY <2>2, <2>3, ConcatProperties
    <3> QED
      BY <1>2, <2>2, <2>3, <3>1
  <2>6. ASSUME NEW k \in 1 .. len - 1 PROVE d[k] = (s \o t)[k]
    <3>1. (s \o t)[k] = IF k <= i THEN s[k] ELSE t[k - i]
      BY <1>2, <2>2, <2>3, ConcatProperties
    <3>2. k > i => t[k - i] = c[k + 1]
      BY <1>2, <2>3
    <3>3. d[k] = IF k <= i THEN c[k] ELSE c[k + 1]
      BY DEF d
    <3> QED
      BY <1>2, <2>2, <3>1, <3>2, <3>3
  <2>7. d = s \o t
    BY <1>7, <2>5, <2>6, SeqEqual
  <2> QED
    BY <2>4, <2>7
<1> HIDE DEF d
<1>9. Live(a)' /\ Sound(a)' /\ Contents(a)' = d
  <2>1. arr'[a] \in ArrayHeaders /\ arr'[a].length <= arr'[a].capacity /\ Len(d) = arr'[a].length
    BY <1>1, <1>2, <1>4, <1>5, <1>7
  <2>2. \A k \in 1 .. Len(d) : \A j \in 0 .. POOLS_GRANULARITY - 1 :
          memory'[Byte(arr'[a].data, POOLS_GRANULARITY * (k - 1) + j)] = d[k]
    BY <1>4, <1>5, <1>6, <1>7
  <2> QED
    BY <1>7, <2>1, <2>2, ArrayAfter
<1>10. Header(a)'.data = data /\ Room(a)' = POOLS_GRANULARITY * capacity /\ Block(a)' = Block(a)
  BY <1>1, <1>4, <1>5 DEF Header, Room, Block, data, capacity
<1>11. WritesOnlyIn(Header(a)'.data, Room(a)')
  <2>1. /\ to \in Nat /\ bytes \in Int /\ POOLS_GRANULARITY * capacity \in Int
        /\ to + bytes = POOLS_GRANULARITY * (len - 1)
    BY <1>2, ContainersAssumption
  <2>2. POOLS_GRANULARITY * (len - 1) <= POOLS_GRANULARITY * capacity
    BY <1>1, <1>2, TimesMonotone
  <2> HIDE DEF to, from, bytes
  <2>3. to + bytes <= POOLS_GRANULARITY * capacity
    BY <2>1, <2>2
  <2> QED
    BY <1>2, <1>3, <1>10, <2>1, <2>3, MovedInBlock DEF WritesOnlyIn
<1>12. OneChanges(a)
  BY <1>1, <1>3, <1>4, <1>10, <1>11 DEF OneChanges
<1>13. i + 1 \in 1 .. Len(c)
  BY <1>1, <1>2
<1> QED
  BY <1>1, <1>8, <1>9, <1>12, <1>13 DEF c

-----------------------------------------------------------------------------
(* Strings.  A block holds a text: its characters, and NUL after them.     *)

Letters == Chars \cup Blanks
Holds(mem, data, text) ==
  /\ \A j \in 0 .. Len(text) - 1 : mem[Byte(data, j)] = text[j + 1]
  /\ mem[Byte(data, Len(text))] = NUL

LEMMA StringNow ==
  ASSUME MemoryInv, NEW s \in Strings, str[s] # None
  PROVE  /\ str[s] \in StringHeaders /\ str[s].length < str[s].allocated
         /\ s \in Names /\ s \notin Arrays /\ Header(s) = str[s] /\ Live(s)
         /\ Room(s) = str[s].allocated
         /\ \A j \in 0 .. str[s].allocated : Byte(str[s].data, j) \in Bytes
         /\ Contents(s) \in Seq(Letters) /\ Len(Contents(s)) = str[s].length
         /\ Holds(memory, str[s].data, Contents(s))
<1>1. s \in Names /\ s \notin Arrays /\ Header(s) = str[s] /\ Live(s) /\ Room(s) = str[s].allocated
  BY ContainersAssumption DEF Names, Header, Live, Room
<1>2. PoolInv /\ BlocksOwned /\ Sound(s) /\ StringSound(s)
  BY <1>1 DEF MemoryInv, Sound
<1>3. str[s] \in StringHeaders /\ str[s].length < str[s].allocated /\ str[s].length \in Nat
  BY <1>2, ContainersAssumption DEF StringSound, StringHeaders
<1>4. \A j \in 0 .. str[s].allocated : Byte(str[s].data, j) \in Bytes
  BY <1>1, <1>2, OwnBytes
<1>5. Contents(s) = [k \in 1 .. str[s].length |-> memory[Byte(str[s].data, k - 1)]]
  BY <1>1 DEF Contents
<1>6. \A k \in 1 .. str[s].length : memory[Byte(str[s].data, k - 1)] \in Letters
  BY <1>2, <1>3 DEF StringSound, Letters
<1>7. Contents(s) \in Seq(Letters) /\ Len(Contents(s)) = str[s].length
  BY <1>3, <1>5, <1>6
<1>8. Holds(memory, str[s].data, Contents(s))
  <2>1. ASSUME NEW j \in 0 .. str[s].length - 1
        PROVE  memory[Byte(str[s].data, j)] = Contents(s)[j + 1]
    <3>1. j + 1 \in 1 .. str[s].length /\ j + 1 - 1 = j
      BY <1>3
    <3> QED
      BY <1>5, <3>1
  <2> QED
    BY <1>2, <1>7, <2>1 DEF Holds, StringSound
<1> QED
  BY <1>1, <1>3, <1>4, <1>7, <1>8

LEMMA StringAfter ==
  ASSUME NEW s \in Strings, str'[s] \in StringHeaders, str'[s].length < str'[s].allocated,
         NEW text \in Seq(Letters), Len(text) = str'[s].length,
         Holds(memory', str'[s].data, text)
  PROVE  Live(s)' /\ Sound(s)' /\ Contents(s)' = text
<1>1. s \notin Arrays /\ str'[s] # None /\ Live(s)' /\ Len(text) \in Nat
  BY NoneAssumption, ContainersAssumption DEF Live, Header
<1>2. \A k \in 1 .. Len(text) : memory'[Byte(str'[s].data, k - 1)] = text[k]
  <2> SUFFICES ASSUME NEW k \in 1 .. Len(text) PROVE memory'[Byte(str'[s].data, k - 1)] = text[k]
    OBVIOUS
  <2>1. k - 1 \in 0 .. Len(text) - 1 /\ k - 1 + 1 = k
    BY <1>1
  <2> QED
    BY <2>1 DEF Holds
<1>3. Contents(s)' = text
  <2>1. Contents(s)' = [k \in 1 .. Len(text) |-> memory'[Byte(str'[s].data, k - 1)]]
    BY <1>1 DEF Contents
  <2>2. Contents(s)' = [k \in 1 .. Len(text) |-> text[k]]
    BY <1>2, <2>1
  <2> QED
    BY <2>2
<1>4. StringSound(s)'
  <2>1. \A j \in 0 .. Len(text) - 1 : text[j + 1] \in Letters
    BY <1>1
  <2> QED
    BY <2>1 DEF StringSound, Holds, Letters
<1> QED
  BY <1>1, <1>3, <1>4 DEF Sound

\* A text and its NUL, written behind what the block held before.
LEMMA WrittenHolds ==
  ASSUME NEW mem, NEW data \in Addresses, NEW old \in Seq(Letters), NEW text \in Seq(Letters),
         \A j \in 0 .. Len(old) + Len(text) : Byte(data, j) \in Bytes,
         \A j \in 0 .. Len(old) - 1 : mem[Byte(data, j)] = old[j + 1]
  PROVE  Holds(Written(mem, data, Len(old), Append(text, NUL)), data, old \o text)
<1> PICK k \in Nat : k = Len(old)
  OBVIOUS
<1> PICK n \in Nat : n = Len(text)
  OBVIOUS
<1> PICK whole : whole = Append(text, NUL)
  OBVIOUS
<1> PICK cat : cat = old \o text
  OBVIOUS
<1> PICK new : new = Written(mem, data, k, whole)
  OBVIOUS
<1>1. Len(whole) = n + 1 /\ whole[n + 1] = NUL /\ \A j \in 1 .. n : whole[j] = text[j]
  <2>1. text \in Seq(Letters \cup {NUL}) /\ NUL \in Letters \cup {NUL}
    OBVIOUS
  <2> QED
    BY <2>1
<1>2. Len(cat) = k + n /\ \A j \in 1 .. k + n : cat[j] = IF j <= k THEN old[j] ELSE text[j - k]
  <2>1. /\ Len(old \o text) = Len(old) + Len(text)
        /\ \A j \in 1 .. Len(old) + Len(text) :
             (old \o text)[j] = IF j <= Len(old) THEN old[j] ELSE text[j - Len(old)]
    BY ConcatProperties
  <2> QED
    BY <2>1
<1>3. ASSUME NEW j \in 0 .. k + n
      PROVE  new[Byte(data, j)] = IF j \in k .. k + (n + 1) - 1 THEN whole[j - k + 1] ELSE mem[Byte(data, j)]
  <2>1. Byte(data, j) \in Bytes /\ j \in Int /\ k \in Int /\ Len(whole) \in Int
    BY <1>1
  <2>2. Written(mem, data, k, whole)[Byte(data, j)] =
          IF j \in k .. k + Len(whole) - 1 THEN whole[j - k + 1] ELSE mem[Byte(data, j)]
    <3>1. data \in Addresses
      OBVIOUS
    <3>2. ByteWritten(mem, data, k, whole, j)
      BY ONLY <2>1, <3>1, AfterWritten
    <3> QED
      BY ONLY <3>2 DEF ByteWritten
  <2> QED
    BY <1>1, <2>2
<1>4. ASSUME NEW j \in 0 .. k + n - 1 PROVE new[Byte(data, j)] = cat[j + 1]
  <2> PICK i \in 1 .. k + n : i = j + 1
    OBVIOUS
  <2>1. j \in 0 .. k + n
    OBVIOUS
  <2>2. cat[i] = IF i <= k THEN old[i] ELSE text[i - k]
    BY <1>2
  <2>3. CASE i <= k
    <3>1. j \in 0 .. k - 1 /\ ~(j \in k .. k + (n + 1) - 1)
      BY <2>3
    <3>2. mem[Byte(data, j)] = old[i]
      BY <3>1
    <3> QED
      BY <1>3, <2>1, <2>2, <2>3, <3>1, <3>2
  <2>4. CASE ~(i <= k)
    <3> PICK m \in 1 .. n : m = i - k
      BY <2>4, SMTT(30)
    <3>1. j \in k .. k + (n + 1) - 1 /\ j - k + 1 = m
      BY <2>4
    <3>2. new[Byte(data, j)] = whole[m]
      BY <1>3, <2>1, <3>1
    <3> QED
      BY <1>1, <2>2, <2>4, <3>2
  <2> QED
    BY <2>3, <2>4
<1>5. new[Byte(data, k + n)] = NUL
  <2> PICK j \in 0 .. k + n : j = k + n
    OBVIOUS
  <2>1. j \in k .. k + (n + 1) - 1 /\ j - k + 1 = n + 1
    OBVIOUS
  <2> QED
    BY <1>1, <1>3, <2>1
<1>6. Holds(new, data, cat)
  BY <1>2, <1>4, <1>5 DEF Holds
<1> QED
  BY <1>6

LEMMA StringCreate ==
  ASSUME MemoryInv, NEW s \in Strings, NEW text \in Seq(Letters), Len(text) <= MaxChars,
         Create(s, text)
  PROVE  /\ OneChanges(s) /\ Live(s)' /\ Sound(s)' /\ s \in Names
         /\ Contents(s) = None /\ Contents(s)' = text
<1> DEFINE bytes == Len(text) + 1
           size == Padded(bytes)
           data == Place(size)
           whole == Append(text, NUL)
           header == [length |-> Len(text), allocated |-> bytes, data |-> data]
<1>1. /\ str[s] = None /\ pool_alloc(size) /\ str' = [str EXCEPT ![s] = header]
      /\ memory' = Written(memory, data, 0, whole) /\ arr' = arr
      /\ s \in Names /\ s \notin Arrays
  BY ContainersAssumption DEF Create, Names
<1>2. /\ Len(text) \in Nat /\ MaxChars \in Nat /\ bytes \in Nat /\ bytes > 0 /\ size \in Nat
      /\ bytes <= POOLS_GRANULARITY * size /\ POOLS_GRANULARITY * size \in Nat
  <2>1. Len(text) \in Nat /\ MaxChars \in Nat /\ bytes \in Nat /\ bytes > 0
    BY ContainersAssumption
  <2> HIDE DEF bytes
  <2>2. size \in Nat /\ bytes <= POOLS_GRANULARITY * size
    BY <2>1, PaddedCovers
  <2>3. POOLS_GRANULARITY * size \in Nat
    BY <2>2, ContainersAssumption
  <2> QED
    BY <2>1, <2>2, <2>3
<1> HIDE DEF size
<1>3. /\ data \in Addresses /\ \A j \in 0 .. POOLS_GRANULARITY * size : Byte(data, j) \in Bytes
  BY <1>1, <1>2, NewBlock
<1>4. OthersKept(s) /\ str'[s] = header
  BY <1>1, OthersKeptBySet
<1>5. /\ header \in StringHeaders /\ header.length = Len(text) /\ header.allocated = bytes
      /\ header.data = data
  BY <1>2, <1>3 DEF StringHeaders
<1>6. Len(whole) = bytes
  <2>1. text \in Seq(Letters \cup {NUL}) /\ NUL \in Letters \cup {NUL}
    OBVIOUS
  <2> QED
    BY <2>1
<1> HIDE DEF data, header, whole
<1>7. Holds(memory', data, text)
  <2> PICK old \in Seq(Letters) : old = << >> /\ Len(old) = 0 /\ old \o text = text
    <3>1. << >> \in Seq(Letters) /\ Len(<< >>) = 0 /\ << >> \o text = text
      OBVIOUS
    <3> QED
      BY <3>1
  <2>1. \A j \in 0 .. Len(old) + Len(text) : Byte(data, j) \in Bytes
    BY <1>2, <1>3
  <2>2. \A j \in 0 .. Len(old) - 1 : FALSE
    OBVIOUS
  <2>3. Holds(Written(memory, data, Len(old), Append(text, NUL)), data, old \o text)
    BY <1>3, <2>1, <2>2, WrittenHolds
  <2> QED
    BY <1>1, <2>3 DEF whole
<1>8. Live(s)' /\ Sound(s)' /\ Contents(s)' = text
  <2>1. str'[s] \in StringHeaders /\ str'[s].length < str'[s].allocated /\ Len(text) = str'[s].length
    BY <1>2, <1>4, <1>5
  <2> QED
    BY <1>4, <1>5, <1>7, <2>1, StringAfter
<1>9. Header(s)'.data = data /\ Room(s)' = bytes
  BY <1>1, <1>4, <1>5 DEF Header, Room
<1>10. Block(s)' = [chunk |-> data.chunk, at |-> data.at, size |-> size]
  BY <1>9 DEF Block, size
<1>11. WritesOnlyIn(Header(s)'.data, Room(s)')
  <2>1. 0 + Len(whole) <= bytes /\ Len(whole) \in Int /\ bytes \in Int
    BY <1>2, <1>6
  <2>2. \A b \in Bytes : InRegion(b, data, 0, bytes) \/ Written(memory, data, 0, whole)[b] = memory[b]
    BY <1>3, <2>1, WrittenInBlock
  <2> QED
    BY <1>1, <1>9, <2>2 DEF WritesOnlyIn
<1>12. OneChanges(s)
  BY <1>1, <1>2, <1>4, <1>10, <1>11 DEF OneChanges, data
<1> QED
  BY <1>1, <1>8, <1>12 DEF Contents

LEMMA StringAppend ==
  ASSUME MemoryInv, NEW s \in Strings, NEW text \in Seq(Letters), AppendText(s, text)
  PROVE  /\ OneChanges(s) /\ Live(s)' /\ Sound(s)' /\ s \in Names /\ Live(s)
         /\ Contents(s)' = Contents(s) \o text
<1> PICK c \in Seq(Letters) : /\ c = Contents(s) /\ Len(c) = str[s].length
                              /\ Holds(memory, str[s].data, c)
  BY StringNow DEF AppendText
<1> PICK len \in Nat : len = Len(c)
  OBVIOUS
<1> PICK n \in Nat : n = Len(text)
  OBVIOUS
<1> DEFINE grows == Grows(s, n)
           minSize == len + n + 1
           size == Padded(minSize * 2)
           old == str[s].data
           bytes == str[s].allocated
           data == IF grows THEN Place(size) ELSE old
           room == IF grows THEN minSize * 2 ELSE bytes
           mem == IF grows THEN Moved(memory, data, 0, old, 0, minSize) ELSE memory
           header == [length |-> len + n, allocated |-> room, data |-> data]
<1>1. /\ str[s] \in StringHeaders /\ str[s].length < bytes
      /\ s \in Names /\ s \notin Arrays /\ Header(s) = str[s] /\ Live(s) /\ Room(s) = bytes
      /\ \A j \in 0 .. bytes : Byte(old, j) \in Bytes
  BY StringNow DEF AppendText
<1>2. /\ bytes \in Nat /\ old \in Addresses /\ len < bytes /\ len = str[s].length
      /\ len + n <= MaxChars /\ MaxChars \in Nat
  BY <1>1, ContainersAssumption DEF StringHeaders, AppendText
<1>3. /\ IF grows THEN pool_alloc(size) ELSE UNCHANGED poolvars
      /\ memory' = Written(mem, data, len, Append(text, NUL))
      /\ str' = [str EXCEPT ![s] = header]
      /\ arr' = arr
  <2>1. str' = [str EXCEPT ![s] =
                  [length    |-> str[s].length + n,
                   allocated |-> IF grows THEN (str[s].length + n + 1) * 2 ELSE str[s].allocated,
                   data      |-> IF grows THEN Place(Reallocated(str[s].length + n + 1)) ELSE old]]
    BY DEF AppendText
  <2>2. /\ Reallocated(str[s].length + n + 1) = size
        /\ str[s].length + n + 1 = minSize
    BY <1>2 DEF Reallocated
  <2>3. str' = [str EXCEPT ![s] = header]
    BY <1>2, <2>1, <2>2
  <2>4. memory' = Written(mem, data, len, Append(text, NUL))
    BY <1>2, <2>2 DEF AppendText
  <2>5. (IF grows THEN pool_alloc(size) ELSE UNCHANGED poolvars) /\ arr' = arr
    BY <2>2 DEF AppendText
  <2> QED
    BY <2>3, <2>4, <2>5
<1>4. /\ size \in Nat /\ minSize * 2 <= POOLS_GRANULARITY * size /\ POOLS_GRANULARITY * size \in Nat
  <2> PICK m \in Nat : m = minSize * 2
    OBVIOUS
  <2>1. Padded(m) \in Nat /\ m <= POOLS_GRANULARITY * Padded(m)
    BY PaddedCovers
  <2> QED
    BY <2>1, ContainersAssumption
<1>5. ~grows => len + n < bytes
  BY <1>2 DEF Grows
<1> HIDE DEF grows, size
<1>6. data \in Addresses /\ \A j \in 0 .. room : Byte(data, j) \in Bytes
  <2>1. CASE grows
    <3>1. /\ Place(size) \in Addresses
          /\ \A j \in 0 .. POOLS_GRANULARITY * size : Byte(Place(size), j) \in Bytes
      BY <1>3, <1>4, <2>1, NewBlock
    <3> QED
      BY <1>4, <2>1, <3>1
  <2>2. CASE ~grows
    BY <1>1, <1>2, <2>2
  <2> QED
    BY <2>1, <2>2
<1>7. room \in Nat /\ len + n < room
  BY <1>2, <1>5, SMTT(30)
<1>8. OthersKept(s) /\ str'[s] = header
  BY <1>1, <1>3, OthersKeptBySet
<1>9. /\ header \in StringHeaders /\ header.length = len + n /\ header.allocated = room
      /\ header.data = data
  BY <1>2, <1>6, <1>7, SMTT(30) DEF StringHeaders
<1> HIDE DEF header
<1>10. \A j \in 0 .. Len(c) - 1 : mem[Byte(data, j)] = c[j + 1]
  <2> SUFFICES ASSUME NEW j \in 0 .. len - 1 PROVE mem[Byte(data, j)] = c[j + 1]
    OBVIOUS
  <2>1. memory[Byte(old, j)] = c[j + 1]
    BY DEF Holds
  <2>2. j \in 0 .. bytes /\ j \in 0 .. room
    BY <1>2, <1>7, SMTT(30)
  <2>3. Byte(data, j) \in Bytes /\ Byte(old, j) \in Bytes
    BY <1>1, <1>6, <2>2
  <2>4. CASE grows
    <3>1. Moved(memory, data, 0, old, 0, minSize)[Byte(data, j)] = Read(memory, Byte(old, 0 - 0 + j))
      <4>1. j \in 0 .. 0 + minSize - 1 /\ j \in Int /\ minSize \in Int /\ 0 \in Int
        OBVIOUS
      <4>2. data \in Addresses /\ Byte(data, j) \in Bytes
        BY <1>6, <2>3
      <4> HIDE DEF data, old, minSize
      <4>3. ByteMoved(memory, data, 0, old, 0, minSize, j)
        BY ONLY <4>1, <4>2, AfterMoved
      <4> QED
        BY ONLY <4>1, <4>3 DEF ByteMoved
    <3>2. 0 - 0 + j = j
      OBVIOUS
    <3> QED
      BY <2>1, <2>3, <2>4, <3>1, <3>2 DEF Read
  <2>5. CASE ~grows
    BY <2>1, <2>5
  <2> QED
    BY <2>4, <2>5
<1>11. Holds(memory', data, c \o text)
  <2>1. \A j \in 0 .. Len(c) + Len(text) : Byte(data, j) \in Bytes
    BY <1>6, <1>7, SMTT(30)
  <2> HIDE DEF data, mem
  <2> QED
    BY <1>3, <1>6, <1>10, <2>1, WrittenHolds
<1>12. Live(s)' /\ Sound(s)' /\ Contents(s)' = c \o text
  <2> PICK cat : cat = c \o text
    OBVIOUS
  <2>1. cat \in Seq(Letters) /\ Len(cat) = len + n
    BY ConcatProperties
  <2> HIDE DEF data, room
  <2>2. str'[s] \in StringHeaders /\ str'[s].length < str'[s].allocated /\ Len(cat) = str'[s].length
    BY <1>7, <1>8, <1>9, <2>1
  <2> QED
    BY <1>8, <1>9, <1>11, <2>1, <2>2, StringAfter
<1>13. Header(s)'.data = data /\ Room(s)' = room
  BY <1>1, <1>8, <1>9 DEF Header, Room
<1>14. WritesOnlyIn(Header(s)'.data, Room(s)')
  <2>1. ASSUME NEW b \in Bytes, ~InRegion(b, data, 0, room) PROVE mem[b] = memory[b]
    <3>1. CASE grows
      <4>1. 0 + minSize <= room /\ room \in Int /\ minSize \in Int
        BY <3>1
      <4> HIDE DEF room, minSize, data, old
      <4>2. Moved(memory, data, 0, old, 0, minSize)[b] = memory[b]
        BY <1>6, <2>1, <4>1, MovedInBlock
      <4> QED
        BY <3>1, <4>2
    <3>2. CASE ~grows
      BY <3>2
    <3> QED
      BY <3>1, <3>2
  <2>2. Len(Append(text, NUL)) = n + 1
    <3>1. text \in Seq(Letters \cup {NUL}) /\ NUL \in Letters \cup {NUL}
      OBVIOUS
    <3> QED
      BY <3>1
  <2>3. Len(Append(text, NUL)) \in Int /\ room \in Int /\ len + Len(Append(text, NUL)) <= room
    BY <1>7, <2>2
  <2> HIDE DEF room, data, mem
  <2>4. \A b \in Bytes : InRegion(b, data, 0, room) \/ Written(mem, data, len, Append(text, NUL))[b] = mem[b]
    <3> PICK whole : whole = Append(text, NUL)
      OBVIOUS
    <3> PICK m : m = mem
      OBVIOUS
    <3> PICK d : d = data
      OBVIOUS
    <3> PICK r : r = room
      OBVIOUS
    <3>1. d \in Addresses /\ Len(whole) \in Int /\ r \in Int /\ len + Len(whole) <= r
      BY <1>6, <2>3
    <3>2. \A b \in Bytes : InRegion(b, d, 0, r) \/ Written(m, d, len, whole)[b] = m[b]
      BY ONLY <3>1, WrittenInBlock
    <3> QED
      BY <3>2
  <2> QED
    BY <1>3, <1>13, <2>1, <2>4 DEF WritesOnlyIn
<1>15. OneChanges(s)
  <2>1. CASE grows
    <3>1. data = Place(size) /\ pool_alloc(size) /\ Padded(room) = size
      BY <1>3, <2>1 DEF size
    <3> HIDE DEF data, room
    <3>2. Block(s)' = [chunk |-> Place(size).chunk, at |-> Place(size).at, size |-> size]
      BY <1>13, <3>1 DEF Block
    <3> QED
      BY <1>4, <1>8, <1>14, <3>1, <3>2 DEF OneChanges
  <2>2. CASE ~grows
    <3>1. data = old /\ room = bytes /\ UNCHANGED poolvars
      BY <1>3, <2>2
    <3>2. Block(s)' = Block(s)
      BY <1>1, <1>13, <3>1 DEF Block
    <3> QED
      BY <1>1, <1>8, <1>14, <3>1, <3>2 DEF OneChanges
  <2> QED
    BY <2>1, <2>2
<1> QED
  BY <1>1, <1>12, <1>15

-----------------------------------------------------------------------------
(* Strings that become shorter in their place.                             *)

\* The block of a string with room for so many bytes.
InMemory(data, bytes) ==
  \A j \in 0 .. POOLS_GRANULARITY * Padded(bytes) - 1 : Byte(data, j) \in Bytes

\* A text in a block of so many bytes, and what is left of it when it is
\* shortened in its block.
TextAt(mem, data, bytes, text) ==
  /\ data \in Addresses /\ bytes \in Nat /\ text \in Seq(Letters) /\ Len(text) < bytes
  /\ \A j \in 0 .. bytes : Byte(data, j) \in Bytes
  /\ InMemory(data, bytes)
  /\ Holds(mem, data, text)
LeftIn(to, mem, data, bytes, text) ==
  /\ TextAt(to.mem, data, bytes, text) /\ to.length = Len(text)
  /\ \A b \in Bytes : InRegion(b, data, 0, bytes) \/ to.mem[b] = mem[b]
  /\ Clean(mem, data, bytes) => Clean(to.mem, data, bytes)

\* Characters of a string that are cleared or move to its front.
LEMMA ClearedIsClean ==
  ASSUME NEW mem, NEW data \in Addresses, NEW bytes, InMemory(data, bytes),
         Clean(mem, data, bytes), NEW k \in Int, NEW m \in Int
  PROVE  Clean(Stored(mem, data, k, m, NUL), data, bytes)
<1> PICK new : new = Stored(mem, data, k, m, NUL)
  OBVIOUS
<1> PICK top : top = POOLS_GRANULARITY * Padded(bytes) - 1
  OBVIOUS
<1>1. ASSUME NEW j \in 0 .. top
      PROVE  new[Byte(data, j)] = NUL \/ new[Byte(data, j)] = mem[Byte(data, j)]
  <2>1. Byte(data, j) \in Bytes /\ j \in Int
    BY DEF InMemory
  <2> QED
    BY <2>1, AfterStored
<1>2. Clean(new, data, bytes)
  BY <1>1 DEF Clean
<1> QED
  BY <1>2

LEMMA MovedIsClean ==
  ASSUME NEW mem, NEW data \in Addresses, NEW bytes \in Nat, InMemory(data, bytes),
         Clean(mem, data, bytes), NEW k \in Nat, NEW n \in Nat, k <= n, n < bytes
  PROVE  Clean(Moved(mem, data, 0, data, k, n + 1 - k), data, bytes)
<1> PICK m \in Nat : m = n + 1 - k
  OBVIOUS
<1> PICK new : new = Moved(mem, data, 0, data, k, m)
  OBVIOUS
<1> PICK size \in Nat : size = POOLS_GRANULARITY * Padded(bytes) /\ bytes <= size
  BY PaddedBytes
<1>1. MaxChars \in Nat
  BY ContainersAssumption
<1>2. \A j \in 0 .. size - 1 :
        /\ Byte(data, j) \in Bytes
        /\ mem[Byte(data, j)] \in Chars \cup Blanks \cup {NUL}
        /\ j >= bytes - 1 \/ j >= MaxChars => mem[Byte(data, j)] = NUL
  BY DEF InMemory, Clean
<1>3. ASSUME NEW j \in 0 .. size - 1
      PROVE  /\ new[Byte(data, j)] \in Chars \cup Blanks \cup {NUL}
             /\ j >= bytes - 1 \/ j >= MaxChars => new[Byte(data, j)] = NUL
  <2>1. Byte(data, j) \in Bytes /\ j \in Int /\ 0 \in Int /\ k \in Int /\ m \in Int
    BY <1>2
  <2>2. ByteMoved(mem, data, 0, data, k, m, j)
    BY ONLY data \in Addresses, <2>1, AfterMoved
  <2>3. CASE j \in 0 .. 0 + m - 1
    <3> PICK from \in 0 .. size - 1 : from = k - 0 + j /\ j <= from
      BY <2>3
    <3>1. new[Byte(data, j)] = mem[Byte(data, from)]
      BY <1>2, <2>2, <2>3 DEF ByteMoved, Read
    <3> QED
      BY <1>1, <1>2, <3>1
  <2>4. CASE ~(j \in 0 .. 0 + m - 1)
    BY <1>2, <2>2, <2>4 DEF ByteMoved
  <2> QED
    BY <2>3, <2>4
<1>4. Clean(new, data, bytes)
  BY <1>3 DEF Clean
<1> QED
  BY <1>4

LEMMA StringShortens ==
  ASSUME MemoryInv, NEW s \in Strings, NEW to, NEW text, Shortens(s, to),
         Len(text) <= str[s].length, LeftIn(to, memory, str[s].data, str[s].allocated, text)
  PROVE  /\ OneChanges(s) /\ Live(s)' /\ Sound(s)' /\ s \in Names /\ Live(s)
         /\ Contents(s)' = text
         /\ Clean(memory, str[s].data, str[s].allocated)
              => Clean(memory', str'[s].data, str'[s].allocated)
<1>1. text \in Seq(Letters) /\ Holds(to.mem, str[s].data, text) /\ to.length = Len(text)
  BY DEF LeftIn, TextAt
<1> PICK n \in Nat : n = Len(text)
  BY <1>1
<1> DEFINE header == [str[s] EXCEPT !.length = n]
<1>2. str[s] # None /\ memory' = to.mem /\ str' = [str EXCEPT ![s] = header]
      /\ UNCHANGED poolvars /\ arr' = arr
  BY <1>1 DEF Shortens
<1>3. /\ str[s] \in StringHeaders /\ str[s].length < str[s].allocated
      /\ s \in Names /\ s \notin Arrays /\ Header(s) = str[s] /\ Live(s)
      /\ Room(s) = str[s].allocated
  BY <1>2, StringNow
<1>4. /\ header \in StringHeaders /\ header.length = n /\ header.allocated = str[s].allocated
      /\ header.data = str[s].data /\ n < str[s].allocated
  BY <1>3, ContainersAssumption DEF StringHeaders
<1> HIDE DEF header
<1>5. OthersKept(s) /\ str'[s] = header
  BY <1>2, <1>3, OthersKeptBySet
<1>6. Live(s)' /\ Sound(s)' /\ Contents(s)' = text
  BY <1>1, <1>2, <1>4, <1>5, StringAfter
<1>7. Header(s)'.data = str[s].data /\ Room(s)' = str[s].allocated
  BY <1>3, <1>4, <1>5 DEF Header, Room
<1>8. Block(s)' = Block(s)
  BY <1>3, <1>7 DEF Block
<1>9. WritesOnlyIn(Header(s)'.data, Room(s)')
  BY <1>2, <1>7 DEF WritesOnlyIn, LeftIn
<1>10. Clean(memory, str[s].data, str[s].allocated)
         => Clean(memory', str'[s].data, str'[s].allocated)
  BY <1>2, <1>4, <1>5 DEF LeftIn
<1> QED
  BY <1>2, <1>3, <1>5, <1>6, <1>8, <1>9, <1>10 DEF OneChanges

\* A part of a text.
LEMMA PartOfText ==
  ASSUME NEW text \in Seq(Letters), NEW i \in 0 .. Len(text), NEW k \in i .. Len(text)
  PROVE  /\ SubSeq(text, i + 1, k) \in Seq(Letters) /\ Len(SubSeq(text, i + 1, k)) = k - i
         /\ \A j \in 1 .. k - i : SubSeq(text, i + 1, k)[j] = text[i + j]
<1> PICK m \in Int : m = i + 1
  OBVIOUS
<1>1. \A j \in m .. k : text[j] \in Letters
  OBVIOUS
<1>2. /\ SubSeq(text, m, k) \in Seq(Letters)
      /\ Len(SubSeq(text, m, k)) = IF m <= k THEN k - m + 1 ELSE 0
      /\ \A j \in 1 .. k - m + 1 : SubSeq(text, m, k)[j] = text[m + j - 1]
  BY <1>1, SubSeqProperties
<1>3. Len(SubSeq(text, m, k)) = k - i
  BY <1>2
<1>4. \A j \in 1 .. k - i : m + j - 1 = i + j
  OBVIOUS
<1> QED
  BY <1>2, <1>3, <1>4

\* What is left, when the text behind the k-th character, and NUL, are moved
\* to the front of the block.
LEMMA FrontCut ==
  ASSUME NEW mem, NEW data \in Addresses, NEW text \in Seq(Letters), Holds(mem, data, text),
         \A j \in 0 .. Len(text) : Byte(data, j) \in Bytes, NEW k \in 0 .. Len(text)
  PROVE  Holds(Moved(mem, data, 0, data, k, Len(text) + 1 - k), data, SubSeq(text, k + 1, Len(text)))
<1> PICK n \in Nat : n = Len(text)
  OBVIOUS
<1> PICK rest : rest = SubSeq(text, k + 1, n)
  OBVIOUS
<1> PICK new : new = Moved(mem, data, 0, data, k, n + 1 - k)
  OBVIOUS
<1>1. Len(rest) = n - k /\ \A j \in 1 .. n - k : rest[j] = text[k + j]
  BY PartOfText
<1>2. ASSUME NEW j \in 0 .. n - k PROVE new[Byte(data, j)] = mem[Byte(data, k + j)]
  <2>1. Byte(data, j) \in Bytes /\ Byte(data, k + j) \in Bytes
    <3>1. j \in 0 .. n /\ k + j \in 0 .. n
      OBVIOUS
    <3> QED
      BY <3>1
  <2>2. new[Byte(data, j)] =
          IF j \in 0 .. 0 + (n + 1 - k) - 1 THEN Read(mem, Byte(data, k - 0 + j)) ELSE mem[Byte(data, j)]
    <3>1. j \in Int /\ k \in Int /\ n + 1 - k \in Int /\ 0 \in Int /\ data \in Addresses
      OBVIOUS
    <3>2. Moved(mem, data, 0, data, k, n + 1 - k)[Byte(data, j)] =
            IF j \in 0 .. 0 + (n + 1 - k) - 1 THEN Read(mem, Byte(data, k - 0 + j)) ELSE mem[Byte(data, j)]
      <4>1. ByteMoved(mem, data, 0, data, k, n + 1 - k, j)
        BY ONLY <2>1, <3>1, AfterMoved
      <4> QED
        BY ONLY <4>1 DEF ByteMoved
    <3> QED
      BY <3>2
  <2>3. j \in 0 .. 0 + (n + 1 - k) - 1 /\ k - 0 + j = k + j
    OBVIOUS
  <2> QED
    BY <2>1, <2>2, <2>3 DEF Read
<1>3. ASSUME NEW j \in 0 .. n - k - 1 PROVE new[Byte(data, j)] = rest[j + 1]
  <2>1. j \in 0 .. n - k /\ k + j \in 0 .. n - 1 /\ j + 1 \in 1 .. n - k
    OBVIOUS
  <2>2. mem[Byte(data, k + j)] = text[k + j + 1]
    BY <2>1 DEF Holds
  <2>3. rest[j + 1] = text[k + (j + 1)] /\ k + (j + 1) = k + j + 1
    BY <1>1, <2>1
  <2> QED
    BY <1>2, <2>1, <2>2, <2>3
<1>4. new[Byte(data, n - k)] = NUL
  <2>1. n - k \in 0 .. n - k /\ k + (n - k) = n
    OBVIOUS
  <2> QED
    BY <1>2, <2>1 DEF Holds
<1>5. Holds(new, data, rest)
  BY <1>1, <1>3, <1>4 DEF Holds
<1> QED
  BY <1>5

\* What is left, when NUL is written from the k-th character on.
LEMMA RearCut ==
  ASSUME NEW mem, NEW data \in Addresses, NEW text \in Seq(Letters), Holds(mem, data, text),
         \A j \in 0 .. Len(text) : Byte(data, j) \in Bytes, NEW k \in 0 .. Len(text), NEW m \in Nat,
         m > 0 \/ k = Len(text)
  PROVE  Holds(Stored(mem, data, k, m, NUL), data, SubSeq(text, 1, k))
<1> PICK n \in Nat : n = Len(text)
  OBVIOUS
<1> PICK rest : rest = SubSeq(text, 1, k)
  OBVIOUS
<1> PICK new : new = Stored(mem, data, k, m, NUL)
  OBVIOUS
<1>1. Len(rest) = k /\ \A j \in 1 .. k : rest[j] = text[j]
  <2>1. /\ Len(SubSeq(text, 0 + 1, k)) = k - 0
        /\ \A j \in 1 .. k - 0 : SubSeq(text, 0 + 1, k)[j] = text[0 + j]
    BY PartOfText
  <2> QED
    BY <2>1
<1>2. ASSUME NEW j \in 0 .. n
      PROVE  new[Byte(data, j)] = IF j \in k .. k + m - 1 THEN NUL ELSE mem[Byte(data, j)]
  <2>1. Byte(data, j) \in Bytes /\ j \in Int /\ k \in Int /\ m \in Int /\ data \in Addresses
    OBVIOUS
  <2>2. Stored(mem, data, k, m, NUL)[Byte(data, j)] = IF j \in k .. k + m - 1 THEN NUL ELSE mem[Byte(data, j)]
    BY ONLY <2>1, AfterStored
  <2> QED
    BY <2>2
<1>3. ASSUME NEW j \in 0 .. k - 1 PROVE new[Byte(data, j)] = rest[j + 1]
  <2>1. j \in 0 .. n /\ j \in 0 .. n - 1 /\ j + 1 \in 1 .. k /\ ~(j \in k .. k + m - 1)
    OBVIOUS
  <2>2. mem[Byte(data, j)] = text[j + 1]
    BY <2>1 DEF Holds
  <2> QED
    BY <1>1, <1>2, <2>1, <2>2
<1>4. new[Byte(data, k)] = NUL
  <2>1. CASE m > 0
    <3>1. k \in k .. k + m - 1
      BY <2>1
    <3> QED
      BY <1>2, <3>1
  <2>2. CASE m = 0
    BY <1>2, <2>2 DEF Holds
  <2> QED
    BY <2>1, <2>2
<1>5. Holds(new, data, rest)
  BY <1>1, <1>3, <1>4 DEF Holds
<1> QED
  BY <1>5

-----------------------------------------------------------------------------
(* What each of the functions leaves.                                      *)

LEMMA MinOf ==
  ASSUME NEW S, S \subseteq Nat, S # {}
  PROVE  Min(S) \in S /\ \A k \in S : Min(S) <= k
<1>1. \E m \in S : \A k \in S : m <= k
  <2>1. 2 \in Nat /\ 2 > 1
    OBVIOUS
  <2> QED
    BY <2>1, B!Smallest
<1> QED
  BY <1>1 DEF Min

LEMMA MaxOf ==
  ASSUME NEW n \in Nat, NEW S, S \subseteq 0 .. n, S # {}
  PROVE  Max(S) \in S /\ \A k \in S : Max(S) >= k
<1>1. \E m \in S : \A k \in S : m >= k
  <2>1. 2 \in Nat /\ 2 > 1
    OBVIOUS
  <2> QED
    BY <2>1, B!Greatest
<1> QED
  BY <1>1 DEF Max

LEMMA AtMostType ==
  ASSUME NEW num \in Nat, NEW n \in Nat
  PROVE  AtMost(num, n) \in 0 .. n /\ (num <= n => AtMost(num, n) = num)
BY DEF AtMost

\* The k-th character of a text, and the byte it is in.
LEMMA CharacterAt ==
  ASSUME NEW mem, NEW data, NEW bytes, NEW text, TextAt(mem, data, bytes, text)
  PROVE  /\ Len(text) \in Nat /\ mem[Byte(data, Len(text))] = NUL /\ NUL \notin Letters
         /\ \A k \in 1 .. Len(text) : text[k] = mem[Byte(data, k - 1)] /\ text[k] \in Letters
<1> PICK n \in Nat : n = Len(text)
  BY DEF TextAt
<1>1. ASSUME NEW k \in 1 .. n PROVE text[k] = mem[Byte(data, k - 1)]
  <2>1. k - 1 \in 0 .. n - 1 /\ k - 1 + 1 = k
    OBVIOUS
  <2> QED
    BY <2>1 DEF TextAt, Holds
<1>2. \A k \in 1 .. n : text[k] \in Letters
  BY DEF TextAt
<1>3. NUL \notin Letters
  BY TextsAssumption DEF Letters
<1> QED
  BY <1>1, <1>2, <1>3 DEF TextAt, Holds

LEMMA FrontLeft ==
  ASSUME NEW mem, NEW data, NEW bytes, NEW text, TextAt(mem, data, bytes, text), NEW num \in Nat
  PROVE  LeftIn(ShrunkFront(mem, data, Len(text), num), mem, data, bytes,
                SubSeq(text, AtMost(num, Len(text)) + 1, Len(text)))
<1> PICK n \in Nat : n = Len(text) /\ n < bytes
  BY DEF TextAt
<1> PICK k \in 0 .. n : k = AtMost(num, n)
  BY AtMostType
<1> PICK rest : rest = SubSeq(text, k + 1, n)
  OBVIOUS
<1> PICK new : new = Moved(mem, data, 0, data, k, n + 1 - k)
  OBVIOUS
<1>1. ShrunkFront(mem, data, n, num).mem = new /\ ShrunkFront(mem, data, n, num).length = n - k
  BY DEF ShrunkFront, Shorter
<1>2. /\ data \in Addresses /\ bytes \in Nat /\ text \in Seq(Letters) /\ InMemory(data, bytes)
      /\ Holds(mem, data, text) /\ \A j \in 0 .. bytes : Byte(data, j) \in Bytes
  BY DEF TextAt
<1>3. Holds(new, data, rest)
  <2>1. \A j \in 0 .. Len(text) : Byte(data, j) \in Bytes
    BY <1>2
  <2> QED
    BY <1>2, <2>1, FrontCut
<1>4. rest \in Seq(Letters) /\ Len(rest) = n - k /\ n - k < bytes
  <2>1. n \in k .. n /\ n - k < bytes
    BY <1>2
  <2> QED
    BY <1>2, <2>1, PartOfText
<1>5. \A b \in Bytes : InRegion(b, data, 0, bytes) \/ new[b] = mem[b]
  <2>1. 0 + (n + 1 - k) <= bytes /\ n + 1 - k \in Int /\ bytes \in Int /\ 0 \in Nat
    BY <1>2
  <2>2. data \in Addresses
    BY <1>2
  <2>3. \A b \in Bytes : InRegion(b, data, 0, bytes) \/ Moved(mem, data, 0, data, k, n + 1 - k)[b] = mem[b]
    BY ONLY <2>1, <2>2, MovedInBlock
  <2> QED
    BY <2>3
<1>6. Clean(mem, data, bytes) => Clean(new, data, bytes)
  <2>1. k \in Nat /\ n \in Nat /\ k <= n /\ n < bytes
    OBVIOUS
  <2> QED
    BY <1>2, <2>1, MovedIsClean
<1> QED
  BY <1>1, <1>2, <1>3, <1>4, <1>5, <1>6 DEF LeftIn, TextAt

LEMMA RearLeft ==
  ASSUME NEW mem, NEW data, NEW bytes, NEW text, TextAt(mem, data, bytes, text),
         NEW k \in 0 .. Len(text), NEW m \in Nat, m > 0 \/ k = Len(text), k + m <= bytes
  PROVE  LeftIn(Shorter(Stored(mem, data, k, m, NUL), k), mem, data, bytes, SubSeq(text, 1, k))
<1> PICK n \in Nat : n = Len(text) /\ n < bytes
  BY DEF TextAt
<1> PICK rest : rest = SubSeq(text, 1, k)
  OBVIOUS
<1> PICK new : new = Stored(mem, data, k, m, NUL)
  OBVIOUS
<1>1. Shorter(new, k).mem = new /\ Shorter(new, k).length = k
  BY DEF Shorter
<1>2. /\ data \in Addresses /\ bytes \in Nat /\ text \in Seq(Letters) /\ InMemory(data, bytes)
      /\ Holds(mem, data, text) /\ \A j \in 0 .. bytes : Byte(data, j) \in Bytes
  BY DEF TextAt
<1>3. Holds(new, data, rest)
  <2>1. \A j \in 0 .. Len(text) : Byte(data, j) \in Bytes
    BY <1>2
  <2> QED
    BY <1>2, <2>1, RearCut
<1>4. rest \in Seq(Letters) /\ Len(rest) = k /\ k < bytes
  <2>1. SubSeq(text, 0 + 1, k) \in Seq(Letters) /\ Len(SubSeq(text, 0 + 1, k)) = k - 0
    BY <1>2, PartOfText
  <2> QED
    BY <1>2, <2>1
<1>5. \A b \in Bytes : InRegion(b, data, 0, bytes) \/ new[b] = mem[b]
  BY <1>2, StoredInBlock
<1>6. Clean(mem, data, bytes) => Clean(new, data, bytes)
  BY <1>2, ClearedIsClean
<1> QED
  BY <1>1, <1>2, <1>3, <1>4, <1>5, <1>6 DEF LeftIn, TextAt

\* The blanks at the end are cut off ...
LEMMA BlanksAtRear ==
  ASSUME NEW mem, NEW data, NEW bytes, NEW text, TextAt(mem, data, bytes, text)
  PROVE  \E k \in 0 .. Len(text) :
           /\ LeftIn(WithoutRear(mem, data, Len(text)), mem, data, bytes, SubSeq(text, 1, k))
           /\ \A j \in k + 1 .. Len(text) : text[j] \in Blanks
           /\ k > 0 => text[k] \notin Blanks
<1> PICK n \in Nat : n = Len(text) /\ n < bytes
  BY DEF TextAt
<1>1. /\ \A k \in 1 .. n : text[k] = mem[Byte(data, k - 1)]
      /\ bytes \in Nat
  BY CharacterAt DEF TextAt
<1> DEFINE S == {0} \cup { i \in 1 .. n : mem[Byte(data, i - 1)] \notin Blanks }
<1>2. PICK k \in S : k = Max(S) /\ \A i \in S : k >= i
  <2>1. S \subseteq 0 .. n /\ S # {}
    OBVIOUS
  <2> HIDE DEF S
  <2> QED
    BY <2>1, MaxOf
<1>3. k \in 0 .. n /\ (k > 0 => mem[Byte(data, k - 1)] \notin Blanks)
  OBVIOUS
<1>4. \A j \in k + 1 .. n : mem[Byte(data, j - 1)] \in Blanks
  <2> SUFFICES ASSUME NEW j \in k + 1 .. n, mem[Byte(data, j - 1)] \notin Blanks PROVE FALSE
    OBVIOUS
  <2>1. j \in 1 .. n /\ ~(k >= j)
    BY <1>3
  <2> QED
    BY <1>2, <2>1
<1>5. WithoutRear(mem, data, n) = Shorter(Stored(mem, data, k, n - k, NUL), k)
  BY <1>2 DEF WithoutRear
<1> HIDE DEF S
<1>6. LeftIn(Shorter(Stored(mem, data, k, n - k, NUL), k), mem, data, bytes, SubSeq(text, 1, k))
  <2>1. n - k \in Nat /\ (n - k > 0 \/ k = Len(text)) /\ k + (n - k) <= bytes /\ k \in 0 .. Len(text)
    BY <1>1, <1>3
  <2> QED
    BY <2>1, RearLeft
<1>7. k > 0 => text[k] \notin Blanks
  <2> SUFFICES ASSUME k > 0 PROVE text[k] \notin Blanks
    OBVIOUS
  <2>1. k \in 1 .. n
    BY <1>3
  <2> QED
    BY <1>1, <1>3, <2>1
<1>8. \A j \in k + 1 .. n : text[j] \in Blanks
  <2> SUFFICES ASSUME NEW j \in k + 1 .. n PROVE text[j] \in Blanks
    OBVIOUS
  <2>1. j \in 1 .. n
    BY <1>3
  <2> QED
    BY <1>1, <1>4, <2>1
<1> QED
  BY <1>3, <1>5, <1>6, <1>7, <1>8

\* ... and those at the front.
LEMMA BlanksAtFront ==
  ASSUME NEW mem, NEW data, NEW bytes, NEW text, TextAt(mem, data, bytes, text)
  PROVE  \E k \in 0 .. Len(text) :
           /\ LeftIn(WithoutFront(mem, data, Len(text)), mem, data, bytes,
                     SubSeq(text, k + 1, Len(text)))
           /\ \A j \in 1 .. k : text[j] \in Blanks
           /\ k < Len(text) => text[k + 1] \notin Blanks
<1> PICK n \in Nat : n = Len(text) /\ n < bytes
  BY DEF TextAt
<1>1. /\ \A k \in 1 .. n : text[k] = mem[Byte(data, k - 1)]
      /\ mem[Byte(data, n)] \notin Blanks
  BY CharacterAt DEF Letters
<1> DEFINE S == { i \in 0 .. n : mem[Byte(data, i)] \notin Blanks }
<1>2. PICK k \in S : k = Min(S) /\ \A i \in S : k <= i
  <2>1. S \subseteq Nat /\ n \in S
    BY <1>1
  <2> HIDE DEF S
  <2> QED
    BY <2>1, MinOf
<1>3. k \in 0 .. n /\ mem[Byte(data, k)] \notin Blanks
  OBVIOUS
<1>4. \A j \in 0 .. k - 1 : mem[Byte(data, j)] \in Blanks
  <2> SUFFICES ASSUME NEW j \in 0 .. k - 1, mem[Byte(data, j)] \notin Blanks PROVE FALSE
    OBVIOUS
  <2>1. j \in 0 .. n /\ ~(k <= j)
    BY <1>3
  <2> QED
    BY <1>2, <2>1
<1>5. WithoutFront(mem, data, n) = ShrunkFront(mem, data, n, k)
  BY <1>2 DEF WithoutFront
<1> HIDE DEF S
<1>6. LeftIn(ShrunkFront(mem, data, n, k), mem, data, bytes, SubSeq(text, k + 1, n))
  <2>1. AtMost(k, n) = k /\ k \in Nat
    BY <1>3, AtMostType
  <2> QED
    BY <2>1, FrontLeft
<1>7. \A j \in 1 .. k : text[j] \in Blanks
  <2> SUFFICES ASSUME NEW j \in 1 .. k PROVE text[j] \in Blanks
    OBVIOUS
  <2>1. j \in 1 .. n /\ j - 1 \in 0 .. k - 1
    BY <1>3
  <2> QED
    BY <1>1, <1>4, <2>1
<1>8. k < n => text[k + 1] \notin Blanks
  <2> SUFFICES ASSUME k < n PROVE text[k + 1] \notin Blanks
    OBVIOUS
  <2> PICK i \in 1 .. n : i = k + 1 /\ i - 1 = k
    BY <1>3
  <2>1. text[i] = mem[Byte(data, k)]
    BY <1>1
  <2> QED
    BY <1>3, <2>1
<1> QED
  BY <1>3, <1>5, <1>6, <1>7, <1>8

LEMMA BlanksAtEnds ==
  ASSUME NEW mem, NEW data, NEW bytes, NEW text, TextAt(mem, data, bytes, text),
         NEW rear, rear = WithoutRear(mem, data, Len(text))
  PROVE  \E new : /\ LeftIn(WithoutFront(rear.mem, data, rear.length), mem, data, bytes, new)
                  /\ Len(new) <= Len(text) /\ D!Trimmed(text, new)
<1> PICK n \in Nat : n = Len(text)
  BY DEF TextAt
<1>1. PICK k \in 0 .. n : /\ LeftIn(rear, mem, data, bytes, SubSeq(text, 1, k))
                          /\ \A j \in k + 1 .. n : text[j] \in Blanks
                          /\ k > 0 => text[k] \notin Blanks
  BY BlanksAtRear
<1> PICK part : part = SubSeq(text, 1, k)
  OBVIOUS
<1>2. /\ TextAt(rear.mem, data, bytes, part) /\ rear.length = Len(part)
      /\ \A b \in Bytes : InRegion(b, data, 0, bytes) \/ rear.mem[b] = mem[b]
      /\ Clean(mem, data, bytes) => Clean(rear.mem, data, bytes)
  BY <1>1 DEF LeftIn
<1>3. part \in Seq(Letters) /\ Len(part) = k /\ \A j \in 1 .. k : part[j] = text[j]
  <2>1. /\ SubSeq(text, 0 + 1, k) \in Seq(Letters) /\ Len(SubSeq(text, 0 + 1, k)) = k - 0
        /\ \A j \in 1 .. k - 0 : SubSeq(text, 0 + 1, k)[j] = text[0 + j]
    BY PartOfText DEF TextAt
  <2> QED
    BY <2>1
<1> PICK left : left = WithoutFront(rear.mem, data, rear.length)
  OBVIOUS
<1>4. PICK i \in 0 .. k : /\ LeftIn(left, rear.mem, data, bytes, SubSeq(part, i + 1, k))
                          /\ \A j \in 1 .. i : part[j] \in Blanks
                          /\ i < k => part[i + 1] \notin Blanks
  <2> PICK m : m = rear.mem
    OBVIOUS
  <2>1. TextAt(m, data, bytes, part)
    BY <1>2
  <2>2. \E i \in 0 .. Len(part) :
          /\ LeftIn(WithoutFront(m, data, Len(part)), m, data, bytes, SubSeq(part, i + 1, Len(part)))
          /\ \A j \in 1 .. i : part[j] \in Blanks
          /\ i < Len(part) => part[i + 1] \notin Blanks
    BY ONLY <2>1, BlanksAtFront
  <2> QED
    BY <1>2, <1>3, <2>2
<1> PICK new : new = SubSeq(part, i + 1, k)
  OBVIOUS
<1>5. LeftIn(left, mem, data, bytes, new)
  BY <1>2, <1>4 DEF LeftIn
<1>6. new \in Seq(Letters) /\ Len(new) = k - i /\ \A j \in 1 .. k - i : new[j] = part[i + j]
  BY <1>3, PartOfText
<1>7. new = SubSeq(text, i + 1, n - (n - k))
  <2>1. n - (n - k) = k /\ i \in 0 .. n /\ k \in i .. n
    OBVIOUS
  <2> PICK other : other = SubSeq(text, i + 1, k)
    OBVIOUS
  <2>2. /\ other \in Seq(Letters) /\ Len(other) = k - i
        /\ \A j \in 1 .. k - i : other[j] = text[i + j]
    BY <2>1, PartOfText DEF TextAt
  <2>3. ASSUME NEW j \in 1 .. k - i PROVE new[j] = other[j]
    <3>1. i + j \in 1 .. k
      OBVIOUS
    <3> QED
      BY <1>3, <1>6, <2>2, <3>1
  <2>4. new = other
    BY <1>6, <2>2, <2>3, SeqEqual
  <2> QED
    BY <2>1, <2>4
<1>8. ASSUME NEW j \in 1 .. n, j <= i \/ j > n - (n - k) PROVE text[j] \in Blanks
  <2>1. j \in 1 .. i \/ j \in k + 1 .. n
    BY <1>8
  <2>2. j \in 1 .. i => j \in 1 .. k
    OBVIOUS
  <2> QED
    BY <1>1, <1>3, <1>4, <2>1, <2>2
<1>9. new # << >> => new[1] \notin Blanks /\ new[Len(new)] \notin Blanks
  <2> SUFFICES ASSUME new # << >> PROVE new[1] \notin Blanks /\ new[Len(new)] \notin Blanks
    OBVIOUS
  <2>1. i < k
    BY <1>6, EmptySeq
  <2>2. 1 \in 1 .. k - i /\ k - i \in 1 .. k - i /\ i + (k - i) = k /\ k \in 1 .. k /\ k > 0
    BY <2>1
  <2>3. new[1] = part[i + 1] /\ new[k - i] = text[k]
    BY <1>3, <1>6, <2>2
  <2> QED
    BY <1>1, <1>4, <1>6, <2>1, <2>2, <2>3
<1>10. D!Trimmed(text, new)
  <2>1. n - k \in 0 .. n /\ i \in 0 .. n /\ i + (n - k) <= n
    OBVIOUS
  <2> QED
    BY <1>7, <1>8, <1>9, <2>1 DEF D!Trimmed
<1>11. Len(new) <= Len(text)
  BY <1>6
<1> QED
  BY <1>5, <1>10, <1>11

LEMMA StringTextAt ==
  ASSUME MemoryInv, NEW s \in Strings, str[s] # None
  PROVE  /\ TextAt(memory, str[s].data, str[s].allocated, Contents(s))
         /\ Len(Contents(s)) = str[s].length /\ Len(Contents(s)) \in Nat
<1>1. /\ PoolInv /\ BlocksOwned /\ s \in Names /\ Live(s) /\ Sound(s)
      /\ Header(s) = str[s] /\ Room(s) = str[s].allocated
  BY StringNow DEF MemoryInv
<1>2. InMemory(str[s].data, str[s].allocated)
  BY <1>1, OwnBlockBytes DEF InMemory, Block
<1> QED
  BY <1>2, StringNow DEF TextAt, StringHeaders

\* What a string becomes when its front or its rear is cut off.
LEMMA StringCut ==
  ASSUME MemoryInv, NEW s \in Strings,
         \/ \E num \in 0 .. MaxChars : ds_shrink_front(s, num) \/ ds_shrink_rear(s, num)
         \/ ds_remove_front_ws(s) \/ ds_remove_rear_ws(s) \/ ds_remove_outer_ws(s)
  PROVE  /\ OneChanges(s) /\ Live(s)' /\ Sound(s)' /\ s \in Names /\ Live(s)
         /\ D!Cut(Contents(s), Contents(s)') \/ D!Trimmed(Contents(s), Contents(s)')
         /\ Clean(memory, str[s].data, str[s].allocated)
              => Clean(memory', str'[s].data, str'[s].allocated)
<1>1. str[s] # None
  BY DEF ds_shrink_front, ds_shrink_rear, ds_remove_front_ws, ds_remove_rear_ws,
         ds_remove_outer_ws, Shortens
<1> PICK data : data = str[s].data
  OBVIOUS
<1> PICK bytes : bytes = str[s].allocated
  OBVIOUS
<1> PICK text \in Seq(Letters) : text = Contents(s)
  BY <1>1, StringNow
<1> PICK n \in Nat : n = Len(text)
  OBVIOUS
<1>2. TextAt(memory, data, bytes, text) /\ n = str[s].length
  BY <1>1, StringTextAt
<1>3. ASSUME NEW to, Shortens(s, to), NEW new, Len(new) <= n, LeftIn(to, memory, data, bytes, new),
             D!Cut(text, new) \/ D!Trimmed(text, new)
      PROVE  /\ OneChanges(s) /\ Live(s)' /\ Sound(s)' /\ s \in Names /\ Live(s)
             /\ D!Cut(Contents(s), Contents(s)') \/ D!Trimmed(Contents(s), Contents(s)')
             /\ Clean(memory, str[s].data, str[s].allocated)
                  => Clean(memory', str'[s].data, str'[s].allocated)
  BY <1>2, <1>3, StringShortens
<1>4. ASSUME NEW k \in 0 .. n
      PROVE  /\ Len(SubSeq(text, k + 1, n)) <= n /\ D!Cut(text, SubSeq(text, k + 1, n))
             /\ Len(SubSeq(text, 1, k)) <= n /\ D!Cut(text, SubSeq(text, 1, k))
  <2>1. Len(SubSeq(text, k + 1, n)) = n - k
    <3>1. n \in k .. n
      OBVIOUS
    <3> QED
      BY <3>1, PartOfText
  <2>2. Len(SubSeq(text, 0 + 1, k)) = k - 0
    BY PartOfText
  <2> QED
    BY <2>1, <2>2 DEF D!Cut
<1>5. CASE \E num \in 0 .. MaxChars : ds_shrink_front(s, num)
  <2> PICK num \in 0 .. MaxChars : ds_shrink_front(s, num)
    BY <1>5
  <2> PICK k \in 0 .. n : k = AtMost(num, n)
    <3>1. num \in Nat /\ n \in Nat
      BY ContainersAssumption
    <3> QED
      BY ONLY <3>1, AtMostType
  <2>1. Shortens(s, ShrunkFront(memory, data, n, num))
    BY <1>2 DEF ds_shrink_front
  <2>2. LeftIn(ShrunkFront(memory, data, n, num), memory, data, bytes, SubSeq(text, k + 1, n))
    <3>1. num \in Nat
      BY ContainersAssumption
    <3> QED
      BY <1>2, <3>1, FrontLeft
  <2> QED
    BY <1>3, <1>4, <2>1, <2>2
<1>6. CASE \E num \in 0 .. MaxChars : ds_shrink_rear(s, num)
  <2> PICK num \in 0 .. MaxChars : ds_shrink_rear(s, num)
    BY <1>6
  <2> PICK k \in 0 .. n : k = n - AtMost(num, n)
    <3>1. AtMost(num, n) \in 0 .. n
      BY AtMostType, ContainersAssumption
    <3> QED
      BY <3>1
  <2>1. Shortens(s, Shorter(Stored(memory, data, k, 1, NUL), k))
    BY <1>2 DEF ds_shrink_rear, ShrunkRear
  <2>2. LeftIn(Shorter(Stored(memory, data, k, 1, NUL), k), memory, data, bytes, SubSeq(text, 1, k))
    <3>1. k + 1 <= bytes /\ 1 \in Nat /\ 1 > 0 /\ k \in 0 .. Len(text)
      BY <1>2 DEF TextAt
    <3> QED
      BY <1>2, <3>1, RearLeft
  <2> QED
    BY <1>3, <1>4, <2>1, <2>2
<1>7. CASE ds_remove_rear_ws(s)
  <2>1. Shortens(s, WithoutRear(memory, data, n))
    BY <1>2, <1>7 DEF ds_remove_rear_ws
  <2>2. PICK k \in 0 .. n : LeftIn(WithoutRear(memory, data, n), memory, data, bytes, SubSeq(text, 1, k))
    BY <1>2, BlanksAtRear
  <2> QED
    BY <1>3, <1>4, <2>1, <2>2
<1>8. CASE ds_remove_front_ws(s)
  <2>1. Shortens(s, WithoutFront(memory, data, n))
    BY <1>2, <1>8 DEF ds_remove_front_ws
  <2>2. PICK k \in 0 .. n : LeftIn(WithoutFront(memory, data, n), memory, data, bytes, SubSeq(text, k + 1, n))
    BY <1>2, BlanksAtFront
  <2> QED
    BY <1>3, <1>4, <2>1, <2>2
<1>9. CASE ds_remove_outer_ws(s)
  <2> PICK rear : rear = WithoutRear(memory, data, n)
    OBVIOUS
  <2>1. Shortens(s, WithoutFront(rear.mem, data, rear.length))
    BY <1>2, <1>9 DEF ds_remove_outer_ws
  <2>2. PICK new : /\ LeftIn(WithoutFront(rear.mem, data, rear.length), memory, data, bytes, new)
                   /\ Len(new) <= n /\ D!Trimmed(text, new)
    BY <1>2, BlanksAtEnds
  <2> QED
    BY <1>3, <2>1, <2>2
<1> QED
  BY <1>5, <1>6, <1>7, <1>8, <1>9

-----------------------------------------------------------------------------
(* Strings that are read up to their NUL: copies and splits.               *)

LEMMA CStringIs ==
  ASSUME NEW mem, NEW data, NEW bytes, NEW text, TextAt(mem, data, bytes, text),
         Len(text) <= MaxChars, NEW k \in 0 .. Len(text)
  PROVE  CString(mem, data, k) = SubSeq(text, k + 1, Len(text))
<1> PICK n \in Nat : n = Len(text) /\ n < bytes /\ bytes \in Nat
  BY DEF TextAt
<1>1. MaxChars \in Nat
  BY ContainersAssumption
<1>2. ASSUME NEW j \in 0 .. n PROVE Read(mem, Byte(data, j)) = mem[Byte(data, j)]
  BY DEF Read, TextAt
<1>3. mem[Byte(data, n)] = NUL
  BY CharacterAt
<1>4. ASSUME NEW j \in 0 .. n - 1
      PROVE  mem[Byte(data, j)] = text[j + 1] /\ mem[Byte(data, j)] \notin {NUL, "outside"}
  <2> PICK i \in 1 .. n : i = j + 1 /\ i - 1 = j
    OBVIOUS
  <2>1. text[i] = mem[Byte(data, j)] /\ text[i] \in Letters
    BY CharacterAt
  <2> QED
    BY <2>1, TextsAssumption DEF Letters
<1> DEFINE S == { i \in k .. k + MaxChars : Read(mem, Byte(data, i)) \in {NUL, "outside"} }
<1>5. Min(S) = n
  <2>1. n \in k .. k + MaxChars /\ n \in 0 .. n
    BY <1>1
  <2>2. S \subseteq Nat /\ n \in S
    BY <1>1, <1>2, <1>3, <2>1
  <2>3. PICK m \in S : m = Min(S) /\ m <= n
    <3> HIDE DEF S
    <3> QED
      BY <2>2, MinOf
  <2>4. m \in k .. k + MaxChars /\ Read(mem, Byte(data, m)) \in {NUL, "outside"}
    OBVIOUS
  <2>5. m \in 0 .. n - 1 => FALSE
    <3> SUFFICES ASSUME m \in 0 .. n - 1 PROVE FALSE
      OBVIOUS
    <3>1. m \in 0 .. n
      OBVIOUS
    <3> QED
      BY <1>2, <1>4, <2>4, <3>1
  <2> QED
    BY <1>1, <2>3, <2>4, <2>5
<1>6. CString(mem, data, k) = [i \in 1 .. n - k |-> mem[Byte(data, k + i - 1)]]
  BY <1>5 DEF CString
<1> HIDE DEF S
<1> PICK rest : rest = SubSeq(text, k + 1, n)
  OBVIOUS
<1>7. rest \in Seq(Letters) /\ Len(rest) = n - k /\ \A i \in 1 .. n - k : rest[i] = text[k + i]
  <2>1. n \in k .. n
    OBVIOUS
  <2> QED
    BY <2>1, PartOfText DEF TextAt
<1>8. ASSUME NEW i \in 1 .. n - k PROVE mem[Byte(data, k + i - 1)] = rest[i]
  <2> PICK j \in 0 .. n - 1 : j = k + i - 1 /\ j + 1 = k + i
    OBVIOUS
  <2> QED
    BY <1>4, <1>7
<1>9. CString(mem, data, k) = [i \in 1 .. n - k |-> rest[i]]
  BY <1>6, <1>8
<1>10. rest = [i \in 1 .. n - k |-> rest[i]]
  BY <1>7, SMTT(30)
<1> QED
  BY <1>9, <1>10

LEMMA WholeText ==
  ASSUME NEW text \in Seq(Letters)
  PROVE  SubSeq(text, 1, Len(text)) = text
<1> PICK n \in Nat : n = Len(text)
  OBVIOUS
<1> PICK rest : rest = SubSeq(text, 1, n)
  OBVIOUS
<1>1. rest \in Seq(Letters) /\ Len(rest) = n /\ \A j \in 1 .. n : rest[j] = text[j]
  <2>1. 0 \in 0 .. n /\ n \in 0 .. n
    OBVIOUS
  <2>2. /\ SubSeq(text, 0 + 1, n) \in Seq(Letters) /\ Len(SubSeq(text, 0 + 1, n)) = n - 0
        /\ \A j \in 1 .. n - 0 : SubSeq(text, 0 + 1, n)[j] = text[0 + j]
    BY <2>1, PartOfText
  <2> QED
    BY <2>2
<1> QED
  BY <1>1, SeqEqual

LEMMA StringCopy ==
  ASSUME MemoryInv, NEW s \in Strings, NEW t \in Strings, ds_copy(s, t)
  PROVE  /\ OneChanges(s) /\ Live(s)' /\ Sound(s)' /\ s \in Names
         /\ Contents(s) = None /\ Contents(s)' = Contents(t) /\ t \in Names /\ Live(t)
         /\ Contents(t) \in Seq(Letters) /\ Len(Contents(t)) <= MaxChars
         /\ Create(s, Contents(t))
<1>1. str[t] # None
  BY DEF ds_copy
<1> PICK text \in Seq(Letters) : text = Contents(t)
  BY <1>1, StringNow
<1>2. /\ TextAt(memory, str[t].data, str[t].allocated, text) /\ Len(text) <= MaxChars
      /\ t \in Names /\ Live(t)
  <2>1. Len(text) = str[t].length /\ str[t] \in StringHeaders /\ t \in Names /\ Live(t)
    BY <1>1, StringNow
  <2> QED
    BY <1>1, <2>1, StringTextAt, ContainersAssumption DEF StringHeaders
<1>3. CString(memory, str[t].data, 0) = text
  <2>1. 0 \in 0 .. Len(text) /\ 0 + 1 = 1
    OBVIOUS
  <2>2. CString(memory, str[t].data, 0) = SubSeq(text, 0 + 1, Len(text))
    BY <1>2, <2>1, CStringIs
  <2> QED
    BY <2>1, <2>2, WholeText
<1>4. Create(s, text)
  BY <1>3 DEF ds_copy
<1> QED
  BY <1>2, <1>4, StringCreate

\* Where a string is split: at its first blank.
LEMMA SplitsAtBlank ==
  ASSUME MemoryInv, NEW s \in Strings, str[s] # None, str[s].length > 0
  PROVE  /\ SplitsAt(s) \in 0 .. str[s].length - 1
         /\ SplitsAt(s) < str[s].length - 1 => Contents(s)[SplitsAt(s) + 1] \in Blanks
         /\ \A j \in 1 .. SplitsAt(s) : Contents(s)[j] \notin Blanks
<1> PICK n \in Nat : n = str[s].length /\ n > 0 /\ n = Len(Contents(s))
  BY StringTextAt
<1> PICK text : text = Contents(s)
  OBVIOUS
<1>1. ASSUME NEW j \in 1 .. n PROVE text[j] = Char(s, j - 1)
  BY CharacterAt, StringTextAt DEF Char
<1> DEFINE S == { i \in 0 .. n - 2 : Char(s, i) \in Blanks } \cup {n - 1}
<1>2. PICK i \in S : i = Min(S) /\ \A j \in S : i <= j
  <2>1. S \subseteq Nat /\ S # {}
    OBVIOUS
  <2> HIDE DEF S
  <2> QED
    BY <2>1, MinOf
<1>3. i \in 0 .. n - 1 /\ (i < n - 1 => Char(s, i) \in Blanks)
  OBVIOUS
<1>4. ASSUME NEW j \in 1 .. i PROVE text[j] \notin Blanks
  <2> SUFFICES ASSUME text[j] \in Blanks PROVE FALSE
    OBVIOUS
  <2> PICK m \in 0 .. n - 2 : m = j - 1 /\ j \in 1 .. n
    BY <1>3
  <2>1. Char(s, m) \in Blanks
    BY <1>1
  <2>2. m \in S /\ ~(i <= m)
    BY <1>3, <2>1
  <2> QED
    BY <1>2, <2>2
<1>5. SplitsAt(s) = i
  BY <1>2 DEF SplitsAt
<1>6. i < n - 1 => text[i + 1] \in Blanks
  <2> SUFFICES ASSUME i < n - 1 PROVE text[i + 1] \in Blanks
    OBVIOUS
  <2> PICK j \in 1 .. n : j = i + 1 /\ j - 1 = i
    BY <1>3
  <2> QED
    BY <1>1, <1>3
<1> QED
  BY <1>3, <1>4, <1>5, <1>6

\* Two strings change at once: the one that is split keeps its block, and the
\* new one gets one of its own.
SplitInMemory(s, t, i, size, whole) ==
  /\ pool_alloc(size) /\ i + 1 <= str[s].allocated /\ Len(whole) = str'[t].length + 1
  /\ memory' = Stored(Written(memory, Place(size), 0, whole), str[s].data, i, 1, NUL)
  /\ str'[s].data = str[s].data /\ str'[s].allocated = str[s].allocated
  /\ str'[t].data = Place(size) /\ size = Padded(str'[t].allocated)
  /\ str'[t].allocated = Len(whole)
  /\ \A m \in Strings \ {s, t} : str'[m] = str[m]

LEMMA StringSplit ==
  ASSUME MemoryInv, NEW s \in Strings, NEW t \in Strings, str[s] # None, SplitWords(s, t)
  PROVE  /\ MemoryInv' /\ s \in Names /\ t \in Names /\ Live(s) /\ Contents(t) = None
         /\ Live(s)' /\ Live(t)' /\ Block(s)' = Block(s)
         /\ \E i, size \in Nat : \E whole : SplitInMemory(s, t, i, size, whole)
         /\ \A m \in Names \ {s, t} : Contents(m)' = Contents(m)
         /\ \E i \in 1 .. Len(Contents(s)) :
              /\ Contents(s)[i] \in Blanks /\ \A j \in 1 .. i - 1 : Contents(s)[j] \notin Blanks
              /\ Contents(s)' = SubSeq(Contents(s), 1, i - 1)
              /\ Contents(t)' = SubSeq(Contents(s), i + 1, Len(Contents(s)))
<1> PICK text \in Seq(Letters) : text = Contents(s)
  BY StringNow
<1> PICK n \in Nat : n = Len(text)
  OBVIOUS
<1> PICK bytes : bytes = str[s].allocated
  OBVIOUS
<1> PICK old : old = str[s].data
  OBVIOUS
<1>1. /\ str[s] \in StringHeaders /\ n = str[s].length /\ n <= MaxChars
      /\ TextAt(memory, old, bytes, text) /\ n < bytes /\ bytes \in Nat /\ old \in Addresses
      /\ s \in Names /\ s \notin Arrays /\ Header(s) = str[s] /\ Live(s) /\ Room(s) = bytes
  BY StringNow, StringTextAt, ContainersAssumption DEF StringHeaders
<1>2. /\ t \in Names /\ t \notin Arrays /\ str[t] = None /\ s # t /\ Contents(t) = None
      /\ ~Live(t)
  BY ContainersAssumption DEF Names, SplitWords, Contents, Live, Header
<1> PICK i \in 0 .. n - 2 : /\ i = SplitsAt(s) /\ text[i + 1] \in Blanks
                            /\ \A j \in 1 .. i : text[j] \notin Blanks
  <2>1. str[s].length > 0 /\ SplitsAt(s) < str[s].length - 1
    BY DEF SplitWords
  <2> QED
    BY <1>1, <2>1, SplitsAtBlank, SMTT(30)
<1> PICK k \in 1 .. n : k = i + 1 /\ k - 1 = i
  OBVIOUS
<1> PICK rest : rest = SubSeq(text, k + 1, n)
  OBVIOUS
<1>3. CString(memory, old, i + 1) = rest /\ rest \in Seq(Letters) /\ Len(rest) = n - k
  <2>1. /\ k \in 0 .. Len(text) /\ Len(text) \in k .. Len(text) /\ Len(text) <= MaxChars
        /\ TextAt(memory, old, bytes, text) /\ text \in Seq(Letters)
    BY <1>1, SMTT(30)
  <2>2. CString(memory, old, k) = SubSeq(text, k + 1, Len(text))
    BY ONLY <2>1, CStringIs
  <2>3. /\ SubSeq(text, k + 1, Len(text)) \in Seq(Letters)
        /\ Len(SubSeq(text, k + 1, Len(text))) = Len(text) - k
    BY ONLY <2>1, PartOfText
  <2>4. n = Len(text) /\ rest = SubSeq(text, k + 1, n) /\ k = i + 1
    OBVIOUS
  <2> QED
    BY ONLY <2>2, <2>3, <2>4
<1> PICK len \in Nat : len = Len(rest) /\ len <= MaxChars /\ MaxChars \in Nat
  <2>1. n \in Nat /\ k \in 1 .. n /\ n <= MaxChars /\ MaxChars \in Nat
    BY <1>1, ContainersAssumption
  <2>2. n - k \in Nat /\ n - k <= MaxChars
    BY ONLY <2>1
  <2> QED
    BY ONLY <1>3, <2>1, <2>2
<1> PICK whole : whole = Append(rest, NUL)
  OBVIOUS
<1> PICK size : size = Padded(len + 1)
  OBVIOUS
<1> PICK data : data = Place(size)
  OBVIOUS
<1> PICK mem : mem = Written(memory, data, 0, whole)
  OBVIOUS
<1> PICK old1 : old1 = [str[s] EXCEPT !.length = i]
  OBVIOUS
<1> PICK new1 : new1 = [length |-> len, allocated |-> len + 1, data |-> data]
  OBVIOUS
<1>4. /\ pool_alloc(size) /\ memory' = Stored(mem, old, i, 1, NUL)
      /\ DOMAIN str' = Strings /\ str'[s] = old1 /\ str'[t] = new1
      /\ \A m \in Strings \ {s, t} : str'[m] = str[m]
      /\ arr' = arr /\ DOMAIN arr = Arrays
  <2>1. str' = [str EXCEPT ![s].length = i, ![t] = new1]
    BY <1>3 DEF SplitWords
  <2>2. DOMAIN str = Strings /\ DOMAIN arr = Arrays
    BY DEF MemoryInv
  <2>3. pool_alloc(size) /\ memory' = Stored(mem, old, i, 1, NUL) /\ arr' = arr
    BY <1>3 DEF SplitWords
  <2>4. s \in Strings /\ t \in Strings /\ old1 = [str[s] EXCEPT !.length = i]
    OBVIOUS
  <2> QED
    BY ONLY <1>2, <2>1, <2>2, <2>3, <2>4
<1>5. /\ size \in Nat /\ len + 1 <= POOLS_GRANULARITY * size /\ POOLS_GRANULARITY * size \in Nat
      /\ Len(whole) = len + 1
  <2> PICK m \in Nat : m = len + 1
    BY SMTT(30)
  <2>1. size \in Nat /\ m <= POOLS_GRANULARITY * size
    <3>1. Padded(m) \in Nat /\ m <= POOLS_GRANULARITY * Padded(m)
      BY ONLY m \in Nat, PaddedCovers
    <3>2. size = Padded(m)
      <4>1. m = len + 1 /\ size = Padded(len + 1)
        OBVIOUS
      <4> QED
        BY ONLY <4>1
    <3> QED
      BY ONLY <3>1, <3>2
  <2>2. POOLS_GRANULARITY * size \in Nat
    BY ONLY <2>1, ContainersAssumption
  <2>3. Len(whole) = m
    <3>1. rest \in Seq(Letters)
      BY <1>3
    <3>2. rest \in Seq(Letters \cup {NUL}) /\ NUL \in Letters \cup {NUL}
      BY ONLY <3>1
    <3>3. Len(Append(rest, NUL)) = Len(rest) + 1
      BY ONLY <3>2
    <3> QED
      BY <3>3
  <2> QED
    BY <2>1, <2>2, <2>3
<1>6. /\ data \in Addresses /\ \A j \in 0 .. POOLS_GRANULARITY * size : Byte(data, j) \in Bytes
      /\ \A b \in blocks : b.chunk = data.chunk => b.at + b.size <= data.at
  <2>1. \A b \in blocks : b.chunk = Place(size).chunk => b.at + b.size <= Place(size).at
    BY <1>4, <1>5, PlaceProperties DEF MemoryInv
  <2> QED
    BY <1>4, <1>5, <2>1, NewBlock
<1>7. PoolInv /\ BlocksOwned /\ \A m \in Names : Live(m) => Sound(m)
  BY DEF MemoryInv
\* The headers.
<1>8. /\ old1 \in StringHeaders /\ old1.length = i /\ old1.allocated = bytes /\ old1.data = old
      /\ new1 \in StringHeaders /\ new1.length = len /\ new1.allocated = len + 1 /\ new1.data = data
  <2>1. i \in 0 .. MaxChars /\ len \in 0 .. MaxChars /\ len + 1 \in Nat
    <3>1. n \in Nat /\ n <= MaxChars /\ MaxChars \in Nat /\ i \in 0 .. n - 2
          /\ len \in Nat /\ len <= MaxChars
      BY <1>1
    <3> QED
      BY ONLY <3>1
  <2> QED
    BY <1>1, <1>6, <2>1 DEF StringHeaders
<1>9. /\ Header(s)' = old1 /\ Room(s)' = bytes /\ Live(s)' /\ Block(s)' = Block(s)
      /\ Header(t)' = new1 /\ Room(t)' = len + 1 /\ Live(t)'
      /\ Block(t)' = [chunk |-> data.chunk, at |-> data.at, size |-> size]
  <2>1. Header(s)' = old1 /\ Room(s)' = bytes /\ Header(t)' = new1 /\ Room(t)' = len + 1
    BY <1>1, <1>2, <1>4, <1>8 DEF Header, Room
  <2>2. old1 # None /\ new1 # None
    BY <1>8, NoneAssumption
  <2> QED
    BY <1>1, <1>8, <2>1, <2>2 DEF Live, Block
<1>10. ASSUME NEW m \in Names \ {s, t}
       PROVE  /\ IF m \in Arrays THEN arr'[m] = arr[m] ELSE str'[m] = str[m]
              /\ Header(m)' = Header(m) /\ Room(m)' = Room(m) /\ Live(m)' = Live(m)
              /\ Block(m)' = Block(m)
  <2>1. IF m \in Arrays THEN arr'[m] = arr[m] ELSE str'[m] = str[m]
    BY <1>4 DEF Names
  <2> QED
    BY <2>1 DEF Header, Room, Live, Block
\* The pool.
<1>11. PoolInv' /\ BlocksOwned'
  <2>1. BlocksKept(t)
    <3>1. \A m \in Names \ {t} : m = s \/ m \in Names \ {s, t}
      OBVIOUS
    <3>2. Live(s)' = Live(s)
      BY <1>1, <1>9
    <3> QED
      BY <1>9, <1>10, <3>1, <3>2 DEF BlocksKept
  <2>2. BlocksOwned'
    BY <1>2, <1>4, <1>5, <1>7, <1>9, <2>1, NewBlockOwned
  <2> QED
    BY <1>4, <1>5, <1>7, <2>2, AllocKeepsPoolInv
\* Nothing but these two blocks is written to.
<1>12. ASSUME NEW m \in Names, Live(m), NEW j \in 0 .. Room(m) - 1
       PROVE  /\ mem[Byte(Header(m).data, j)] = memory[Byte(Header(m).data, j)]
              /\ Byte(Header(m).data, j) \in Bytes
  <2>1. Sound(m) /\ Byte(Header(m).data, j) \in Bytes
    BY <1>7, <1>12, OwnBytes, BlockType, SMTT(30)
  <2>2. Block(m) \in blocks
    BY <1>7, <1>12 DEF BlocksOwned
  <2>3. /\ len + 1 \in Nat /\ m \in Names /\ j \in 0 .. Room(m) - 1
        /\ (Block(m).chunk = data.chunk => Block(m).at + Block(m).size <= data.at)
    <3>1. len \in Nat
      OBVIOUS
    <3>2. len + 1 \in Nat
      BY ONLY <3>1
    <3> QED
      BY <1>6, <2>2, <3>2
  <2>4. ~InRegion(Byte(Header(m).data, j), data, 0, len + 1)
    BY ONLY <1>5, <1>6, <1>12, <2>1, <2>3, BytesApart
  <2> QED
    BY <1>5, <2>1, <2>4 DEF Written
<1>13. ASSUME NEW m \in Names \ {s, t}, Live(m), NEW j \in 0 .. Room(m) - 1
       PROVE  memory'[Byte(Header(m).data, j)] = memory[Byte(Header(m).data, j)]
  <2>1. /\ Sound(m) /\ Sound(s) /\ Block(m) \in blocks /\ Block(s) \in blocks
        /\ Block(m) # Block(s)
    BY <1>1, <1>7, <1>13 DEF BlocksOwned
  <2>2. Block(m).chunk = Block(s).chunk =>
          Block(m).at + Block(m).size <= Block(s).at \/ Block(s).at + Block(s).size <= Block(m).at
    BY <1>7, <2>1 DEF PoolInv, BlocksDisjoint
  <2>3. /\ Block(s).size \in Nat /\ bytes <= POOLS_GRANULARITY * Block(s).size
        /\ Block(s).chunk = old.chunk /\ Block(s).at = old.at
    BY <1>1, <2>1, BlockType
  <2>4. ~InRegion(Byte(Header(m).data, j), old, 0, bytes)
    <3>1. m \in Names /\ j \in 0 .. Room(m) - 1
      OBVIOUS
    <3> QED
      BY ONLY <1>1, <1>13, <2>1, <2>2, <2>3, <3>1, BytesApart
  <2>5. Byte(Header(m).data, j) \in Bytes /\ mem[Byte(Header(m).data, j)] = memory[Byte(Header(m).data, j)]
    BY <1>12, <1>13
  <2>6. InRegion(Byte(Header(m).data, j), old, 0, bytes)
          \/ Stored(mem, old, i, 1, NUL)[Byte(Header(m).data, j)] = mem[Byte(Header(m).data, j)]
    <3>1. i \in Nat /\ 1 \in Int /\ bytes \in Int /\ i + 1 <= bytes /\ old \in Addresses
      <4>1. i \in 0 .. n - 2 /\ n \in Nat
        OBVIOUS
      <4> QED
        BY ONLY <1>1, <4>1
    <3>2. \A b \in Bytes : InRegion(b, old, 0, bytes) \/ Stored(mem, old, i, 1, NUL)[b] = mem[b]
      BY ONLY <3>1, StoredInBlock
    <3> QED
      BY ONLY <2>5, <3>2
  <2> QED
    BY ONLY <1>4, <2>4, <2>5, <2>6
<1>14. ASSUME NEW m \in Names \ {s, t}
       PROVE  Contents(m)' = Contents(m) /\ (Live(m) => Sound(m)')
  <2>1. CASE Live(m)
    <3>1. /\ m \in Names /\ Sound(m)
          /\ IF m \in Arrays THEN arr'[m] = arr[m] ELSE str'[m] = str[m]
      <4>1. m \in Names
        OBVIOUS
      <4> QED
        BY ONLY <1>7, <1>10, <2>1, <4>1, m \in Names \ {s, t}
    <3>2. \A j \in 0 .. Room(m) - 1 :
            memory'[Byte(Header(m).data, j)] = memory[Byte(Header(m).data, j)]
      <4> SUFFICES ASSUME NEW j \in 0 .. Room(m) - 1
                   PROVE  memory'[Byte(Header(m).data, j)] = memory[Byte(Header(m).data, j)]
        OBVIOUS
      <4> QED
        BY ONLY <1>13, <2>1, m \in Names \ {s, t}, j \in 0 .. Room(m) - 1
    <3> QED
      BY ONLY <2>1, <3>1, <3>2, KeptSound
  <2>2. CASE ~Live(m)
    BY ONLY <1>10, <2>2, m \in Names \ {s, t} DEF Contents, Live, Header
  <2> QED
    BY <2>1, <2>2
\* What is left of s ...
<1>15. Sound(s)' /\ Contents(s)' = SubSeq(text, 1, i)
  <2>1. TextAt(mem, old, bytes, text)
    <3>1. ASSUME NEW j \in 0 .. n PROVE mem[Byte(old, j)] = memory[Byte(old, j)]
      <4>1. j \in 0 .. n /\ n \in Nat
        OBVIOUS
      <4>2. j \in 0 .. Room(s) - 1
        BY ONLY <1>1, <4>1
      <4>3. Header(s).data = old
        BY <1>1
      <4>4. mem[Byte(Header(s).data, j)] = memory[Byte(Header(s).data, j)]
        BY ONLY <1>1, <1>12, <4>2
      <4> QED
        BY ONLY <4>3, <4>4
    <3>2. n \in Nat /\ n = Len(text)
      OBVIOUS
    <3>3. n \in 0 .. n /\ \A j \in 0 .. n - 1 : j \in 0 .. n
      BY ONLY <3>2
    <3>4. Holds(memory, old, text)
      BY <1>1 DEF TextAt
    <3>5. Holds(mem, old, text)
      BY ONLY <3>1, <3>2, <3>3, <3>4 DEF Holds
    <3> QED
      BY ONLY <1>1, <3>5 DEF TextAt
  <2>2. LeftIn(Shorter(Stored(mem, old, i, 1, NUL), i), mem, old, bytes, SubSeq(text, 1, i))
    <3>1. i \in 0 .. Len(text) /\ 1 \in Nat /\ 1 > 0 /\ i + 1 <= bytes
      <4>1. n < bytes /\ bytes \in Nat
        BY <1>1
      <4>2. i \in 0 .. n - 2 /\ n = Len(text) /\ n \in Nat
        OBVIOUS
      <4> QED
        BY ONLY <4>1, <4>2
    <3> QED
      BY ONLY <2>1, <3>1, RearLeft
  <2> PICK part : part = SubSeq(text, 1, i)
    OBVIOUS
  <2>3. Holds(memory', old, part) /\ part \in Seq(Letters) /\ Len(part) = i /\ i < bytes
    BY <1>1, <1>4, <2>2 DEF LeftIn, TextAt, Shorter
  <2>4. /\ str'[s] \in StringHeaders /\ str'[s].length < str'[s].allocated
        /\ Len(part) = str'[s].length /\ Holds(memory', str'[s].data, part)
    BY <1>4, <1>8, <2>3
  <2>5. part \in Seq(Letters) /\ s \in Strings
    BY <2>3
  <2>6. Sound(s)' /\ Contents(s)' = part
    BY ONLY <2>4, <2>5, StringAfter
  <2> QED
    BY <2>6
\* ... and what is in t.
<1>16. Sound(t)' /\ Contents(t)' = rest
  <2>1. Holds(mem, data, rest)
    <3> PICK none \in Seq(Letters) : none = << >> /\ Len(none) = 0 /\ none \o rest = rest
      <4>1. << >> \in Seq(Letters) /\ Len(<< >>) = 0 /\ << >> \o rest = rest
        BY <1>3
      <4> QED
        BY <4>1
    <3>1. \A j \in 0 .. Len(none) + Len(rest) : Byte(data, j) \in Bytes
      <4>1. \A j \in 0 .. Len(none) + Len(rest) : j \in 0 .. POOLS_GRANULARITY * size
        <5>1. Len(none) = 0 /\ Len(rest) = len /\ len \in Nat
          OBVIOUS
        <5>2. \A top \in Nat : len + 1 <= top => \A j \in 0 .. Len(none) + Len(rest) : j \in 0 .. top
          BY ONLY <5>1
        <5> QED
          BY ONLY <1>5, <5>2
      <4> QED
        BY <1>6, <4>1
    <3>2. \A j \in 0 .. Len(none) - 1 : FALSE
      OBVIOUS
    <3>3. Holds(Written(memory, data, Len(none), Append(rest, NUL)), data, none \o rest)
      BY <1>3, <1>6, <3>1, <3>2, WrittenHolds
    <3> QED
      BY <3>3
  <2>2. ASSUME NEW j \in 0 .. len PROVE memory'[Byte(data, j)] = mem[Byte(data, j)]
    <3>1. /\ Block(s).size \in Nat /\ bytes <= POOLS_GRANULARITY * Block(s).size
          /\ Block(s).chunk = old.chunk /\ Block(s).at = old.at /\ Block(s) \in blocks
      BY <1>1, <1>7, BlockType DEF BlocksOwned
    <3>2. data.chunk = old.chunk => old.at + Block(s).size <= data.at
      BY ONLY <1>6, <3>1
    <3>3. j \in 0 .. POOLS_GRANULARITY * size - 1 /\ j \in 0 .. POOLS_GRANULARITY * size
      <4>1. j \in 0 .. len /\ len \in Nat
        OBVIOUS
      <4> QED
        BY ONLY <1>5, <4>1
    <3>4. ~InRegion(Byte(data, j), old, 0, bytes)
      BY ONLY <1>1, <1>5, <1>6, <3>1, <3>2, <3>3, InOtherRegion
    <3>5. Byte(data, j) \in Bytes
      BY <1>6, <3>3
    <3>6. InRegion(Byte(data, j), old, 0, bytes) \/ Stored(mem, old, i, 1, NUL)[Byte(data, j)] = mem[Byte(data, j)]
      <4>1. i \in Nat /\ 1 \in Int /\ bytes \in Int /\ i + 1 <= bytes /\ old \in Addresses
        <5>1. i \in 0 .. n - 2 /\ n \in Nat
          OBVIOUS
        <5> QED
          BY ONLY <1>1, <5>1
      <4>2. \A b \in Bytes : InRegion(b, old, 0, bytes) \/ Stored(mem, old, i, 1, NUL)[b] = mem[b]
        BY ONLY <4>1, StoredInBlock
      <4> QED
        BY <3>5, <4>2
    <3> QED
      BY <1>4, <3>4, <3>6
  <2>3. Holds(memory', data, rest)
    <3>1. len \in Nat /\ Len(rest) = len
      OBVIOUS
    <3>2. len \in 0 .. len /\ \A j \in 0 .. len - 1 : j \in 0 .. len
      BY ONLY <3>1
    <3> QED
      BY ONLY <2>1, <2>2, <3>1, <3>2 DEF Holds
  <2>4. /\ str'[t] \in StringHeaders /\ str'[t].length < str'[t].allocated
        /\ Len(rest) = str'[t].length /\ Holds(memory', str'[t].data, rest)
    <3>1. len \in Nat /\ Len(rest) = len
      OBVIOUS
    <3> QED
      BY ONLY <1>4, <1>8, <2>3, <3>1
  <2>5. rest \in Seq(Letters) /\ t \in Strings
    BY <1>3
  <2>6. Sound(t)' /\ Contents(t)' = rest
    BY ONLY <2>4, <2>5, StringAfter
  <2> QED
    BY <2>6
<1>17. MemoryInv'
  <2>1. ASSUME NEW m \in Names, Live(m)' PROVE Sound(m)'
    BY <1>10, <1>14, <1>15, <1>16, <2>1
  <2> QED
    BY <1>4, <1>11, <2>1 DEF MemoryInv
<1>18. /\ Contents(s)[k] \in Blanks /\ \A j \in 1 .. k - 1 : Contents(s)[j] \notin Blanks
       /\ Contents(s)' = SubSeq(Contents(s), 1, k - 1)
       /\ Contents(t)' = SubSeq(Contents(s), k + 1, Len(Contents(s)))
  BY <1>15, <1>16
<1>19. SplitInMemory(s, t, i, size, whole) /\ i \in Nat /\ size \in Nat
  <2>1. i \in Nat /\ i + 1 <= bytes
    <3>1. i \in 0 .. n - 2 /\ n \in Nat
      OBVIOUS
    <3> QED
      BY ONLY <1>1, <3>1
  <2>2. /\ data = Place(size) /\ mem = Written(memory, data, 0, whole)
        /\ size = Padded(len + 1) /\ bytes = str[s].allocated /\ old = str[s].data
    OBVIOUS
  <2> QED
    BY ONLY <1>4, <1>5, <1>8, <2>1, <2>2 DEF SplitInMemory
<1> QED
  BY <1>1, <1>2, <1>9, <1>14, <1>17, <1>18, <1>19

-----------------------------------------------------------------------------
(* What is left behind the NUL of a string.                                *)

LEMMA InitLeftoverInv == Init => LeftoverInv
BY DEF Init, LeftoverInv

\* A byte of one block is in no other.
LEMMA NotInBlock ==
  ASSUME NEW data \in Addresses, NEW size \in Nat, NEW j \in 0 .. POOLS_GRANULARITY * size - 1,
         NEW k \in [chunk : Nat, at : Nat, size : Nat],
         k.chunk = data.chunk => data.at + size <= k.at \/ k.at + k.size <= data.at
  PROVE  ~InBlock(Byte(data, j), k)
<1> PICK e \in Addresses : e = [chunk |-> k.chunk, at |-> k.at]
  BY DEF Addresses
<1>1. /\ k.size \in Nat /\ POOLS_GRANULARITY * k.size \in Nat
      /\ POOLS_GRANULARITY * k.size <= POOLS_GRANULARITY * k.size
      /\ data.chunk = e.chunk => data.at + size <= e.at \/ e.at + k.size <= data.at
  BY ContainersAssumption
<1>2. ~InRegion(Byte(data, j), e, 0, POOLS_GRANULARITY * k.size)
  BY <1>1, InOtherRegion
<1> QED
  BY <1>2 DEF InBlock

\* A block that is handed out is as pools.c cleared the chunk.
LEMMA NewBlockClear ==
  ASSUME MemoryInv, LeftoverInv, NEW size \in Nat, pool_alloc(size),
         NEW j \in 0 .. POOLS_GRANULARITY * size - 1
  PROVE  memory[Byte(Place(size), j)] = NUL
<1>1. /\ Place(size) \in Addresses /\ Byte(Place(size), j) \in Bytes
      /\ \A b \in blocks : b.chunk = Place(size).chunk => b.at + b.size <= Place(size).at
      /\ blocks \subseteq [chunk : Nat, at : Nat, size : Nat]
  <2>1. POOLS_GRANULARITY * size \in Nat
    BY ContainersAssumption
  <2>2. j \in 0 .. POOLS_GRANULARITY * size
    BY <2>1
  <2> QED
    BY <2>2, NewBlock, PlaceProperties DEF MemoryInv, PoolInv, PoolTypeOK
<1>2. ASSUME NEW k \in blocks PROVE ~InBlock(Byte(Place(size), j), k)
  BY <1>1, NotInBlock
<1> QED
  BY <1>1, <1>2 DEF LeftoverInv

\* After a step that writes only to some blocks, if the strings in these are
\* clean.
LEMMA LeftoversKept ==
  ASSUME MemoryInv, LeftoverInv, PoolInv', blocks \subseteq blocks', NEW K, K \subseteq blocks',
         \A b \in Bytes : memory'[b] = memory[b] \/ \E k \in K : InBlock(b, k),
         \A s \in Strings : str'[s] # None =>
           \/ Clean(memory', str'[s].data, str'[s].allocated)
           \/ str'[s] = str[s] /\ Block(s) \notin K
  PROVE  LeftoverInv'
<1>1. ASSUME NEW b \in Bytes, memory'[b] # NUL PROVE \E k \in blocks' : InBlock(b, k)
  BY <1>1 DEF LeftoverInv
<1>2. ASSUME NEW s \in Strings, str'[s] # None, str'[s] = str[s], Block(s) \notin K
      PROVE  Clean(memory', str[s].data, str[s].allocated)
  <2>1. /\ PoolInv /\ BlocksOwned /\ s \in Names /\ Live(s) /\ Sound(s)
        /\ Header(s) = str[s] /\ Room(s) = str[s].allocated
    BY <1>2, StringNow DEF MemoryInv
  <2> PICK data \in Addresses : data = str[s].data
    BY <2>1, BlockType
  <2> PICK size \in Nat : /\ size = Padded(str[s].allocated) /\ size = Block(s).size
                          /\ Block(s).chunk = data.chunk /\ Block(s).at = data.at
    BY <2>1, BlockType
  <2>2. Block(s) \in blocks'
    BY <2>1 DEF BlocksOwned
  <2>3. ASSUME NEW j \in 0 .. POOLS_GRANULARITY * size - 1
        PROVE  memory'[Byte(data, j)] = memory[Byte(data, j)]
    <3>1. Byte(data, j) \in Bytes
      BY <2>1, OwnBlockBytes
    <3>2. ASSUME NEW k \in K PROVE ~InBlock(Byte(data, j), k)
      <4>1. k \in blocks' /\ k # Block(s) /\ k \in [chunk : Nat, at : Nat, size : Nat]
        BY <1>2 DEF PoolInv, PoolTypeOK
      <4>2. k.chunk = data.chunk => data.at + size <= k.at \/ k.at + k.size <= data.at
        BY <2>2, <4>1 DEF PoolInv, BlocksDisjoint
      <4> QED
        BY <4>1, <4>2, NotInBlock
    <3> QED
      BY <3>1, <3>2
  <2>4. Clean(memory, data, str[s].allocated)
    BY <1>2 DEF LeftoverInv
  <2> QED
    BY <2>3, <2>4 DEF Clean
<1> QED
  BY <1>1, <1>2 DEF LeftoverInv

\* A call for one array or string.
LEMMA OneChangeLeaves ==
  ASSUME MemoryInv, LeftoverInv, NEW n \in Names, OneChanges(n), Sound(n)', Live(n)',
         n \in Strings => Clean(memory', str'[n].data, str'[n].allocated)
  PROVE  LeftoverInv'
<1>1. MemoryInv' /\ OthersKept(n)
  BY OneChangeSuffices DEF OneChanges
<1>2. PoolInv' /\ BlocksOwned' /\ Block(n)' \in blocks'
  BY <1>1 DEF MemoryInv, BlocksOwned
<1>3. blocks \subseteq blocks'
  BY DEF OneChanges, pool_alloc, poolvars
<1>4. ASSUME NEW b \in Bytes, memory'[b] # memory[b] PROVE InBlock(b, Block(n)')
  <2> PICK data \in Addresses : data = Header(n).data'
    BY BlockTypeAfter
  <2> PICK room \in Nat : room = Room(n)'
    BY BlockTypeAfter
  <2> PICK size \in Nat : size = Block(n)'.size
    BY BlockTypeAfter
  <2>1. /\ room <= POOLS_GRANULARITY * size
        /\ [chunk |-> Block(n)'.chunk, at |-> Block(n)'.at] = data
    <3>1. data = [chunk |-> data.chunk, at |-> data.at]
      BY DEF Addresses
    <3> QED
      BY <3>1, BlockTypeAfter
  <2>2. InRegion(b, data, 0, room)
    BY <1>4 DEF OneChanges, WritesOnlyIn
  <2>3. POOLS_GRANULARITY * size \in Int /\ 0 + room <= POOLS_GRANULARITY * size
    BY <2>1, ContainersAssumption
  <2>4. InRegion(b, data, 0, POOLS_GRANULARITY * size)
    BY <2>2, <2>3, PartOfRegion
  <2> QED
    BY <2>1, <2>4 DEF InBlock
<1>5. ASSUME NEW s \in Strings, s # n, str'[s] # None
      PROVE  str'[s] = str[s] /\ Block(s) # Block(n)'
  <2>1. s \in Names \ {n} /\ s \notin Arrays
    BY <1>5, ContainersAssumption DEF Names
  <2>2. str'[s] = str[s] /\ Block(s)' = Block(s) /\ Live(s)'
    BY <1>1, <1>5, <2>1, HeadersKept DEF OthersKept, Live, Header
  <2> QED
    BY <1>2, <2>1, <2>2 DEF BlocksOwned
<1>6. \A b \in Bytes : memory'[b] = memory[b] \/ \E k \in {Block(n)'} : InBlock(b, k)
  BY <1>4
<1>7. \A s \in Strings : str'[s] # None =>
        \/ Clean(memory', str'[s].data, str'[s].allocated)
        \/ str'[s] = str[s] /\ Block(s) \notin {Block(n)'}
  BY <1>5
<1> QED
  BY <1>2, <1>3, <1>6, <1>7, LeftoversKept

\* No call: a block may be handed out to others.
LEMMA OthersLeave ==
  ASSUME MemoryInv, LeftoverInv,
         OtherAlloc \/ Fails \/ (PoolOver /\ UNCHANGED contvars) \/ UNCHANGED contvars
  PROVE  LeftoverInv'
<1>1. PoolInv' /\ arr' = arr /\ str' = str
  BY OthersUse DEF MemoryInv, OtherAlloc, Fails, contvars
<1>2. CASE OtherAlloc
  <2> PICK size \in Requests :
        /\ pool_alloc(size)
        /\ memory' = Stored(memory, Place(size), 0, POOLS_GRANULARITY * size, "other")
    BY <1>2 DEF OtherAlloc
  <2> PICK place : place = Place(size)
    OBVIOUS
  <2> PICK k : k = [chunk |-> place.chunk, at |-> place.at, size |-> size]
    OBVIOUS
  <2>1. /\ size \in Nat /\ blocks' = blocks \cup {k}
        /\ place \in [chunk : 0 .. POOLS_NUM_CHUNKS - 1, at : Nat]
        /\ \A b \in blocks : b.chunk = place.chunk => b.at + b.size <= place.at
    BY PlaceProperties, PoolsAssumption DEF pool_alloc, MemoryInv
  <2>2. /\ k.chunk = place.chunk /\ k.at = place.at /\ k.size = size
        /\ place = [chunk |-> k.chunk, at |-> k.at]
    BY <2>1
  <2>3. \A b \in Bytes : memory'[b] = memory[b] \/ \E m \in {k} : InBlock(b, m)
    BY <2>2 DEF Stored, InBlock
  <2>4. ASSUME NEW s \in Strings, str[s] # None PROVE Block(s) # k
    <3>1. /\ Block(s) \in blocks /\ Block(s) \in [chunk : Nat, at : Nat, size : Nat]
          /\ Block(s).size > 0
      BY <2>4, StringNow, BlockType DEF MemoryInv, BlocksOwned
    <3>2. Block(s).chunk = place.chunk => Block(s).at + Block(s).size <= place.at
      BY <2>1, <3>1
    <3> QED
      BY <2>1, <2>2, <3>1, <3>2
  <2>5. \A s \in Strings : str'[s] # None =>
          \/ Clean(memory', str'[s].data, str'[s].allocated)
          \/ str'[s] = str[s] /\ Block(s) \notin {k}
    BY <1>1, <2>4
  <2>6. {k} \subseteq blocks' /\ blocks \subseteq blocks'
    BY <2>1
  <2> QED
    BY <1>1, <2>3, <2>5, <2>6, LeftoversKept
<1>3. CASE ~OtherAlloc
  <2>1. memory' = memory /\ blocks' = blocks
    BY <1>3 DEF Fails, ActiveIsNull, MallocFails, AllocAborts, contvars, poolvars
  <2> PICK none : none = {}
    OBVIOUS
  <2>2. \A s \in Strings : str'[s] # None =>
          \/ Clean(memory', str'[s].data, str'[s].allocated)
          \/ str'[s] = str[s] /\ Block(s) \notin none
    BY <1>1
  <2>3. \A b \in Bytes : memory'[b] = memory[b] \/ \E k \in none : InBlock(b, k)
    BY <2>1
  <2>4. none \subseteq blocks' /\ blocks \subseteq blocks'
    BY <2>1
  <2> QED
    BY <1>1, <2>2, <2>3, <2>4, LeftoversKept
<1> QED
  BY <1>2, <1>3

\* A string whose block is clean behind its NUL.
LEMMA CleanBehind ==
  ASSUME NEW s \in Strings, Live(s)', Sound(s)',
         \A j \in str'[s].length + 1 .. POOLS_GRANULARITY * Padded(str'[s].allocated) - 1 :
           \/ memory'[Byte(str'[s].data, j)] = NUL
           \/ /\ memory'[Byte(str'[s].data, j)] \in Letters
              /\ j < str'[s].allocated - 1 /\ j < MaxChars
  PROVE  Clean(memory', str'[s].data, str'[s].allocated)
<1>1. StringSound(s)'
  BY ContainersAssumption DEF Sound
<1> PICK len \in Nat : len = str'[s].length /\ len <= MaxChars /\ MaxChars \in Nat
  BY <1>1, ContainersAssumption DEF StringSound, StringHeaders
<1> PICK bytes \in Nat : bytes = str'[s].allocated /\ len < bytes
  BY <1>1 DEF StringSound, StringHeaders
<1> PICK size : size = POOLS_GRANULARITY * Padded(bytes)
  OBVIOUS
<1> PICK data : data = str'[s].data
  OBVIOUS
<1>2. /\ \A j \in 0 .. len - 1 : memory'[Byte(data, j)] \in Letters
      /\ memory'[Byte(data, len)] = NUL
  BY <1>1 DEF StringSound, Letters
<1>3. ASSUME NEW j \in 0 .. size - 1
      PROVE  /\ memory'[Byte(data, j)] \in Letters \cup {NUL}
             /\ j >= bytes - 1 \/ j >= MaxChars => memory'[Byte(data, j)] = NUL
  <2>1. CASE j < len
    <3>1. j \in 0 .. len - 1 /\ ~(j >= bytes - 1) /\ ~(j >= MaxChars)
      BY <2>1
    <3> QED
      BY <1>2, <3>1
  <2>2. CASE j = len
    BY <1>2, <2>2
  <2>3. CASE j > len
    <3>1. j \in len + 1 .. size - 1
      BY <2>3
    <3>2. \/ memory'[Byte(data, j)] = NUL
          \/ memory'[Byte(data, j)] \in Letters /\ j < bytes - 1 /\ j < MaxChars
      BY <3>1
    <3> QED
      BY <3>2
  <2> QED
    BY <2>1, <2>2, <2>3
<1> QED
  BY <1>3 DEF Clean, Letters

\* A string that is made, or becomes longer.
LEMMA CreateClean ==
  ASSUME MemoryInv, LeftoverInv, NEW s \in Strings, NEW text \in Seq(Letters),
         Len(text) <= MaxChars, Create(s, text)
  PROVE  Clean(memory', str'[s].data, str'[s].allocated)
<1> PICK len \in Nat : len = Len(text)
  OBVIOUS
<1> PICK bytes \in Nat : bytes = len + 1
  OBVIOUS
<1> PICK size : size = Padded(bytes)
  OBVIOUS
<1> PICK data : data = Place(size)
  OBVIOUS
<1> PICK whole : whole = Append(text, NUL)
  OBVIOUS
<1>1. /\ pool_alloc(size) /\ memory' = Written(memory, data, 0, whole)
      /\ str'[s].length = len /\ str'[s].allocated = bytes /\ str'[s].data = data
  BY DEF Create, MemoryInv
<1>2. size \in Nat /\ POOLS_GRANULARITY * size \in Nat /\ Len(whole) = bytes
  <2>1. Len(whole) = bytes
    <3>1. text \in Seq(Letters \cup {NUL}) /\ NUL \in Letters \cup {NUL}
      OBVIOUS
    <3> QED
      BY <3>1
  <2> QED
    BY <2>1, PaddedBytes
<1>3. data \in Addresses /\ \A j \in 0 .. POOLS_GRANULARITY * size : Byte(data, j) \in Bytes
  BY <1>1, <1>2, NewBlock
<1>4. ASSUME NEW j \in len + 1 .. POOLS_GRANULARITY * size - 1
      PROVE  memory'[Byte(data, j)] = NUL
  <2>1. /\ j \in Int /\ 0 \in Int /\ Len(whole) \in Int /\ ~(j \in 0 .. 0 + Len(whole) - 1)
        /\ j \in 0 .. POOLS_GRANULARITY * size - 1 /\ j \in 0 .. POOLS_GRANULARITY * size
    BY <1>2
  <2>2. ByteWritten(memory, data, 0, whole, j)
    BY <1>3, <2>1, AfterWritten
  <2>3. memory[Byte(data, j)] = NUL
    <3>1. /\ MemoryInv /\ LeftoverInv /\ size \in Nat /\ pool_alloc(size) /\ data = Place(size)
          /\ j \in 0 .. POOLS_GRANULARITY * size - 1
      BY <1>1, <1>2, <2>1
    <3> QED
      BY ONLY <3>1, NewBlockClear
  <2> QED
    BY <1>1, <2>1, <2>2, <2>3 DEF ByteWritten
<1>5. Live(s)' /\ Sound(s)'
  BY StringCreate
<1> QED
  BY <1>1, <1>4, <1>5, CleanBehind

LEMMA AppendClean ==
  ASSUME MemoryInv, LeftoverInv, NEW s \in Strings, NEW text \in Seq(Letters),
         AppendText(s, text)
  PROVE  Clean(memory', str'[s].data, str'[s].allocated)
<1> PICK n \in Nat : n = Len(text)
  OBVIOUS
<1> PICK old : old = str[s].data
  OBVIOUS
<1>1. /\ str[s] # None /\ str[s] \in StringHeaders /\ s \in Names /\ Live(s)
      /\ Header(s) = str[s] /\ Room(s) = str[s].allocated
      /\ PoolInv /\ BlocksOwned /\ Sound(s) /\ DOMAIN str = Strings
  BY StringNow DEF AppendText, MemoryInv
<1> PICK len \in Nat : len = str[s].length
  BY <1>1, ContainersAssumption DEF StringHeaders
<1> PICK bytes \in Nat : bytes = str[s].allocated
  BY <1>1 DEF StringHeaders
<1> PICK whole : whole = Append(text, NUL) /\ Len(whole) = n + 1
  <2>1. text \in Seq(Letters \cup {NUL}) /\ NUL \in Letters \cup {NUL}
    OBVIOUS
  <2>2. Len(Append(text, NUL)) = n + 1
    BY <2>1
  <2> QED
    BY <2>2
<1>2. Live(s)' /\ Sound(s)'
  BY StringAppend
<1>3. CASE Grows(s, n)
  <2> PICK minSize \in Nat : minSize = len + n + 1
    OBVIOUS
  <2> PICK room \in Nat : room = minSize * 2
    OBVIOUS
  <2> PICK size : size = Padded(room)
    OBVIOUS
  <2> PICK data : data = Place(size)
    OBVIOUS
  <2> PICK mem : mem = Moved(memory, data, 0, old, 0, minSize)
    OBVIOUS
  <2>1. /\ pool_alloc(size) /\ memory' = Written(mem, data, len, whole)
        /\ str'[s].length = len + n /\ str'[s].allocated = room /\ str'[s].data = data
    BY <1>1, <1>3 DEF AppendText, Reallocated
  <2>2. size \in Nat
    BY PaddedBytes
  <2> PICK top \in Nat : top = POOLS_GRANULARITY * size
    BY PaddedBytes
  <2>3. data \in Addresses /\ \A j \in 0 .. POOLS_GRANULARITY * size : Byte(data, j) \in Bytes
    BY <2>1, <2>2, NewBlock
  <2>4. ASSUME NEW j \in len + n + 1 .. top - 1
        PROVE  memory'[Byte(data, j)] = NUL
    <3>1. /\ j \in Int /\ 0 \in Int /\ len \in Int /\ minSize \in Int /\ Len(whole) \in Int
          /\ ~(j \in len .. len + Len(whole) - 1) /\ ~(j \in 0 .. 0 + minSize - 1)
          /\ j \in 0 .. POOLS_GRANULARITY * size - 1 /\ j \in 0 .. POOLS_GRANULARITY * size
      <4>1. /\ len \in Nat /\ n \in Nat /\ top \in Nat /\ minSize = len + n + 1
            /\ j \in len + n + 1 .. top - 1 /\ top = POOLS_GRANULARITY * size /\ Len(whole) = n + 1
        OBVIOUS
      <4>2. j \in 0 .. top - 1 /\ j \in 0 .. top
        BY ONLY <4>1
      <4>3. j \in Int /\ ~(j \in len .. len + (n + 1) - 1) /\ ~(j \in 0 .. 0 + minSize - 1)
        BY ONLY <4>1
      <4> QED
        BY ONLY <4>1, <4>2, <4>3
    <3>2. Byte(data, j) \in Bytes
      BY <2>3, <3>1
    <3>3. ByteWritten(mem, data, len, whole, j)
      BY ONLY <2>3, <3>1, <3>2, AfterWritten
    <3>4. ByteMoved(memory, data, 0, old, 0, minSize, j)
      BY ONLY <2>3, <3>1, <3>2, AfterMoved
    <3>5. memory[Byte(data, j)] = NUL
      <4>1. /\ MemoryInv /\ LeftoverInv /\ size \in Nat /\ pool_alloc(size) /\ data = Place(size)
            /\ j \in 0 .. POOLS_GRANULARITY * size - 1
        BY <2>1, <2>2, <3>1
      <4> QED
        BY ONLY <4>1, NewBlockClear
    <3> QED
      BY <2>1, <3>1, <3>3, <3>4, <3>5 DEF ByteWritten, ByteMoved
  <2> QED
    BY <1>2, <2>1, <2>4, CleanBehind
<1>4. CASE ~Grows(s, n)
  <2>1. /\ memory' = Written(memory, old, len, whole)
        /\ str'[s].length = len + n /\ str'[s].allocated = bytes /\ str'[s].data = old
    BY <1>1, <1>4 DEF AppendText
  <2> PICK top \in Nat : top = POOLS_GRANULARITY * Padded(bytes)
    BY PaddedBytes
  <2>2. old \in Addresses /\ MaxChars \in Nat
    BY <1>1, ContainersAssumption DEF StringHeaders
  <2>3. ASSUME NEW j \in 0 .. top - 1 PROVE Byte(old, j) \in Bytes
    BY <1>1, OwnBlockBytes DEF Block
  <2>4. Clean(memory, old, bytes)
    BY <1>1 DEF LeftoverInv
  <2>5. ASSUME NEW j \in len + n + 1 .. top - 1
        PROVE  \/ memory'[Byte(old, j)] = NUL
               \/ memory'[Byte(old, j)] \in Letters /\ j < bytes - 1 /\ j < MaxChars
    <3>1. /\ j \in Int /\ len \in Int /\ Len(whole) \in Int
          /\ ~(j \in len .. len + Len(whole) - 1) /\ j \in 0 .. top - 1
      OBVIOUS
    <3>2. Byte(old, j) \in Bytes
      BY <2>3, <3>1
    <3>3. ByteWritten(memory, old, len, whole, j)
      BY ONLY <2>2, <3>1, <3>2, AfterWritten
    <3>4. memory'[Byte(old, j)] = memory[Byte(old, j)]
      BY <2>1, <3>1, <3>3 DEF ByteWritten
    <3>5. /\ memory[Byte(old, j)] \in Letters \cup {NUL}
          /\ j >= bytes - 1 \/ j >= MaxChars => memory[Byte(old, j)] = NUL
      BY <2>4, <3>1 DEF Clean, Letters
    <3> QED
      BY <2>2, <3>1, <3>4, <3>5
  <2> QED
    BY <1>2, <2>1, <2>5, CleanBehind
<1> QED
  BY <1>3, <1>4

\* Two strings at once.
LEMMA SplitLeaves ==
  ASSUME MemoryInv, LeftoverInv, NEW s \in Strings, NEW t \in Strings, str[s] # None,
         SplitWords(s, t)
  PROVE  LeftoverInv'
<1> PICK i, size, whole : i \in Nat /\ size \in Nat /\ SplitInMemory(s, t, i, size, whole)
  BY StringSplit
<1> PICK data : data = Place(size)
  OBVIOUS
<1> PICK old : old = str[s].data
  OBVIOUS
<1> PICK bytes : bytes = str[s].allocated
  OBVIOUS
<1> PICK mem : mem = Written(memory, data, 0, whole)
  OBVIOUS
<1>1. /\ MemoryInv' /\ Live(s) /\ Live(s)' /\ Live(t)' /\ s \in Names /\ t \in Names
      /\ Block(s)' = Block(s) /\ s \notin Arrays /\ t \notin Arrays /\ s # t
  BY StringSplit, ContainersAssumption DEF SplitWords
<1>2. /\ pool_alloc(size) /\ i + 1 <= bytes /\ Len(whole) = str'[t].length + 1
      /\ memory' = Stored(mem, old, i, 1, NUL)
      /\ str'[s].data = old /\ str'[s].allocated = bytes
      /\ str'[t].data = data /\ size = Padded(str'[t].allocated) /\ str'[t].allocated = Len(whole)
      /\ \A m \in Strings \ {s, t} : str'[m] = str[m]
  BY DEF SplitInMemory
<1>3. /\ PoolInv /\ PoolInv' /\ BlocksOwned /\ BlocksOwned' /\ Sound(s) /\ Sound(t)'
      /\ Header(s) = str[s] /\ Room(s) = bytes /\ blocks \subseteq blocks'
      /\ bytes \in Nat /\ old \in Addresses
  BY <1>1, <1>2, StringNow DEF MemoryInv, pool_alloc, StringHeaders
<1> PICK len \in Nat : len = str'[t].length /\ Len(whole) = len + 1
  BY <1>1, <1>2, <1>3, ContainersAssumption DEF Sound, StringSound, StringHeaders
<1> PICK top \in Nat : top = POOLS_GRANULARITY * size /\ len + 1 <= top
  <2> PICK m \in Nat : m = len + 1
    OBVIOUS
  <2>1. size = Padded(m)
    BY <1>2
  <2> QED
    BY <2>1, PaddedBytes
<1> PICK end \in Nat : end = POOLS_GRANULARITY * Padded(bytes) /\ bytes <= end
  BY <1>3, PaddedBytes
<1>4. /\ data \in Addresses /\ \A j \in 0 .. top : Byte(data, j) \in Bytes
      /\ \A b \in blocks : b.chunk = data.chunk => b.at + b.size <= data.at
  <2>1. \A b \in blocks : b.chunk = Place(size).chunk => b.at + b.size <= Place(size).at
    BY <1>2, <1>3, PlaceProperties
  <2> QED
    BY <1>2, <2>1, NewBlock
<1> PICK mine : mine = Block(s)
  OBVIOUS
<1> PICK its : its = Block(t)'
  OBVIOUS
<1>5. /\ mine \in blocks /\ mine \in blocks' /\ its \in blocks'
      /\ mine.chunk = old.chunk /\ mine.at = old.at /\ mine.size = Padded(bytes)
      /\ mine.size \in Nat
      /\ its.chunk = data.chunk /\ its.at = data.at /\ its.size = size
  <2>1. mine \in blocks /\ mine \in blocks' /\ its \in blocks'
    BY <1>1, <1>3 DEF BlocksOwned
  <2>2. mine.chunk = old.chunk /\ mine.at = old.at /\ mine.size = Padded(bytes)
    BY <1>3 DEF Block
  <2>3. its.chunk = data.chunk /\ its.at = data.at /\ its.size = size
    BY <1>1, <1>2 DEF Block, Header, Room
  <2> QED
    BY <1>3, <2>1, <2>2, <2>3, PaddedBytes
\* What is written is in these two blocks.
<1>6. /\ [chunk |-> mine.chunk, at |-> mine.at] = old
      /\ [chunk |-> its.chunk, at |-> its.at] = data
  BY <1>3, <1>4, <1>5 DEF Addresses
<1>7. ASSUME NEW b \in Bytes, memory'[b] # memory[b] PROVE InBlock(b, mine) \/ InBlock(b, its)
  <2>1. InRegion(b, old, i, 1) \/ InRegion(b, data, 0, Len(whole))
    BY <1>2, <1>7 DEF Stored, Written
  <2>2. /\ i \in Nat /\ 0 \in Nat /\ 1 \in Int /\ Len(whole) \in Int /\ end \in Int /\ top \in Int
        /\ i + 1 <= end /\ 0 + Len(whole) <= top
    BY <1>2, <1>3
  <2>3. InRegion(b, old, i, 1) => InRegion(b, old, 0, end)
    BY ONLY <1>3, <2>2, b \in Bytes, PartOfRegion
  <2>4. InRegion(b, data, 0, Len(whole)) => InRegion(b, data, 0, top)
    BY ONLY <1>4, <2>2, b \in Bytes, PartOfRegion
  <2> QED
    BY <1>5, <1>6, <2>1, <2>3, <2>4 DEF InBlock
\* The string that is split ...
<1>8. Clean(memory', old, bytes)
  <2>1. InMemory(old, bytes)
    BY <1>1, <1>3, OwnBlockBytes DEF InMemory, Block
  <2>2. ASSUME NEW j \in 0 .. end - 1 PROVE mem[Byte(old, j)] = memory[Byte(old, j)]
    <3>1. Byte(old, j) \in Bytes
      BY <2>1 DEF InMemory
    <3>2. /\ Padded(bytes) \in Nat /\ size \in Nat /\ Len(whole) \in Nat
          /\ Len(whole) <= POOLS_GRANULARITY * size
          /\ j \in 0 .. POOLS_GRANULARITY * Padded(bytes) - 1
          /\ old.chunk = data.chunk =>
               old.at + Padded(bytes) <= data.at \/ data.at + size <= old.at
      BY <1>4, <1>5
    <3>3. ~InRegion(Byte(old, j), data, 0, Len(whole))
      BY ONLY <1>3, <1>4, <3>2, InOtherRegion
    <3> QED
      BY <3>1, <3>3 DEF Written
  <2>3. Clean(memory, old, bytes)
    BY DEF LeftoverInv
  <2>4. Clean(mem, old, bytes)
    BY <2>2, <2>3 DEF Clean
  <2>5. i \in Int /\ 1 \in Int
    OBVIOUS
  <2>6. Clean(Stored(mem, old, i, 1, NUL), old, bytes)
    BY ONLY <1>3, <2>1, <2>4, <2>5, ClearedIsClean
  <2> QED
    BY <1>2, <2>6
\* ... and the new one.
<1>9. Clean(memory', str'[t].data, str'[t].allocated)
  <2>1. ASSUME NEW j \in len + 1 .. top - 1 PROVE memory'[Byte(data, j)] = NUL
    <3>1. /\ j \in Int /\ 0 \in Int /\ Len(whole) \in Int /\ ~(j \in 0 .. 0 + Len(whole) - 1)
          /\ j \in 0 .. POOLS_GRANULARITY * size - 1 /\ j \in 0 .. top
      OBVIOUS
    <3>2. Byte(data, j) \in Bytes
      BY <1>4, <3>1
    <3>3. ByteWritten(memory, data, 0, whole, j)
      BY ONLY <1>4, <3>1, <3>2, AfterWritten
    <3>4. memory[Byte(data, j)] = NUL
      <4>1. /\ MemoryInv /\ LeftoverInv /\ size \in Nat /\ pool_alloc(size) /\ data = Place(size)
            /\ j \in 0 .. POOLS_GRANULARITY * size - 1
        BY <1>2, <3>1
      <4> QED
        BY ONLY <4>1, NewBlockClear
    <3>5. mem[Byte(data, j)] = NUL
      BY <3>1, <3>3, <3>4 DEF ByteWritten
    <3> QED
      BY <1>2, <3>2, <3>5 DEF Stored
  <2> QED
    BY <1>1, <1>2, <1>3, <2>1, CleanBehind
<1>10. ASSUME NEW m \in Strings, str'[m] # None, m # s, m # t
       PROVE  str'[m] = str[m] /\ Block(m) # mine /\ Block(m) # its
  <2>1. str'[m] = str[m] /\ m \in Names /\ m \notin Arrays
    BY <1>2, <1>10, ContainersAssumption DEF Names
  <2>2. Block(m)' = Block(m) /\ Live(m)'
    BY <1>10, <2>1 DEF Block, Header, Room, Live
  <2> QED
    BY <1>1, <1>3, <1>10, <2>1, <2>2 DEF BlocksOwned
<1> PICK K : K = {mine, its}
  OBVIOUS
<1>11. K \subseteq blocks'
  BY <1>5
<1>12. \A b \in Bytes : memory'[b] = memory[b] \/ \E k \in K : InBlock(b, k)
  BY <1>7
<1>13. \A m \in Strings : str'[m] # None =>
         \/ Clean(memory', str'[m].data, str'[m].allocated)
         \/ str'[m] = str[m] /\ Block(m) \notin K
  BY <1>2, <1>8, <1>9, <1>10
<1> QED
  BY <1>3, <1>11, <1>12, <1>13, LeftoversKept

\* Behind the NUL of an empty string there is another one in its block, and
\* what is up to that are characters.
LEMMA EndOfLeftovers ==
  ASSUME MemoryInv, LeftoverInv, NEW s \in Strings, str[s] # None
  PROVE  \E e \in 1 .. POOLS_GRANULARITY * Padded(str[s].allocated) - 1 :
           /\ memory[Byte(str[s].data, e)] = NUL /\ e <= 1 + MaxChars
           /\ \A j \in 0 .. e : /\ Byte(str[s].data, j) \in Bytes
                               /\ memory[Byte(str[s].data, j)] \in Letters \cup {NUL}
<1>1. /\ str[s] \in StringHeaders /\ s \in Names /\ Live(s) /\ str[s].length < str[s].allocated
      /\ Header(s) = str[s] /\ Room(s) = str[s].allocated
      /\ PoolInv /\ BlocksOwned /\ Sound(s)
  BY StringNow DEF MemoryInv
<1> PICK data : data = str[s].data
  OBVIOUS
<1> PICK bytes \in Nat : bytes = str[s].allocated /\ bytes > 0
  BY <1>1, ContainersAssumption DEF StringHeaders
<1> PICK size \in Nat : /\ size = POOLS_GRANULARITY * Padded(bytes)
                        /\ bytes <= size /\ size > 1
  <2> PICK longs \in Nat : longs = Padded(bytes) /\ longs > 0
    BY PaddedCovers
  <2>1. POOLS_GRANULARITY * longs > 1
    <3>1. POOLS_GRANULARITY * 1 <= POOLS_GRANULARITY * longs
      BY ContainersAssumption, TimesMonotone
    <3> QED
      BY <3>1, LongAssumption, ContainersAssumption
  <2> QED
    BY <2>1, PaddedBytes
<1> PICK most \in Nat : most = MaxChars
  BY ContainersAssumption
<1>2. PICK e \in 1 .. size - 1 : (e >= bytes - 1 \/ e >= most) /\ e <= 1 + most
  <2>1. CASE bytes <= 2 \/ most = 0
    <3>1. 1 \in 1 .. size - 1 /\ (1 >= bytes - 1 \/ 1 >= most) /\ 1 <= 1 + most
      BY <2>1
    <3> QED
      BY <3>1
  <2>2. CASE ~(bytes <= 2 \/ most = 0) /\ most <= bytes - 1
    <3>1. most \in 1 .. size - 1 /\ most >= most /\ most <= 1 + most
      BY <2>2
    <3> QED
      BY <3>1
  <2>3. CASE ~(bytes <= 2 \/ most = 0) /\ ~(most <= bytes - 1)
    <3> PICK k \in 1 .. size - 1 : k = bytes - 1
      BY <2>3
    <3>1. (k >= bytes - 1 \/ k >= most) /\ k <= 1 + most
      BY <2>3
    <3> QED
      BY <3>1
  <2> QED
    BY <2>1, <2>2, <2>3
<1>3. ASSUME NEW j \in 0 .. size - 1
      PROVE  /\ Byte(data, j) \in Bytes /\ memory[Byte(data, j)] \in Letters \cup {NUL}
             /\ j >= bytes - 1 \/ j >= most => memory[Byte(data, j)] = NUL
  <2>1. Byte(data, j) \in Bytes
    BY <1>1, OwnBlockBytes DEF Block
  <2> QED
    BY <2>1 DEF LeftoverInv, Clean, Letters
<1>4. e \in 0 .. size - 1 /\ \A j \in 0 .. e : j \in 0 .. size - 1
  OBVIOUS
<1>5. /\ memory[Byte(data, e)] = NUL
      /\ \A j \in 0 .. e : Byte(data, j) \in Bytes /\ memory[Byte(data, j)] \in Letters \cup {NUL}
  BY <1>2, <1>3, <1>4
<1> QED
  BY <1>2, <1>5

LEMMA LeftoverText ==
  ASSUME MemoryInv, LeftoverInv, NEW s \in Strings, str[s] # None
  PROVE  /\ CString(memory, str[s].data, 1) \in Seq(Letters)
         /\ Len(CString(memory, str[s].data, 1)) <= MaxChars
<1> PICK data : data = str[s].data
  OBVIOUS
<1> PICK most \in Nat : most = MaxChars
  BY ContainersAssumption
<1>1. PICK e \in Nat :
        /\ 1 <= e /\ memory[Byte(data, e)] = NUL /\ e <= 1 + most
        /\ \A j \in 0 .. e : Byte(data, j) \in Bytes /\ memory[Byte(data, j)] \in Letters \cup {NUL}
  <2> PICK e \in 1 .. POOLS_GRANULARITY * Padded(str[s].allocated) - 1 :
        /\ memory[Byte(data, e)] = NUL /\ e <= 1 + MaxChars
        /\ \A j \in 0 .. e : Byte(data, j) \in Bytes /\ memory[Byte(data, j)] \in Letters \cup {NUL}
    BY EndOfLeftovers
  <2>1. e \in Nat /\ 1 <= e
    OBVIOUS
  <2> QED
    BY <2>1
<1> DEFINE S == { i \in 1 .. 1 + most : Read(memory, Byte(data, i)) \in {NUL, "outside"} }
<1>2. ASSUME NEW j \in 0 .. e PROVE Read(memory, Byte(data, j)) = memory[Byte(data, j)]
  BY <1>1 DEF Read
<1>3. e \in S /\ S \subseteq Nat
  <2>1. e \in 0 .. e /\ e \in 1 .. 1 + most
    BY <1>1
  <2> QED
    BY <1>1, <1>2, <2>1
<1>4. PICK m \in S : m = Min(S) /\ \A i \in S : m <= i
  <2> HIDE DEF S
  <2> QED
    BY <1>3, MinOf
<1>5. m \in 1 .. 1 + most /\ m <= e
  BY <1>3, <1>4
<1>6. ASSUME NEW j \in 1 .. m - 1 PROVE memory[Byte(data, j)] \in Letters
  <2>1. j \in 0 .. e /\ j \in 1 .. 1 + most /\ ~(m <= j)
    BY <1>5
  <2>2. j \notin S
    BY <1>4, <2>1
  <2> QED
    BY <1>1, <1>2, <2>1, <2>2
<1>7. CString(memory, data, 1) = [i \in 1 .. m - 1 |-> memory[Byte(data, 1 + i - 1)]]
  BY <1>4 DEF CString
<1> HIDE DEF S
<1>8. \A i \in 1 .. m - 1 : 1 + i - 1 = i
  OBVIOUS
<1>9. CString(memory, data, 1) = [i \in 1 .. m - 1 |-> memory[Byte(data, i)]]
  BY <1>7, <1>8
<1> PICK len \in Nat : len = m - 1 /\ len <= most
  BY <1>5
<1>10. /\ CString(memory, data, 1) = [i \in 1 .. len |-> memory[Byte(data, i)]]
       /\ \A i \in 1 .. len : memory[Byte(data, i)] \in Letters
  BY <1>6, <1>9
<1> QED
  BY <1>10

-----------------------------------------------------------------------------
(* The calls, as what they do to the list of their array or string, and    *)
(* the step of the invariant.                                              *)

\* What a client sees of a call for n.
ListChanges(n) ==
  LET old == Contents(n)
      new == Contents(n)'
  IN \/ /\ old = None
        /\ \/ new = << >>
           \/ \E text \in Texts : \E k \in 1 .. Len(text) : new = SubSeq(text, 1, k)
           \/ \E m \in Names : Live(m) /\ new = Contents(m)
     \/ /\ Live(n)
        /\ \/ D!Added(old, new) \/ D!Extended(old, new)
           \/ D!Removed(old, new) \/ D!Changed(old, new)
           \/ D!Cut(old, new) \/ D!Trimmed(old, new)
Changes(n) ==
  /\ OneChanges(n) /\ Live(n)' /\ Sound(n)' /\ n \in Names
  /\ n \in Strings => Clean(memory', str'[n].data, str'[n].allocated)
CallFor(n) == Changes(n) /\ ListChanges(n)

LEMMA TextIsLetters ==
  ASSUME NEW text \in Texts
  PROVE  text \in Seq(Letters) /\ Len(text) <= MaxChars /\ Len(text) \in Nat
BY TextsAssumption DEF Letters

LEMMA CreateCall ==
  ASSUME MemoryInv, LeftoverInv, NEW s \in Strings, NEW text \in Texts, NEW k \in 0 .. Len(text),
         Create(s, SubSeq(text, 1, k))
  PROVE  CallFor(s)
<1> PICK part : part = SubSeq(text, 1, k)
  OBVIOUS
<1>1. part \in Seq(Letters) /\ Len(part) = k /\ k <= MaxChars
  <2>1. /\ SubSeq(text, 0 + 1, k) \in Seq(Letters) /\ Len(SubSeq(text, 0 + 1, k)) = k - 0
        /\ Len(text) \in Nat /\ Len(text) <= MaxChars
    BY TextIsLetters, PartOfText
  <2> QED
    BY <2>1, ContainersAssumption
<1>2. /\ OneChanges(s) /\ Live(s)' /\ Sound(s)' /\ s \in Names
      /\ Contents(s) = None /\ Contents(s)' = part
  BY <1>1, StringCreate
<1> Changes(s)
  BY <1>1, <1>2, CreateClean DEF Changes
<1>3. CASE k = 0
  <2>1. part = << >>
    BY <1>1, <1>3, EmptySeq
  <2> QED
    BY <1>2, <2>1 DEF CallFor, ListChanges
<1>4. CASE k # 0
  <2>1. k \in 1 .. Len(text)
    BY <1>4, TextIsLetters
  <2> QED
    BY <1>2, <2>1 DEF CallFor, ListChanges
<1> QED
  BY <1>3, <1>4

LEMMA NewCall ==
  ASSUME MemoryInv, LeftoverInv, NEW s \in Strings, Create(s, << >>)
  PROVE  CallFor(s)
<1>1. << >> \in Seq(Letters) /\ Len(<< >>) <= MaxChars
  BY ContainersAssumption
<1>2. /\ OneChanges(s) /\ Live(s)' /\ Sound(s)' /\ s \in Names
      /\ Contents(s) = None /\ Contents(s)' = << >>
  BY <1>1, StringCreate
<1>3. Changes(s)
  BY <1>1, <1>2, CreateClean DEF Changes
<1> QED
  BY <1>2, <1>3 DEF CallFor, ListChanges

LEMMA AppendCall ==
  ASSUME MemoryInv, LeftoverInv, NEW s \in Strings,
         \/ \E text \in Texts : AppendText(s, text)
         \/ \E c \in Chars : AppendText(s, <<c>>)
  PROVE  CallFor(s)
<1>1. ASSUME NEW text \in Texts, AppendText(s, text) PROVE CallFor(s)
  <2>1. /\ OneChanges(s) /\ Live(s)' /\ Sound(s)' /\ s \in Names /\ Live(s)
        /\ Contents(s)' = Contents(s) \o text
    BY <1>1, TextIsLetters, StringAppend
  <2>2. Changes(s)
    BY <1>1, <2>1, TextIsLetters, AppendClean DEF Changes
  <2> QED
    BY <2>1, <2>2 DEF CallFor, ListChanges, D!Extended
<1>2. ASSUME NEW c \in Chars, AppendText(s, <<c>>) PROVE CallFor(s)
  <2>1. <<c>> \in Seq(Letters) /\ c \in Items
    <3>1. c \in Letters
      BY DEF Letters
    <3>2. c \in Items
      BY DEF Items
    <3> QED
      BY <3>1, <3>2
  <2>2. /\ OneChanges(s) /\ Live(s)' /\ Sound(s)' /\ s \in Names /\ Live(s)
        /\ Contents(s)' = Contents(s) \o <<c>>
    BY <1>2, <2>1, StringAppend
  <2>3. Contents(s) \in Seq(Letters)
    <3>1. str[s] # None
      BY <1>2 DEF AppendText
    <3> QED
      BY <3>1, StringNow
  <2>4. Contents(s) \o <<c>> = Append(Contents(s), c)
    BY <2>3, <2>1 DEF Letters
  <2>5. Changes(s)
    BY <1>2, <2>1, <2>2, AppendClean DEF Changes
  <2> QED
    BY <2>1, <2>2, <2>4, <2>5 DEF CallFor, ListChanges, D!Added
<1> QED
  BY <1>1, <1>2

LEMMA ArrayCall ==
  ASSUME MemoryInv, NEW a \in Arrays,
         \/ dynarr_init(a)
         \/ arr[a] # None /\ arr[a].length < Len(Pointers[a])
              /\ dynarr_append(a, Pointers[a][arr[a].length + 1])
         \/ \E i \in 0 .. Len(Pointers[a]) - 1 : dynarr_remove(a, i) \/ dynarr_set(a, i, Replacement)
  PROVE  CallFor(a)
<1> a \notin Strings
  BY ContainersAssumption
<1>1. CASE dynarr_init(a)
  <2>1. /\ OneChanges(a) /\ Live(a)' /\ Sound(a)' /\ a \in Names
        /\ Contents(a) = None /\ Contents(a)' = << >>
    BY <1>1, ArrayInit
  <2> QED
    BY <2>1 DEF CallFor, Changes, ListChanges
<1>2. CASE /\ arr[a] # None /\ arr[a].length < Len(Pointers[a])
           /\ dynarr_append(a, Pointers[a][arr[a].length + 1])
  <2> PICK x \in ItemsOf(a) : x = Pointers[a][arr[a].length + 1] /\ x \in Items
    <3>1. arr[a].length \in Nat
      BY <1>2, ArrayNow DEF ArrayHeaders
    <3>2. arr[a].length + 1 \in DOMAIN Pointers[a]
      BY <1>2, <3>1, ContainersAssumption
    <3>3. Pointers[a][arr[a].length + 1] \in ItemsOf(a)
      BY <3>2 DEF ItemsOf
    <3> QED
      BY <3>3 DEF Items
  <2>1. /\ OneChanges(a) /\ Live(a)' /\ Sound(a)' /\ a \in Names
        /\ Contents(a)' = Append(Contents(a), x)
    BY <1>2, ArrayAppend
  <2>2. Live(a)
    BY <1>2 DEF Live, Header
  <2> QED
    BY <2>1, <2>2 DEF CallFor, Changes, ListChanges, D!Added
<1>3. ASSUME NEW i \in 0 .. Len(Pointers[a]) - 1, dynarr_remove(a, i) PROVE CallFor(a)
  <2>1. /\ OneChanges(a) /\ Live(a)' /\ Sound(a)' /\ a \in Names /\ Live(a)
        /\ i + 1 \in 1 .. Len(Contents(a))
        /\ Contents(a)' = D!Without(Contents(a), i + 1)
    BY <1>3, ArrayRemove, ContainersAssumption
  <2> PICK k \in 1 .. Len(Contents(a)) : k = i + 1
    BY <2>1
  <2>2. Contents(a)' = D!Without(Contents(a), k)
    BY <2>1
  <2> QED
    BY <2>1, <2>2 DEF CallFor, Changes, ListChanges, D!Removed
<1>4. ASSUME NEW i \in 0 .. Len(Pointers[a]) - 1, dynarr_set(a, i, Replacement) PROVE CallFor(a)
  <2>1. Replacement \in ItemsOf(a) /\ Replacement \in Items
    <3>1. Replacement \in ItemsOf(a)
      BY DEF ItemsOf
    <3> QED
      BY <3>1 DEF Items
  <2>2. /\ OneChanges(a) /\ Live(a)' /\ Sound(a)' /\ a \in Names /\ Live(a)
        /\ i + 1 \in 1 .. Len(Contents(a))
        /\ Contents(a)' = [Contents(a) EXCEPT ![i + 1] = Replacement]
    BY <1>4, <2>1, ArraySet, ContainersAssumption
  <2> QED
    BY <2>1, <2>2 DEF CallFor, Changes, ListChanges, D!Changed
<1> QED
  BY <1>1, <1>2, <1>3, <1>4

\* What a client sees of a string that is split into itself and t.
ListSplit(s, t) ==
  /\ s \in Names /\ t \in Names /\ Live(s) /\ Contents(t) = None
  /\ \A m \in Names \ {s, t} : Contents(m)' = Contents(m)
  /\ \E i \in 1 .. Len(Contents(s)) :
       /\ Contents(s)[i] \in Blanks /\ \A j \in 1 .. i - 1 : Contents(s)[j] \notin Blanks
       /\ Contents(s)' = SubSeq(Contents(s), 1, i - 1)
       /\ Contents(t)' = SubSeq(Contents(s), i + 1, Len(Contents(s)))

\* What is known of t when s, which is split, is empty.
EmptySplit(s, t) ==
  /\ ds_split_ws(s, t) /\ str[s] # None /\ str[s].length = 0
  /\ Changes(t) /\ Contents(t) = None /\ Contents(t)' \in Seq(Letters)

\* Each step is a call for one array or string, a split, or no call at all.
LEMMA EveryStep ==
  ASSUME MemoryInv, LeftoverInv, [MemoryNext]_contvars
  PROVE  \/ MemoryInv' /\ LeftoverInv' /\ \A m \in Names : Contents(m)' = Contents(m)
         \/ \E n \in Names : CallFor(n)
         \/ MemoryInv' /\ LeftoverInv' /\ \E s, t \in Strings : ListSplit(s, t)
         \/ \E s, t \in Strings : EmptySplit(s, t)
<1>1. CASE Other \/ UNCHANGED contvars
  BY <1>1, OthersUse, OthersLeave DEF Other
<1>2. CASE Edit
  <2>1. PICK a \in Arrays : \E i \in 0 .. Len(Pointers[a]) - 1 :
               dynarr_remove(a, i) \/ dynarr_set(a, i, Replacement)
    BY <1>2 DEF Edit
  <2> QED
    BY <2>1, ArrayCall DEF CallFor, Changes
<1>3. CASE Grow
  <2>1. ASSUME NEW a \in Arrays,
               \/ dynarr_init(a)
               \/ arr[a] # None /\ arr[a].length < Len(Pointers[a])
                    /\ dynarr_append(a, Pointers[a][arr[a].length + 1])
        PROVE  \E n \in Names : CallFor(n)
    BY <2>1, ArrayCall DEF CallFor, Changes
  <2>2. ASSUME NEW s \in Strings, ds_new(s) \/ \E c \in Chars : ds_append_char(s, c)
        PROVE  \E n \in Names : CallFor(n)
    BY <2>2, NewCall, AppendCall DEF CallFor, Changes, ds_new, ds_append_char
  <2> QED
    BY <1>3, <2>1, <2>2 DEF Grow
<1>4. CASE StringNext
  <2> PICK s \in Strings :
        \/ ds_new(s)
        \/ \E text \in Texts :
             \/ ds_new_from(s, text) \/ ds_append_string(s, text)
             \/ \E num \in 0 .. Len(text) : ds_new_from_bytes(s, text, num)
        \/ \E c \in Chars : ds_append_char(s, c)
        \/ \E num \in 0 .. MaxChars : ds_shrink_front(s, num) \/ ds_shrink_rear(s, num)
        \/ ds_remove_rear_ws(s) \/ ds_remove_front_ws(s) \/ ds_remove_outer_ws(s)
        \/ \E t \in Strings : ds_copy(s, t) \/ ds_split_ws(s, t)
    BY <1>4 DEF StringNext
  <2>1. CASE ds_new(s) \/ \E c \in Chars : ds_append_char(s, c)
    BY <2>1, NewCall, AppendCall DEF CallFor, Changes, ds_new, ds_append_char
  <2>2. ASSUME NEW text \in Texts,
               ds_new_from(s, text) \/ \E num \in 0 .. Len(text) : ds_new_from_bytes(s, text, num)
        PROVE  CallFor(s)
    <3>1. CASE ds_new_from(s, text)
      <4>1. SubSeq(text, 1, Len(text)) = text /\ Len(text) \in 0 .. Len(text)
        BY TextIsLetters, WholeText
      <4>2. Create(s, SubSeq(text, 1, Len(text)))
        BY <3>1, <4>1 DEF ds_new_from
      <4> QED
        BY <4>1, <4>2, CreateCall
    <3>2. CASE \E num \in 0 .. Len(text) : ds_new_from_bytes(s, text, num)
      BY <3>2, CreateCall DEF ds_new_from_bytes
    <3> QED
      BY <2>2, <3>1, <3>2
  <2>3. CASE \E text \in Texts : ds_append_string(s, text)
    BY <2>3, AppendCall DEF CallFor, Changes, ds_append_string
  <2>4. CASE \/ \E num \in 0 .. MaxChars : ds_shrink_front(s, num) \/ ds_shrink_rear(s, num)
             \/ ds_remove_rear_ws(s) \/ ds_remove_front_ws(s) \/ ds_remove_outer_ws(s)
    <3>1. /\ OneChanges(s) /\ Live(s)' /\ Sound(s)' /\ s \in Names /\ Live(s)
          /\ D!Cut(Contents(s), Contents(s)') \/ D!Trimmed(Contents(s), Contents(s)')
          /\ Clean(memory, str[s].data, str[s].allocated)
               => Clean(memory', str'[s].data, str'[s].allocated)
      BY <2>4, StringCut
    <3>2. Clean(memory, str[s].data, str[s].allocated)
      <4>1. str[s] # None
        BY <2>4 DEF ds_shrink_front, ds_shrink_rear, ds_remove_front_ws, ds_remove_rear_ws,
                    ds_remove_outer_ws, Shortens
      <4> QED
        BY <4>1 DEF LeftoverInv
    <3> QED
      BY <3>1, <3>2 DEF CallFor, Changes, ListChanges
  <2>5. ASSUME NEW t \in Strings, ds_copy(s, t) PROVE CallFor(s)
    BY <2>5, StringCopy, CreateClean DEF CallFor, Changes, ListChanges
  <2>6. ASSUME NEW t \in Strings, ds_split_ws(s, t)
        PROVE  CallFor(t) \/ (MemoryInv' /\ LeftoverInv' /\ ListSplit(s, t)) \/ EmptySplit(s, t)
    <3>1. CASE SplitNothing(s, t)
      BY <3>1, NewCall DEF SplitNothing
    <3>2. CASE SplitWords(s, t)
      BY <2>6, <3>2, StringSplit, SplitLeaves DEF ListSplit, ds_split_ws
    <3>3. CASE SplitEmpty(s, t)
      <4>1. str[s] # None /\ str[s].length = 0
        BY <2>6, <3>3 DEF ds_split_ws, SplitEmpty
      <4> PICK text \in Seq(Letters) :
            text = CString(memory, str[s].data, 1) /\ Len(text) <= MaxChars
        BY <4>1, LeftoverText
      <4>2. Create(t, text)
        BY <3>3 DEF SplitEmpty
      <4>3. Changes(t) /\ Contents(t) = None /\ Contents(t)' = text
        BY <4>2, StringCreate, CreateClean DEF Changes
      <4> QED
        BY <2>6, <4>1, <4>3 DEF EmptySplit
    <3> QED
      BY <2>6, <3>1, <3>2, <3>3 DEF ds_split_ws
  <2> QED
    BY <2>1, <2>2, <2>3, <2>4, <2>5, <2>6 DEF CallFor, Changes
<1> QED
  BY <1>1, <1>2, <1>3, <1>4 DEF MemoryNext

LEMMA MemoryInvStep ==
  MemoryInv /\ LeftoverInv /\ [MemoryNext]_contvars => MemoryInv' /\ LeftoverInv'
<1>1. ASSUME MemoryInv, LeftoverInv, NEW n \in Names, Changes(n) PROVE MemoryInv' /\ LeftoverInv'
  BY <1>1, OneChangeSuffices, OneChangeLeaves DEF Changes
<1> QED
  BY <1>1, EveryStep DEF CallFor, EmptySplit, Changes

\* Every array and string has a block for itself that holds all of it,
\* whichever calls are made in whichever order, and however the pool is used;
\* and what is left in the block of a string behind its NUL are characters, up
\* to a NUL in the same block.
THEOREM MemoryInvAlways == MemorySpec => [](MemoryInv /\ LeftoverInv)
BY InitMemoryInv, InitLeftoverInv, MemoryInvStep, PTL DEF MemorySpec

\* No array has more elements than its capacity, and no string more characters
\* than its block but one.
THEOREM ContainersTypeAlways == MemorySpec => []TypeOK
<1>1. ASSUME MemoryInv PROVE TypeOK
  <2>1. PoolTypeOK
    BY <1>1 DEF MemoryInv, PoolInv
  <2>2. ASSUME NEW a \in Arrays, arr[a] # None PROVE arr[a].length \in 0 .. arr[a].capacity
    BY <1>1, <2>2, ArrayNow DEF ArrayHeaders
  <2>3. ASSUME NEW s \in Strings, str[s] # None PROVE str[s].length \in 0 .. str[s].allocated - 1
    <3>1. str[s] \in StringHeaders /\ str[s].length < str[s].allocated
      BY <1>1, <2>3, StringNow
    <3> QED
      BY <3>1, ContainersAssumption DEF StringHeaders
  <2> QED
    BY <2>1, <2>2, <2>3 DEF TypeOK
<1> QED
  BY <1>1, MemoryInvAlways, PTL

\* Behind the characters of a string there is always a NUL, and behind that of
\* an empty string, in its block, another one: what ds_split_ws reads of an
\* empty string is in the block of that string.
THEOREM StringsTerminatedAlways == MemorySpec => []StringsTerminated
<1>1. ASSUME MemoryInv, LeftoverInv PROVE StringsTerminated
  <2> SUFFICES ASSUME NEW s \in Strings, str[s] # None
               PROVE  /\ memory[Byte(str[s].data, str[s].length)] = NUL
                      /\ \E j \in 1 .. POOLS_GRANULARITY * Padded(str[s].allocated) - 1 :
                           memory[Byte(str[s].data, j)] = NUL
    BY DEF StringsTerminated
  <2>1. memory[Byte(str[s].data, str[s].length)] = NUL
    BY <1>1, StringNow DEF Holds
  <2>2. \E j \in 1 .. POOLS_GRANULARITY * Padded(str[s].allocated) - 1 :
          memory[Byte(str[s].data, j)] = NUL
    BY <1>1, EndOfLeftovers
  <2> QED
    BY <2>1, <2>2
<1> QED
  BY <1>1, MemoryInvAlways, PTL

\* reallocString reads one byte more than the block has, and pools leave a
\* long behind every block.
THEOREM CopiesInChunkAlways == MemorySpec => []CopiesInChunk
<1>1. ASSUME MemoryInv PROVE CopiesInChunk
  <2> SUFFICES ASSUME NEW s \in Strings, str[s] # None, Grows(s, 1)
               PROVE  Byte(str[s].data, str[s].length + 1) \in Bytes
    BY DEF CopiesInChunk
  <2>1. /\ str[s] \in StringHeaders /\ str[s].length < str[s].allocated
        /\ \A j \in 0 .. str[s].allocated : Byte(str[s].data, j) \in Bytes
    BY <1>1, StringNow
  <2>2. str[s].length + 1 \in 0 .. str[s].allocated
    BY <2>1, ContainersAssumption DEF StringHeaders
  <2> QED
    BY <2>1, <2>2
<1> QED
  BY <1>1, MemoryInvAlways, PTL

-----------------------------------------------------------------------------
(* The refinement of Lists.                                                *)

\* What a client has of an array or string that exists is a list.
LEMMA ContentsAreLists ==
  ASSUME MemoryInv, NEW n \in Names
  PROVE  Contents(n) # None <=> Live(n)
<1>1. CASE ~Live(n)
  BY <1>1 DEF Live, Header, Contents
<1>2. CASE Live(n) /\ n \in Arrays
  <2> PICK c \in Seq(ItemsOf(n)) : c = Contents(n)
    BY <1>2, ArrayNow DEF Live, Header
  <2>1. ItemsOf(n) \subseteq Items \cup Blanks
    BY <1>2 DEF Items
  <2>2. c \in Seq(Items \cup Blanks)
    BY <2>1, SeqMonotonic
  <2> QED
    BY <1>2, <2>2, NoneAssumption
<1>3. CASE Live(n) /\ n \notin Arrays
  <2> PICK c \in Seq(Letters) : c = Contents(n)
    BY <1>3, StringNow DEF Live, Header, Names
  <2>1. Letters \subseteq Items \cup Blanks
    BY DEF Letters, Items
  <2>2. c \in Seq(Items \cup Blanks)
    BY <2>1, SeqMonotonic
  <2> QED
    BY <1>3, <2>2, NoneAssumption
<1> QED
  BY <1>1, <1>2, <1>3

LEMMA InitImplements == Init => D!Init
<1> SUFFICES ASSUME Init PROVE D!Init
  OBVIOUS
<1>1. \A n \in Names : Contents(n) = None
  BY DEF Init, Contents, Names
<1> QED
  BY <1>1 DEF D!Init, Names

LEMMA NextImplements ==
  MemoryInv /\ LeftoverInv /\ [MemoryNext]_contvars
    => [D!Next \/ SplitsEmpty]_([n \in Arrays \cup Strings |-> Contents(n)])
<1> SUFFICES ASSUME MemoryInv, LeftoverInv, [MemoryNext]_contvars
             PROVE  [D!Next \/ SplitsEmpty]_([n \in Arrays \cup Strings |-> Contents(n)])
  OBVIOUS
<1> DEFINE lists == [n \in Arrays \cup Strings |-> Contents(n)]
<1>1. \A n \in Names : lists[n] = Contents(n) /\ lists'[n] = Contents(n)'
  BY DEF Names
<1>2. \A n \in Names : lists[n] # None <=> Live(n)
  BY <1>1, ContentsAreLists
<1>3. ASSUME \A m \in Names : Contents(m)' = Contents(m) PROVE lists' = lists
  BY <1>3 DEF Names
<1>4. ASSUME NEW n \in Names, CallFor(n) PROVE D!OneChanges
  <2>1. \A m \in Names \ {n} : lists'[m] = lists[m]
    BY <1>1, <1>4, OneChangeSuffices DEF CallFor, Changes
  <2>2. CASE Live(n)
             /\ \/ D!Added(lists[n], lists'[n]) \/ D!Extended(lists[n], lists'[n])
                \/ D!Removed(lists[n], lists'[n]) \/ D!Changed(lists[n], lists'[n])
                \/ D!Cut(lists[n], lists'[n]) \/ D!Trimmed(lists[n], lists'[n])
    BY <1>2, <2>1, <2>2 DEF D!OneChanges, Names
  <2>3. CASE /\ lists[n] = None
             /\ \/ lists'[n] = << >>
                \/ \E text \in Texts : \E k \in 1 .. Len(text) : lists'[n] = SubSeq(text, 1, k)
                \/ \E m \in Names : lists[m] # None /\ lists'[n] = lists[m]
    <3>1. D!Created(lists[n], lists'[n])
      BY <2>3 DEF D!Created, Names
    <3> QED
      BY <2>1, <3>1 DEF D!OneChanges, Names
  <2> QED
    BY <1>1, <1>2, <1>4, <2>2, <2>3 DEF CallFor, ListChanges
<1>5. ASSUME NEW s \in Strings, NEW t \in Strings, ListSplit(s, t) PROVE D!Split
  <2>1. /\ s \in Names /\ t \in Names /\ lists[s] # None /\ lists[t] = None
        /\ \A k \in Names \ {s, t} : lists'[k] = lists[k]
        /\ \E i \in 1 .. Len(lists[s]) :
             /\ lists[s][i] \in Blanks /\ \A j \in 1 .. i - 1 : lists[s][j] \notin Blanks
             /\ lists'[s] = SubSeq(lists[s], 1, i - 1)
             /\ lists'[t] = SubSeq(lists[s], i + 1, Len(lists[s]))
    BY <1>1, <1>2, <1>5 DEF ListSplit
  <2> QED
    BY <2>1 DEF D!Split, Names
<1>6. ASSUME NEW s \in Strings, NEW t \in Strings, EmptySplit(s, t) PROVE SplitsEmpty
  <2>1. s \in Names /\ t \in Names /\ Contents(s) = << >> /\ s \notin Arrays
    BY <1>6, StringNow, EmptySeq DEF EmptySplit, Names
  <2>2. \A k \in Names \ {t} : lists'[k] = lists[k]
    BY <1>1, <1>6, OneChangeSuffices DEF EmptySplit, Changes
  <2>3. lists'[t] \in Seq(Items \cup Blanks)
    <3>1. Letters \subseteq Items \cup Blanks
      BY DEF Letters, Items
    <3> QED
      BY <1>1, <1>6, <2>1, <3>1, SeqMonotonic DEF EmptySplit
  <2>4. D!SplitOfEmpty(s, t)
    BY <1>1, <1>6, <2>1, <2>2, <2>3 DEF D!SplitOfEmpty, EmptySplit, Names
  <2> QED
    BY <1>6, <2>4 DEF SplitsEmpty, EmptySplit
<1> QED
  BY <1>3, <1>4, <1>5, <1>6, EveryStep DEF D!Next

\* To its clients every array and string is a list of its own: every step is
\* one of Lists, or ds_split_ws is given an empty string, and then only the
\* string it makes changes, of which nothing more is said.
THEOREM ListsImplemented == MemorySpec => ImplementsLists
<1>1. MemorySpec =>
        /\ D!Init
        /\ [][D!Next \/ SplitsEmpty]_([n \in Arrays \cup Strings |-> Contents(n)])
  BY InitImplements, NextImplements, MemoryInvAlways, PTL DEF MemorySpec
<1> QED
  BY <1>1, PTL DEF ImplementsLists
=============================================================================
