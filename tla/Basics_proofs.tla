---------------------------- MODULE Basics_proofs ----------------------------
(***************************************************************************)
(* Lemmas about the integers of the programs, about sequences, about the   *)
(* natural numbers (induction and recursion, stated for sets and           *)
(* functions, so that no lemma has an operator as a parameter), and about  *)
(* the tree that the grammar gives a chain of operands and operators.      *)
(***************************************************************************)
EXTENDS Words, Grammar, FiniteSetTheorems, SequenceTheorems, TLAPS

\* Every set of natural numbers has a smallest element, since its initial
\* segments 1 .. n are finite and ordered by inclusion.
LEMMA Smallest ==
  ASSUME NEW T, T \subseteq Nat, T # {}
  PROVE  \E m \in T : \A k \in T : m <= k
<1> DEFINE Upto == { 1 .. n : n \in T }
<1>1. Upto \subseteq FiniteSubsetsOf(Nat)
  <2> SUFFICES ASSUME NEW n \in T PROVE 1 .. n \in FiniteSubsetsOf(Nat)
    OBVIOUS
  <2>1. IsFiniteSet(1 .. n)
    BY FS_Interval
  <2> QED
    BY <2>1 DEF FiniteSubsetsOf
<1>2. PICK S \in Upto : \A U \in Upto : ~ (<<U, S>> \in StrictSubsetOrdering(Nat))
  <2>1. IsWellFoundedOn(StrictSubsetOrdering(Nat), FiniteSubsetsOf(Nat))
    BY FS_StrictSubsetOrderingWellFounded
  <2>2. Upto # {}
    OBVIOUS
  <2> HIDE DEF Upto
  <2> QED
    BY <1>1, <2>1, <2>2, WFMin
<1>3. PICK m \in T : S = 1 .. m
  OBVIOUS
<1>4. ASSUME NEW k \in T, k < m PROVE FALSE
  <2>1. <<1 .. k, S>> \in StrictSubsetOrdering(Nat)
    BY <1>3, <1>4 DEF StrictSubsetOrdering
  <2> QED
    BY <1>2, <2>1
<1> QED
  BY <1>4

\* A set of numbers that ends has a greatest one.
LEMMA Greatest ==
  ASSUME NEW n \in Nat, NEW S, S \subseteq 0 .. n, S # {}
  PROVE  \E m \in S : \A k \in S : m >= k
<1> DEFINE T == { n - k : k \in S }
<1>1. T \subseteq Nat /\ T # {}
  <2>1. \A k \in 0 .. n : n - k \in Nat
    OBVIOUS
  <2>2. \A k \in S : n - k \in Nat
    BY <2>1
  <2> QED
    BY <2>2
<1> HIDE DEF T
<1>2. PICK m \in T : \A k \in T : m <= k
  BY <1>1, Smallest
<1>3. PICK i \in S : m = n - i
  BY <1>2 DEF T
<1>4. ASSUME NEW k \in S PROVE i >= k
  <2>1. n - k \in T
    BY DEF T
  <2>2. i \in Nat /\ k \in Nat /\ n - i <= n - k
    BY <1>2, <1>3, <2>1
  <2> QED
    BY <2>2
<1> QED
  BY <1>4

\* Induction: for a property, S is the set of the numbers that have it.
LEMMA Induct ==
  ASSUME NEW S, 0 \in S, \A n \in Nat : n \in S => n + 1 \in S
  PROVE  \A n \in Nat : n \in S
<1> SUFFICES ASSUME Nat \ S # {} PROVE FALSE
  OBVIOUS
<1>1. PICK m \in Nat \ S : \A k \in Nat \ S : m <= k
  BY Smallest
<1>2. m # 0 /\ m - 1 \in Nat /\ m - 1 \in S
  BY <1>1
<1> QED
  BY <1>2

\* f starts with first, and each value is a step from the one before.
RecursiveFunctionExists(V, first, N, step) ==
  \E f \in [0 .. N -> V] :
    \A n \in 0 .. N : f[n] = IF n = 0 THEN first ELSE step[n][f[n - 1]]

\* Recursion: the function a recursive definition over 0 .. N asks for exists.
LEMMA Recursion ==
  ASSUME NEW V, NEW first \in V, NEW N \in Nat, NEW step \in [1 .. N -> [V -> V]]
  PROVE  RecursiveFunctionExists(V, first, N, step)
<1> DEFINE Upto(m) == \E f \in [0 .. m -> V] :
             \A n \in 0 .. m : f[n] = IF n = 0 THEN first ELSE step[n][f[n - 1]]
           S == { m \in Nat : m <= N => Upto(m) }
<1>1. 0 \in S
  <2> DEFINE f == [n \in 0 .. 0 |-> first]
  <2>1. f \in [0 .. 0 -> V] /\ \A n \in 0 .. 0 : f[n] = first /\ n = 0
    OBVIOUS
  <2> QED
    BY <2>1
<1>2. ASSUME NEW m \in Nat, m \in S PROVE m + 1 \in S
  <2> SUFFICES ASSUME m + 1 <= N PROVE Upto(m + 1)
    OBVIOUS
  <2>1. PICK f \in [0 .. m -> V] :
          \A n \in 0 .. m : f[n] = IF n = 0 THEN first ELSE step[n][f[n - 1]]
    BY <1>2
  <2> DEFINE g == [n \in 0 .. m + 1 |-> IF n = m + 1 THEN step[m + 1][f[m]] ELSE f[n]]
  <2>2. m + 1 \in 1 .. N /\ f[m] \in V
    OBVIOUS
  <2>3. g \in [0 .. m + 1 -> V]
    BY <2>2
  <2>4. ASSUME NEW n \in 0 .. m + 1
        PROVE  g[n] = IF n = 0 THEN first ELSE step[n][g[n - 1]]
    <3>1. CASE n = m + 1
      BY <3>1
    <3>2. CASE n # m + 1
      <4>1. n \in 0 .. m /\ (n # 0 => n - 1 \in 0 .. m /\ n - 1 # m + 1)
        BY <3>2
      <4> QED
        BY <2>1, <4>1, <3>2
    <3> QED
      BY <3>1, <3>2
  <2> QED
    BY <2>3, <2>4
<1>3. \A m \in Nat : m \in S
  <2> HIDE DEF S
  <2> QED
    BY <1>1, <1>2, Induct
<1> QED
  BY <1>3 DEF RecursiveFunctionExists

-----------------------------------------------------------------------------
\* Wrapping yields a word.
LEMMA WrapType == \A x \in Int : Wrap(x) \in Word
<1> SUFFICES ASSUME NEW x \in Int PROVE Wrap(x) \in Word
  OBVIOUS
<1>1. 2 * Half \in Nat /\ 2 * Half > 0
  BY HalfAssumption
<1>2. (x + Half) % (2 * Half) \in 0 .. (2 * Half - 1)
  BY <1>1, HalfAssumption
<1> QED
  BY <1>2, HalfAssumption DEF Wrap, Word

\* A comparison is stored as a word.
LEMMA TruthType == ASSUME NEW b \in BOOLEAN PROVE Truth(b) \in Word
  BY HalfAssumption DEF Truth, Word

-----------------------------------------------------------------------------
(* Sequences whose elements may be anything.                               *)

IsSeq(s) == s \in Seq({ s[k] : k \in DOMAIN s })

\* A sequence over some set is one over the set of its elements.
LEMMA SeqIsSeq ==
  ASSUME NEW S, NEW s \in Seq(S)
  PROVE  IsSeq(s)
<1>1. Len(s) \in Nat /\ s \in [1 .. Len(s) -> S]
  OBVIOUS
<1>2. s \in [1 .. Len(s) -> { s[k] : k \in DOMAIN s }]
  BY <1>1
<1> QED
  BY <1>1, <1>2, SeqDef DEF IsSeq

\* A sequence with one element more.
LEMMA AppendIsSeq ==
  ASSUME NEW s, IsSeq(s), NEW x
  PROVE  /\ IsSeq(Append(s, x)) /\ Append(s, x) # << >>
         /\ Len(s) \in Nat /\ Len(Append(s, x)) = Len(s) + 1
         /\ \A k \in 1 .. Len(s) : Append(s, x)[k] = s[k]
         /\ Append(s, x)[Len(s) + 1] = x
<1> DEFINE S == { s[k] : k \in DOMAIN s } \union {x}
<1>1. s \in Seq(S)
  <2>1. s \in Seq({ s[k] : k \in DOMAIN s })
    BY DEF IsSeq
  <2> DEFINE R == { s[k] : k \in DOMAIN s }
  <2>2. R \subseteq S
    OBVIOUS
  <2>3. Len(s) \in Nat /\ s \in [1 .. Len(s) -> R]
    BY <2>1
  <2> HIDE DEF R, S
  <2>4. s \in [1 .. Len(s) -> S]
    BY <2>2, <2>3
  <2> QED
    BY <2>3, <2>4, SeqDef
<1>2. x \in S
  OBVIOUS
<1> HIDE DEF S
<1>3. Append(s, x) \in Seq(S)
  BY <1>1, <1>2
<1>4. IsSeq(Append(s, x))
  BY <1>3, SeqIsSeq
<1> QED
  BY <1>1, <1>2, <1>4

\* A sequence without its last element.
LEMMA FrontIsSeq ==
  ASSUME NEW s, IsSeq(s), s # << >>
  PROVE  /\ IsSeq(SubSeq(s, 1, Len(s) - 1))
         /\ Len(s) \in Nat \ {0} /\ Len(SubSeq(s, 1, Len(s) - 1)) = Len(s) - 1
         /\ \A k \in 1 .. Len(s) - 1 : SubSeq(s, 1, Len(s) - 1)[k] = s[k]
<1> DEFINE S == { s[k] : k \in DOMAIN s }
<1>1. s \in Seq(S)
  BY DEF IsSeq
<1> HIDE DEF S
<1>2. Len(s) \in Nat \ {0}
  BY <1>1
<1>3. SubSeq(s, 1, Len(s) - 1) \in Seq(S)
  BY <1>1, <1>2
<1>4. IsSeq(SubSeq(s, 1, Len(s) - 1))
  BY <1>3, SeqIsSeq
<1>5. /\ Len(SubSeq(s, 1, Len(s) - 1)) = Len(s) - 1
      /\ \A k \in 1 .. Len(s) - 1 : SubSeq(s, 1, Len(s) - 1)[k] = s[k]
  <2>1. \A k \in 1 .. Len(s) - 1 : s[k] \in S
    BY <1>1, <1>2
  <2> DEFINE n == Len(s) - 1
             front == SubSeq(s, 1, n)
  <2>2. n \in Nat /\ \A k \in 1 .. n : s[k] \in S
    BY <1>2, <2>1
  <2> HIDE DEF n
  <2>3. /\ Len(front) = IF 1 <= n THEN n - 1 + 1 ELSE 0
        /\ \A k \in 1 .. n - 1 + 1 : front[k] = s[1 + k - 1]
    BY <2>2, SubSeqProperties
  <2> HIDE DEF front
  <2>4. Len(front) = n /\ \A k \in 1 .. n : front[k] = s[k]
    BY <2>2, <2>3
  <2> QED
    BY <2>4 DEF front, n
<1> QED
  BY <1>2, <1>4, <1>5

-----------------------------------------------------------------------------
(* The tree of the grammar.                                                *)

\* A part of a chain with an operator has one root.
LEMMA RootExists ==
  ASSUME NEW strength \in [BinaryOperators -> Nat], NEW ops \in Seq(BinaryOperators),
         NEW from \in 1 .. Len(ops), NEW to \in from .. Len(ops)
  PROVE  IsRoot(strength, ops, from, to, Root(strength, ops, from, to))
<1> DEFINE s == [j \in from .. to |-> strength[ops[j]]]
           V == { s[j] : j \in from .. to }
<1>1. \A j \in from .. to : ops[j] \in BinaryOperators /\ s[j] = strength[ops[j]] /\ s[j] \in Nat
  OBVIOUS
<1>2. V \subseteq Nat /\ V # {}
  BY <1>1
<1>3. PICK m \in V : \A v \in V : m <= v
  BY <1>2, Smallest
<1> DEFINE S == { j \in from .. to : s[j] = m }
<1>4. S \subseteq 0 .. to /\ S # {} /\ to \in Nat
  <2>1. \A j \in from .. to : j \in 0 .. to
    OBVIOUS
  <2>2. to \in Nat
    OBVIOUS
  <2>3. \E j \in from .. to : s[j] = m
    BY <1>3
  <2> HIDE DEF s
  <2> QED
    BY <2>1, <2>2, <2>3
<1>5. PICK k \in S : \A j \in S : k >= j
  BY <1>4, Greatest
<1>6. k \in from .. to /\ s[k] = m
  BY <1>5
<1>7. ASSUME NEW j \in from .. to PROVE s[k] <= s[j]
  BY <1>3, <1>6
<1>8. ASSUME NEW j \in k + 1 .. to PROVE s[k] < s[j]
  <2>1. j \in from .. to /\ j \notin S
    BY <1>5, <1>6
  <2> QED
    BY <1>1, <1>2, <1>6, <1>7, <2>1
<1> HIDE DEF s
<1>9. IsRoot(strength, ops, from, to, k)
  <2>1. \A j \in from .. k : j \in from .. to
    BY <1>6
  <2>2. \A j \in k + 1 .. to : j \in from .. to
    BY <1>6
  <2> QED
    BY <1>1, <1>6, <1>7, <1>8, <2>1, <2>2 DEF IsRoot
<1> QED
  BY <1>6, <1>9 DEF Root

LEMMA RootUnique ==
  ASSUME NEW strength \in [BinaryOperators -> Nat], NEW ops \in Seq(BinaryOperators),
         NEW from \in 1 .. Len(ops), NEW to \in from .. Len(ops),
         NEW k, IsRoot(strength, ops, from, to, k)
  PROVE  Root(strength, ops, from, to) = k
<1> DEFINE r == Root(strength, ops, from, to)
<1>1. IsRoot(strength, ops, from, to, r)
  BY RootExists
<1> HIDE DEF r
<1>2. r \in from .. to /\ k \in from .. to
  BY <1>1 DEF IsRoot
<1>3. strength[ops[r]] \in Nat /\ strength[ops[k]] \in Nat
  BY <1>2
<1>4. CASE r < k
  BY <1>1, <1>2, <1>3, <1>4 DEF IsRoot
<1>5. CASE k < r
  BY <1>1, <1>2, <1>3, <1>5 DEF IsRoot
<1> QED
  BY <1>2, <1>4, <1>5 DEF r

\* What a table of trees has for a part of the chain.
PartTree(tree, strength, operands, ops, i, j) ==
  IF i >= j THEN operands[i]
  ELSE Bin(ops[Root(strength, ops, i, j - 1)],
           tree[<<i, Root(strength, ops, i, j - 1)>>],
           tree[<<Root(strength, ops, i, j - 1) + 1, j>>])

\* A table that is right for parts with up to d operators.
RightUpTo(tree, strength, operands, ops, d) ==
  \A i, j \in 1 .. Len(ops) + 1 :
    j - i <= d => tree[<<i, j>>] = PartTree(tree, strength, operands, ops, i, j)

\* Two tables with the same trees for parts with up to d operators.
Agree(t1, t2, ops, d) ==
  \A i, j \in 1 .. Len(ops) + 1 : j - i <= d => t1[<<i, j>>] = t2[<<i, j>>]

\* The trees of smaller parts are all that the tree of a part depends on.
LEMMA PartTreeAgrees ==
  ASSUME NEW strength \in [BinaryOperators -> Nat], NEW operands, NEW ops \in Seq(BinaryOperators),
         NEW t1, NEW t2, NEW d \in Int, NEW i \in 1 .. Len(ops) + 1, NEW j \in 1 .. Len(ops) + 1,
         j - i <= d + 1, Agree(t1, t2, ops, d)
  PROVE  PartTree(t1, strength, operands, ops, i, j) = PartTree(t2, strength, operands, ops, i, j)
<1>1. CASE i >= j
  BY <1>1 DEF PartTree
<1>2. CASE i < j
  <2> PICK k : k = Root(strength, ops, i, j - 1)
    OBVIOUS
  <2>1. k \in i .. j - 1
    <3>1. i \in 1 .. Len(ops) /\ j - 1 \in i .. Len(ops)
      BY <1>2
    <3>2. IsRoot(strength, ops, i, j - 1, k)
      BY <3>1, RootExists
    <3> QED
      BY <3>2 DEF IsRoot
  <2>2. /\ k \in 1 .. Len(ops) + 1 /\ k + 1 \in 1 .. Len(ops) + 1
        /\ k - i <= d /\ j - (k + 1) <= d
    BY <2>1, SMTT(30)
  <2>3. t1[<<i, k>>] = t2[<<i, k>>] /\ t1[<<k + 1, j>>] = t2[<<k + 1, j>>]
    BY <2>2 DEF Agree
  <2> QED
    BY <1>2, <2>3 DEF PartTree
<1> QED
  BY <1>1, <1>2

\* The recursive definition of Trees has a solution, and Trees is one.
LEMMA TreesDefined ==
  ASSUME NEW strength \in [BinaryOperators -> Nat], NEW operands, NEW ops \in Seq(BinaryOperators)
  PROVE  \A i, j \in 1 .. Len(ops) + 1 :
           Trees(strength, operands, ops)[<<i, j>>] =
             PartTree(Trees(strength, operands, ops), strength, operands, ops, i, j)
<1> DEFINE n == Len(ops) + 1
           Parts == (1 .. n) \X (1 .. n)
           Value(t, q) == PartTree(t, strength, operands, ops, q[1], q[2])
           S == { d \in Nat : \E t : RightUpTo(t, strength, operands, ops, d) }
<1>1. 0 \in S
  <2> DEFINE t == [q \in Parts |-> operands[q[1]]]
  <2>1. ASSUME NEW i \in 1 .. n, NEW j \in 1 .. n, j - i <= 0
        PROVE  t[<<i, j>>] = PartTree(t, strength, operands, ops, i, j)
    <3>1. i >= j
      BY <2>1
    <3>2. t[<<i, j>>] = operands[i]
      OBVIOUS
    <3> QED
      BY <3>1, <3>2 DEF PartTree
  <2> HIDE DEF t
  <2> QED
    BY <2>1 DEF RightUpTo
<1>2. ASSUME NEW d \in Nat, d \in S PROVE d + 1 \in S
  <2>1. PICK t : RightUpTo(t, strength, operands, ops, d)
    BY <1>2
  <2> DEFINE u == [q \in Parts |-> IF q[2] - q[1] <= d THEN t[q] ELSE Value(t, q)]
  <2>2. ASSUME NEW i \in 1 .. n, NEW j \in 1 .. n
        PROVE  u[<<i, j>>] = IF j - i <= d THEN t[<<i, j>>]
                             ELSE PartTree(t, strength, operands, ops, i, j)
    OBVIOUS
  <2> HIDE DEF u
  <2>3. Agree(t, u, ops, d)
    BY <2>2 DEF Agree
  <2>4. ASSUME NEW i \in 1 .. n, NEW j \in 1 .. n, j - i <= d + 1
        PROVE  u[<<i, j>>] = PartTree(u, strength, operands, ops, i, j)
    <3>1. PartTree(t, strength, operands, ops, i, j) = PartTree(u, strength, operands, ops, i, j)
      BY <2>3, <2>4, PartTreeAgrees
    <3>2. u[<<i, j>>] = PartTree(t, strength, operands, ops, i, j)
      BY <2>1, <2>2 DEF RightUpTo
    <3> QED
      BY <3>1, <3>2
  <2>5. RightUpTo(u, strength, operands, ops, d + 1)
    BY <2>4 DEF RightUpTo
  <2> QED
    BY <2>5
<1>3. \A d \in Nat : d \in S
  <2> HIDE DEF S
  <2> QED
    BY <1>1, <1>2, Induct
<1>4. PICK t : RightUpTo(t, strength, operands, ops, n)
  <2>1. n \in Nat
    OBVIOUS
  <2> QED
    BY <1>3, <2>1
<1> DEFINE u == [q \in Parts |-> t[q]]
           v == Trees(strength, operands, ops)
           Equation(f) == f = [q \in Parts |->
              IF q[1] >= q[2] THEN operands[q[1]]
              ELSE LET k == Root(strength, ops, q[1], q[2] - 1)
                   IN  Bin(ops[k], f[<<q[1], k>>], f[<<k + 1, q[2]>>])]
<1>5. \A a, b \in 1 .. n : t[<<a, b>>] = u[<<a, b>>]
  OBVIOUS
<1>5a. Agree(t, u, ops, n)
  BY <1>5 DEF Agree
<1>6. ASSUME NEW i \in 1 .. n, NEW j \in 1 .. n
      PROVE  u[<<i, j>>] = PartTree(u, strength, operands, ops, i, j)
  <2>1. n \in Int /\ j - i <= n /\ j - i <= n + 1
    OBVIOUS
  <2>2. t[<<i, j>>] = PartTree(t, strength, operands, ops, i, j)
    BY <1>4, <2>1 DEF RightUpTo
  <2> HIDE DEF u
  <2>3. PartTree(t, strength, operands, ops, i, j) = PartTree(u, strength, operands, ops, i, j)
    BY <1>5a, <2>1, PartTreeAgrees
  <2> QED
    BY <1>5, <2>2, <2>3
<1>7. Equation(u)
  <2>1. u = [q \in Parts |-> Value(u, q)]
    <3>1. \A q \in Parts : q = <<q[1], q[2]>> /\ q[1] \in 1 .. n /\ q[2] \in 1 .. n
      OBVIOUS
    <3>2. \A q \in Parts : u[q] = Value(u, q)
      <4> HIDE DEF u
      <4> QED
        BY <1>6, <3>1
    <3>3. u = [q \in Parts |-> u[q]]
      OBVIOUS
    <3> HIDE DEF u
    <3> QED
      BY <3>2, <3>3
  <2> HIDE DEF u
  <2> QED
    BY <2>1 DEF PartTree
<1>8. v = CHOOSE f : Equation(f)
  BY DEF Trees
<1> HIDE DEF u, v
<1>9. Equation(v)
  <2> HIDE DEF Equation
  <2> QED
    BY <1>7, <1>8
<1>10. ASSUME NEW i \in 1 .. n, NEW j \in 1 .. n
       PROVE  v[<<i, j>>] = PartTree(v, strength, operands, ops, i, j)
  BY <1>9 DEF PartTree
<1> QED
  BY <1>10 DEF v

-----------------------------------------------------------------------------
(* A join where no neighbour binds tighter leaves the tree as it was.      *)

HandleAt(strength, ops, k) ==
  /\ k \in 1 .. Len(ops)
  /\ k > 1 => strength[ops[k - 1]] < strength[ops[k]]
  /\ k < Len(ops) => strength[ops[k + 1]] <= strength[ops[k]]

\* The chain after the operands of operator k are joined.
JoinedAt(operands, ops, k, operands2, ops2) ==
  /\ ops2 \in Seq(BinaryOperators) /\ Len(ops2) = Len(ops) - 1
  /\ \A j \in 1 .. Len(ops) - 1 : ops2[j] = IF j < k THEN ops[j] ELSE ops[j + 1]
  /\ \A j \in 1 .. Len(ops) :
       operands2[j] = IF j < k THEN operands[j]
                      ELSE IF j = k THEN Bin(ops[k], operands[k], operands[k + 1])
                      ELSE operands[j + 1]

\* The operands of the old chain that an operand of the new one is made of;
\* the operator after it in the old chain is the one at the last of them.
FirstOf(j, k) == IF j <= k THEN j ELSE j + 1
LastOf(j, k)  == IF j < k THEN j ELSE j + 1

\* Part i..j of the new chain is from..to + 1 of the old one, and operator q
\* of it operator r there; they have n operators, n - 1 after the join at k.
PartOf(n, k, i, j, q, from, to, r) ==
  /\ n \in Nat /\ k \in 1 .. n /\ i \in 1 .. n /\ j \in 1 .. n /\ i < j /\ q \in i .. j - 1
  /\ from = FirstOf(i, k) /\ to = LastOf(j, k) - 1 /\ r = LastOf(q, k)

LEMMA JoinPlaces ==
  ASSUME NEW n, NEW k, NEW i, NEW j, NEW q, NEW from, NEW to, NEW r,
         PartOf(n, k, i, j, q, from, to, r)
  PROVE  /\ from \in 1 .. n /\ to \in 1 .. n /\ r \in from .. to /\ r # k
         /\ FirstOf(q + 1, k) = r + 1
BY DEF PartOf, FirstOf, LastOf

\* Every operator of the old part but the one that is gone is in the new one.
LEMMA OldOperator ==
  ASSUME NEW n, NEW k, NEW i, NEW j, NEW q, NEW from, NEW to, NEW r,
         PartOf(n, k, i, j, q, from, to, r), NEW a \in from .. to, a # k
  PROVE  \E b \in i .. j - 1 : LastOf(b, k) = a /\ (a <= r <=> b <= q)
<1>1. a \in Int /\ k \in Int
  BY DEF PartOf, FirstOf, LastOf
<1>2. CASE a < k
  <2>1. a \in i .. j - 1 /\ LastOf(a, k) = a
    BY <1>1, <1>2 DEF PartOf, FirstOf, LastOf
  <2>2. a <= r <=> a <= q
    BY <1>1, <1>2 DEF PartOf, LastOf
  <2> QED
    BY <2>1, <2>2
<1>3. CASE a > k
  <2>1. a - 1 \in i .. j - 1 /\ LastOf(a - 1, k) = a
    BY <1>1, <1>3 DEF PartOf, FirstOf, LastOf
  <2>2. a <= r <=> a - 1 <= q
    BY <1>1, <1>3 DEF PartOf, LastOf
  <2> QED
    BY <2>1, <2>2
<1> QED
  BY <1>1, <1>2, <1>3

\* The operator that is gone, where it is in the part, has a neighbour there
\* that does not bind tighter.
LEMMA GoneOperator ==
  ASSUME NEW n, NEW k, NEW i, NEW j, NEW q, NEW from, NEW to, NEW r,
         PartOf(n, k, i, j, q, from, to, r), k \in from .. to
  PROVE  \/ k > 1 /\ k - 1 \in from .. to
         \/ k < n /\ from = k /\ k + 1 \in from .. to
BY DEF PartOf, FirstOf, LastOf

\* Of one part, s[m] is the strength of the root.
Weakest(s, from, to, m) ==
  \A a \in from .. to : (a <= m => s[m] <= s[a]) /\ (a > m => s[m] < s[a])

\* s2 is s without the strength at k, which is one to join at.
LeftWithout(s, s2, n, k) == \A b \in 1 .. n - 1 : s2[b] = s[LastOf(b, k)]
TightAt(s, n, k) == (k > 1 => s[k - 1] < s[k]) /\ (k < n => s[k + 1] <= s[k])

LEMMA WeakestAfterJoin ==
  ASSUME NEW n, NEW k, NEW i, NEW j, NEW q, NEW from, NEW to, NEW r,
         PartOf(n, k, i, j, q, from, to, r),
         NEW s \in [1 .. n -> Nat], NEW s2,
         LeftWithout(s, s2, n, k), TightAt(s, n, k), Weakest(s2, i, j - 1, q)
  PROVE  Weakest(s, from, to, r)
<1>1. /\ from \in 1 .. n /\ to \in 1 .. n /\ r \in from .. to /\ r # k
  BY JoinPlaces
<1>2. /\ n \in Int /\ from \in Int /\ to \in Int /\ r \in Int /\ k \in Int /\ k \in 1 .. n
      /\ i \in Int /\ j \in Int /\ q \in Int /\ q \in i .. j - 1 /\ 1 <= i /\ j <= n
  BY <1>1 DEF PartOf
<1>3. ASSUME NEW a \in from .. to, a # k
      PROVE  (a <= r => s[r] <= s[a]) /\ (a > r => s[r] < s[a])
  <2>1. PICK b \in i .. j - 1 : LastOf(b, k) = a /\ (a <= r <=> b <= q)
    BY <1>3, OldOperator
  <2>2. s2[b] = s[a] /\ s2[q] = s[r]
    <3>1. b \in 1 .. n - 1 /\ q \in 1 .. n - 1
      BY <1>2
    <3>2. r = LastOf(q, k)
      BY DEF PartOf
    <3> QED
      BY <2>1, <3>1, <3>2 DEF LeftWithout
  <2>3. (b <= q => s2[q] <= s2[b]) /\ (b > q => s2[q] < s2[b])
    BY DEF Weakest
  <2>4. a \in Int /\ b \in Int
    BY <1>2
  <2>5. (b > q <=> ~(b <= q)) /\ (a > r <=> ~(a <= r))
    BY ONLY <1>2, <2>4
  <2> QED
    BY ONLY <2>1, <2>2, <2>3, <2>5
<1>4. \A a \in 1 .. n : s[a] \in Nat
  OBVIOUS
<1>5. ASSUME k \in from .. to
      PROVE  (k <= r => s[r] <= s[k]) /\ (k > r => s[r] < s[k])
  <2>1. s[r] \in Nat /\ s[k] \in Nat
    BY <1>1, <1>2, <1>4, SMTT(30)
  <2>2. CASE k > 1 /\ k - 1 \in from .. to
    <3>1. (k - 1 <= r => s[r] <= s[k - 1]) /\ (k - 1 > r => s[r] < s[k - 1])
      BY <1>2, <1>3, <2>2
    <3>2. s[k - 1] < s[k]
      BY <2>2 DEF TightAt
    <3>3. s[k - 1] \in Nat
      BY <1>1, <1>2, <1>4, <2>2, SMTT(30)
    <3> QED
      BY ONLY <1>1, <1>2, <2>1, <3>1, <3>2, <3>3
  <2>3. CASE k < n /\ from = k /\ k + 1 \in from .. to
    <3>1. k + 1 <= r /\ k + 1 # k /\ k <= r
      BY ONLY <1>1, <1>2, <2>3
    <3>2. s[r] <= s[k + 1]
      BY <1>3, <2>3, <3>1
    <3>3. s[k + 1] <= s[k]
      BY <2>3 DEF TightAt
    <3>4. s[k + 1] \in Nat
      BY <1>1, <1>2, <1>4, <2>3
    <3> QED
      BY ONLY <1>2, <2>1, <3>1, <3>2, <3>3, <3>4
  <2> QED
    BY <1>5, <2>2, <2>3, GoneOperator
<1> QED
  BY <1>3, <1>5 DEF Weakest

LEMMA RootIsWeakest ==
  ASSUME NEW strength \in [BinaryOperators -> Nat], NEW ops \in Seq(BinaryOperators),
         NEW s, s = [a \in 1 .. Len(ops) |-> strength[ops[a]]],
         NEW from \in 1 .. Len(ops), NEW to \in from .. Len(ops), NEW m \in from .. to
  PROVE  IsRoot(strength, ops, from, to, m) <=> Weakest(s, from, to, m)
<1>1. \A a \in from .. to : s[a] = strength[ops[a]]
  OBVIOUS
<1>2. from \in Int /\ to \in Int /\ m \in Int
  OBVIOUS
<1>3. \A a \in Int : /\ a \in from .. m <=> a \in from .. to /\ a <= m
                     /\ a \in m + 1 .. to <=> a \in from .. to /\ a > m
  BY <1>2
<1>4. \A a \in from .. m : a \in Int
  BY <1>2
<1>5. \A a \in m + 1 .. to : a \in Int
  BY <1>2
<1>6. \A a \in from .. to : a \in Int
  BY <1>2
<1>7. IsRoot(strength, ops, from, to, m) =>  Weakest(s, from, to, m)
  BY <1>1, <1>3, <1>6 DEF IsRoot, Weakest
<1>8. Weakest(s, from, to, m) => IsRoot(strength, ops, from, to, m)
  BY <1>1, <1>3, <1>4, <1>5 DEF IsRoot, Weakest
<1> QED
  BY <1>7, <1>8

\* The root of a part with another operator than the one that is gone.
JoinedChain(strength, operands, ops, operands2, ops2, n, k) ==
  /\ strength \in [BinaryOperators -> Nat] /\ ops \in Seq(BinaryOperators) /\ n = Len(ops)
  /\ HandleAt(strength, ops, k) /\ JoinedAt(operands, ops, k, operands2, ops2)

LEMMA RootAfterJoin ==
  ASSUME NEW strength, NEW operands, NEW ops, NEW operands2, NEW ops2, NEW n, NEW k,
         JoinedChain(strength, operands, ops, operands2, ops2, n, k),
         NEW i \in 1 .. n, NEW j \in 1 .. n, i < j, NEW q, q = Root(strength, ops2, i, j - 1),
         NEW from, from = FirstOf(i, k), NEW to, to = LastOf(j, k) - 1, NEW r, r = LastOf(q, k)
  PROVE  /\ PartOf(n, k, i, j, q, from, to, r)
         /\ ops2[q] = ops[r]
         /\ r = Root(strength, ops, from, to)
<1>0. /\ strength \in [BinaryOperators -> Nat] /\ ops \in Seq(BinaryOperators) /\ n = Len(ops)
      /\ HandleAt(strength, ops, k) /\ JoinedAt(operands, ops, k, operands2, ops2)
      /\ n \in Nat /\ k \in 1 .. n
  BY DEF JoinedChain, HandleAt
<1>a. i \in 1 .. n /\ j \in 1 .. n /\ i < j
  OBVIOUS
<1> DEFINE s  == [a \in 1 .. n |-> strength[ops[a]]]
           s2 == [a \in 1 .. n - 1 |-> strength[ops2[a]]]
<1>1. ops2 \in Seq(BinaryOperators) /\ Len(ops2) = n - 1
  BY <1>0 DEF JoinedAt
<1>2. \A a \in 1 .. n - 1 : ops2[a] = ops[LastOf(a, k)]
  BY <1>0 DEF JoinedAt, LastOf
<1>3. i \in 1 .. Len(ops2) /\ j - 1 \in i .. Len(ops2)
  BY ONLY <1>0, <1>1, <1>a
<1>4. IsRoot(strength, ops2, i, j - 1, q)
  BY <1>0, <1>1, <1>3, RootExists
<1>5. q \in i .. j - 1 /\ q \in 1 .. n - 1
  <2>1. q \in i .. j - 1
    BY <1>4 DEF IsRoot
  <2> QED
    BY ONLY <1>0, <1>a, <2>1
<1>6. s2 = [a \in 1 .. Len(ops2) |-> strength[ops2[a]]] /\ s2 \in [1 .. n - 1 -> Nat]
  <2>1. \A a \in 1 .. n - 1 : ops2[a] \in BinaryOperators
    BY <1>1
  <2> QED
    BY <1>0, <1>1, <2>1
<1>7. s = [a \in 1 .. Len(ops) |-> strength[ops[a]]] /\ s \in [1 .. n -> Nat]
  <2>1. \A a \in 1 .. n : ops[a] \in BinaryOperators
    BY <1>0
  <2> QED
    BY <1>0, <2>1
<1>8. Weakest(s2, i, j - 1, q)
  <2> HIDE DEF s2
  <2> QED
    BY <1>0, <1>1, <1>3, <1>4, <1>5, <1>6, RootIsWeakest
<1>9. \A b \in 1 .. n - 1 : LastOf(b, k) \in 1 .. n
  BY ONLY <1>0 DEF LastOf
<1>10. LeftWithout(s, s2, n, k)
  BY <1>2, <1>9 DEF LeftWithout
<1>11. TightAt(s, n, k)
  <2>1. (k > 1 => k - 1 \in 1 .. n) /\ (k < n => k + 1 \in 1 .. n)
    BY ONLY <1>0
  <2> QED
    BY <1>0, <2>1 DEF HandleAt, TightAt
<1> HIDE DEF s, s2
<1>12. PartOf(n, k, i, j, q, from, to, r)
  BY <1>0, <1>5 DEF PartOf
<1>13. from \in 1 .. n /\ to \in 1 .. n /\ r \in from .. to
  BY ONLY <1>12, JoinPlaces
<1>14. Weakest(s, from, to, r)
  <2>1. s \in [1 .. n -> Nat]
    BY ONLY <1>7
  <2> QED
    BY ONLY <2>1, <1>8, <1>10, <1>11, <1>12, WeakestAfterJoin
<1>15. IsRoot(strength, ops, from, to, r) /\ from \in 1 .. Len(ops) /\ to \in from .. Len(ops)
  <2>1. from \in 1 .. Len(ops) /\ to \in from .. Len(ops)
    BY ONLY <1>0, <1>13
  <2> QED
    BY ONLY <1>0, <1>7, <1>13, <1>14, <2>1, RootIsWeakest
<1>16. Root(strength, ops, from, to) = r
  BY <1>0, <1>15, RootUnique
<1>17. ops2[q] = ops[r]
  <2>1. r = LastOf(q, k)
    OBVIOUS
  <2> QED
    BY ONLY <1>2, <1>5, <2>1
<1> QED
  BY ONLY <1>12, <1>16, <1>17

\* The table of trees: an operand, and a part with operators.
LEMMA TreeOfOne ==
  ASSUME NEW strength \in [BinaryOperators -> Nat], NEW operands, NEW ops \in Seq(BinaryOperators),
         NEW i \in 1 .. Len(ops) + 1
  PROVE  Trees(strength, operands, ops)[<<i, i>>] = operands[i]
<1>1. Trees(strength, operands, ops)[<<i, i>>] =
        PartTree(Trees(strength, operands, ops), strength, operands, ops, i, i)
  BY TreesDefined
<1>2. i >= i
  OBVIOUS
<1> QED
  BY <1>1, <1>2 DEF PartTree

RootOf(strength, ops, i, j, m) ==
  /\ strength \in [BinaryOperators -> Nat] /\ ops \in Seq(BinaryOperators)
  /\ i \in 1 .. Len(ops) + 1 /\ j \in 1 .. Len(ops) + 1 /\ i < j
  /\ m = Root(strength, ops, i, j - 1)

Splits(t, ops, i, j, m) == t[<<i, j>>] = Bin(ops[m], t[<<i, m>>], t[<<m + 1, j>>])

LEMMA TreeOfPart ==
  ASSUME NEW strength, NEW operands, NEW ops, NEW i, NEW j, NEW m, RootOf(strength, ops, i, j, m)
  PROVE  Splits(Trees(strength, operands, ops), ops, i, j, m)
<1>0. /\ strength \in [BinaryOperators -> Nat] /\ ops \in Seq(BinaryOperators)
      /\ i \in 1 .. Len(ops) + 1 /\ j \in 1 .. Len(ops) + 1 /\ i < j
      /\ m = Root(strength, ops, i, j - 1)
  BY DEF RootOf
<1>1. Trees(strength, operands, ops)[<<i, j>>] =
        PartTree(Trees(strength, operands, ops), strength, operands, ops, i, j)
  BY <1>0, TreesDefined
<1>2. ~(i >= j)
  BY <1>0
<1> QED
  BY <1>0, <1>1, <1>2 DEF PartTree, Splits

LEMMA JoinKeepsTree ==
  ASSUME NEW strength \in [BinaryOperators -> Nat], NEW operands, NEW ops \in Seq(BinaryOperators),
         NEW operands2, NEW ops2, NEW n \in Nat, n = Len(ops), NEW k \in 1 .. n,
         HandleAt(strength, ops, k), JoinedAt(operands, ops, k, operands2, ops2)
  PROVE  GrammarTree(strength, operands2, ops2) = GrammarTree(strength, operands, ops)
<1>1. ops2 \in Seq(BinaryOperators) /\ Len(ops2) = n - 1
  BY DEF JoinedAt
<1>2. ASSUME NEW j \in 1 .. n
      PROVE  /\ j < k => operands2[j] = operands[j]
             /\ j = k => operands2[j] = Bin(ops[k], operands[k], operands[k + 1])
             /\ j > k => operands2[j] = operands[j + 1]
  BY DEF JoinedAt
<1> DEFINE t  == Trees(strength, operands, ops)
           t2 == Trees(strength, operands2, ops2)
           Same(i, j) == t2[<<i, j>>] = t[<<FirstOf(i, k), LastOf(j, k)>>]
           S == { d \in Nat : \A i, j \in 1 .. n : i <= j /\ j - i <= d => Same(i, j) }
<1>3. \A j \in 1 .. n : j \in 1 .. Len(ops2) + 1
  BY <1>1
<1>4. ASSUME NEW j \in 1 .. n PROVE Same(j, j)
  <2>1. t2[<<j, j>>] = operands2[j]
    BY <1>1, <1>3, TreeOfOne
  <2>2. \A m \in 1 .. n + 1 : t[<<m, m>>] = operands[m]
    BY TreeOfOne
  <2> HIDE DEF t, t2
  <2>3. CASE j < k
    <3>1. FirstOf(j, k) = j /\ LastOf(j, k) = j /\ j \in 1 .. n + 1
      BY <2>3 DEF FirstOf, LastOf
    <3> QED
      BY <1>2, <2>1, <2>2, <2>3, <3>1
  <2>4. CASE j > k
    <3>1. FirstOf(j, k) = j + 1 /\ LastOf(j, k) = j + 1 /\ j + 1 \in 1 .. n + 1
      BY <2>4 DEF FirstOf, LastOf
    <3> QED
      BY <1>2, <2>1, <2>2, <2>4, <3>1
  <2>5. CASE j = k
    <3>1. FirstOf(k, k) = k /\ LastOf(k, k) = k + 1
      BY DEF FirstOf, LastOf
    <3>2. /\ k \in 1 .. Len(ops) + 1 /\ k + 1 \in 1 .. Len(ops) + 1 /\ k < k + 1
          /\ k \in 1 .. Len(ops) /\ k \in k .. Len(ops) /\ (k + 1) - 1 = k
      OBVIOUS
    <3>3. Root(strength, ops, k, k) = k
      <4>1. IsRoot(strength, ops, k, k, Root(strength, ops, k, k))
        BY <3>2, RootExists
      <4> QED
        BY <4>1 DEF IsRoot
    <3>4. k = Root(strength, ops, k, (k + 1) - 1)
      BY <3>2, <3>3
    <3>5. t[<<k, k + 1>>] = Bin(ops[k], t[<<k, k>>], t[<<k + 1, k + 1>>])
      <4>1. RootOf(strength, ops, k, k + 1, k)
        BY <3>2, <3>4 DEF RootOf
      <4>2. Splits(t, ops, k, k + 1, k)
        BY <4>1, TreeOfPart DEF t
      <4> QED
        BY ONLY <4>2 DEF Splits
    <3>6. t[<<k, k>>] = operands[k] /\ t[<<k + 1, k + 1>>] = operands[k + 1]
      BY <2>2, <3>2
    <3>7. operands2[k] = Bin(ops[k], operands[k], operands[k + 1])
      BY <1>2
    <3> QED
      BY <2>1, <2>5, <3>1, <3>5, <3>6, <3>7
  <2> QED
    BY <2>3, <2>4, <2>5
<1>5. 0 \in S
  <2>1. \A i, j \in 1 .. n : i <= j /\ j - i <= 0 => i = j
    OBVIOUS
  <2> HIDE DEF Same
  <2> QED
    BY <1>4, <2>1
<1>6. ASSUME NEW d \in Nat, d \in S PROVE d + 1 \in S
  <2> SUFFICES ASSUME NEW i \in 1 .. n, NEW j \in 1 .. n, i < j, j - i <= d + 1
               PROVE  Same(i, j)
    <3> HIDE DEF Same
    <3>1. \A i, j \in 1 .. n : i <= j => i = j \/ i < j
      OBVIOUS
    <3> QED
      BY <1>4, <3>1
  <2>a. /\ n \in Nat /\ k \in 1 .. n /\ i \in 1 .. n /\ j \in 1 .. n /\ i < j
        /\ d \in Nat /\ j - i <= d + 1
    OBVIOUS
  <2>b. strength \in [BinaryOperators -> Nat] /\ ops \in Seq(BinaryOperators) /\ n = Len(ops)
    OBVIOUS
  <2>c. HandleAt(strength, ops, k) /\ JoinedAt(operands, ops, k, operands2, ops2)
    OBVIOUS
  <2>d. PICK q : q = Root(strength, ops2, i, j - 1)
    OBVIOUS
  <2>e. PICK r : r = LastOf(q, k)
    OBVIOUS
  <2>f. PICK a : a = FirstOf(i, k)
    OBVIOUS
  <2>g. PICK b : b = LastOf(j, k)
    OBVIOUS
  <2>h. JoinedChain(strength, operands, ops, operands2, ops2, n, k)
    BY ONLY <2>b, <2>c DEF JoinedChain
  <2>i. PICK to : to = b - 1
    OBVIOUS
  <2>1. PartOf(n, k, i, j, q, a, to, r) /\ ops2[q] = ops[r] /\ r = Root(strength, ops, a, to)
    BY ONLY <2>a, <2>d, <2>e, <2>f, <2>g, <2>h, <2>i, RootAfterJoin, SMTT(30)
  <2>2. t2[<<i, j>>] = Bin(ops2[q], t2[<<i, q>>], t2[<<q + 1, j>>])
    <3>1. i \in 1 .. Len(ops2) + 1 /\ j \in 1 .. Len(ops2) + 1
      BY ONLY <1>3, <2>a
    <3>2. RootOf(strength, ops2, i, j, q)
      BY ONLY <1>1, <2>a, <2>b, <2>d, <3>1 DEF RootOf
    <3>3. Splits(t2, ops2, i, j, q)
      BY ONLY <3>2, TreeOfPart DEF t2
    <3> HIDE DEF t2
    <3> QED
      BY ONLY <3>3 DEF Splits
  <2>3. a \in 1 .. n + 1 /\ b \in 1 .. n + 1 /\ a < b
    BY ONLY <2>a, <2>f, <2>g DEF FirstOf, LastOf
  <2>4. t[<<a, b>>] = Bin(ops[r], t[<<a, r>>], t[<<r + 1, b>>])
    <3>1. a \in 1 .. Len(ops) + 1 /\ b \in 1 .. Len(ops) + 1
      BY ONLY <2>3, <2>b
    <3>2. RootOf(strength, ops, a, b, r)
      BY ONLY <2>1, <2>3, <2>b, <2>i, <3>1 DEF RootOf
    <3>3. Splits(t, ops, a, b, r)
      BY ONLY <3>2, TreeOfPart DEF t
    <3> HIDE DEF t
    <3> QED
      BY ONLY <3>3 DEF Splits
  <2>5. FirstOf(q + 1, k) = r + 1 /\ q \in i .. j - 1
    <3>1. q \in i .. j - 1
      BY ONLY <2>1 DEF PartOf
    <3> QED
      BY ONLY <2>1, <3>1, JoinPlaces
  <2>6. q \in 1 .. n /\ q + 1 \in 1 .. n /\ i <= q /\ q - i <= d /\ q + 1 <= j /\ j - (q + 1) <= d
    BY ONLY <2>a, <2>5
  <2>7. Same(i, q) /\ Same(q + 1, j)
    <3> HIDE DEF Same
    <3> QED
      BY <1>6, <2>6
  <2> QED
    BY ONLY <2>1, <2>2, <2>4, <2>5, <2>7, <2>e, <2>f, <2>g DEF Same
<1>7. \A d \in Nat : d \in S
  <2> HIDE DEF S
  <2> QED
    BY <1>5, <1>6, Induct
<1>8. Same(1, n)
  <2>1. n \in S /\ 1 \in 1 .. n /\ n \in 1 .. n /\ 1 <= n /\ n - 1 <= n
    <3> HIDE DEF S
    <3> QED
      BY <1>7
  <2> HIDE DEF Same
  <2> QED
    BY <2>1
<1>9. FirstOf(1, k) = 1 /\ LastOf(n, k) = n + 1 /\ Len(ops2) + 1 = n
  BY <1>1 DEF FirstOf, LastOf
<1> QED
  BY <1>8, <1>9 DEF GrammarTree

\* A chain without operators is its operand.
LEMMA TreeOfOperand ==
  ASSUME NEW strength \in [BinaryOperators -> Nat], NEW operands, NEW ops \in Seq(BinaryOperators),
         Len(ops) = 0
  PROVE  GrammarTree(strength, operands, ops) = operands[1]
<1>1. 1 \in 1 .. Len(ops) + 1 /\ Len(ops) + 1 = 1
  OBVIOUS
<1>2. Trees(strength, operands, ops)[<<1, 1>>] = operands[1]
  BY <1>1, TreeOfOne
<1> QED
  BY ONLY <1>1, <1>2 DEF GrammarTree
=============================================================================
