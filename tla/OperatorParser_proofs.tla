------------------------ MODULE OperatorParser_proofs ------------------------
(***************************************************************************)
(* parse_expr on chains of any length: the asserts at its end hold, every  *)
(* join is one that the precedences of README.md allow, and the tree that  *)
(* is left is the one the grammar gives the whole chain.                   *)
(***************************************************************************)
EXTENDS OperatorParser, Basics_proofs

\* Whatever is defined at 1 to n is a sequence of length n.
LEMMA LengthByDomain ==
  ASSUME NEW n \in Nat, NEW S, NEW s \in [1 .. n -> S]
  PROVE  s \in Seq(S) /\ Len(s) = n
<1>1. s \in Seq(S)
  BY SeqDef
<1>2. Len(s) \in Nat /\ DOMAIN s = 1 .. Len(s)
  BY <1>1, LenProperties
<1> QED
  BY <1>1, <1>2

\* The levels of parser.c are the precedences of README.md, upside down.
LEMMA LevelsArePrecedences ==
  \A op \in BinaryOperators : /\ operator_precedence[op] \in 0 .. 3
                              /\ operator_precedence[op] = 4 - Precedence[op]
BY DEF BinaryOperators, operator_precedence, Precedence

LEMMA PrecedenceUpsideDown ==
  ASSUME NEW o \in BinaryOperators, NEW q \in BinaryOperators
  PROVE  /\ operator_precedence[o] > operator_precedence[q]
              => Precedence[o] < Precedence[q]
         /\ operator_precedence[o] >= operator_precedence[q]
              => Precedence[o] <= Precedence[q]
BY DEF BinaryOperators, operator_precedence, Precedence

\* What dynarr_remove leaves of the operators.
LEMMA RemoveProperties ==
  ASSUME NEW s \in Seq(BinaryOperators), NEW k \in 0 .. Len(s) - 1
  PROVE  /\ dynarr_remove(s, k) \in Seq(BinaryOperators)
         /\ Len(dynarr_remove(s, k)) = Len(s) - 1
         /\ \A j \in 1 .. Len(s) - 1 :
              dynarr_remove(s, k)[j] = IF j <= k THEN s[j] ELSE s[j + 1]
<1>1. Len(s) \in Nat /\ Len(s) - 1 \in Nat
  OBVIOUS
<1>2. dynarr_remove(s, k) \in [1 .. Len(s) - 1 -> BinaryOperators]
  BY <1>1, ElementOfSeq DEF dynarr_remove
<1> QED
  BY <1>1, <1>2, LengthByDomain DEF dynarr_remove

-----------------------------------------------------------------------------
(* The levels done have no operators left, and those before i are not at   *)
(* the level of the pass: the join at i is a handle.                       *)
LevelsDone ==
  \A j \in 1 .. Len(op_arr) :
    /\ operator_precedence[op_arr[j]] >= p
    /\ j <= i => operator_precedence[op_arr[j]] # p

PInv == TypeOK /\ LevelsDone

LEMMA InitPInv == Init => PInv
<1> SUFFICES ASSUME Init PROVE PInv
  OBVIOUS
<1>1. /\ op_arr \in Seq(BinaryOperators) /\ expr_arr \in Seq(Operands)
      /\ Len(expr_arr) = Len(op_arr) + 1
  BY ChainsAssumption DEF Init
<1>2. expr_arr = [j \in 1 .. Len(op_arr) + 1 |-> expr_arr[j]]
  BY <1>1, SeqDef, LenProperties
<1>4. TypeOK
  BY <1>1, <1>2, LenProperties DEF Init, TypeOK, Levels
<1>3. LevelsDone
  BY <1>1, ElementOfSeq, LevelsArePrecedences DEF Init, LevelsDone
<1> QED
  BY <1>3, <1>4 DEF PInv

-----------------------------------------------------------------------------
(* One step per action.                                                    *)

LEMMA SkipPInv == PInv /\ Skip => PInv'
<1> SUFFICES ASSUME PInv, Skip PROVE PInv'
  OBVIOUS
<1>1. i + 1 \in 1 .. Len(op_arr) /\ Len(op_arr) \in Nat
  BY DEF PInv, TypeOK, Skip, Looks
<1>2. TypeOK'
  BY <1>1 DEF PInv, TypeOK, Skip
<1>3. LevelsDone'
  BY <1>1 DEF PInv, TypeOK, LevelsDone, Skip
<1> QED
  BY <1>2, <1>3 DEF PInv

LEMMA JoinPInv ==
  ASSUME PInv, Join
  PROVE  PInv' /\ R!Reduce(i + 1)
<1>1. /\ i \in 0 .. Len(op_arr) - 1 /\ Len(op_arr) \in Nat /\ p \in 0 .. 3
      /\ op_arr \in Seq(BinaryOperators)
  BY DEF PInv, TypeOK, Join, Looks, Levels
<1>2. operator_precedence[op_arr[i + 1]] = p
  BY DEF Join
<1>3. /\ op_arr' \in Seq(BinaryOperators)
      /\ Len(op_arr') = Len(op_arr) - 1
      /\ \A j \in 1 .. Len(op_arr) - 1 :
           op_arr'[j] = IF j <= i THEN op_arr[j] ELSE op_arr[j + 1]
  BY <1>1, RemoveProperties DEF Join
<1>4. Len(expr_arr) = Len(op_arr) + 1
  <2>1. expr_arr \in [1 .. Len(op_arr) + 1 -> {expr_arr[j] : j \in 1 .. Len(op_arr) + 1}]
    BY DEF PInv, TypeOK
  <2> QED
    BY <1>1, <2>1, LengthByDomain
<1>5. expr_arr' = [j \in 1 .. Len(op_arr) |->
                    IF j = i + 1 THEN Bin(op_arr[i + 1], expr_arr[i + 1], expr_arr[i + 2])
                    ELSE IF j <= i THEN expr_arr[j] ELSE expr_arr[j + 1]]
  <2> DEFINE joined == Bin(op_arr[i + 1], expr_arr[i + 1], expr_arr[i + 2])
  <2>1. expr_arr' = [dynarr_remove(expr_arr, i) EXCEPT ![i + 1] = joined]
    BY DEF Join
  <2>2. dynarr_remove(expr_arr, i) =
          [j \in 1 .. Len(op_arr) |-> IF j <= i THEN expr_arr[j] ELSE expr_arr[j + 1]]
    <3>1. Len(expr_arr) - 1 = Len(op_arr)
      BY <1>1, <1>4
    <3> QED
      BY <3>1 DEF dynarr_remove
  <2> HIDE DEF joined
  <2>3. expr_arr' = [j \in 1 .. Len(op_arr) |->
                       IF j = i + 1 THEN joined
                       ELSE IF j <= i THEN expr_arr[j] ELSE expr_arr[j + 1]]
    BY <1>1, <2>1, <2>2
  <2> QED
    BY <2>3 DEF joined
<1>6. TypeOK'
  <2>1. expr_arr' = [j \in 1 .. Len(op_arr') + 1 |-> expr_arr'[j]]
    BY <1>1, <1>3, <1>5
  <2> QED
    BY <1>1, <1>3, <2>1 DEF PInv, TypeOK, Join
<1>7. LevelsDone'
  <2> SUFFICES ASSUME NEW j \in 1 .. Len(op_arr')
               PROVE  /\ operator_precedence[op_arr'[j]] >= p
                      /\ j <= i => operator_precedence[op_arr'[j]] # p
    BY DEF LevelsDone, Join
  <2>1. /\ j \in 1 .. Len(op_arr) - 1
        /\ op_arr'[j] = IF j <= i THEN op_arr[j] ELSE op_arr[j + 1]
    BY <1>1, <1>3
  <2>2. j \in 1 .. Len(op_arr) /\ j + 1 \in 1 .. Len(op_arr)
    BY <1>1, <2>1
  <2> QED
    BY <1>1, <2>1, <2>2 DEF PInv, LevelsDone
<1>8. R!Handle(op_arr, i + 1)
  <2>1. ASSUME i + 1 > 1
        PROVE  Precedence[op_arr[i]] < Precedence[op_arr[i + 1]]
    <3>1. /\ operator_precedence[op_arr[i]] >= p
          /\ operator_precedence[op_arr[i]] # p
          /\ op_arr[i] \in BinaryOperators /\ op_arr[i + 1] \in BinaryOperators
      BY <1>1, <2>1, ElementOfSeq DEF PInv, LevelsDone
    <3>2. operator_precedence[op_arr[i]] > operator_precedence[op_arr[i + 1]]
      BY <1>1, <1>2, <3>1, LevelsArePrecedences
    <3> QED
      BY <3>1, <3>2, PrecedenceUpsideDown
  <2>2. ASSUME i + 1 < Len(op_arr)
        PROVE  Precedence[op_arr[i + 2]] <= Precedence[op_arr[i + 1]]
    <3>1. /\ operator_precedence[op_arr[i + 2]] >= p
          /\ op_arr[i + 2] \in BinaryOperators /\ op_arr[i + 1] \in BinaryOperators
      BY <1>1, <2>2, ElementOfSeq DEF PInv, LevelsDone
    <3>2. operator_precedence[op_arr[i + 2]] >= operator_precedence[op_arr[i + 1]]
      BY <1>2, <3>1
    <3> QED
      BY <3>1, <3>2, PrecedenceUpsideDown
  <2>3. (i + 1) - 1 = i /\ (i + 1) + 1 = i + 2
    BY <1>1
  <2> QED
    BY <1>1, <2>1, <2>2, <2>3 DEF R!Handle
<1>9. expr_arr' = R!Join(expr_arr, op_arr, i + 1)
  <2>1. Len(expr_arr) - 1 = Len(op_arr) /\ (i + 1) + 1 = i + 2
    BY <1>1, <1>4
  <2>2. \A j \in 1 .. Len(op_arr) : j <= i <=> j < i + 1
    BY <1>1
  <2>3. R!Bin(op_arr[i + 1], expr_arr[i + 1], expr_arr[i + 2])
          = Bin(op_arr[i + 1], expr_arr[i + 1], expr_arr[i + 2])
    BY DEF R!Bin, Bin, R!Node, Node
  <2> DEFINE joined == Bin(op_arr[i + 1], expr_arr[i + 1], expr_arr[i + 2])
  <2>4. R!Join(expr_arr, op_arr, i + 1) =
          [j \in 1 .. Len(op_arr) |->
             IF j < i + 1 THEN expr_arr[j] ELSE IF j = i + 1 THEN joined ELSE expr_arr[j + 1]]
    BY <2>1, <2>3 DEF R!Join
  <2>5. expr_arr' = [j \in 1 .. Len(op_arr) |->
             IF j = i + 1 THEN joined ELSE IF j <= i THEN expr_arr[j] ELSE expr_arr[j + 1]]
    BY <1>5
  <2> HIDE DEF joined
  <2> QED
    BY <1>1, <2>2, <2>4, <2>5
<1>10. op_arr' = R!Without(op_arr, i + 1)
  BY <1>1 DEF Join, dynarr_remove, R!Without
<1> QED
  BY <1>6, <1>7, <1>8, <1>9, <1>10 DEF PInv, R!Reduce

LEMMA NextLevelPInv == PInv /\ NextLevel => PInv'
<1> SUFFICES ASSUME PInv, NextLevel PROVE PInv'
  OBVIOUS
<1>1. p \in 0 .. 3 /\ i = Len(op_arr) /\ Len(op_arr) \in Nat
  BY DEF PInv, TypeOK, NextLevel, Levels
<1>2. TypeOK'
  BY <1>1 DEF PInv, TypeOK, NextLevel, Levels
<1>3. \A j \in 1 .. Len(op_arr) : operator_precedence[op_arr[j]] >= p + 1
  <2> SUFFICES ASSUME NEW j \in 1 .. Len(op_arr)
               PROVE  operator_precedence[op_arr[j]] >= p + 1
    OBVIOUS
  <2>1. op_arr[j] \in BinaryOperators
    BY ElementOfSeq DEF PInv, TypeOK
  <2>2. /\ operator_precedence[op_arr[j]] \in 0 .. 3
        /\ operator_precedence[op_arr[j]] >= p
        /\ operator_precedence[op_arr[j]] # p
    BY <1>1, <2>1, LevelsArePrecedences DEF PInv, LevelsDone
  <2> QED
    BY <1>1, <2>2
<1>4. LevelsDone'
  BY <1>1, <1>3 DEF LevelsDone, NextLevel
<1> QED
  BY <1>2, <1>4 DEF PInv

LEMMA NextPInv == PInv /\ [Next]_vars => PInv' /\ [R!Next]_R!rvars
<1> SUFFICES ASSUME PInv, [Next]_vars PROVE PInv' /\ [R!Next]_R!rvars
  OBVIOUS
<1>1. CASE Skip
  BY <1>1, SkipPInv DEF Skip, R!rvars
<1>2. CASE Join
  <2>1. i + 1 \in 1 .. Len(op_arr)
    BY <1>2 DEF PInv, TypeOK, Join, Looks
  <2> QED
    BY <1>2, <2>1, JoinPInv DEF R!Next
<1>3. CASE NextLevel
  BY <1>3, NextLevelPInv DEF NextLevel, R!rvars
<1>4. CASE Returned \/ UNCHANGED vars
  BY <1>4 DEF Returned, vars, PInv, TypeOK, LevelsDone, R!rvars
<1> QED
  BY <1>1, <1>2, <1>3, <1>4 DEF Next

\* After the last level no operator is left, and so there is one tree.
LEMMA PInvOneTree == PInv => OneTreeLeft
<1> SUFFICES ASSUME PInv, p = Levels PROVE Len(op_arr) = 0 /\ Len(expr_arr) = 1
  BY DEF OneTreeLeft
<1>1. Len(op_arr) = 0
  <2>1. SUFFICES ASSUME 1 \in 1 .. Len(op_arr) PROVE FALSE
    BY DEF PInv, TypeOK
  <2>2. operator_precedence[op_arr[1]] \in 0 .. 3
    BY <2>1, ElementOfSeq, LevelsArePrecedences DEF PInv, TypeOK
  <2> QED
    BY <2>1, <2>2 DEF PInv, LevelsDone, Levels
<1>2. expr_arr \in [1 .. 1 -> {expr_arr[j] : j \in 1 .. 1}]
  BY <1>1 DEF PInv, TypeOK
<1> QED
  BY <1>1, <1>2, LengthByDomain

-----------------------------------------------------------------------------
(* The tree of what is in the arrays is the tree of the chain: a join at a *)
(* handle leaves it as it was.                                             *)
TreeKept ==
  GrammarTree(Precedence, expr_arr, op_arr) = GrammarTree(Precedence, chain.operands, chain.ops)

LEMMA PrecedenceType == Precedence \in [BinaryOperators -> Nat]
BY DEF Precedence, BinaryOperators

LEMMA ReduceKeepsTree ==
  ASSUME NEW k, R!Reduce(k), op_arr \in Seq(BinaryOperators), Len(expr_arr) = Len(op_arr) + 1
  PROVE  GrammarTree(Precedence, expr_arr', op_arr') = GrammarTree(Precedence, expr_arr, op_arr)
<1> PICK n : n = Len(op_arr)
  OBVIOUS
<1>1. k \in 1 .. n /\ n \in Nat /\ op_arr \in Seq(BinaryOperators) /\ Len(expr_arr) = n + 1
  BY DEF R!Reduce, R!Handle
<1>2. /\ op_arr' = [j \in 1 .. n - 1 |-> IF j < k THEN op_arr[j] ELSE op_arr[j + 1]]
      /\ expr_arr' = [j \in 1 .. n |->
           IF j < k THEN expr_arr[j]
           ELSE IF j = k THEN Bin(op_arr[k], expr_arr[k], expr_arr[k + 1]) ELSE expr_arr[j + 1]]
  <2>1. R!Bin(op_arr[k], expr_arr[k], expr_arr[k + 1]) = Bin(op_arr[k], expr_arr[k], expr_arr[k + 1])
    BY DEF R!Bin, Bin, R!Node, Node
  <2>2. Len(expr_arr) - 1 = n
    BY <1>1
  <2>3. op_arr' = R!Without(op_arr, k) /\ expr_arr' = R!Join(expr_arr, op_arr, k)
    BY DEF R!Reduce
  <2> HIDE DEF Bin
  <2> QED
    BY <2>1, <2>2, <2>3 DEF R!Without, R!Join
<1>3. op_arr' \in Seq(BinaryOperators) /\ Len(op_arr') = n - 1
  <2>1. op_arr' \in [1 .. n - 1 -> BinaryOperators]
    <3>1. \A j \in 1 .. n - 1 : j \in 1 .. n /\ j + 1 \in 1 .. n
      BY ONLY <1>1
    <3>2. \A j \in 1 .. n : op_arr[j] \in BinaryOperators
      BY ONLY <1>1, n = Len(op_arr)
    <3> QED
      BY ONLY <1>2, <3>1, <3>2
  <2> QED
    BY ONLY <1>1, <2>1, n - 1 \in Nat, LengthByDomain
<1>4. HandleAt(Precedence, op_arr, k)
  BY DEF R!Reduce, R!Handle, HandleAt
<1>5. JoinedAt(expr_arr, op_arr, k, expr_arr', op_arr')
  BY <1>1, <1>2, <1>3 DEF JoinedAt
<1> QED
  BY ONLY <1>1, n = Len(op_arr), <1>4, <1>5, PrecedenceType, JoinKeepsTree

TreeInv == PInv /\ TreeKept

LEMMA InitTreeInv == Init => TreeInv
BY InitPInv DEF Init, TreeInv, TreeKept

LEMMA PInvLength == PInv => op_arr \in Seq(BinaryOperators) /\ Len(expr_arr) = Len(op_arr) + 1
<1> SUFFICES ASSUME PInv PROVE op_arr \in Seq(BinaryOperators) /\ Len(expr_arr) = Len(op_arr) + 1
  OBVIOUS
<1>1. op_arr \in Seq(BinaryOperators) /\ Len(op_arr) + 1 \in Nat
  BY DEF PInv, TypeOK
<1>2. expr_arr \in [1 .. Len(op_arr) + 1 -> {expr_arr[j] : j \in 1 .. Len(op_arr) + 1}]
  BY DEF PInv, TypeOK
<1> QED
  BY <1>1, <1>2, LengthByDomain

LEMMA NextTreeInv == TreeInv /\ [Next]_vars => TreeInv'
<1> SUFFICES ASSUME TreeInv, [Next]_vars PROVE TreeInv'
  OBVIOUS
<1>1. PInv'
  BY NextPInv DEF TreeInv
<1>2. TreeKept'
  <2>1. CASE Join
    <3>1. GrammarTree(Precedence, expr_arr', op_arr') = GrammarTree(Precedence, expr_arr, op_arr)
      BY <2>1, JoinPInv, PInvLength, ReduceKeepsTree DEF TreeInv
    <3> QED
      BY <2>1, <3>1 DEF TreeInv, TreeKept, Join
  <2>2. CASE UNCHANGED <<chain, expr_arr, op_arr>>
    BY <2>2 DEF TreeInv, TreeKept
  <2> QED
    BY <2>1, <2>2 DEF Next, Skip, NextLevel, Returned, vars
<1> QED
  BY <1>1, <1>2 DEF TreeInv

\* Where one tree is left, it is the tree of the chain.
LEMMA TreeInvParses == TreeInv => ParsesByGrammar
<1> SUFFICES ASSUME TreeInv, p = Levels
             PROVE  expr_arr = << GrammarTree(Precedence, chain.operands, chain.ops) >>
  BY DEF ParsesByGrammar
<1>1. Len(op_arr) = 0 /\ op_arr \in Seq(BinaryOperators)
  BY PInvOneTree, PInvLength DEF TreeInv, OneTreeLeft
<1>2. GrammarTree(Precedence, expr_arr, op_arr) = expr_arr[1]
  BY ONLY <1>1, PrecedenceType, TreeOfOperand
<1>3. expr_arr = << expr_arr[1] >>
  <2>1. expr_arr = [j \in 1 .. 1 |-> expr_arr[j]]
    BY <1>1 DEF TreeInv, PInv, TypeOK
  <2> QED
    BY ONLY <2>1
<1> QED
  BY <1>2, <1>3 DEF TreeInv, TreeKept

-----------------------------------------------------------------------------
\* Types, and what the arrays have in common.
THEOREM TypeCorrect == Spec => []TypeOK
<1>1. PInv /\ [Next]_vars => PInv'
  BY NextPInv
<1>2. PInv => TypeOK
  BY DEF PInv
<1> QED
  BY InitPInv, <1>1, <1>2, PTL DEF Spec

\* The asserts at the end of parse_expr hold for a chain of any length.
THEOREM AssertsHold == Spec => []OneTreeLeft
<1>1. PInv /\ [Next]_vars => PInv'
  BY NextPInv
<1> QED
  BY InitPInv, <1>1, PInvOneTree, PTL DEF Spec

\* parse_expr joins the operands of a chain of any length only as the
\* precedences of README.md and associativity to the left allow.
THEOREM JoinsByPrecedence == Spec => ImplementsReductions
<1>1. PInv /\ [Next]_vars => PInv' /\ [R!Next]_R!rvars
  BY NextPInv
<1>2. Init => R!Init
  BY ChainsAssumption DEF Init, R!Init, BinaryOperators, R!BinaryOperators
<1> QED
  BY InitPInv, <1>1, <1>2, PTL DEF Spec, ImplementsReductions, R!Spec

\* The tree that parse_expr returns for a chain of any length is the one
\* that the precedences of README.md, and associativity to the left, give
\* the whole chain.
THEOREM ParsesEveryChain == Spec => []ParsesByGrammar
<1>1. TreeInv /\ [Next]_vars => TreeInv'
  BY NextTreeInv
<1> QED
  BY InitTreeInv, <1>1, TreeInvParses, PTL DEF Spec
=============================================================================
