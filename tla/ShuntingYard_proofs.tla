------------------------ MODULE ShuntingYard_proofs ------------------------
(***************************************************************************)
(* parseBinaryExpression on chains of any length: no stack is popped empty,*)
(* every expression made is one the raw values of the operators allow, and *)
(* the result is the tree that they give the whole chain.                  *)
(***************************************************************************)
EXTENDS ShuntingYard, Basics_proofs

\* The raw values differ: of two operators one is the lower.
LEMMA RawValuesAreOrder ==
  /\ \A o \in BinaryOperators : rawValue[o] \in Nat
  /\ \A o, q \in BinaryOperators :
       ~hasLowerPrecedence(o, q) => rawValue[q] < rawValue[o]
BY DEF BinaryOperators, rawValue, hasLowerPrecedence

\* A sequence is one of its own elements.
LEMMA OwnElements ==
  ASSUME NEW T, NEW s \in Seq(T)
  PROVE  s \in Seq({ s[j] : j \in DOMAIN s })
<1>1. DOMAIN s = 1 .. Len(s) /\ Len(s) \in Nat
  BY LenProperties
<1>2. s \in [1 .. Len(s) -> { s[j] : j \in DOMAIN s }]
  BY <1>1, LenProperties
<1> QED
  BY <1>1, <1>2, SeqDef

\* The elements of a concatenation, and that it is the function of them.
LEMMA ConcatElements ==
  ASSUME NEW T, NEW s1 \in Seq(T), NEW s2 \in Seq(T)
  PROVE  /\ Len(s1) \in Nat /\ Len(s2) \in Nat
         /\ s1 \o s2 \in Seq(T)
         /\ Len(s1 \o s2) = Len(s1) + Len(s2)
         /\ s1 \o s2 = [j \in 1 .. Len(s1) + Len(s2) |-> (s1 \o s2)[j]]
         /\ \A j \in 1 .. Len(s1) + Len(s2) :
              (s1 \o s2)[j] = IF j <= Len(s1) THEN s1[j] ELSE s2[j - Len(s1)]
<1> DEFINE both == s1 \o s2
<1>1. /\ both \in Seq(T)
      /\ Len(both) = Len(s1) + Len(s2)
      /\ \A j \in 1 .. Len(s1) + Len(s2) :
           both[j] = IF j <= Len(s1) THEN s1[j] ELSE s2[j - Len(s1)]
  BY ConcatProperties
<1> HIDE DEF both
<1>2. Len(s1) \in Nat /\ Len(s2) \in Nat
  BY LenProperties
<1>3. both = [j \in 1 .. Len(s1) + Len(s2) |-> both[j]]
  BY <1>1, LenProperties
<1> QED
  BY <1>1, <1>2, <1>3 DEF both

\* createBinaryExpression joins the trees around the operator on top.
LEMMA MakeIsJoin ==
  ASSUME NEW T, NEW e \in T, NEW n \in Nat \ {0},
         resultStack \in Seq(T), operands \in Seq(T), Len(resultStack) = n + 1,
         operatorStack \in Seq(BinaryOperators), Len(operatorStack) = n,
         ops \in Seq(BinaryOperators),
         e = Bin(operatorStack[n], resultStack[n], resultStack[n + 1])
  PROVE  /\ Append(SubSeq(resultStack, 1, n - 1), e) \o operands =
              R!Join(resultStack \o operands, operatorStack \o ops, n)
         /\ Front(operatorStack) \o ops = R!Without(operatorStack \o ops, n)
         /\ Append(SubSeq(resultStack, 1, n - 1), e) \in Seq(T)
         /\ Len(Append(SubSeq(resultStack, 1, n - 1), e)) = n
         /\ Front(operatorStack) \in Seq(BinaryOperators)
         /\ Len(Front(operatorStack)) = n - 1
         /\ \A j \in 1 .. n - 1 : Front(operatorStack)[j] = operatorStack[j]
<1> DEFINE below == SubSeq(resultStack, 1, n - 1)
           made == Append(below, e)
<1>1. below \in Seq(T) /\ Len(below) = n - 1 /\ \A j \in 1 .. n - 1 : below[j] = resultStack[j]
  BY ElementOfSeq, SubSeqProperties
<1>2. /\ made \in Seq(T) /\ Len(made) = n
      /\ \A j \in 1 .. n : made[j] = IF j = n THEN e ELSE resultStack[j]
  <2> HIDE DEF below
  <2> QED
    BY <1>1, AppendProperties
<1>3. /\ Front(operatorStack) \in Seq(BinaryOperators) /\ Len(Front(operatorStack)) = n - 1
      /\ \A j \in 1 .. n - 1 : Front(operatorStack)[j] = operatorStack[j]
  BY ElementOfSeq, SubSeqProperties DEF Front
<1> HIDE DEF made
<1>4. made \o operands = R!Join(resultStack \o operands, operatorStack \o ops, n)
  <2> DEFINE old == resultStack \o operands
             new == made \o operands
  <2>1. /\ Len(operands) \in Nat /\ Len(old) = Len(resultStack) + Len(operands)
        /\ \A j \in 1 .. Len(resultStack) + Len(operands) :
             old[j] = IF j <= Len(resultStack) THEN resultStack[j] ELSE operands[j - Len(resultStack)]
    BY ConcatElements
  <2>2. /\ new = [j \in 1 .. Len(made) + Len(operands) |-> new[j]]
        /\ \A j \in 1 .. Len(made) + Len(operands) :
             new[j] = IF j <= Len(made) THEN made[j] ELSE operands[j - Len(made)]
    BY <1>2, ConcatElements
  <2>3. (operatorStack \o ops)[n] = operatorStack[n]
    BY ConcatElements
  <2> HIDE DEF old, new
  <2>4. R!Bin(operatorStack[n], resultStack[n], resultStack[n + 1]) = e
    BY DEF R!Bin, Bin, R!Node, Node
  <2>5. R!Join(old, operatorStack \o ops, n) =
          [j \in 1 .. n + Len(operands) |->
             IF j < n THEN old[j] ELSE IF j = n THEN e ELSE old[j + 1]]
    <3>1. old[n] = resultStack[n] /\ old[n + 1] = resultStack[n + 1] /\ Len(old) - 1 = n + Len(operands)
      BY <2>1
    <3> QED
      BY <2>3, <2>4, <3>1 DEF R!Join
  <2>6. ASSUME NEW j \in 1 .. n + Len(operands)
        PROVE  new[j] = IF j < n THEN old[j] ELSE IF j = n THEN e ELSE old[j + 1]
    <3>1. CASE j <= n
      <4>1. new[j] = made[j] /\ old[j] = resultStack[j]
        BY <1>2, <2>1, <2>2, <3>1
      <4> QED
        BY <1>2, <3>1, <4>1
    <3>2. CASE j > n
      <4>1. j + 1 \in 1 .. Len(resultStack) + Len(operands) /\ j \in 1 .. Len(made) + Len(operands)
        BY <1>2, <2>1
      <4>3. old[j + 1] = operands[(j + 1) - (n + 1)] /\ new[j] = operands[j - n]
        BY <1>2, <2>1, <2>2, <3>2, <4>1, SMTT(30)
      <4>2. (j + 1) - (n + 1) = j - n
        OBVIOUS
      <4> QED
        BY <3>2, <4>3, <4>2
    <3> QED
      BY <3>1, <3>2
  <2> QED
    BY <1>2, <2>2, <2>5, <2>6 DEF old, new
<1>5. Front(operatorStack) \o ops = R!Without(operatorStack \o ops, n)
  <2> DEFINE old == operatorStack \o ops
             front == Front(operatorStack)
             new == front \o ops
  <2>1. /\ Len(ops) \in Nat /\ Len(old) = Len(operatorStack) + Len(ops)
        /\ \A j \in 1 .. Len(operatorStack) + Len(ops) :
             old[j] = IF j <= Len(operatorStack) THEN operatorStack[j] ELSE ops[j - Len(operatorStack)]
    BY ConcatElements
  <2>2. front \in Seq(BinaryOperators)
    BY <1>3
  <2> HIDE DEF front
  <2>3. /\ new = [j \in 1 .. Len(front) + Len(ops) |-> new[j]]
        /\ \A j \in 1 .. Len(front) + Len(ops) :
             new[j] = IF j <= Len(front) THEN front[j] ELSE ops[j - Len(front)]
    BY <2>2, ConcatElements
  <2> HIDE DEF old, new
  <2>4. ASSUME NEW j \in 1 .. n - 1 + Len(ops)
        PROVE  new[j] = IF j < n THEN old[j] ELSE old[j + 1]
    <3>1. CASE j < n
      <4>1. new[j] = front[j] /\ old[j] = operatorStack[j] /\ front[j] = operatorStack[j]
        BY <1>3, <2>1, <2>3, <3>1 DEF front
      <4> QED
        BY <3>1, <4>1
    <3>2. CASE j >= n
      <4>1. /\ Len(front) = n - 1
            /\ j + 1 \in 1 .. Len(operatorStack) + Len(ops) /\ j \in 1 .. Len(front) + Len(ops)
        BY <1>3, <2>1 DEF front
      <4>3. old[j + 1] = ops[(j + 1) - n] /\ new[j] = ops[j - (n - 1)]
        BY <2>1, <2>3, <3>2, <4>1, SMTT(30)
      <4>2. (j + 1) - n = j - (n - 1)
        OBVIOUS
      <4> QED
        BY <3>2, <4>3, <4>2
    <3> QED
      BY <3>1, <3>2
  <2>5. Len(old) - 1 = n - 1 + Len(ops)
    BY <2>1
  <2>6. Len(front) = n - 1
    BY <1>3 DEF front
  <2> QED
    BY <2>3, <2>4, <2>5, <2>6 DEF R!Without, front, old, new
<1> QED
  BY <1>2, <1>3, <1>4, <1>5 DEF made

\* Moving the boundary between two sequences leaves their concatenation.
LEMMA MovedAcross ==
  ASSUME NEW T, NEW s1 \in Seq(T), NEW s2 \in Seq(T), s2 # << >>
  PROVE  /\ Append(s1, Head(s2)) \o Tail(s2) = s1 \o s2
         /\ Append(s1, Head(s2)) \in Seq(T) /\ Tail(s2) \in Seq(T)
         /\ Len(Append(s1, Head(s2))) = Len(s1) + 1
         /\ Len(Tail(s2)) = Len(s2) - 1
<1>1. /\ Head(s2) \in T /\ Tail(s2) \in Seq(T) /\ Len(Tail(s2)) = Len(s2) - 1
      /\ s2 = << Head(s2) >> \o Tail(s2)
  BY HeadTailProperties, ConcatSimplifications
<1>2. << Head(s2) >> \in Seq(T)
  BY <1>1
<1>3. Append(s1, Head(s2)) = s1 \o << Head(s2) >>
  BY <1>1, AppendIsConcat
<1>4. (s1 \o << Head(s2) >>) \o Tail(s2) = s1 \o (<< Head(s2) >> \o Tail(s2))
  BY <1>1, <1>2, ConcatAssociative
<1>5. Append(s1, Head(s2)) \in Seq(T) /\ Len(Append(s1, Head(s2))) = Len(s1) + 1
  BY <1>1, AppendProperties
<1> QED
  BY <1>1, <1>3, <1>4, <1>5

-----------------------------------------------------------------------------
(* The inductive invariant, step by step.                                  *)

SYInv == TypeOK /\ WaitingOperatorsIncrease

LEMMA InitSYInv == Init => SYInv /\ R!Init
<1> SUFFICES ASSUME Init PROVE SYInv /\ R!Init
  OBVIOUS
<1>1. /\ ops \in Seq(BinaryOperators) /\ operands \in Seq(Operands)
      /\ Len(operands) = Len(ops) + 1
  BY ChainsAssumption DEF Init
<1>2. operands \in Seq({ operands[j] : j \in DOMAIN operands })
  BY <1>1, OwnElements
<1>3. /\ resultStack = << >> /\ operatorStack = << >> /\ at = "operand"
      /\ resultStack \in Seq({ resultStack[j] : j \in DOMAIN resultStack })
      /\ operatorStack \in Seq(BinaryOperators)
      /\ Len(resultStack) = 0 /\ Len(operatorStack) = 0
  BY EmptySeq DEF Init
<1>4. TypeOK
  BY <1>1, <1>2, <1>3 DEF TypeOK
<1>5. WaitingOperatorsIncrease
  BY <1>3 DEF WaitingOperatorsIncrease
<1>6. resultStack \o operands = operands /\ operatorStack \o ops = ops
  BY <1>1, <1>3, ConcatEmptySeq
<1> QED
  BY <1>1, <1>4, <1>5, <1>6 DEF SYInv, R!Init, R!BinaryOperators, BinaryOperators

LEMMA PushOperandStep ==
  ASSUME SYInv, PushOperand
  PROVE  SYInv' /\ UNCHANGED R!rvars
<1>1. PICK T : resultStack \in Seq(T) /\ operands \in Seq(T) /\ operands # << >>
  <2> DEFINE T == { resultStack[j] : j \in DOMAIN resultStack }
                    \cup { operands[j] : j \in DOMAIN operands }
  <2>1. resultStack \in Seq(T) /\ operands \in Seq(T) /\ operands # << >>
    <3>1. /\ resultStack \in Seq({ resultStack[j] : j \in DOMAIN resultStack })
          /\ operands \in Seq({ operands[j] : j \in DOMAIN operands })
          /\ operands # << >>
      BY DEF SYInv, TypeOK, PushOperand
    <3> QED
      BY ONLY <3>1, SeqMonotonic
  <2> HIDE DEF T
  <2> QED
    BY <2>1
<1>2. /\ resultStack' \o operands' = resultStack \o operands
      /\ resultStack' \in Seq(T) /\ operands' \in Seq(T)
      /\ Len(resultStack') = Len(resultStack) + 1
      /\ Len(operands') = Len(operands) - 1
  <2> DEFINE pushed == Append(resultStack, Head(operands))
             rest == Tail(operands)
  <2>1. /\ pushed \o rest = resultStack \o operands
        /\ pushed \in Seq(T) /\ rest \in Seq(T)
        /\ Len(pushed) = Len(resultStack) + 1 /\ Len(rest) = Len(operands) - 1
    BY <1>1, MovedAcross
  <2>2. resultStack' = pushed /\ operands' = rest
    BY DEF PushOperand
  <2> HIDE DEF pushed, rest
  <2> QED
    BY <2>1, <2>2
<1>3. /\ resultStack' \in Seq({ resultStack'[j] : j \in DOMAIN resultStack' })
      /\ operands' \in Seq({ operands'[j] : j \in DOMAIN operands' })
  BY <1>2, OwnElements
<1>4. /\ Len(resultStack) = Len(operatorStack) /\ Len(operands) = Len(ops) + 1
      /\ Len(operatorStack) \in Nat /\ Len(ops) \in Nat
      /\ operatorStack \in Seq(BinaryOperators) /\ ops \in Seq(BinaryOperators)
      /\ operatorStack' = operatorStack /\ ops' = ops
      /\ at' = IF ops = << >> THEN "join" ELSE "operator"
  BY LenProperties DEF SYInv, TypeOK, PushOperand
<1>5. operands' = << >> <=> ops = << >>
  <2>1. Len(operands') = 0 <=> Len(ops) = 0
    BY <1>2, <1>4
  <2> QED
    BY <1>2, <1>4, <2>1, EmptySeq
<1>6. TypeOK'
  BY <1>2, <1>3, <1>4, <1>5 DEF TypeOK
<1>7. WaitingOperatorsIncrease'
  BY <1>4 DEF SYInv, WaitingOperatorsIncrease
<1> QED
  BY <1>2, <1>4, <1>6, <1>7 DEF SYInv, R!rvars

LEMMA PushOperatorStep ==
  ASSUME SYInv, PushOperator
  PROVE  SYInv' /\ UNCHANGED R!rvars
<1>1. /\ operatorStack \in Seq(BinaryOperators) /\ ops \in Seq(BinaryOperators)
      /\ resultStack' = resultStack /\ operands' = operands /\ at' = "operand"
      /\ Len(resultStack) = Len(operatorStack) + 1 /\ Len(operands) = Len(ops)
      /\ operands # << >>
      /\ operatorStack' = Append(operatorStack, Head(ops)) /\ ops' = Tail(ops)
  BY DEF SYInv, TypeOK, PushOperator
<1>2. Len(ops) \in Nat \ {0} /\ ops # << >> /\ Len(operatorStack) \in Nat
  <2>1. Len(operands) # 0
    BY <1>1, EmptySeq DEF SYInv, TypeOK
  <2> QED
    BY <1>1, <2>1, LenProperties, EmptySeq
<1>3. /\ operatorStack' \o ops' = operatorStack \o ops
      /\ operatorStack' \in Seq(BinaryOperators) /\ ops' \in Seq(BinaryOperators)
      /\ Len(operatorStack') = Len(operatorStack) + 1 /\ Len(ops') = Len(ops) - 1
  BY <1>1, <1>2, MovedAcross
<1>4. TypeOK'
  BY <1>1, <1>2, <1>3 DEF SYInv, TypeOK
<1>5. WaitingOperatorsIncrease'
  <2> DEFINE n == Len(operatorStack)
  <2>1. /\ \A j \in 1 .. n : operatorStack'[j] = operatorStack[j]
        /\ operatorStack'[n + 1] = Head(ops) /\ Head(ops) \in BinaryOperators
    BY <1>1, <1>2, HeadTailProperties, AppendProperties
  <2> SUFFICES ASSUME NEW j \in 1 .. n
               PROVE  rawValue[operatorStack'[j]] < rawValue[operatorStack'[j + 1]]
    BY <1>2, <1>3 DEF WaitingOperatorsIncrease
  <2>2. CASE j < n
    BY <1>2, <2>1, <2>2 DEF SYInv, WaitingOperatorsIncrease
  <2>3. CASE j = n
    <3>1. operatorStack # << >> /\ operatorStack[n] \in BinaryOperators
      BY <1>1, <2>3, ElementOfSeq, EmptySeq
    <3>2. ~hasLowerPrecedence(Head(ops), operatorStack[n])
      BY <3>1 DEF PushOperator, MustWait, Last
    <3> QED
      BY <2>1, <2>3, <3>1, <3>2, RawValuesAreOrder
  <2> QED
    BY <1>2, <2>2, <2>3
<1> QED
  BY <1>1, <1>3, <1>4, <1>5 DEF SYInv, R!rvars

\* Both loops that make expressions: the one operator that may follow binds
\* no tighter than the one on top.
LEMMA MakeStep ==
  ASSUME SYInv, at \in {"operator", "join"}, operatorStack # << >>,
         createBinaryExpression, UNCHANGED <<operands, ops, at>>,
         ops # << >> => rawValue[Head(ops)] <= rawValue[Last(operatorStack)]
  PROVE  SYInv' /\ [R!Next]_R!rvars
<1> PICK n : n = Len(operatorStack)
  OBVIOUS
<1> PICK e : e = Bin(operatorStack[n], resultStack[n], resultStack[n + 1])
  OBVIOUS
<1>1. /\ operatorStack \in Seq(BinaryOperators) /\ ops \in Seq(BinaryOperators)
      /\ Len(resultStack) = n + 1 /\ n \in Nat \ {0} /\ Len(operands) = Len(ops)
      /\ Len(ops) \in Nat
  BY LenProperties, EmptySeq DEF SYInv, TypeOK
<1>2. PICK T : resultStack \in Seq(T) /\ operands \in Seq(T) /\ e \in T
  <2> DEFINE T == { resultStack[j] : j \in DOMAIN resultStack }
                    \cup { operands[j] : j \in DOMAIN operands } \cup { e }
  <2>1. resultStack \in Seq(T) /\ operands \in Seq(T) /\ e \in T
    <3>1. /\ resultStack \in Seq({ resultStack[j] : j \in DOMAIN resultStack })
          /\ operands \in Seq({ operands[j] : j \in DOMAIN operands })
      BY DEF SYInv, TypeOK
    <3>2. e \in T
      OBVIOUS
    <3> QED
      BY ONLY <3>1, <3>2, SeqMonotonic
  <2> HIDE DEF T
  <2> QED
    BY <2>1
<1>3. /\ resultStack' = Append(SubSeq(resultStack, 1, n - 1), e)
      /\ operatorStack' = Front(operatorStack)
  <2>1. Len(resultStack) - 2 = n - 1 /\ Len(resultStack) - 1 = n
    BY <1>1
  <2> QED
    BY <1>1, <2>1 DEF createBinaryExpression, Last
<1>4. /\ resultStack' \o operands =
           R!Join(resultStack \o operands, operatorStack \o ops, n)
      /\ operatorStack' \o ops = R!Without(operatorStack \o ops, n)
      /\ resultStack' \in Seq(T) /\ Len(resultStack') = n
      /\ operatorStack' \in Seq(BinaryOperators) /\ Len(operatorStack') = n - 1
      /\ \A j \in 1 .. n - 1 : operatorStack'[j] = operatorStack[j]
  <2> DEFINE made == Append(SubSeq(resultStack, 1, n - 1), e)
             front == Front(operatorStack)
  <2>0. /\ resultStack \in Seq(T) /\ operands \in Seq(T) /\ e \in T
        /\ operatorStack \in Seq(BinaryOperators) /\ ops \in Seq(BinaryOperators)
        /\ n \in Nat \ {0} /\ Len(operatorStack) = n /\ Len(resultStack) = n + 1
        /\ e = Bin(operatorStack[n], resultStack[n], resultStack[n + 1])
    BY <1>1, <1>2
  <2>1. /\ made \o operands = R!Join(resultStack \o operands, operatorStack \o ops, n)
        /\ front \o ops = R!Without(operatorStack \o ops, n)
        /\ made \in Seq(T) /\ Len(made) = n
        /\ front \in Seq(BinaryOperators) /\ Len(front) = n - 1
        /\ \A j \in 1 .. n - 1 : front[j] = operatorStack[j]
    BY <2>0, MakeIsJoin
  <2> HIDE DEF made, front
  <2>2. resultStack' = made /\ operatorStack' = front
    BY <1>3 DEF made, front
  <2> QED
    BY <2>1, <2>2
<1>5. resultStack' \in Seq({ resultStack'[j] : j \in DOMAIN resultStack' })
  BY <1>4, OwnElements
<1>6. TypeOK'
  BY <1>1, <1>4, <1>5 DEF SYInv, TypeOK
<1>7. WaitingOperatorsIncrease'
  <2> SUFFICES ASSUME NEW j \in 1 .. (n - 1) - 1
               PROVE  rawValue[operatorStack'[j]] < rawValue[operatorStack'[j + 1]]
    BY <1>4 DEF WaitingOperatorsIncrease
  <2>1. j \in 1 .. n - 1 /\ j + 1 \in 1 .. n - 1
    BY <1>1
  <2> QED
    BY <1>4, <2>1 DEF SYInv, WaitingOperatorsIncrease
<1>8. R!Handle(operatorStack \o ops, n) /\ n \in 1 .. Len(operatorStack \o ops)
  <2> DEFINE all == operatorStack \o ops
  <2>1. /\ Len(all) = n + Len(ops)
        /\ \A j \in 1 .. n + Len(ops) :
             all[j] = IF j <= n THEN operatorStack[j] ELSE ops[j - n]
    BY <1>1, ConcatElements
  <2> HIDE DEF all
  <2>2. n \in 1 .. Len(all)
    BY <1>1, <2>1
  <2>3. ASSUME n > 1 PROVE rawValue[all[n - 1]] < rawValue[all[n]]
    <3>1. /\ n - 1 \in 1 .. n - 1 /\ (n - 1) + 1 = n
          /\ n - 1 \in 1 .. n + Len(ops) /\ n \in 1 .. n + Len(ops)
          /\ n - 1 <= n /\ n <= n
      BY <1>1, <2>3
    <3>2. all[n - 1] = operatorStack[n - 1] /\ all[n] = operatorStack[n]
      BY <2>1, <3>1
    <3> QED
      BY <3>1, <3>2 DEF SYInv, WaitingOperatorsIncrease
  <2>4. ASSUME n < Len(all) PROVE rawValue[all[n + 1]] <= rawValue[all[n]]
    <3>1. all[n + 1] = ops[(n + 1) - n] /\ all[n] = operatorStack[n]
      BY <1>1, <2>1, <2>4
    <3>2. (n + 1) - n = 1 /\ ops # << >>
      BY <1>1, <2>1, <2>4, EmptySeq
    <3> QED
      BY <3>1, <3>2 DEF Last
  <2> QED
    BY <2>2, <2>3, <2>4 DEF R!Handle, all
<1> QED
  BY <1>4, <1>6, <1>7, <1>8 DEF SYInv, R!Next, R!Reduce

LEMMA SYInvStep == SYInv /\ [Next]_vars => SYInv' /\ [R!Next]_R!rvars
<1> SUFFICES ASSUME SYInv, [Next]_vars PROVE SYInv' /\ [R!Next]_R!rvars
  OBVIOUS
<1>1. CASE PushOperand
  BY <1>1, PushOperandStep
<1>2. CASE PushOperator
  BY <1>2, PushOperatorStep
<1>3. CASE MakeRoom
  <2>1. rawValue[Head(ops)] <= rawValue[Last(operatorStack)] /\ operatorStack # << >>
    BY <1>3 DEF MakeRoom, MustWait, hasLowerPrecedence
  <2> QED
    BY <1>3, <2>1, MakeStep DEF MakeRoom
<1>4. CASE JoinExpressions
  <2>1. ops = << >>
    <3>1. Len(operands) = Len(ops) /\ Len(operands) = 0 /\ ops \in Seq(BinaryOperators)
      BY <1>4 DEF SYInv, TypeOK, JoinExpressions
    <3> QED
      BY <3>1, EmptySeq
  <2> QED
    BY <1>4, <2>1, MakeStep DEF JoinExpressions
<1>5. CASE LeaveScope
  BY <1>5 DEF LeaveScope, SYInv, TypeOK, WaitingOperatorsIncrease, R!rvars
<1>6. CASE Returned \/ UNCHANGED vars
  BY <1>6 DEF Returned, vars, SYInv, TypeOK, WaitingOperatorsIncrease, R!rvars
<1> QED
  BY <1>1, <1>2, <1>3, <1>4, <1>5, <1>6 DEF Next

-----------------------------------------------------------------------------
(* What is on the stacks and what is left of the chain is, taken together, *)
(* a chain with the tree of the whole: an expression made at a handle      *)
(* leaves that tree as it was, and the other steps move the boundary.      *)
TreeKept ==
  GrammarTree(rawValue, resultStack \o operands, operatorStack \o ops) =
    GrammarTree(rawValue, chain.operands, chain.ops)

LEMMA RawValueType == rawValue \in [BinaryOperators -> Nat]
BY DEF rawValue, BinaryOperators

\* Of what is defined at 1 to n, with n operators' worth of elements.
LEMMA OperatorsOfLength ==
  ASSUME NEW n \in Nat, NEW s \in [1 .. n -> BinaryOperators]
  PROVE  s \in Seq(BinaryOperators) /\ Len(s) = n
<1>1. s \in Seq(BinaryOperators)
  BY SeqDef
<1>2. Len(s) \in Nat /\ DOMAIN s = 1 .. Len(s)
  BY <1>1, LenProperties
<1> QED
  BY <1>1, <1>2

LEMMA JoinKeepsRawTree ==
  ASSUME NEW trees, NEW os \in Seq(BinaryOperators), NEW k, R!Handle(os, k),
         Len(trees) = Len(os) + 1,
         NEW trees2, trees2 = R!Join(trees, os, k), NEW os2, os2 = R!Without(os, k)
  PROVE  GrammarTree(rawValue, trees2, os2) = GrammarTree(rawValue, trees, os)
<1> PICK n : n = Len(os)
  OBVIOUS
<1>1. k \in 1 .. n /\ n \in Nat /\ os \in Seq(BinaryOperators) /\ Len(trees) = n + 1
  BY DEF R!Handle
<1>2. /\ os2 = [j \in 1 .. n - 1 |-> IF j < k THEN os[j] ELSE os[j + 1]]
      /\ trees2 = [j \in 1 .. n |->
           IF j < k THEN trees[j]
           ELSE IF j = k THEN Bin(os[k], trees[k], trees[k + 1]) ELSE trees[j + 1]]
  <2>1. R!Bin(os[k], trees[k], trees[k + 1]) = Bin(os[k], trees[k], trees[k + 1])
    BY DEF R!Bin, Bin, R!Node, Node
  <2>2. Len(trees) - 1 = n
    BY <1>1
  <2> QED
    BY <2>1, <2>2 DEF R!Without, R!Join
<1>3. os2 \in Seq(BinaryOperators) /\ Len(os2) = n - 1
  <2>1. os2 \in [1 .. n - 1 -> BinaryOperators]
    <3>1. \A j \in 1 .. n - 1 : j \in 1 .. n /\ j + 1 \in 1 .. n
      BY ONLY <1>1
    <3>2. \A j \in 1 .. n : os[j] \in BinaryOperators
      BY ONLY <1>1, n = Len(os)
    <3> QED
      BY ONLY <1>2, <3>1, <3>2
  <2> QED
    BY ONLY <1>1, <2>1, n - 1 \in Nat, OperatorsOfLength
<1>4. HandleAt(rawValue, os, k)
  BY DEF R!Handle, HandleAt
<1>5. JoinedAt(trees, os, k, trees2, os2)
  BY <1>1, <1>2, <1>3 DEF JoinedAt
<1> QED
  BY ONLY <1>1, n = Len(os), <1>4, <1>5, RawValueType, JoinKeepsTree

\* A step of Reductions keeps the tree, and so does every step here.
LEMMA StepKeepsTree ==
  ASSUME SYInv, [R!Next]_R!rvars
  PROVE  GrammarTree(rawValue, (resultStack \o operands)', (operatorStack \o ops)') =
           GrammarTree(rawValue, resultStack \o operands, operatorStack \o ops)
<1>1. /\ operatorStack \o ops \in Seq(BinaryOperators)
      /\ Len(resultStack \o operands) = Len(operatorStack \o ops) + 1
  <2>1. PICK T : resultStack \in Seq(T) /\ operands \in Seq(T)
    <3> DEFINE T == { resultStack[j] : j \in DOMAIN resultStack }
                      \cup { operands[j] : j \in DOMAIN operands }
    <3>1. resultStack \in Seq(T) /\ operands \in Seq(T)
      <4>1. /\ resultStack \in Seq({ resultStack[j] : j \in DOMAIN resultStack })
            /\ operands \in Seq({ operands[j] : j \in DOMAIN operands })
        BY DEF SYInv, TypeOK
      <4> QED
        BY ONLY <4>1, SeqMonotonic
    <3> HIDE DEF T
    <3> QED
      BY <3>1
  <2>2. /\ Len(resultStack \o operands) = Len(resultStack) + Len(operands)
        /\ Len(resultStack) \in Nat /\ Len(operands) \in Nat
    BY <2>1, ConcatElements
  <2>3. /\ operatorStack \in Seq(BinaryOperators) /\ ops \in Seq(BinaryOperators)
        /\ Len(resultStack) = Len(operatorStack) + (IF at = "operand" THEN 0 ELSE 1)
        /\ Len(operands) = Len(ops) + (IF at = "operand" THEN 1 ELSE 0)
    BY DEF SYInv, TypeOK
  <2>4. /\ operatorStack \o ops \in Seq(BinaryOperators)
        /\ Len(operatorStack \o ops) = Len(operatorStack) + Len(ops)
        /\ Len(operatorStack) \in Nat /\ Len(ops) \in Nat
    BY <2>3, ConcatElements
  <2> QED
    BY ONLY <2>2, <2>3, <2>4
<1>2. CASE UNCHANGED R!rvars
  BY <1>2 DEF R!rvars
<1>3. CASE R!Next
  <2>1. PICK k : R!Reduce(k)
    BY <1>3 DEF R!Next
  <2> PICK ts : ts = resultStack \o operands
    OBVIOUS
  <2> PICK os : os = operatorStack \o ops
    OBVIOUS
  <2> PICK ts2 : ts2 = (resultStack \o operands)'
    OBVIOUS
  <2> PICK os2 : os2 = (operatorStack \o ops)'
    OBVIOUS
  <2>2. /\ os \in Seq(BinaryOperators) /\ Len(ts) = Len(os) + 1
        /\ R!Handle(os, k) /\ ts2 = R!Join(ts, os, k) /\ os2 = R!Without(os, k)
    BY <1>1, <2>1 DEF R!Reduce
  <2>3. GrammarTree(rawValue, ts2, os2) = GrammarTree(rawValue, ts, os)
    BY ONLY <2>2, JoinKeepsRawTree
  <2> QED
    BY <2>3
<1> QED
  BY <1>2, <1>3

TreeInv == SYInv /\ TreeKept

LEMMA InitTreeInv == Init => TreeInv
<1> SUFFICES ASSUME Init PROVE TreeInv
  OBVIOUS
<1>1. resultStack \o operands = chain.operands /\ operatorStack \o ops = chain.ops
  <2>1. chain.ops \in Seq(BinaryOperators) /\ chain.operands \in Seq(Operands)
    BY ChainsAssumption DEF Init
  <2> QED
    BY <2>1, ConcatEmptySeq DEF Init
<1> QED
  BY <1>1, InitSYInv DEF TreeInv, TreeKept

LEMMA NextTreeInv == TreeInv /\ [Next]_vars => TreeInv'
<1> SUFFICES ASSUME TreeInv, [Next]_vars PROVE TreeInv'
  OBVIOUS
<1>1. SYInv' /\ [R!Next]_R!rvars
  BY SYInvStep DEF TreeInv
<1>2. chain' = chain
  BY DEF Next, PushOperand, MakeRoom, PushOperator, JoinExpressions, LeaveScope, Returned, vars
<1> QED
  BY <1>1, <1>2, StepKeepsTree DEF TreeInv, TreeKept

\* On return one tree is left and no operator: it is the tree of the chain.
LEMMA TreeInvParses == TreeInv => ParsesByRawValue
<1> SUFFICES ASSUME TreeInv, at = "returned"
             PROVE  resultStack = << GrammarTree(rawValue, chain.operands, chain.ops) >>
  BY DEF ParsesByRawValue
<1>1. /\ operatorStack = << >> /\ operands = << >> /\ Len(operands) = Len(ops)
      /\ Len(resultStack) = Len(operatorStack) + 1 /\ ops \in Seq(BinaryOperators)
      /\ resultStack \in Seq({ resultStack[j] : j \in DOMAIN resultStack })
  BY DEF TreeInv, SYInv, TypeOK
<1>2. ops = << >> /\ Len(resultStack) = 1
  BY <1>1, EmptySeq
<1>3. resultStack \o operands = resultStack /\ operatorStack \o ops = << >>
  BY <1>1, <1>2, ConcatEmptySeq
<1>4. << >> \in Seq(BinaryOperators) /\ Len(<< >>) = 0
  OBVIOUS
<1>5. GrammarTree(rawValue, resultStack, << >>) = resultStack[1]
  BY ONLY <1>4, RawValueType, TreeOfOperand
<1>6. resultStack = << resultStack[1] >>
  BY <1>1, <1>2
<1> QED
  BY ONLY <1>3, <1>5, <1>6, TreeInv DEF TreeInv, TreeKept

-----------------------------------------------------------------------------
\* The stacks fit together, and the operators waiting increase.
THEOREM StacksCorrect == Spec => [](TypeOK /\ WaitingOperatorsIncrease)
<1>1. SYInv /\ [Next]_vars => SYInv'
  BY SYInvStep
<1>2. Init => SYInv
  BY InitSYInv
<1> QED
  BY <1>1, <1>2, PTL DEF Spec, SYInv

\* No forced unwrap of a pop traps, however long the chain.
THEOREM PopsSucceed == Spec => []OperandsSuffice
<1>1. SYInv => OperandsSuffice
  <2> SUFFICES ASSUME SYInv PROVE OperandsSuffice
    OBVIOUS
  <2>1. ASSUME operatorStack # << >> PROVE Len(operatorStack) \in Nat \ {0}
    BY <2>1, LenProperties, EmptySeq DEF SYInv, TypeOK
  <2>2. at = "returned" => Len(operatorStack) = 0
    BY EmptySeq DEF SYInv, TypeOK
  <2> QED
    BY <2>1, <2>2 DEF SYInv, TypeOK, OperandsSuffice
<1> QED
  BY <1>1, StacksCorrect, PTL DEF SYInv

\* Every expression made is one that the order of the raw values allows.
THEOREM JoinsByRawValue == Spec => ImplementsReductions
<1>1. SYInv /\ [Next]_vars => SYInv' /\ [R!Next]_R!rvars
  BY SYInvStep
<1>2. Init => SYInv /\ R!Init
  BY InitSYInv
<1> QED
  BY <1>1, <1>2, PTL DEF Spec, ImplementsReductions, R!Spec

\* The result for a chain of any length is the tree that the raw values, and
\* associativity to the left, give the whole chain.
THEOREM ParsesEveryChain == Spec => []ParsesByRawValue
<1>1. TreeInv /\ [Next]_vars => TreeInv'
  BY NextTreeInv
<1> QED
  BY InitTreeInv, <1>1, TreeInvParses, PTL DEF Spec
=============================================================================
