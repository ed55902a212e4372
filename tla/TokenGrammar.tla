---------------------------- MODULE TokenGrammar ----------------------------
(***************************************************************************)
(* The trees that the grammar of ASSIGNMENTS.md (1.13) gives a sequence of *)
(* tokens, as a set: empty if the sequence is not in the language.  The    *)
(* sequence is taken apart from the outside: at the separators or operators *)
(* that are inside no parentheses and in no if, let or loop.  It is the    *)
(* reference the parsers are checked against.                              *)
(***************************************************************************)
EXTENDS Grammar, Tokens, Integers, FiniteSets

CONSTANT Strength     \* of the operators: the greater, the tighter they bind

\* How many of the first k tokens open something that is not closed in them.
Nesting(s, k) ==
  Cardinality({j \in 1 .. k : s[j].type \in {"(", "if", "let", "loop"}})
    - Cardinality({j \in 1 .. k : s[j].type \in {")", "end"}})

\* The places of the tokens of these types outside everything, in order; the
\* pieces between them.
Cuts(s, types) ==
  LET places == {k \in 1 .. Len(s) : s[k].type \in types /\ Nesting(s, k) = 0}
  IN  [n \in 1 .. Cardinality(places) |->
         CHOOSE k \in places : Cardinality({j \in places : j <= k}) = n]
Types(s, cuts) == [k \in 1 .. Len(cuts) |-> s[cuts[k]].type]
Pieces(s, cuts) ==
  LET ends == <<0>> \o cuts \o <<Len(s) + 1>>
  IN  [k \in 1 .. Len(cuts) + 1 |-> SubSeq(s, ends[k] + 1, ends[k + 1] - 1)]

\* Where what the first token opens is closed; 0 if nowhere.
Close(s) ==
  IF \E k \in 1 .. Len(s) : Nesting(s, k) = 0
  THEN CHOOSE k \in 1 .. Len(s) : Nesting(s, k) = 0 /\ \A j \in 1 .. k - 1 : Nesting(s, j) # 0
  ELSE 0

\* One tree of each set, all of which have at most one.
Each(sets) ==
  IF \E k \in 1 .. Len(sets) : sets[k] = {} THEN {}
  ELSE { [k \in 1 .. Len(sets) |-> CHOOSE t \in sets[k] : TRUE] }

Form(s, first, last) ==
  Len(s) > 2 /\ s[1].type = first /\ s[Len(s)].type = last /\ Close(s) = Len(s)

RECURSIVE ChainTrees(_), Primaries(_), Args(_)

\* expr = primary {binop primary}
ChainTrees(s) ==
  LET cuts == Cuts(s, BinaryOperators)
      operands == Pieces(s, cuts)
  IN  { GrammarTree(Strength, es, Types(s, cuts)) :
          es \in Each([k \in 1 .. Len(operands) |-> Primaries(operands[k])]) }

\* arg {arg}
Args(s) ==
  IF s = << >> THEN {<< >>}
  ELSE LET c == Close(s) IN
       IF ~Form(SubSeq(s, 1, c), "(", ")") THEN {}
       ELSE { <<e>> \o es : e \in ChainTrees(SubSeq(s, 2, c - 1)), es \in Args(SubSeq(s, c + 1, Len(s))) }

Primaries(s) ==
  LET n    == Len(s)
      tail == SubSeq(s, 2, n)
      body == SubSeq(s, 2, n - 1)
      ifs  == Cuts(body, {"then", "else"})
      cuts == Cuts(body, {"and", "in"})
      parts == Pieces(body, cuts)
      m     == Len(cuts)
      Binding(b) == Len(b) > 2 /\ b[1].type = "identifier" /\ b[2].type = "="
      Right(b)   == SubSeq(b, 3, Len(b))
  IN
  CASE n = 0 -> {}
    [] n = 1 -> IF s[1].type = "integer" THEN {Num(s[1].v)}
                ELSE IF s[1].type = "identifier" THEN {Var(s[1].name)} ELSE {}
    [] n > 1 /\ s[1].type \in {"!", "-"} -> { Un(s[1].type, e) : e \in Primaries(tail) }
    [] Form(s, "(", ")") -> ChainTrees(body)
    [] n > 1 /\ s[1].type = "identifier" -> { CallOf(s[1].name, es) : es \in Args(tail) }
    [] n > 1 /\ s[1].type = "recur" -> { Recur(es) : es \in Args(tail) }
    [] Form(s, "if", "end") /\ Types(body, ifs) = <<"then", "else">> ->
         { If(es[1], es[2], es[3]) :
             es \in Each([k \in 1 .. 3 |-> ChainTrees(Pieces(body, ifs)[k])]) }
    [] \/ Form(s, "let", "end")
       \/ Form(s, "loop", "end") ->
         IF /\ m > 0
            /\ Types(body, cuts) = [k \in 1 .. m |-> IF k = m THEN "in" ELSE "and"]
            /\ \A k \in 1 .. m : Binding(parts[k])
         THEN { Node(IF s[1].type = "let" THEN "Let" ELSE "Loop", 0, "",
                     [k \in 1 .. m |-> parts[k][1].name], es) :
                  es \in Each([k \in 1 .. m + 1 |->
                     ChainTrees(IF k > m THEN parts[k] ELSE Right(parts[k]))]) }
         ELSE {}
    [] OTHER -> {}

\* function = "let" ident params "=" expr "end"
FunctionTrees(s) ==
  IF ~Form(s, "let", "end") \/ ~\E k \in 1 .. Len(s) : s[k].type = "=" THEN {}
  ELSE LET assign == CHOOSE k \in 1 .. Len(s) :
                       s[k].type = "=" /\ \A j \in 1 .. k - 1 : s[j].type # "="
       IN  IF assign > 3 /\ \A k \in 2 .. assign - 1 : s[k].type = "identifier"
           THEN { Fun(s[2].name, [k \in 1 .. assign - 3 |-> s[k + 2].name], e) :
                    e \in ChainTrees(SubSeq(s, assign + 1, Len(s) - 1)) }
           ELSE {}

\* program = function {function}
RECURSIVE ProgramTrees(_)
ProgramTrees(s) ==
  LET c == Close(s) IN
  IF c = 0 THEN {}
  ELSE IF c = Len(s) THEN { <<f>> : f \in FunctionTrees(s) }
  ELSE { <<f>> \o fs : f \in FunctionTrees(SubSeq(s, 1, c)),
                       fs \in ProgramTrees(SubSeq(s, c + 1, Len(s))) }
=============================================================================
