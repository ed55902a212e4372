--------------------------- MODULE Scanner_proofs ---------------------------
(***************************************************************************)
(* Both scanners on texts of any length, over any alphabet: the tokens are *)
(* those of the longest match, and what the parsers count on of a token    *)
(* holds.                                                                  *)
(***************************************************************************)
EXTENDS SwiftScanner, Basics_proofs

-----------------------------------------------------------------------------
(* The tables of scanner.c: what is found in them, and under which type.   *)

LEMMA TableLengths ==
  /\ Len(token_type_t) = 23
  /\ Len(keyword_names) = 9
  /\ Len(single_letter_operators) = 8
BY DEF token_type_t, keyword_names, single_letter_operators

LEMMA PlaceValues ==
  Place("let") = 4 /\ Place("end") = 12 /\ Place("(") = 13 /\ Place("=") = 23
<1>1. /\ token_type_t[4] = "let" /\ token_type_t[12] = "end"
      /\ token_type_t[13] = "(" /\ token_type_t[23] = "="
  BY DEF token_type_t
<1>2. \A k \in 1 .. 23 : /\ token_type_t[k] = "let" => k = 4
                         /\ token_type_t[k] = "end" => k = 12
                         /\ token_type_t[k] = "(" => k = 13
                         /\ token_type_t[k] = "=" => k = 23
  BY DEF token_type_t
<1> QED
  BY <1>1, <1>2, TableLengths DEF Place

LEMMA TableTypes ==
  /\ \A k \in 4 .. 12 : token_type_t[k] \in IsKeyword /\ token_type_t[k] # "EOF"
  /\ \A k \in 13 .. 23 : token_type_t[k] \in IsOperator
<1>1. \A k \in 4 .. 12 : token_type_t[k] # "EOF"
  BY DEF token_type_t
<1> QED
  BY <1>1, PlaceValues DEF IsKeyword, IsOperator, Between

\* A word is in the table of keywords once.
LEMMA KeywordsDiffer ==
  \A j, k \in 1 .. 9 : keyword_names[j] = keyword_names[k] => j = k
BY DEF keyword_names

LEMMA FindKeyword ==
  \A k \in 1 .. 9 : find_keyword(keyword_names[k]) = token_type_t[3 + k]
<1> SUFFICES ASSUME NEW k \in 1 .. 9 PROVE find_keyword(keyword_names[k]) = token_type_t[3 + k]
  OBVIOUS
<1>1. (CHOOSE j \in 1 .. Len(keyword_names) : keyword_names[j] = keyword_names[k]) = k
  BY KeywordsDiffer, TableLengths
<1>2. \E j \in 1 .. Len(keyword_names) : keyword_names[j] = keyword_names[k]
  BY TableLengths
<1>3. find_keyword(keyword_names[k]) = token_type_t[Place("let") - 1 + k]
  BY ONLY <1>1, <1>2, Zenon DEF find_keyword
<1>4. Place("let") - 1 + k = 3 + k
  BY PlaceValues
<1> QED
  BY ONLY <1>3, <1>4

LEMMA SingleTypes ==
  \A k \in 1 .. 8 : SingleType(single_letter_operators[k]) = token_type_t[12 + k]
<1> SUFFICES ASSUME NEW k \in 1 .. 8
             PROVE  SingleType(single_letter_operators[k]) = token_type_t[12 + k]
  OBVIOUS
<1>1. \A j \in 1 .. 8 : single_letter_operators[j] = single_letter_operators[k] => j = k
  BY DEF single_letter_operators
<1>2. (CHOOSE j \in 1 .. Len(single_letter_operators) :
         single_letter_operators[j] = single_letter_operators[k]) = k
  BY <1>1, TableLengths
<1>3. SingleType(single_letter_operators[k]) = token_type_t[Place("(") - 1 + k]
  BY ONLY <1>2, Zenon DEF SingleType
<1>4. Place("(") - 1 + k = 12 + k
  BY PlaceValues
<1> QED
  BY ONLY <1>3, <1>4

\* The spellings of ASSIGNMENTS.md are those tables, and what is scanned
\* apart from them.
Spelling(s, type) == [s |-> s, type |-> type]

LEMMA SpellingsAre ==
  Spellings = { Spelling(keyword_names[k], token_type_t[3 + k]) : k \in 1 .. 9 }
                \union { Spelling(<< single_letter_operators[k] >>, token_type_t[12 + k]) : k \in 1 .. 7 }
                \union { Spelling(<<"=">>, "="), Spelling(<<"&", "&">>, "&&"),
                         Spelling(<<"|", "|">>, "||"), Spelling(<<"=", "=">>, "==") }
<1>1. { Spelling(keyword_names[k], token_type_t[3 + k]) : k \in 1 .. 9 } =
        { Spelling(<<"l","e","t">>, "let"), Spelling(<<"a","n","d">>, "and"),
          Spelling(<<"i","n">>, "in"), Spelling(<<"i","f">>, "if"),
          Spelling(<<"t","h","e","n">>, "then"), Spelling(<<"e","l","s","e">>, "else"),
          Spelling(<<"r","e","c","u","r">>, "recur"), Spelling(<<"l","o","o","p">>, "loop"),
          Spelling(<<"e","n","d">>, "end") }
  <2> DEFINE W(k) == Spelling(keyword_names[k], token_type_t[3 + k])
  <2>1. { W(k) : k \in 1 .. 9 } = { W(1), W(2), W(3), W(4), W(5), W(6), W(7), W(8), W(9) }
    <3>1. \A k \in 1 .. 9 : k \in {1, 2, 3, 4, 5, 6, 7, 8, 9}
      OBVIOUS
    <3>2. \A k \in {1, 2, 3, 4, 5, 6, 7, 8, 9} : k \in 1 .. 9
      OBVIOUS
    <3> HIDE DEF W
    <3> QED
      BY <3>1, <3>2, Zenon
  <2>2. /\ W(1) = Spelling(<<"l","e","t">>, "let") /\ W(2) = Spelling(<<"a","n","d">>, "and")
        /\ W(3) = Spelling(<<"i","n">>, "in") /\ W(4) = Spelling(<<"i","f">>, "if")
        /\ W(5) = Spelling(<<"t","h","e","n">>, "then") /\ W(6) = Spelling(<<"e","l","s","e">>, "else")
        /\ W(7) = Spelling(<<"r","e","c","u","r">>, "recur") /\ W(8) = Spelling(<<"l","o","o","p">>, "loop")
        /\ W(9) = Spelling(<<"e","n","d">>, "end")
    BY DEF keyword_names, token_type_t
  <2> HIDE DEF W
  <2>3. { W(1), W(2), W(3), W(4), W(5), W(6), W(7), W(8), W(9) } =
        { Spelling(<<"l","e","t">>, "let"), Spelling(<<"a","n","d">>, "and"),
          Spelling(<<"i","n">>, "in"), Spelling(<<"i","f">>, "if"),
          Spelling(<<"t","h","e","n">>, "then"), Spelling(<<"e","l","s","e">>, "else"),
          Spelling(<<"r","e","c","u","r">>, "recur"), Spelling(<<"l","o","o","p">>, "loop"),
          Spelling(<<"e","n","d">>, "end") }
    BY ONLY <2>2, Zenon
  <2> QED
    BY <2>1, <2>3, Zenon DEF W
<1>2. { Spelling(<< single_letter_operators[k] >>, token_type_t[12 + k]) : k \in 1 .. 7 } =
        { Spelling(<<"(">>, "("), Spelling(<<")">>, ")"), Spelling(<<"!">>, "!"),
          Spelling(<<"-">>, "-"), Spelling(<<"<">>, "<"), Spelling(<<"+">>, "+"),
          Spelling(<<"*">>, "*") }
  <2> DEFINE W(k) == Spelling(<< single_letter_operators[k] >>, token_type_t[12 + k])
  <2>1. { W(k) : k \in 1 .. 7 } = { W(1), W(2), W(3), W(4), W(5), W(6), W(7) }
    <3>1. \A k \in 1 .. 7 : k \in {1, 2, 3, 4, 5, 6, 7}
      OBVIOUS
    <3>2. \A k \in {1, 2, 3, 4, 5, 6, 7} : k \in 1 .. 7
      OBVIOUS
    <3> HIDE DEF W
    <3> QED
      BY <3>1, <3>2, Zenon
  <2>2. /\ W(1) = Spelling(<<"(">>, "(") /\ W(2) = Spelling(<<")">>, ")")
        /\ W(3) = Spelling(<<"!">>, "!") /\ W(4) = Spelling(<<"-">>, "-")
        /\ W(5) = Spelling(<<"<">>, "<") /\ W(6) = Spelling(<<"+">>, "+")
        /\ W(7) = Spelling(<<"*">>, "*")
    BY DEF single_letter_operators, token_type_t
  <2> HIDE DEF W
  <2>3. { W(1), W(2), W(3), W(4), W(5), W(6), W(7) } =
        { Spelling(<<"(">>, "("), Spelling(<<")">>, ")"), Spelling(<<"!">>, "!"),
          Spelling(<<"-">>, "-"), Spelling(<<"<">>, "<"), Spelling(<<"+">>, "+"),
          Spelling(<<"*">>, "*") }
    BY ONLY <2>2, Zenon
  <2> QED
    BY <2>1, <2>3, Zenon DEF W
<1> QED
  BY <1>1, <1>2, Zenon DEF Spellings, Spelling

LEMMA SpellingClasses ==
  ASSUME NEW x \in Spellings
  PROVE  \/ \E k \in 1 .. 9 : x.s = keyword_names[k] /\ x.type = token_type_t[3 + k]
         \/ \E k \in 1 .. 7 : /\ x.s = << single_letter_operators[k] >>
                             /\ x.type = token_type_t[12 + k]
         \/ x.s = <<"=">> /\ x.type = "="
         \/ x.s = <<"&", "&">> /\ x.type = "&&"
         \/ x.s = <<"|", "|">> /\ x.type = "||"
         \/ x.s = <<"=", "=">> /\ x.type = "=="
<1>1. CASE x \in { Spelling(keyword_names[k], token_type_t[3 + k]) : k \in 1 .. 9 }
  BY <1>1 DEF Spelling
<1>2. CASE x \in { Spelling(<< single_letter_operators[k] >>, token_type_t[12 + k]) : k \in 1 .. 7 }
  BY <1>2 DEF Spelling
<1>3. CASE x \in { Spelling(<<"=">>, "="), Spelling(<<"&", "&">>, "&&"),
                   Spelling(<<"|", "|">>, "||"), Spelling(<<"=", "=">>, "==") }
  BY <1>3 DEF Spelling
<1> QED
  BY <1>1, <1>2, <1>3, SpellingsAre

-----------------------------------------------------------------------------
(* What a sequence of characters spells, by its first character.           *)

SpelledByTable(s) == { Tok(x.type) : x \in { y \in Spellings : y.s = s } }
IsWord(w) ==
  /\ w \in Seq(Characters) /\ Len(w) > 0
  /\ w[1] \in BeginsWord
  /\ \A k \in 1 .. Len(w) : w[k] \in InWord

LEMMA KeywordLetters ==
  \A k \in 1 .. 9 : /\ Len(keyword_names[k]) > 0 /\ Len(keyword_names[k]) \in Nat
                    /\ \A j \in 1 .. Len(keyword_names[k]) : keyword_names[k][j] \in Letters
<1>1. \A k \in 1 .. 9 : Len(keyword_names[k]) > 0 /\ Len(keyword_names[k]) \in Nat
  BY DEF keyword_names
<1> QED
  BY <1>1, TableLengths, CharactersAssumption

LEMMA KeywordFirst == \A k \in 1 .. 9 : keyword_names[k][1] \in Letters
<1> SUFFICES ASSUME NEW k \in 1 .. 9 PROVE keyword_names[k][1] \in Letters
  OBVIOUS
<1>1. Len(keyword_names[k]) > 0 /\ Len(keyword_names[k]) \in Nat
  BY KeywordLetters
<1>2. 1 \in 1 .. Len(keyword_names[k])
  BY ONLY <1>1
<1> QED
  BY ONLY <1>2, k \in 1 .. 9, KeywordLetters

\* Characters that begin an operator are in no word.
Signs == {"(", ")", "!", "-", "<", "+", "*", "NUL", "&", "|", "="}

LEMMA SignsApart ==
  /\ \A c \in Signs : c \notin InWord /\ c \notin Spaces
  /\ \A c \in Digits : c \notin BeginsWord /\ c \in InWord
  /\ BeginsWord \subseteq InWord
  /\ \A k \in 1 .. 8 : single_letter_operators[k] \in Signs
<1>1. \A k \in 1 .. 8 : single_letter_operators[k] \in Signs
  BY DEF single_letter_operators, Signs
<1> QED
  BY <1>1, CharactersAssumption DEF Signs, InWord, BeginsWord

\* The table holds words of letters, and operators that begin with a sign.
LEMMA TableFirst ==
  ASSUME NEW x \in Spellings
  PROVE  \/ \E k \in 1 .. 9 : /\ x.s = keyword_names[k] /\ x.type = token_type_t[3 + k]
                             /\ x.s[1] \in Letters
         \/ x.s[1] \in Signs
<1>1. CASE \E k \in 1 .. 7 : x.s = << single_letter_operators[k] >>
  <2>1. PICK k \in 1 .. 7 : x.s = << single_letter_operators[k] >>
    BY <1>1
  <2>2. x.s[1] = single_letter_operators[k] /\ k \in 1 .. 8
    BY <2>1
  <2> QED
    BY ONLY <2>2, SignsApart
<1>2. CASE x.s = <<"=">> \/ x.s = <<"&", "&">> \/ x.s = <<"|", "|">> \/ x.s = <<"=", "=">>
  <2>1. x.s[1] = "=" \/ x.s[1] = "&" \/ x.s[1] = "|"
    BY <1>2
  <2> QED
    BY ONLY <2>1 DEF Signs
<1>3. ASSUME NEW k \in 1 .. 9, x.s = keyword_names[k] PROVE x.s[1] \in Letters
  BY <1>3, KeywordFirst
<1> QED
  BY <1>1, <1>2, <1>3, SpellingClasses

LEMMA SpelledWord ==
  ASSUME NEW w, IsWord(w)
  PROVE  Spelled(w) = { WordToken(w) }
<1>1. w[1] \notin Signs /\ ~IsNumber(w)
  <2>0. w \in Seq(Characters) /\ w[1] \in BeginsWord /\ Len(w) > 0
    BY DEF IsWord
  <2>1. w[1] \in BeginsWord /\ Len(w) \in Nat /\ Len(w) > 0
    BY ONLY <2>0, LenProperties
  <2>2. 1 \in 1 .. Len(w)
    BY ONLY <2>1
  <2> QED
    BY ONLY <2>1, <2>2, SignsApart DEF IsNumber
<1>2. CASE \E k \in 1 .. 9 : w = keyword_names[k]
  <2>1. PICK k \in 1 .. 9 : w = keyword_names[k]
    BY <1>2
  <2>2. \A y \in Spellings : y.s = w => y.type = token_type_t[3 + k]
    BY <1>1, <2>1, TableFirst, KeywordsDiffer
  <2>3. Spelling(w, token_type_t[3 + k]) \in Spellings
    BY <2>1, SpellingsAre
  <2>4. SpelledByTable(w) = { Tok(token_type_t[3 + k]) }
    <3>1. Spelling(w, token_type_t[3 + k]).s = w
      BY DEF Spelling
    <3> QED
      BY ONLY <2>2, <2>3, <3>1, Zenon DEF SpelledByTable
  <2>5. ~IsIdentifier(w)
    BY <2>1, TableLengths DEF IsIdentifier
  <2>6. WordToken(w) = Tok(token_type_t[3 + k])
    <3>1. find_keyword(w) = token_type_t[3 + k] /\ 3 + k \in 4 .. 12
      BY <2>1, FindKeyword
    <3> QED
      BY <3>1, TableTypes DEF WordToken
  <2> QED
    BY ONLY <1>1, <2>4, <2>5, <2>6, Zenon DEF Spelled, SpelledByTable
<1>3. CASE \A k \in 1 .. 9 : w # keyword_names[k]
  <2>1. SpelledByTable(w) = {}
    BY <1>1, <1>3, TableFirst DEF SpelledByTable
  <2>2. IsIdentifier(w)
    BY <1>3, TableLengths DEF IsWord, IsIdentifier
  <2>3. WordToken(w) = Ident(w)
    BY <1>3, TableLengths DEF WordToken, find_keyword
  <2> QED
    BY ONLY <1>1, <2>1, <2>2, <2>3, Zenon DEF Spelled, SpelledByTable
<1> QED
  BY <1>2, <1>3

LEMMA SpelledNumber ==
  ASSUME NEW w \in Seq(Characters), IsNumber(w)
  PROVE  Spelled(w) = { Integer(atol(w)) }
<1>1. w[1] \in Digits /\ Len(w) > 0
  BY DEF IsNumber
<1>2. w[1] \notin Signs /\ w[1] \notin BeginsWord
  BY <1>1, SignsApart
<1>3. SpelledByTable(w) = {}
  <2>1. ASSUME NEW y \in Spellings, y.s = w PROVE FALSE
    <3>1. y.s[1] \in Letters \/ y.s[1] \in Signs
      BY ONLY y \in Spellings, TableFirst
    <3> QED
      BY ONLY <1>2, <2>1, <3>1 DEF BeginsWord
  <2> QED
    BY ONLY <2>1, Zenon DEF SpelledByTable
<1>4. ~IsIdentifier(w)
  BY <1>2 DEF IsIdentifier
<1> QED
  BY ONLY <1>3, <1>4, IsNumber(w), Zenon DEF Spelled, SpelledByTable

\* Operators: what they begin with spells nothing else.
ShortOperator(p) ==
  \/ Len(p) = 1 /\ \E k \in 1 .. 7 : p[1] = single_letter_operators[k]
  \/ Len(p) = 1 /\ p[1] = "="
  \/ Len(p) = 2 /\ p[1] \in {"&", "|", "="} /\ p[2] = p[1]

LEMMA SignBegins ==
  ASSUME NEW p, p[1] \in Signs, Len(p) \in Nat, Len(p) > 0
  PROVE  Spelled(p) = SpelledByTable(p)
<1>1. 1 \in 1 .. Len(p)
  OBVIOUS
<1>2. p[1] \notin InWord /\ p[1] \notin Digits
  BY ONLY p[1] \in Signs, SignsApart
<1>3. ~IsIdentifier(p) /\ ~IsNumber(p)
  BY ONLY <1>1, <1>2 DEF IsIdentifier, IsNumber
<1> QED
  BY ONLY <1>3, Zenon DEF Spelled, SpelledByTable

\* An operator spells itself: x is the one entry of the table with its
\* characters.
LEMMA SpelledOperator ==
  ASSUME NEW p, p[1] \in Signs, Len(p) \in Nat, Len(p) > 0, NEW type,
         Spelling(p, type) \in Spellings,
         \A y \in Spellings : y.s = p => y.type = type
  PROVE  Spelled(p) = { Tok(type) }
<1>1. Spelling(p, type).s = p /\ Spelling(p, type).type = type
  BY DEF Spelling
<1>2. SpelledByTable(p) = { Tok(type) }
  BY ONLY <1>1, Spelling(p, type) \in Spellings,
          \A y \in Spellings : y.s = p => y.type = type, Zenon DEF SpelledByTable
<1> QED
  BY <1>2, SignBegins

LEMMA SpelledSingle ==
  ASSUME NEW k \in 1 .. 7
  PROVE  Spelled(<< single_letter_operators[k] >>) = { Tok(token_type_t[12 + k]) }
<1> DEFINE p == << single_letter_operators[k] >>
<1>1. p[1] = single_letter_operators[k] /\ Len(p) = 1 /\ k \in 1 .. 8
  OBVIOUS
<1>2. p[1] \in Signs
  BY ONLY <1>1, SignsApart
<1>3. Spelling(p, token_type_t[12 + k]) \in Spellings
  BY SpellingsAre
<1>4. ASSUME NEW y \in Spellings, y.s = p PROVE y.type = token_type_t[12 + k]
  <2>1. \A j \in 1 .. 7 : single_letter_operators[j] = single_letter_operators[k] => j = k
    BY DEF single_letter_operators
  <2>2. p[1] \notin Letters
    BY ONLY <1>2, SignsApart DEF BeginsWord
  <2>3. p[1] # "=" /\ Len(p) # 2
    BY <1>1 DEF single_letter_operators
  <2>4. \A j \in 1 .. 9 : p # keyword_names[j]
    <3>1. \A j \in 1 .. 9 : keyword_names[j][1] \in Letters
      BY KeywordFirst
    <3> QED
      BY ONLY <3>1, <2>2, Zenon
  <2>5. CASE \E j \in 1 .. 7 : y.s = << single_letter_operators[j] >> /\ y.type = token_type_t[12 + j]
    <3>1. PICK j \in 1 .. 7 : y.s = << single_letter_operators[j] >> /\ y.type = token_type_t[12 + j]
      BY <2>5
    <3>2. single_letter_operators[j] = single_letter_operators[k]
      BY <1>4, <3>1
    <3> QED
      BY ONLY <2>1, <3>1, <3>2, k \in 1 .. 7
  <2>6. y.s # <<"=">> /\ y.s # <<"&", "&">> /\ y.s # <<"|", "|">> /\ y.s # <<"=", "=">>
    BY <1>4, <2>3
  <2> QED
    BY <1>4, <2>4, <2>5, <2>6, SpellingClasses
<1> HIDE DEF p
<1>5. Len(p) \in Nat /\ Len(p) > 0
  BY ONLY <1>1
<1>6. Spelled(p) = { Tok(token_type_t[12 + k]) }
  BY ONLY <1>2, <1>3, <1>4, <1>5, SpelledOperator
<1> QED
  BY <1>6 DEF p

LEMMA SpelledOthers ==
  /\ Spelled(<<"=">>) = { Tok("=") }       /\ Spelled(<<"&", "&">>) = { Tok("&&") }
  /\ Spelled(<<"|", "|">>) = { Tok("||") } /\ Spelled(<<"=", "=">>) = { Tok("==") }
<1> DEFINE Others == { Spelling(<<"=">>, "="), Spelling(<<"&", "&">>, "&&"),
                       Spelling(<<"|", "|">>, "||"), Spelling(<<"=", "=">>, "==") }
<1> SUFFICES ASSUME NEW x \in Others PROVE Spelled(x.s) = { Tok(x.type) }
  BY DEF Spelling
<1>1. \/ x.s = <<"=">> /\ x.type = "="
      \/ x.s = <<"&", "&">> /\ x.type = "&&"
      \/ x.s = <<"|", "|">> /\ x.type = "||"
      \/ x.s = <<"=", "=">> /\ x.type = "=="
  BY DEF Spelling
<1>2. x.s[1] \in Signs /\ Len(x.s) \in Nat /\ Len(x.s) > 0
  <2>1. x.s[1] \in {"=", "&", "|"}
    BY ONLY <1>1
  <2>2. Len(x.s) = 1 \/ Len(x.s) = 2
    BY ONLY <1>1
  <2> QED
    BY ONLY <2>1, <2>2 DEF Signs
<1>3. Spelling(x.s, x.type) \in Spellings
  BY <1>1, SpellingsAre
<1>4. ASSUME NEW y \in Spellings, y.s = x.s PROVE y.type = x.type
  <2>1. x.s[1] \notin Letters
    BY ONLY <1>2, SignsApart DEF BeginsWord
  <2>2. \A j \in 1 .. 9 : y.s # keyword_names[j]
    <3>1. \A j \in 1 .. 9 : keyword_names[j][1] \in Letters
      BY KeywordFirst
    <3> QED
      BY ONLY <1>4, <3>1, <2>1, Zenon
  <2>3. \A j \in 1 .. 7 : y.s # << single_letter_operators[j] >>
    BY <1>1, <1>4 DEF single_letter_operators
  <2> QED
    BY <1>1, <1>4, <2>2, <2>3, SpellingClasses
<1> QED
  BY ONLY <1>2, <1>3, <1>4, SpelledOperator

\* Nothing else is spelled.
LEMMA SpelledOnly ==
  ASSUME NEW p \in Seq(Characters), Len(p) > 0, Spelled(p) # {}
  PROVE  IsWord(p) \/ IsNumber(p) \/ ShortOperator(p)
<1>1. CASE IsIdentifier(p)
  BY <1>1 DEF IsIdentifier, IsWord
<1>2. CASE IsNumber(p)
  BY <1>2
<1>3. CASE SpelledByTable(p) # {}
  <2>1. PICK y \in Spellings : y.s = p
    BY <1>3 DEF SpelledByTable
  <2>2. ASSUME NEW j \in 1 .. 9, p = keyword_names[j] PROVE IsWord(p)
    <3>1. \A i \in 1 .. Len(p) : p[i] \in Letters
      BY ONLY <2>2, j \in 1 .. 9, KeywordLetters
    <3>2. Len(p) \in Nat
      BY LenProperties
    <3>3. 1 \in 1 .. Len(p)
      BY ONLY <3>2, Len(p) > 0
    <3> QED
      BY ONLY <3>1, <3>3, p \in Seq(Characters), Len(p) > 0 DEF IsWord, InWord, BeginsWord
  <2>3. ASSUME NEW j \in 1 .. 7, p = << single_letter_operators[j] >> PROVE ShortOperator(p)
    BY <2>3 DEF ShortOperator
  <2>4. ASSUME p \in {<<"=">>, <<"&", "&">>, <<"|", "|">>, <<"=", "=">>} PROVE ShortOperator(p)
    BY <2>4 DEF ShortOperator
  <2> QED
    BY <2>1, <2>2, <2>3, <2>4, SpellingClasses
<1> QED
  BY <1>1, <1>2, <1>3, Zenon DEF Spelled, SpelledByTable

-----------------------------------------------------------------------------
(* LongestMatch is defined, by recursion on the length of the text.        *)

LEMMA LongestEndIs ==
  ASSUME NEW s \in Seq(Characters), Ends(s) # {}
  PROVE  LongestEnd(s) \in Ends(s) /\ \A k \in Ends(s) : k <= LongestEnd(s)
<1>1. Len(s) \in Nat /\ Ends(s) \subseteq 0 .. Len(s)
  BY LenProperties DEF Ends
<1>2. PICK n \in Ends(s) : \A k \in Ends(s) : n >= k
  BY <1>1, Greatest
<1>3. \A k \in Ends(s) : k <= n
  BY <1>1, <1>2
<1> QED
  BY ONLY <1>3, n \in Ends(s), Zenon DEF LongestEnd

\* What is left behind a token, or a space, is shorter.
LEMMA Shorter ==
  ASSUME NEW s \in Seq(Characters)
  PROVE  /\ Len(s) \in Nat
         /\ s # << >> => Tail(s) \in Seq(Characters) /\ Len(Tail(s)) = Len(s) - 1 /\ Len(s) > 0
         /\ Ends(s) # {} => BehindToken(s) \in Seq(Characters) /\ Len(BehindToken(s)) < Len(s)
<1>1. Len(s) \in Nat
  BY LenProperties
<1>2. s # << >> => Tail(s) \in Seq(Characters) /\ Len(Tail(s)) = Len(s) - 1 /\ Len(s) > 0
  BY HeadTailProperties, EmptySeq
<1>3. ASSUME Ends(s) # {}
      PROVE  BehindToken(s) \in Seq(Characters) /\ Len(BehindToken(s)) < Len(s)
  <2>1. PICK n : n = LongestEnd(s)
    OBVIOUS
  <2>2. n \in 1 .. Len(s)
    BY <1>3, <2>1, LongestEndIs DEF Ends
  <2>3. n + 1 \in Int /\ Len(s) \in Int /\ \A j \in n + 1 .. Len(s) : j \in 1 .. Len(s)
    BY ONLY <1>1, <2>2
  <2>4. \A j \in n + 1 .. Len(s) : s[j] \in Characters
    BY <2>3, ElementOfSeq
  <2>5. /\ SubSeq(s, n + 1, Len(s)) \in Seq(Characters)
        /\ Len(SubSeq(s, n + 1, Len(s))) = IF n + 1 <= Len(s) THEN Len(s) - (n + 1) + 1 ELSE 0
    BY ONLY <2>3, <2>4, SubSeqProperties
  <2>6. BehindToken(s) = SubSeq(s, n + 1, Len(s))
    BY ONLY <2>1 DEF BehindToken
  <2> QED
    BY ONLY <1>1, <2>2, <2>5, <2>6
<1> QED
  BY ONLY <1>1, <1>2, <1>3

ScanTokens == { LongestOf(s) : s \in Seq(Characters) } \union { Tok("EOF"), Tok("error") }

\* The tokens of s, by what f gives for shorter texts.
TokensBy(f, s) ==
  IF s = << >> THEN << Tok("EOF") >>
  ELSE IF Head(s) \in Spaces THEN f[Tail(s)]
  ELSE IF Ends(s) = {} THEN << Tok("error") >>
  ELSE << LongestOf(s) >> \o f[BehindToken(s)]

RightAt(f, s)      == f[s] = TokensBy(f, s) /\ f[s] \in Seq(ScanTokens)
RightForUpTo(f, d) == \A s \in Seq(Characters) : Len(s) <= d => RightAt(f, s)
SameUpTo(f, g, d)  == \A s \in Seq(Characters) : Len(s) <= d => f[s] = g[s]

\* Nothing but the tokens of shorter texts matters.
LEMMA TokensByAgree ==
  ASSUME NEW f, NEW g, NEW d \in Nat, SameUpTo(f, g, d),
         NEW s \in Seq(Characters), Len(s) <= d + 1
  PROVE  TokensBy(f, s) = TokensBy(g, s)
<1>1. s # << >> => f[Tail(s)] = g[Tail(s)]
  <2>1. s # << >> => Tail(s) \in Seq(Characters) /\ Len(Tail(s)) <= d
    BY Shorter
  <2> QED
    BY ONLY <2>1, SameUpTo(f, g, d) DEF SameUpTo
<1>2. Ends(s) # {} => f[BehindToken(s)] = g[BehindToken(s)]
  <2>1. Len(s) \in Nat
    BY Shorter
  <2>2. Ends(s) # {} => BehindToken(s) \in Seq(Characters) /\ Len(BehindToken(s)) \in Nat
                          /\ Len(BehindToken(s)) < Len(s)
    BY Shorter
  <2>3. Ends(s) # {} => BehindToken(s) \in Seq(Characters) /\ Len(BehindToken(s)) <= d
    BY ONLY <2>1, <2>2, Len(s) <= d + 1, d \in Nat
  <2> QED
    BY ONLY <2>3, SameUpTo(f, g, d) DEF SameUpTo
<1> QED
  BY ONLY <1>1, <1>2, Zenon DEF TokensBy

LEMMA TokensByType ==
  ASSUME NEW f, NEW d \in Nat, RightForUpTo(f, d), NEW s \in Seq(Characters), Len(s) <= d + 1
  PROVE  TokensBy(f, s) \in Seq(ScanTokens)
<1>1. CASE s = << >>
  <2>1. << Tok("EOF") >> \in Seq(ScanTokens)
    BY DEF ScanTokens
  <2> QED
    BY ONLY <1>1, <2>1 DEF TokensBy
<1>2. CASE s # << >> /\ Head(s) \in Spaces
  <2>1. Tail(s) \in Seq(Characters) /\ Len(Tail(s)) <= d
    BY <1>2, Shorter
  <2>2. f[Tail(s)] \in Seq(ScanTokens)
    BY ONLY <2>1, RightForUpTo(f, d) DEF RightForUpTo, RightAt
  <2> QED
    BY ONLY <1>2, <2>2 DEF TokensBy
<1>3. CASE s # << >> /\ Head(s) \notin Spaces /\ Ends(s) = {}
  <2>1. << Tok("error") >> \in Seq(ScanTokens)
    BY DEF ScanTokens
  <2> QED
    BY ONLY <1>3, <2>1 DEF TokensBy
<1>4. CASE s # << >> /\ Head(s) \notin Spaces /\ Ends(s) # {}
  <2>1. BehindToken(s) \in Seq(Characters) /\ Len(BehindToken(s)) <= d
    <3>1. Len(s) \in Nat
      BY Shorter
    <3>2. BehindToken(s) \in Seq(Characters) /\ Len(BehindToken(s)) \in Nat
            /\ Len(BehindToken(s)) < Len(s)
      BY <1>4, Shorter
    <3> QED
      BY ONLY <3>1, <3>2, Len(s) <= d + 1, d \in Nat
  <2>2. f[BehindToken(s)] \in Seq(ScanTokens)
    BY ONLY <2>1, RightForUpTo(f, d) DEF RightForUpTo, RightAt
  <2>3. LongestOf(s) \in ScanTokens
    BY DEF ScanTokens
  <2>4. << LongestOf(s) >> \in Seq(ScanTokens)
    BY ONLY <2>3
  <2>5. << LongestOf(s) >> \o f[BehindToken(s)] \in Seq(ScanTokens)
    BY ONLY <2>2, <2>4, ConcatProperties
  <2> QED
    BY ONLY <1>4, <2>5 DEF TokensBy
<1> QED
  BY ONLY <1>1, <1>2, <1>3, <1>4

\* Two functions that are right give the same tokens.
LEMMA RightAgree ==
  ASSUME NEW f, NEW g, NEW d \in Nat, RightForUpTo(f, d), RightForUpTo(g, d)
  PROVE  SameUpTo(f, g, d)
<1> DEFINE S == { m \in Nat : m <= d => SameUpTo(f, g, m) }
<1>1. 0 \in S
  <2>1. ASSUME NEW s \in Seq(Characters), Len(s) <= 0 PROVE f[s] = g[s]
    <3>1. s = << >> /\ Len(s) <= d
      BY <2>1, EmptySeq
    <3>2. f[s] = TokensBy(f, s) /\ g[s] = TokensBy(g, s)
      BY ONLY <3>1, s \in Seq(Characters), RightForUpTo(f, d), RightForUpTo(g, d)
         DEF RightForUpTo, RightAt
    <3> QED
      BY ONLY <3>1, <3>2 DEF TokensBy
  <2> QED
    BY <2>1 DEF SameUpTo
<1>2. ASSUME NEW m \in Nat, m \in S PROVE m + 1 \in S
  <2> SUFFICES ASSUME m + 1 <= d PROVE SameUpTo(f, g, m + 1)
    OBVIOUS
  <2>1. SameUpTo(f, g, m)
    BY <1>2
  <2>2. ASSUME NEW s \in Seq(Characters), Len(s) <= m + 1 PROVE f[s] = g[s]
    <3>1. TokensBy(f, s) = TokensBy(g, s)
      BY ONLY <2>1, <2>2, m \in Nat, s \in Seq(Characters), TokensByAgree
    <3>2. Len(s) <= d
      BY <2>2, Shorter
    <3>3. f[s] = TokensBy(f, s) /\ g[s] = TokensBy(g, s)
      BY ONLY <3>2, s \in Seq(Characters), RightForUpTo(f, d), RightForUpTo(g, d)
         DEF RightForUpTo, RightAt
    <3> QED
      BY ONLY <3>1, <3>3
  <2> QED
    BY <2>2 DEF SameUpTo
<1>3. \A m \in Nat : m \in S
  <2> HIDE DEF S
  <2> QED
    BY <1>1, <1>2, Induct
<1> QED
  BY <1>3

\* A function that is right up to a length can be made one that is right for
\* texts that are longer by one.
LEMMA RightForLonger ==
  ASSUME NEW f, NEW d \in Nat, RightForUpTo(f, d)
  PROVE  \E g : RightForUpTo(g, d + 1)
<1> DEFINE g == [s \in Seq(Characters) |-> IF Len(s) <= d THEN f[s] ELSE TokensBy(f, s)]
<1>1. \A s \in Seq(Characters) : g[s] = IF Len(s) <= d THEN f[s] ELSE TokensBy(f, s)
  OBVIOUS
<1> HIDE DEF g
<1>2. SameUpTo(f, g, d)
  BY <1>1 DEF SameUpTo
<1>3. ASSUME NEW s \in Seq(Characters), Len(s) <= d + 1 PROVE RightAt(g, s)
  <2>1. TokensBy(f, s) = TokensBy(g, s)
    BY ONLY <1>2, <1>3, d \in Nat, s \in Seq(Characters), TokensByAgree
  <2>2. TokensBy(f, s) \in Seq(ScanTokens)
    BY ONLY <1>3, d \in Nat, s \in Seq(Characters), RightForUpTo(f, d), TokensByType
  <2>3. Len(s) <= d => f[s] = TokensBy(f, s)
    BY ONLY s \in Seq(Characters), RightForUpTo(f, d) DEF RightForUpTo, RightAt
  <2>4. g[s] = TokensBy(f, s)
    BY ONLY <1>1, <2>3, s \in Seq(Characters)
  <2> QED
    BY ONLY <2>1, <2>2, <2>4 DEF RightAt
<1>4. RightForUpTo(g, d + 1)
  BY ONLY <1>3 DEF RightForUpTo
<1> QED
  BY <1>4

LEMMA RightExists == \A d \in Nat : \E f : RightForUpTo(f, d)
<1> DEFINE S == { d \in Nat : \E f : RightForUpTo(f, d) }
<1>1. 0 \in S
  <2> DEFINE f == [s \in Seq(Characters) |-> << Tok("EOF") >>]
  <2>1. ASSUME NEW s \in Seq(Characters), Len(s) <= 0 PROVE RightAt(f, s)
    <3>1. s = << >>
      BY <2>1, EmptySeq
    <3>2. f[s] = << Tok("EOF") >>
      OBVIOUS
    <3>3. << Tok("EOF") >> \in Seq(ScanTokens)
      BY DEF ScanTokens
    <3> HIDE DEF f
    <3> QED
      BY ONLY <3>1, <3>2, <3>3 DEF RightAt, TokensBy
  <2> HIDE DEF f
  <2>2. RightForUpTo(f, 0)
    BY ONLY <2>1 DEF RightForUpTo
  <2> QED
    BY <2>2
<1>2. ASSUME NEW d \in Nat, d \in S PROVE d + 1 \in S
  <2>1. PICK f : RightForUpTo(f, d)
    BY <1>2
  <2>2. \E g : RightForUpTo(g, d + 1)
    BY ONLY <2>1, d \in Nat, RightForLonger
  <2> QED
    BY <2>2
<1>3. \A d \in Nat : d \in S
  <2> HIDE DEF S
  <2> QED
    BY <1>1, <1>2, Induct
<1> QED
  BY <1>3

\* The equation by which LongestMatch is defined holds of it.
LEMMA LongestMatchIs ==
  \A s \in Seq(Characters) : RightAt(LongestMatch, s)
<1> DEFINE u == [s \in Seq(Characters) |-> (CHOOSE f : RightForUpTo(f, Len(s)))[s]]
           Equation(f) == f = [s \in Seq(Characters) |->
              IF s = << >> THEN << Tok("EOF") >>
              ELSE IF Head(s) \in Spaces THEN f[Tail(s)]
              ELSE IF Ends(s) = {} THEN << Tok("error") >>
              ELSE << LongestOf(s) >> \o f[BehindToken(s)]]
<1>1. \A s \in Seq(Characters) : u[s] = (CHOOSE f : RightForUpTo(f, Len(s)))[s]
  OBVIOUS
<1>2. u = [s \in Seq(Characters) |-> u[s]]
  OBVIOUS
<1> HIDE DEF u
<1>3. ASSUME NEW d \in Nat, NEW f, RightForUpTo(f, d) PROVE SameUpTo(f, u, d)
  <2>1. ASSUME NEW s \in Seq(Characters), Len(s) <= d PROVE f[s] = u[s]
    <3>1. PICK g : g = CHOOSE h : RightForUpTo(h, Len(s))
      OBVIOUS
    <3>2. Len(s) \in Nat
      BY Shorter
    <3>3. RightForUpTo(g, Len(s))
      BY ONLY <3>1, <3>2, RightExists, Zenon
    <3>4. RightForUpTo(f, Len(s))
      <4>1. \A r \in Seq(Characters) : Len(r) \in Nat
        BY Shorter
      <4> QED
        BY ONLY <4>1, <3>2, <2>1, d \in Nat, RightForUpTo(f, d) DEF RightForUpTo
    <3>5. SameUpTo(f, g, Len(s))
      BY ONLY <3>2, <3>3, <3>4, RightAgree
    <3>6. f[s] = g[s]
      BY ONLY <3>2, <3>5, s \in Seq(Characters) DEF SameUpTo
    <3> QED
      BY ONLY <1>1, <3>1, <3>6, s \in Seq(Characters)
  <2> QED
    BY ONLY <2>1 DEF SameUpTo
<1>4. ASSUME NEW s \in Seq(Characters) PROVE RightAt(u, s)
  <2>1. Len(s) \in Nat
    BY Shorter
  <2>2. PICK f : RightForUpTo(f, Len(s))
    BY ONLY <2>1, RightExists
  <2>3. SameUpTo(f, u, Len(s))
    BY ONLY <1>3, <2>1, <2>2
  <2>4. TokensBy(f, s) = TokensBy(u, s)
    <3>1. Len(s) <= Len(s) + 1
      BY ONLY <2>1
    <3> QED
      BY ONLY <2>1, <2>3, <3>1, s \in Seq(Characters), TokensByAgree
  <2>5. Len(s) <= Len(s)
    BY ONLY <2>1
  <2>6. f[s] = TokensBy(f, s) /\ f[s] \in Seq(ScanTokens)
    BY ONLY <2>2, <2>5, s \in Seq(Characters) DEF RightForUpTo, RightAt
  <2>7. f[s] = u[s]
    BY ONLY <2>3, <2>5, s \in Seq(Characters) DEF SameUpTo
  <2> QED
    BY ONLY <2>4, <2>6, <2>7 DEF RightAt
<1>5. Equation(u)
  <2>1. \A s \in Seq(Characters) : u[s] = TokensBy(u, s)
    BY ONLY <1>4 DEF RightAt
  <2>2. u = [s \in Seq(Characters) |-> TokensBy(u, s)]
    BY ONLY <1>2, <2>1
  <2> QED
    BY ONLY <2>2, Zenon DEF TokensBy
<1>6. LongestMatch = CHOOSE f : Equation(f)
  BY DEF LongestMatch
<1>7. Equation(LongestMatch)
  <2> HIDE DEF Equation
  <2> QED
    BY ONLY <1>5, <1>6, Zenon
<1>8. \A s \in Seq(Characters) : LongestMatch[s] = TokensBy(LongestMatch, s)
  <2>1. LongestMatch = [s \in Seq(Characters) |-> TokensBy(LongestMatch, s)]
    BY ONLY <1>7, Zenon DEF TokensBy
  <2> QED
    BY ONLY <2>1
<1>9. ASSUME NEW s \in Seq(Characters) PROVE LongestMatch[s] = u[s]
  <2> DEFINE S == { m \in Nat : SameUpTo(LongestMatch, u, m) }
  <2>1. 0 \in S
    <3>1. ASSUME NEW r \in Seq(Characters), Len(r) <= 0 PROVE LongestMatch[r] = u[r]
      <4>1. r = << >>
        BY <3>1, EmptySeq
      <4>2. LongestMatch[r] = TokensBy(LongestMatch, r) /\ u[r] = TokensBy(u, r)
        BY ONLY <1>4, <1>8, r \in Seq(Characters) DEF RightAt
      <4> QED
        BY ONLY <4>1, <4>2 DEF TokensBy
    <3> QED
      BY <3>1 DEF SameUpTo
  <2>2. ASSUME NEW m \in Nat, m \in S PROVE m + 1 \in S
    <3>1. ASSUME NEW r \in Seq(Characters), Len(r) <= m + 1 PROVE LongestMatch[r] = u[r]
      <4>1. TokensBy(LongestMatch, r) = TokensBy(u, r)
        BY ONLY <2>2, <3>1, m \in Nat, r \in Seq(Characters), TokensByAgree
      <4>2. LongestMatch[r] = TokensBy(LongestMatch, r) /\ u[r] = TokensBy(u, r)
        BY ONLY <1>4, <1>8, r \in Seq(Characters) DEF RightAt
      <4> QED
        BY ONLY <4>1, <4>2
    <3> QED
      BY <3>1 DEF SameUpTo
  <2>3. \A m \in Nat : m \in S
    <3> HIDE DEF S
    <3> QED
      BY <2>1, <2>2, Induct
  <2>4. Len(s) \in Nat /\ Len(s) <= Len(s)
    BY Shorter
  <2>5. SameUpTo(LongestMatch, u, Len(s))
    BY ONLY <2>3, <2>4
  <2> QED
    BY ONLY <2>4, <2>5, s \in Seq(Characters) DEF SameUpTo
<1>10. ASSUME NEW s \in Seq(Characters) PROVE LongestMatch[s] \in Seq(ScanTokens)
  BY ONLY <1>4, <1>9, s \in Seq(Characters) DEF RightAt
<1> QED
  BY ONLY <1>8, <1>10 DEF RightAt

-----------------------------------------------------------------------------
(* A text that begins with a token, or with none.                          *)

Ahead(r) == IF r = << >> THEN EOF ELSE Head(r)

LEMMA ReadAhead ==
  ASSUME NEW r \in Seq(Characters)
  PROVE  /\ Ahead(r) = EOF <=> r = << >>
         /\ Len(r) \in Nat
         /\ r # << >> => /\ Ahead(r) = r[1] /\ Head(r) = r[1] /\ r[1] \in Characters
                         /\ Tail(r) \in Seq(Characters) /\ Len(Tail(r)) = Len(r) - 1 /\ Len(r) > 0
                         /\ \A k \in 1 .. Len(Tail(r)) : Tail(r)[k] = r[k + 1]
<1>1. r # << >> => /\ Head(r) = r[1] /\ Head(r) \in Characters
                   /\ Tail(r) \in Seq(Characters) /\ Len(Tail(r)) = Len(r) - 1
                   /\ \A k \in 1 .. Len(Tail(r)) : Tail(r)[k] = r[k + 1]
  BY HeadTailProperties
<1>2. Len(r) \in Nat /\ (r # << >> => Len(r) \in Nat \ {0})
  BY EmptySeq, LenProperties
<1>3. EOF \notin Characters
  BY CharactersAssumption
<1> QED
  BY ONLY <1>1, <1>2, <1>3 DEF Ahead

\* The first n characters of w followed by r.
LEMMA PrefixIs ==
  ASSUME NEW w \in Seq(Characters), NEW r \in Seq(Characters), NEW n \in 1 .. Len(w) + Len(r),
         NEW p, p = SubSeq(w \o r, 1, n)
  PROVE  /\ p \in Seq(Characters) /\ Len(p) = n
         /\ \A i \in 1 .. n : p[i] = IF i <= Len(w) THEN w[i] ELSE r[i - Len(w)]
<1>1. Len(w) \in Nat /\ Len(r) \in Nat
  BY LenProperties
<1>2. /\ w \o r \in Seq(Characters) /\ Len(w \o r) = Len(w) + Len(r)
      /\ \A i \in 1 .. Len(w) + Len(r) : (w \o r)[i] = IF i <= Len(w) THEN w[i] ELSE r[i - Len(w)]
  BY ConcatProperties
<1> DEFINE s == w \o r
<1> HIDE DEF s
<1>3. \A i \in 1 .. n : i \in 1 .. Len(s)
  BY ONLY <1>1, <1>2, n \in 1 .. Len(w) + Len(r) DEF s
<1>4. s \in Seq(Characters)
  BY ONLY <1>2 DEF s
<1>5. \A i \in 1 .. n : s[i] \in Characters
  BY ONLY <1>3, <1>4, ElementOfSeq
<1>6. 1 \in Int /\ n \in Int /\ 1 <= n /\ n - 1 + 1 = n
  BY ONLY <1>1, n \in 1 .. Len(w) + Len(r)
<1>7. /\ SubSeq(s, 1, n) \in Seq(Characters)
      /\ Len(SubSeq(s, 1, n)) = IF 1 <= n THEN n - 1 + 1 ELSE 0
      /\ \A i \in 1 .. n - 1 + 1 : SubSeq(s, 1, n)[i] = s[1 + i - 1]
  BY ONLY <1>5, <1>6, SubSeqProperties
<1>8. p = SubSeq(s, 1, n)
  BY DEF s
<1>9. ASSUME NEW i \in 1 .. n PROVE p[i] = IF i <= Len(w) THEN w[i] ELSE r[i - Len(w)]
  <2>1. i \in 1 .. n - 1 + 1 /\ 1 + i - 1 = i /\ i \in 1 .. Len(w) + Len(r)
    BY ONLY <1>1, i \in 1 .. n, n \in 1 .. Len(w) + Len(r)
  <2>2. p[i] = s[i]
    BY ONLY <1>7, <1>8, <2>1
  <2> QED
    BY ONLY <1>2, <2>1, <2>2 DEF s
<1> QED
  BY ONLY <1>6, <1>7, <1>8, <1>9

\* Nothing longer than w is a token at the beginning of w followed by r.
NoneLonger(w, r) ==
  \A n \in Len(w) + 1 .. Len(w) + Len(r) : Spelled(SubSeq(w \o r, 1, n)) = {}

LEMMA TokenAhead ==
  ASSUME NEW w \in Seq(Characters), NEW r \in Seq(Characters), NEW t,
         Len(w) > 0, w[1] \notin Spaces, Spelled(w) = { t }, NoneLonger(w, r)
  PROVE  LongestMatch[w \o r] = << t >> \o LongestMatch[r]
<1> DEFINE s == w \o r
<1>1. /\ Len(w) \in Nat /\ Len(r) \in Nat /\ s \in Seq(Characters)
      /\ Len(s) = Len(w) + Len(r)
  BY LenProperties, ConcatProperties
<1>2. s # << >> /\ Head(s) = w[1]
  <2>1. 1 \in 1 .. Len(w) + Len(r) /\ 1 <= Len(w)
    BY ONLY <1>1, Len(w) > 0
  <2>2. s[1] = w[1]
    BY ONLY <2>1, w \in Seq(Characters), r \in Seq(Characters), ConcatProperties
  <2>3. Len(s) # 0
    BY ONLY <1>1, Len(w) > 0
  <2>4. s # << >>
    BY ONLY <2>3, EmptySeq
  <2>5. Head(s) = s[1]
    BY ONLY <1>1, <2>4, ReadAhead
  <2> QED
    BY ONLY <2>2, <2>4, <2>5
<1>3. SubSeq(s, 1, Len(w)) = w
  <2>1. Len(w) \in 1 .. Len(w) /\ 1 \in 1 .. Len(w)
    BY ONLY <1>1, Len(w) > 0
  <2> QED
    BY ONLY <2>1, w \in Seq(Characters), r \in Seq(Characters), SubSeqOfConcat1, SubSeqFull
<1> HIDE DEF s
<1>4. Len(w) \in Ends(s) /\ \A k \in Ends(s) : k <= Len(w)
  <2>1. Len(w) \in 1 .. Len(s)
    BY ONLY <1>1, Len(w) > 0
  <2>2. Len(w) \in Ends(s)
    BY ONLY <1>3, <2>1, Spelled(w) = { t } DEF Ends
  <2>3. ASSUME NEW k \in Ends(s), ~(k <= Len(w)) PROVE FALSE
    <3>1. k \in 1 .. Len(s) /\ Spelled(SubSeq(s, 1, k)) # {}
      BY ONLY k \in Ends(s) DEF Ends
    <3>2. k \in Len(w) + 1 .. Len(w) + Len(r)
      BY ONLY <1>1, <2>3, <3>1
    <3> QED
      BY ONLY <3>1, <3>2, NoneLonger(w, r) DEF NoneLonger, s
  <2> QED
    BY ONLY <2>2, <2>3
<1>5. LongestEnd(s) = Len(w)
  <2>1. LongestEnd(s) \in Ends(s) /\ \A k \in Ends(s) : k <= LongestEnd(s)
    BY ONLY <1>1, <1>4, LongestEndIs
  <2>2. LongestEnd(s) \in Nat
    BY ONLY <2>1, <1>1 DEF Ends
  <2> QED
    BY ONLY <1>1, <1>4, <2>1, <2>2
<1>6. LongestOf(s) = t
  <2>1. Spelled(SubSeq(s, 1, LongestEnd(s))) = { t }
    BY ONLY <1>3, <1>5, Spelled(w) = { t }
  <2>2. LongestOf(s) \in Spelled(SubSeq(s, 1, LongestEnd(s)))
    BY ONLY <2>1, Zenon DEF LongestOf
  <2> QED
    BY ONLY <2>1, <2>2
<1>7. BehindToken(s) = r
  <2>1. CASE r = << >>
    <3>1. Len(w) + 1 \in Int /\ Len(s) \in Int /\ Len(s) < Len(w) + 1
      BY <1>1, <2>1
    <3> QED
      BY ONLY <1>5, <2>1, <3>1, SubSeqEmpty DEF BehindToken
  <2>2. CASE r # << >>
    <3>0. Len(r) > 0
      BY ONLY <2>2, r \in Seq(Characters), ReadAhead
    <3>1. /\ Len(w) + 1 \in Len(w) + 1 .. Len(w) + Len(r) /\ Len(s) \in Len(w) + 1 .. Len(w) + Len(r)
          /\ Len(w) + 1 - Len(w) = 1 /\ Len(s) - Len(w) = Len(r)
      BY ONLY <1>1, <3>0
    <3>2. SubSeq(s, Len(w) + 1, Len(s)) = SubSeq(r, Len(w) + 1 - Len(w), Len(s) - Len(w))
      BY ONLY <3>1, w \in Seq(Characters), r \in Seq(Characters), SubSeqOfConcat2 DEF s
    <3>3. SubSeq(r, 1, Len(r)) = r
      BY ONLY r \in Seq(Characters), SubSeqFull
    <3> QED
      BY ONLY <1>5, <3>1, <3>2, <3>3 DEF BehindToken
  <2> QED
    BY ONLY <2>1, <2>2
<1>8. LongestMatch[s] = TokensBy(LongestMatch, s)
  BY ONLY <1>1, LongestMatchIs DEF RightAt
<1>9. LongestMatch[s] = << t >> \o LongestMatch[r]
  BY ONLY <1>2, <1>4, <1>6, <1>7, <1>8, w[1] \notin Spaces DEF TokensBy
<1> QED
  BY ONLY <1>9 DEF s

LEMMA NoTokenAhead ==
  ASSUME NEW s \in Seq(Characters), s # << >>, Head(s) \notin Spaces, Ends(s) = {}
  PROVE  LongestMatch[s] = << Tok("error") >>
<1>1. LongestMatch[s] = TokensBy(LongestMatch, s)
  BY ONLY s \in Seq(Characters), LongestMatchIs DEF RightAt
<1> QED
  BY ONLY <1>1, s # << >>, Head(s) \notin Spaces, Ends(s) = {} DEF TokensBy

LEMMA SpaceAhead ==
  ASSUME NEW s \in Seq(Characters), s # << >>, Head(s) \in Spaces
  PROVE  LongestMatch[s] = LongestMatch[Tail(s)]
<1>1. LongestMatch[s] = TokensBy(LongestMatch, s)
  BY ONLY s \in Seq(Characters), LongestMatchIs DEF RightAt
<1> QED
  BY ONLY <1>1, s # << >>, Head(s) \in Spaces DEF TokensBy

LEMMA NothingAhead == LongestMatch[<< >>] = << Tok("EOF") >>
<1>1. << >> \in Seq(Characters)
  BY EmptySeq
<1>2. LongestMatch[<< >>] = TokensBy(LongestMatch, << >>)
  BY ONLY <1>1, LongestMatchIs DEF RightAt
<1> QED
  BY ONLY <1>2 DEF TokensBy

-----------------------------------------------------------------------------
(* What may follow a token for the scanner to end it.                      *)

LEMMA NoneLongerIf ==
  ASSUME NEW w \in Seq(Characters), NEW r \in Seq(Characters), Len(w) > 0,
         \A p \in Seq(Characters) :
           (/\ Len(p) > Len(w) /\ p[1] = w[1] /\ (Len(w) > 1 => p[2] = w[2])
            /\ r # << >> /\ p[Len(w) + 1] = Ahead(r))
           => ~(IsWord(p) \/ IsNumber(p) \/ ShortOperator(p))
  PROVE  NoneLonger(w, r)
<1>1. Len(w) \in Nat /\ Len(r) \in Nat
  BY LenProperties
<1>2. ASSUME NEW n \in Len(w) + 1 .. Len(w) + Len(r) PROVE Spelled(SubSeq(w \o r, 1, n)) = {}
  <2>1. PICK p : p = SubSeq(w \o r, 1, n)
    OBVIOUS
  <2>2. n \in 1 .. Len(w) + Len(r) /\ n \in Nat /\ n > Len(w)
    BY ONLY <1>1, n \in Len(w) + 1 .. Len(w) + Len(r)
  <2>3. /\ p \in Seq(Characters) /\ Len(p) = n
        /\ \A i \in 1 .. n : p[i] = IF i <= Len(w) THEN w[i] ELSE r[i - Len(w)]
    BY ONLY <2>1, <2>2, w \in Seq(Characters), r \in Seq(Characters), PrefixIs
  <2>4. /\ 1 \in 1 .. n /\ 1 <= Len(w)
        /\ Len(w) > 1 => 2 \in 1 .. n /\ 2 <= Len(w)
        /\ Len(w) + 1 \in 1 .. n /\ ~(Len(w) + 1 <= Len(w)) /\ Len(w) + 1 - Len(w) = 1
        /\ Len(r) # 0
    BY ONLY <1>1, <2>2, n \in Len(w) + 1 .. Len(w) + Len(r), Len(w) > 0
  <2>5. r # << >>
    BY ONLY <2>4, EmptySeq
  <2>6. r[1] = Ahead(r)
    BY ONLY <2>5, r \in Seq(Characters), ReadAhead
  <2>7. p[1] = w[1] /\ (Len(w) > 1 => p[2] = w[2]) /\ p[Len(w) + 1] = Ahead(r)
    BY ONLY <2>3, <2>4, <2>6
  <2>8. ~(IsWord(p) \/ IsNumber(p) \/ ShortOperator(p))
    BY <2>2, <2>3, <2>5, <2>7
  <2>9. Len(p) > 0
    BY ONLY <2>2, <2>3, <1>1
  <2> QED
    BY ONLY <2>1, <2>3, <2>8, <2>9, SpelledOnly
<1> QED
  BY ONLY <1>2 DEF NoneLonger

\* What begins with a letter or an underscore can only be a word, and what
\* begins with a digit only a number; with a sign, only an operator.
LEMMA ByFirst ==
  ASSUME NEW p \in Seq(Characters), Len(p) > 0
  PROVE  /\ p[1] \in BeginsWord => ~IsNumber(p) /\ ~ShortOperator(p)
         /\ p[1] \in Digits => ~IsWord(p) /\ ~ShortOperator(p)
         /\ p[1] \in Signs => ~IsWord(p) /\ ~IsNumber(p)
         /\ p[1] \notin InWord => ~IsWord(p) /\ ~IsNumber(p)
         /\ ShortOperator(p) => p[1] \in Signs
<1>1. Len(p) \in Nat
  BY LenProperties
<1>2. 1 \in 1 .. Len(p)
  BY ONLY <1>1, Len(p) > 0
<1>3. ShortOperator(p) => p[1] \in Signs
  <2>1. \A k \in 1 .. 7 : single_letter_operators[k] \in Signs
    BY SignsApart
  <2>2. "&" \in Signs /\ "|" \in Signs /\ "=" \in Signs
    BY DEF Signs
  <2> QED
    BY ONLY <2>1, <2>2 DEF ShortOperator
<1>4. IsWord(p) => p[1] \in BeginsWord /\ p[1] \in InWord
  BY ONLY <1>2 DEF IsWord
<1>5. IsNumber(p) => p[1] \in Digits
  BY ONLY <1>2 DEF IsNumber
<1> QED
  BY ONLY <1>3, <1>4, <1>5, SignsApart

LEMMA WordEnds ==
  ASSUME NEW w, IsWord(w), NEW r \in Seq(Characters), Ahead(r) \notin InWord
  PROVE  LongestMatch[w \o r] = << WordToken(w) >> \o LongestMatch[r]
<1>1. w \in Seq(Characters) /\ Len(w) > 0 /\ w[1] \in BeginsWord
  BY DEF IsWord
<1>2. w[1] \notin Spaces
  BY <1>1, CharactersAssumption DEF InWord
<1>3. ASSUME NEW p \in Seq(Characters), Len(p) > Len(w), p[1] = w[1], p[Len(w) + 1] = Ahead(r)
      PROVE  ~(IsWord(p) \/ IsNumber(p) \/ ShortOperator(p))
  <2>1. Len(p) \in Nat /\ Len(w) \in Nat
    BY <1>1, LenProperties
  <2>2. Len(p) > 0 /\ Len(w) + 1 \in 1 .. Len(p)
    BY ONLY <2>1, <1>3
  <2>3. ~IsNumber(p) /\ ~ShortOperator(p)
    BY ONLY <1>1, <1>3, <2>2, p \in Seq(Characters), ByFirst
  <2>4. ~IsWord(p)
    BY ONLY <1>3, <2>2, Ahead(r) \notin InWord DEF IsWord
  <2> QED
    BY ONLY <2>3, <2>4
<1>4. NoneLonger(w, r)
  BY ONLY <1>1, <1>3, r \in Seq(Characters), NoneLongerIf
<1>5. Spelled(w) = { WordToken(w) }
  BY SpelledWord
<1> QED
  BY ONLY <1>1, <1>2, <1>4, <1>5, r \in Seq(Characters), TokenAhead

LEMMA NumberEnds ==
  ASSUME NEW w \in Seq(Characters), IsNumber(w), NEW r \in Seq(Characters), Ahead(r) \notin Digits
  PROVE  LongestMatch[w \o r] = << Integer(atol(w)) >> \o LongestMatch[r]
<1>1. Len(w) > 0 /\ Len(w) \in Nat
  BY LenProperties DEF IsNumber
<1>2. 1 \in 1 .. Len(w)
  BY ONLY <1>1
<1>3. w[1] \in Digits
  BY ONLY <1>2, IsNumber(w) DEF IsNumber
<1>4. w[1] \notin Spaces
  BY <1>3, CharactersAssumption DEF InWord
<1>5. ASSUME NEW p \in Seq(Characters), Len(p) > Len(w), p[1] = w[1], p[Len(w) + 1] = Ahead(r)
      PROVE  ~(IsWord(p) \/ IsNumber(p) \/ ShortOperator(p))
  <2>1. Len(p) \in Nat
    BY LenProperties
  <2>2. Len(p) > 0 /\ Len(w) + 1 \in 1 .. Len(p)
    BY ONLY <2>1, <1>1, <1>5
  <2>3. ~IsWord(p) /\ ~ShortOperator(p)
    BY ONLY <1>3, <1>5, <2>2, p \in Seq(Characters), ByFirst
  <2>4. ~IsNumber(p)
    BY ONLY <1>5, <2>2, Ahead(r) \notin Digits DEF IsNumber
  <2> QED
    BY ONLY <2>3, <2>4
<1>6. NoneLonger(w, r)
  BY ONLY <1>1, <1>5, w \in Seq(Characters), r \in Seq(Characters), NoneLongerIf
<1>7. Spelled(w) = { Integer(atol(w)) }
  BY SpelledNumber
<1> QED
  BY ONLY <1>1, <1>4, <1>6, <1>7, w \in Seq(Characters), r \in Seq(Characters), TokenAhead

\* An operator ends where no longer operator can be.
LEMMA OperatorEnds ==
  ASSUME NEW w \in Seq(Characters), NEW r \in Seq(Characters), NEW t, w[1] \in Signs, Len(w) > 0,
         Spelled(w) = { t },
         Len(w) = 1 => w[1] \notin {"&", "|", "="} \/ Ahead(r) # w[1]
  PROVE  LongestMatch[w \o r] = << t >> \o LongestMatch[r]
<1>1. w[1] \notin Spaces
  BY SignsApart
<1>2. Len(w) \in Nat
  BY LenProperties
<1>3. ASSUME NEW p \in Seq(Characters), Len(p) > Len(w), p[1] = w[1], p[Len(w) + 1] = Ahead(r)
      PROVE  ~(IsWord(p) \/ IsNumber(p) \/ ShortOperator(p))
  <2>1. Len(p) \in Nat
    BY LenProperties
  <2>2. Len(p) > 0 /\ Len(p) # 1
    BY ONLY <2>1, <1>2, <1>3, Len(w) > 0
  <2>3. ~IsWord(p) /\ ~IsNumber(p)
    BY ONLY <1>3, <2>2, w[1] \in Signs, p \in Seq(Characters), ByFirst
  <2>4. ASSUME Len(p) = 2 PROVE Len(w) = 1
    <3>1. Len(p) > Len(w)
      BY ONLY <1>3
    <3>2. PICK m : m = Len(w)
      OBVIOUS
    <3>3. m \in Nat /\ m > 0 /\ 2 > m
      BY ONLY <1>2, <2>4, <3>1, <3>2, Len(w) > 0
    <3>4. m = 1
      BY ONLY <3>3
    <3> QED
      BY ONLY <3>2, <3>4
  <2>5. ASSUME ShortOperator(p) PROVE FALSE
    <3>1. Len(p) = 2 /\ p[1] \in {"&", "|", "="} /\ p[2] = p[1]
      BY ONLY <2>2, <2>5 DEF ShortOperator
    <3>2. Len(w) = 1
      BY ONLY <2>4, <3>1
    <3>3. Len(w) + 1 = 2
      BY ONLY <3>2
    <3> QED
      BY ONLY <1>3, <3>1, <3>2, <3>3, Len(w) = 1 => w[1] \notin {"&", "|", "="} \/ Ahead(r) # w[1]
  <2> QED
    BY ONLY <2>3, <2>5
<1>4. NoneLonger(w, r)
  BY ONLY <1>3, Len(w) > 0, w \in Seq(Characters), r \in Seq(Characters), NoneLongerIf
<1> QED
  BY ONLY <1>1, <1>4, Len(w) > 0, Spelled(w) = { t }, w \in Seq(Characters), r \in Seq(Characters),
          TokenAhead

-----------------------------------------------------------------------------
(* The tokens are what the parsers count on.                               *)

GoodToken(t) ==
  \/ t.type = "identifier" /\ IsIdentifier(t.name)
  \/ t.type = "integer" /\ t.v \in 0 .. Half - 1
  \/ t.type \in IsKeyword \union IsOperator

LEMMA NumberType ==
  ASSUME NEW w \in Seq(Characters), IsNumber(w)
  PROVE  Number(w) \in Nat
<1> DEFINE n == Len(w)
           step == [k \in 1 .. n |-> [x \in Nat |-> 10 * x + DigitValue[w[k]]]]
           Equation(v) == v = [k \in 0 .. n |-> IF k = 0 THEN 0 ELSE 10 * v[k - 1] + DigitValue[w[k]]]
<1>1. n \in Nat
  BY LenProperties
<1>2. \A k \in 1 .. n : DigitValue[w[k]] \in Nat
  BY CharactersAssumption DEF IsNumber
<1>3. step \in [1 .. n -> [Nat -> Nat]]
  BY <1>2
<1>4. \A k \in 1 .. n : \A x \in Nat : step[k][x] = 10 * x + DigitValue[w[k]]
  OBVIOUS
<1> HIDE DEF step
<1>5. RecursiveFunctionExists(Nat, 0, n, step)
  BY ONLY <1>1, <1>3, Recursion, 0 \in Nat
<1>6. PICK f \in [0 .. n -> Nat] : \A k \in 0 .. n : f[k] = IF k = 0 THEN 0 ELSE step[k][f[k - 1]]
  BY ONLY <1>5 DEF RecursiveFunctionExists
<1> HIDE DEF n
<1>7. Equation(f)
  <2>1. ASSUME NEW k \in 0 .. n PROVE f[k] = IF k = 0 THEN 0 ELSE 10 * f[k - 1] + DigitValue[w[k]]
    <3>1. k # 0 => k \in 1 .. n /\ k - 1 \in 0 .. n
      BY ONLY <1>1, k \in 0 .. n
    <3>2. k # 0 => f[k - 1] \in Nat
      BY ONLY <3>1, f \in [0 .. n -> Nat]
    <3> QED
      BY ONLY <1>4, <1>6, <3>1, <3>2, k \in 0 .. n
  <2> QED
    BY ONLY <2>1, f \in [0 .. n -> Nat]
<1>8. PICK v : v = CHOOSE g : Equation(g)
  OBVIOUS
<1>9. Equation(v)
  <2> HIDE DEF Equation
  <2> QED
    BY ONLY <1>7, <1>8, Zenon
<1>10. Number(w) = v[n]
  BY ONLY <1>8, Zenon DEF Number, n
<1>11. \A k \in 0 .. n : v[k] = IF k = 0 THEN 0 ELSE 10 * v[k - 1] + DigitValue[w[k]]
  BY ONLY <1>9
<1> DEFINE S == { k \in Nat : k <= n => v[k] \in Nat }
<1>12. 0 \in S
  BY ONLY <1>1, <1>11
<1>13. ASSUME NEW k \in Nat, k \in S PROVE k + 1 \in S
  <2>1. k + 1 <= n => k + 1 \in 0 .. n /\ k + 1 \in 1 .. n /\ k + 1 # 0 /\ k + 1 - 1 = k /\ k <= n
    BY ONLY <1>1, k \in Nat
  <2>2. k + 1 <= n => v[k + 1] = 10 * v[k] + DigitValue[w[k + 1]]
    BY ONLY <1>11, <2>1
  <2>3. k + 1 <= n => v[k] \in Nat /\ DigitValue[w[k + 1]] \in Nat
    <3>1. k + 1 <= n => k \in 0 .. n /\ k <= n
      BY ONLY <1>1, <2>1, k \in Nat
    <3>2. k + 1 <= n => v[k] \in Nat
      BY <1>13, <3>1
    <3>3. \A j \in 1 .. n : DigitValue[w[j]] \in Nat
      BY <1>2 DEF n
    <3> QED
      BY ONLY <2>1, <3>2, <3>3
  <2>4. k + 1 <= n => v[k + 1] \in Nat
    <3>1. \A y, z \in Nat : 10 * y + z \in Nat
      OBVIOUS
    <3> QED
      BY ONLY <2>2, <2>3, <3>1
  <2> QED
    BY <2>4
<1>14. \A k \in Nat : k \in S
  <2> HIDE DEF S
  <2> QED
    BY ONLY <1>12, <1>13, Induct
<1>15. n <= n
  BY ONLY <1>1
<1> QED
  BY ONLY <1>1, <1>10, <1>14, <1>15

\* The integer is in the range of the machine's words, and not negative.
LEMMA IntegerGood ==
  ASSUME NEW v \in Nat
  PROVE  /\ GoodToken(Integer(strtoll(v)))
         /\ v \in Word => strtoll(v) = v
<1>1. strtoll(v) \in 0 .. Half - 1 /\ (v \in Word => strtoll(v) = v)
  BY HalfAssumption DEF strtoll, Word
<1> QED
  BY ONLY <1>1 DEF GoodToken, Integer

LEMMA WordGood ==
  ASSUME NEW w, IsWord(w)
  PROVE  GoodToken(WordToken(w))
<1>1. CASE \E k \in 1 .. 9 : w = keyword_names[k]
  <2>1. PICK k \in 1 .. 9 : w = keyword_names[k]
    BY <1>1
  <2>2. find_keyword(w) = token_type_t[3 + k] /\ 3 + k \in 4 .. 12
    BY <2>1, FindKeyword
  <2>3. token_type_t[3 + k] \in IsKeyword /\ token_type_t[3 + k] # "EOF"
    <3>1. PICK j \in 4 .. 12 : j = 3 + k
      BY ONLY <2>2
    <3>2. token_type_t[j] \in IsKeyword /\ token_type_t[j] # "EOF"
      BY ONLY TableTypes, j \in 4 .. 12
    <3> QED
      BY ONLY <3>1, <3>2
  <2>4. WordToken(w) = Tok(token_type_t[3 + k])
    BY ONLY <2>2, <2>3 DEF WordToken
  <2>5. Tok(token_type_t[3 + k]).type = token_type_t[3 + k]
    BY DEF Tok
  <2>6. WordToken(w).type \in IsKeyword \union IsOperator
    BY ONLY <2>3, <2>4, <2>5
  <2> QED
    BY ONLY <2>6 DEF GoodToken
<1>2. CASE \A k \in 1 .. 9 : w # keyword_names[k]
  <2>1. IsIdentifier(w)
    BY <1>2, TableLengths DEF IsWord, IsIdentifier
  <2>2. WordToken(w) = Ident(w)
    BY <1>2, TableLengths DEF WordToken, find_keyword
  <2>3. Ident(w).type = "identifier" /\ Ident(w).name = w
    BY DEF Ident
  <2> QED
    BY ONLY <2>1, <2>2, <2>3 DEF GoodToken
<1> QED
  BY ONLY <1>1, <1>2

LEMMA OperatorsGood ==
  /\ \A k \in 1 .. 8 : GoodToken(Tok(SingleType(single_letter_operators[k])))
  /\ \A type \in {"&&", "||", "==", "="} : GoodToken(Tok(type))
<1>1. \A k \in 13 .. 23 : GoodToken(Tok(token_type_t[k]))
  <2>1. \A k \in 13 .. 23 : Tok(token_type_t[k]).type \in IsOperator
    BY TableTypes DEF Tok
  <2> QED
    BY ONLY <2>1 DEF GoodToken
<1>2. ASSUME NEW k \in 1 .. 8 PROVE GoodToken(Tok(SingleType(single_letter_operators[k])))
  <2>1. 12 + k \in 13 .. 23
    OBVIOUS
  <2>2. SingleType(single_letter_operators[k]) = token_type_t[12 + k]
    BY ONLY k \in 1 .. 8, SingleTypes
  <2> QED
    BY ONLY <1>1, <2>1, <2>2
<1>3. /\ token_type_t[20] = "&&" /\ token_type_t[21] = "||"
      /\ token_type_t[22] = "==" /\ token_type_t[23] = "="
  BY DEF token_type_t
<1>4. 20 \in 13 .. 23 /\ 21 \in 13 .. 23 /\ 22 \in 13 .. 23 /\ 23 \in 13 .. 23
  OBVIOUS
<1>5. ASSUME NEW type \in {"&&", "||", "==", "="} PROVE GoodToken(Tok(type))
  BY ONLY <1>1, <1>3, <1>4, type \in {"&&", "||", "==", "="}
<1> QED
  BY ONLY <1>2, <1>5

-----------------------------------------------------------------------------
(* The invariant, of values: a is at, pr the program, x the text, ts the   *)
(* tokens, d what is collected and r what is not yet read.                 *)

Running == {"scan", "word", "number", "pair", "assign"}
Without(s, c) == \A k \in 1 .. Len(s) : s[k] # c
LeftOut(pr)   == IF pr = "C" THEN "NUL" ELSE Underscore

\* What is collected fits the place in the program.  A Swift name that begins
\* with an underscore takes what follows, whatever it is.
Collected(a, pr, d) ==
  /\ a = "scan" => d = << >>
  /\ a = "word" => Len(d) > 0 /\ (IsWord(d) \/ (pr = "Swift" /\ d[1] = Underscore))
  /\ a = "number" => IsNumber(d)
  /\ a = "pair" => Len(d) = 1 /\ d[1] \in {"&", "|"}
  /\ a = "assign" => Len(d) = 1 /\ d[1] = "="

MatchKept(a, pr, x, ts, d, r) ==
  /\ a \in Running => ts \o LongestMatch[d \o r] = LongestMatch[x]
  /\ a = "EOF" => Append(ts, Tok("EOF")) = LongestMatch[x]
  /\ a = "refused" => \/ pr = "Swift" /\ IsNumber(d) /\ Number(d) \notin Word
                      \/ Append(ts, Tok("error")) = LongestMatch[x]
  /\ a = "aborted" => x = << >>
  /\ a = "trapped" => Len(r) <= 1

\* If the text is without the character left out, so is the rest of it, and
\* then the tokens are those of the longest match.
CleanKept(a, pr, x, ts, d, r) ==
  Without(x, LeftOut(pr)) =>
    Without(d, LeftOut(pr)) /\ Without(r, LeftOut(pr)) /\ MatchKept(a, pr, x, ts, d, r)

Scanning(a, pr, x, ts, d, r) ==
  /\ pr \in {"C", "Swift"}
  /\ a \in Running \union {"EOF", "refused", "aborted", "trapped"}
  /\ x \in Texts
  /\ d \in Seq(Characters) /\ r \in Seq(Characters)
  /\ IsSeq(ts)
  /\ \A k \in 1 .. Len(ts) : GoodToken(ts[k])
  /\ Collected(a, pr, d)
  /\ CleanKept(a, pr, x, ts, d, r)

LEMMA ConsumeKeeps ==
  ASSUME NEW d \in Seq(Characters), NEW r \in Seq(Characters), r # << >>
  PROVE  /\ Append(d, Head(r)) \in Seq(Characters)
         /\ Len(Append(d, Head(r))) = Len(d) + 1 /\ Append(d, Head(r))[Len(d) + 1] = Ahead(r)
         /\ \A k \in 1 .. Len(d) : Append(d, Head(r))[k] = d[k]
         /\ Append(d, Head(r)) \o Tail(r) = d \o r
         /\ \A c : /\ Without(r, c) => Without(Tail(r), c) /\ Ahead(r) # c
                   /\ Without(d, c) /\ Without(r, c) => Without(Append(d, Head(r)), c)
<1> DEFINE e == Append(d, Head(r))
<1>1. /\ Ahead(r) = r[1] /\ Head(r) = r[1] /\ r[1] \in Characters
      /\ Tail(r) \in Seq(Characters) /\ Len(Tail(r)) = Len(r) - 1 /\ Len(r) > 0 /\ Len(r) \in Nat
      /\ \A k \in 1 .. Len(Tail(r)) : Tail(r)[k] = r[k + 1]
  BY ReadAhead
<1>2. /\ e \in Seq(Characters) /\ Len(e) = Len(d) + 1
      /\ \A k \in 1 .. Len(d) : e[k] = d[k]
      /\ e[Len(d) + 1] = r[1] /\ e = d \o << r[1] >>
  BY ONLY <1>1, d \in Seq(Characters), AppendProperties, AppendIsConcat
<1> HIDE DEF e
<1>3. Len(d) \in Nat
  BY LenProperties
<1>4. << r[1] >> \o Tail(r) = r
  <2>1. 1 \in 1 .. Len(r) /\ Len(r) \in 1 .. Len(r)
    BY ONLY <1>1
  <2>2. SubSeq(r, 1, Len(r)) = << r[1] >> \o SubSeq(r, 1 + 1, Len(r))
    BY ONLY <2>1, r \in Seq(Characters), SubSeqRecursiveFirst
  <2>3. Tail(r) = SubSeq(r, 2, Len(r)) /\ SubSeq(r, 1, Len(r)) = r
    BY ONLY r \in Seq(Characters), r # << >>, TailIsSubSeq, SubSeqFull
  <2>4. 1 + 1 = 2
    OBVIOUS
  <2> QED
    BY ONLY <2>2, <2>3, <2>4
<1>5. << r[1] >> \in Seq(Characters)
  BY ONLY <1>1
<1>6. e \o Tail(r) = d \o r
  <2>1. (d \o << r[1] >>) \o Tail(r) = d \o (<< r[1] >> \o Tail(r))
    BY ONLY <1>1, <1>5, d \in Seq(Characters), ConcatAssociative
  <2> QED
    BY ONLY <1>2, <1>4, <2>1
<1>7. ASSUME NEW c, Without(r, c) PROVE Without(Tail(r), c) /\ r[1] # c
  <2>1. 1 \in 1 .. Len(r) /\ \A k \in 1 .. Len(Tail(r)) : k + 1 \in 1 .. Len(r)
    BY ONLY <1>1
  <2> QED
    BY ONLY <1>1, <1>7, <2>1 DEF Without
<1>8. ASSUME NEW c, Without(d, c), Without(r, c) PROVE Without(e, c)
  <2>1. r[1] # c
    BY ONLY <1>7, <1>8
  <2>2. \A k \in 1 .. Len(e) : k \in 1 .. Len(d) \/ k = Len(d) + 1
    BY ONLY <1>2, <1>3
  <2> QED
    BY ONLY <1>2, <1>8, <2>1, <2>2 DEF Without
<1> QED
  BY ONLY <1>1, <1>2, <1>6, <1>7, <1>8 DEF e

\* A token more, and the tokens that follow it.
Moves(ts, t, m) == Append(ts, t) \o m = ts \o (<< t >> \o m)
LEMMA TokenMoved ==
  ASSUME NEW ts, IsSeq(ts), NEW t, NEW m, IsSeq(m)
  PROVE  Moves(ts, t, m)
<1> DEFINE S == { ts[k] : k \in DOMAIN ts } \union { m[k] : k \in DOMAIN m } \union { t }
<1>1. ts \in Seq({ ts[k] : k \in DOMAIN ts }) /\ m \in Seq({ m[k] : k \in DOMAIN m })
  BY DEF IsSeq
<1>2. ts \in Seq(S)
  BY ONLY <1>1, SeqMonotonic
<1>3. m \in Seq(S)
  BY ONLY <1>1, SeqMonotonic
<1>4. t \in S
  OBVIOUS
<1> HIDE DEF S
<1>5. << t >> \in Seq(S)
  BY ONLY <1>4
<1>6. Append(ts, t) = ts \o << t >>
  BY ONLY <1>2, <1>4, AppendIsConcat
<1>7. (ts \o << t >>) \o m = ts \o (<< t >> \o m)
  BY ONLY <1>2, <1>3, <1>5, ConcatAssociative
<1> QED
  BY ONLY <1>6, <1>7 DEF Moves

LEMMA LastToken ==
  ASSUME NEW ts, IsSeq(ts), NEW t
  PROVE  Append(ts, t) = ts \o << t >>
<1> DEFINE S == { ts[k] : k \in DOMAIN ts } \union { t }
<1>1. ts \in Seq({ ts[k] : k \in DOMAIN ts })
  BY DEF IsSeq
<1>2. ts \in Seq(S)
  BY ONLY <1>1, SeqMonotonic
<1>3. t \in S
  OBVIOUS
<1> HIDE DEF S
<1> QED
  BY ONLY <1>2, <1>3, AppendIsConcat

-----------------------------------------------------------------------------
(* The kinds of steps keep the invariant.                                  *)

LEMMA Skips ==
  ASSUME NEW pr, NEW x, NEW ts, NEW d, NEW r, Scanning("scan", pr, x, ts, d, r),
         r # << >>, Head(r) \in Spaces
  PROVE  Scanning("scan", pr, x, ts, d, Tail(r))
<1>1. /\ pr \in {"C", "Swift"} /\ x \in Texts /\ d \in Seq(Characters) /\ r \in Seq(Characters)
      /\ IsSeq(ts) /\ \A k \in 1 .. Len(ts) : GoodToken(ts[k])
      /\ Collected("scan", pr, d) /\ CleanKept("scan", pr, x, ts, d, r)
  BY DEF Scanning
<1>2. d = << >>
  BY ONLY <1>1 DEF Collected
<1>3. Tail(r) \in Seq(Characters)
  BY ONLY <1>1, r # << >>, ReadAhead
<1>4. d \o r = r /\ d \o Tail(r) = Tail(r)
  BY ONLY <1>1, <1>2, <1>3, ConcatEmptySeq
<1>5. LongestMatch[r] = LongestMatch[Tail(r)]
  BY ONLY <1>1, r # << >>, Head(r) \in Spaces, SpaceAhead
<1>6. \A c : Without(r, c) => Without(Tail(r), c)
  BY ONLY <1>1, r # << >>, ConsumeKeeps
<1>7. MatchKept("scan", pr, x, ts, d, r) => MatchKept("scan", pr, x, ts, d, Tail(r))
  BY ONLY <1>4, <1>5 DEF MatchKept, Running
<1>8. CleanKept("scan", pr, x, ts, d, Tail(r))
  BY ONLY <1>1, <1>6, <1>7 DEF CleanKept
<1>9. "scan" \in Running \union {"EOF", "refused", "aborted", "trapped"}
  BY DEF Running
<1> QED
  BY ONLY <1>1, <1>3, <1>8, <1>9 DEF Scanning

LEMMA Gathers ==
  ASSUME NEW a, NEW a2, NEW pr, NEW x, NEW ts, NEW d, NEW r, Scanning(a, pr, x, ts, d, r),
         a \in Running, a2 \in Running, r # << >>, Collected(a2, pr, Append(d, Head(r)))
  PROVE  Scanning(a2, pr, x, ts, Append(d, Head(r)), Tail(r))
<1>1. /\ pr \in {"C", "Swift"} /\ x \in Texts /\ d \in Seq(Characters) /\ r \in Seq(Characters)
      /\ IsSeq(ts) /\ \A k \in 1 .. Len(ts) : GoodToken(ts[k])
      /\ CleanKept(a, pr, x, ts, d, r)
  BY DEF Scanning
<1>2. /\ Append(d, Head(r)) \in Seq(Characters)
      /\ Append(d, Head(r)) \o Tail(r) = d \o r
      /\ \A c : /\ Without(r, c) => Without(Tail(r), c)
                /\ Without(d, c) /\ Without(r, c) => Without(Append(d, Head(r)), c)
  BY ONLY <1>1, r # << >>, ConsumeKeeps
<1>3. Tail(r) \in Seq(Characters)
  BY ONLY <1>1, r # << >>, ReadAhead
<1>4. /\ a2 \notin {"EOF", "refused", "aborted", "trapped"}
      /\ a2 \in Running \union {"EOF", "refused", "aborted", "trapped"}
  BY a2 \in Running DEF Running
<1> DEFINE e == Append(d, Head(r))
           u == Tail(r)
<1>5. MatchKept(a, pr, x, ts, d, r) => MatchKept(a2, pr, x, ts, e, u)
  <2>1. a2 \in Running => ts \o LongestMatch[d \o r] = ts \o LongestMatch[e \o u]
    BY ONLY <1>2
  <2> HIDE DEF e, u
  <2> QED
    BY ONLY <1>4, <2>1, a \in Running DEF MatchKept
<1> HIDE DEF e, u
<1>6. CleanKept(a2, pr, x, ts, e, u)
  BY ONLY <1>1, <1>2, <1>5 DEF CleanKept, e, u
<1> QED
  BY ONLY <1>1, <1>2, <1>3, <1>4, <1>6, Collected(a2, pr, Append(d, Head(r))) DEF Scanning, e, u

\* A token is returned; d and r begin with it, and what follows is r2.
LEMMA ReturnsToken ==
  ASSUME NEW a, NEW pr, NEW x, NEW ts, NEW d, NEW r, NEW t, NEW r2,
         Scanning(a, pr, x, ts, d, r), a \in Running, GoodToken(t),
         r2 = r \/ (r # << >> /\ r2 = Tail(r)),
         Without(d, LeftOut(pr)) /\ Without(r, LeftOut(pr)) =>
           LongestMatch[d \o r] = << t >> \o LongestMatch[r2]
  PROVE  Scanning("scan", pr, x, Append(ts, t), << >>, r2)
<1>1. /\ pr \in {"C", "Swift"} /\ x \in Texts /\ d \in Seq(Characters) /\ r \in Seq(Characters)
      /\ IsSeq(ts) /\ \A k \in 1 .. Len(ts) : GoodToken(ts[k])
      /\ CleanKept(a, pr, x, ts, d, r)
  BY DEF Scanning
<1>2. r2 \in Seq(Characters) /\ \A c : Without(r, c) => Without(r2, c)
  <2>1. r # << >> => Tail(r) \in Seq(Characters)
    BY ONLY <1>1, ReadAhead
  <2>2. r # << >> => \A c : Without(r, c) => Without(Tail(r), c)
    BY ONLY <1>1, ConsumeKeeps
  <2> QED
    BY ONLY <1>1, <2>1, <2>2, r2 = r \/ (r # << >> /\ r2 = Tail(r))
<1>3. << >> \o r2 = r2 /\ << >> \in Seq(Characters)
  BY ONLY <1>2, ConcatEmptySeq, EmptySeq
<1>4. IsSeq(LongestMatch[r2])
  BY ONLY <1>2, LongestMatchIs, SeqIsSeq DEF RightAt
<1>5. Append(ts, t) \o LongestMatch[r2] = ts \o (<< t >> \o LongestMatch[r2])
  <2>1. IsSeq(ts)
    BY ONLY <1>1
  <2>2. PICK m : m = LongestMatch[r2]
    OBVIOUS
  <2>3. IsSeq(m)
    BY ONLY <1>4, <2>2
  <2>4. Moves(ts, t, m)
    BY ONLY <2>1, <2>3, TokenMoved
  <2> QED
    BY ONLY <2>2, <2>4 DEF Moves
<1>6. /\ IsSeq(Append(ts, t)) /\ Len(ts) \in Nat /\ Len(Append(ts, t)) = Len(ts) + 1
      /\ \A k \in 1 .. Len(ts) : Append(ts, t)[k] = ts[k]
      /\ Append(ts, t)[Len(ts) + 1] = t
  BY ONLY <1>1, AppendIsSeq
<1>7. \A k \in 1 .. Len(Append(ts, t)) : GoodToken(Append(ts, t)[k])
  <2>1. \A k \in 1 .. Len(Append(ts, t)) : k \in 1 .. Len(ts) \/ k = Len(ts) + 1
    BY ONLY <1>6
  <2> QED
    BY ONLY <1>1, <1>6, <2>1, GoodToken(t)
<1>8. Without(<< >>, LeftOut(pr))
  BY DEF Without
<1>9. MatchKept(a, pr, x, ts, d, r) /\ LongestMatch[d \o r] = << t >> \o LongestMatch[r2]
        => MatchKept("scan", pr, x, Append(ts, t), << >>, r2)
  BY ONLY <1>3, <1>5, a \in Running DEF MatchKept
<1>10. CleanKept("scan", pr, x, Append(ts, t), << >>, r2)
  BY ONLY <1>1, <1>2, <1>8, <1>9, Without(d, LeftOut(pr)) /\ Without(r, LeftOut(pr)) =>
           LongestMatch[d \o r] = << t >> \o LongestMatch[r2] DEF CleanKept
<1>11. Collected("scan", pr, << >>)
  BY DEF Collected
<1>12. "scan" \in Running \union {"EOF", "refused", "aborted", "trapped"}
  BY DEF Running
<1> QED
  BY ONLY <1>1, <1>2, <1>3, <1>6, <1>7, <1>10, <1>11, <1>12 DEF Scanning

LEMMA ScanningEnds ==
  ASSUME NEW a, NEW a2, NEW pr, NEW x, NEW ts, NEW d, NEW r,
         Scanning(a, pr, x, ts, d, r), a \in Running, a2 \in {"EOF", "refused", "trapped"},
         a2 = "EOF" => d = << >> /\ r = << >>,
         a2 = "refused" => (Without(d, LeftOut(pr)) /\ Without(r, LeftOut(pr)) =>
                              \/ pr = "Swift" /\ IsNumber(d) /\ Number(d) \notin Word
                              \/ LongestMatch[d \o r] = << Tok("error") >>),
         a2 = "trapped" => Len(r) <= 1
  PROVE  Scanning(a2, pr, x, ts, d, r)
<1>1. /\ pr \in {"C", "Swift"} /\ x \in Texts /\ d \in Seq(Characters) /\ r \in Seq(Characters)
      /\ IsSeq(ts) /\ \A k \in 1 .. Len(ts) : GoodToken(ts[k])
      /\ CleanKept(a, pr, x, ts, d, r)
  BY DEF Scanning
<1>2. \A t : Append(ts, t) = ts \o << t >>
  BY ONLY <1>1, LastToken
<1>3. << >> \o << >> = << >>
  BY ONLY EmptySeq, ConcatEmptySeq
<1>4. Collected(a2, pr, d)
  BY a2 \in {"EOF", "refused", "trapped"} DEF Collected
<1>5. ASSUME MatchKept(a, pr, x, ts, d, r), Without(d, LeftOut(pr)), Without(r, LeftOut(pr))
      PROVE  MatchKept(a2, pr, x, ts, d, r)
  <2>0. ts \o LongestMatch[d \o r] = LongestMatch[x]
    BY ONLY <1>5, a \in Running DEF MatchKept
  <2>1. a2 \notin Running /\ a2 # "aborted"
    BY a2 \in {"EOF", "refused", "trapped"} DEF Running
  <2>2. a2 = "EOF" => Append(ts, Tok("EOF")) = LongestMatch[x]
    BY ONLY <1>2, <1>3, <2>0, NothingAhead, a2 = "EOF" => d = << >> /\ r = << >>
  <2>3. LongestMatch[d \o r] = << Tok("error") >> => Append(ts, Tok("error")) = LongestMatch[x]
    BY ONLY <1>2, <2>0
  <2>4. a2 = "refused" => \/ pr = "Swift" /\ IsNumber(d) /\ Number(d) \notin Word
                          \/ Append(ts, Tok("error")) = LongestMatch[x]
    BY <1>5, <2>3
  <2> QED
    BY ONLY <2>1, <2>2, <2>4, a2 = "trapped" => Len(r) <= 1 DEF MatchKept
<1>6. CleanKept(a2, pr, x, ts, d, r)
  BY ONLY <1>1, <1>5 DEF CleanKept
<1> QED
  BY ONLY <1>1, <1>4, <1>6, a2 \in {"EOF", "refused", "trapped"} DEF Scanning

-----------------------------------------------------------------------------
(* The steps of scanner.c and scanner.swift, one by one.                   *)

ScInv == Scanning(at, program, text, tokens, ds, rest)

LEMMA Typed ==
  ASSUME ScInv
  PROVE  /\ program \in {"C", "Swift"} /\ ds \in Seq(Characters) /\ rest \in Seq(Characters)
         /\ Collected(at, program, ds) /\ Len(ds) \in Nat
         /\ lookahead = Ahead(rest)
         /\ lookahead = EOF <=> rest = << >>
         /\ rest # << >> => lookahead = Head(rest)
         /\ at = "scan" => ds = << >> /\ Len(ds) = 0 /\ ds \o rest = rest
         /\ EOF \notin InWord /\ EOF \notin Spaces /\ EOF \notin Signs
<1>1. /\ program \in {"C", "Swift"} /\ ds \in Seq(Characters) /\ rest \in Seq(Characters)
      /\ Collected(at, program, ds)
  BY DEF ScInv, Scanning
<1>2. lookahead = Ahead(rest) /\ (rest # << >> => lookahead = Head(rest))
  BY DEF lookahead, Ahead
<1>3. lookahead = EOF <=> rest = << >>
  BY ONLY <1>1, <1>2, ReadAhead
<1>4. << >> \o rest = rest
  BY ONLY <1>1, ConcatEmptySeq
<1>5. at = "scan" => ds = << >> /\ Len(ds) = 0 /\ ds \o rest = rest
  BY ONLY <1>1, <1>4 DEF Collected
<1>6. EOF \notin InWord /\ EOF \notin Spaces
  BY CharactersAssumption
<1>7. EOF \notin Signs
  BY DEF EOF, Signs
<1>8. Len(ds) \in Nat
  BY ONLY <1>1, LenProperties
<1> QED
  BY ONLY <1>1, <1>2, <1>3, <1>5, <1>6, <1>7, <1>8

\* What a step does to the collected characters, when it consumes one.
LEMMA Consumed ==
  ASSUME ScInv, lookahead # EOF
  PROVE  /\ rest # << >> /\ Head(rest) = lookahead
         /\ Append(ds, lookahead) \in Seq(Characters)
         /\ Len(Append(ds, lookahead)) = Len(ds) + 1
         /\ Append(ds, lookahead)[Len(ds) + 1] = lookahead
         /\ \A k \in 1 .. Len(ds) : Append(ds, lookahead)[k] = ds[k]
         /\ Append(ds, lookahead) \o Tail(rest) = ds \o rest
         /\ Tail(rest) \in Seq(Characters)
         /\ at = "scan" => /\ Append(ds, lookahead) = << lookahead >>
                           /\ Len(Append(ds, lookahead)) = 1 /\ Append(ds, lookahead)[1] = lookahead
<1>1. /\ rest # << >> /\ lookahead = Head(rest) /\ ds \in Seq(Characters) /\ rest \in Seq(Characters)
      /\ lookahead = Ahead(rest) /\ (at = "scan" => ds = << >> /\ Len(ds) = 0)
  BY Typed
<1>2. /\ Append(ds, Head(rest)) \in Seq(Characters)
      /\ Len(Append(ds, Head(rest))) = Len(ds) + 1
      /\ Append(ds, Head(rest))[Len(ds) + 1] = Ahead(rest)
      /\ \A k \in 1 .. Len(ds) : Append(ds, Head(rest))[k] = ds[k]
      /\ Append(ds, Head(rest)) \o Tail(rest) = ds \o rest
  BY ONLY <1>1, ConsumeKeeps
<1>3. Tail(rest) \in Seq(Characters)
  BY ONLY <1>1, ReadAhead
<1>4. at = "scan" => /\ Append(ds, lookahead) = << lookahead >>
                     /\ Len(Append(ds, lookahead)) = 1 /\ Append(ds, lookahead)[1] = lookahead
  <2>1. PICK c : c = lookahead
    OBVIOUS
  <2>2. Append(<< >>, c) = << c >> /\ Len(<< c >>) = 1 /\ << c >>[1] = c
    OBVIOUS
  <2> QED
    BY ONLY <1>1, <2>1, <2>2
<1> QED
  BY ONLY <1>1, <1>2, <1>3, <1>4

\* A step that collects the lookahead.
LEMMA CollectsKeeps ==
  ASSUME ScInv, lookahead # EOF, at \in Running, at' \in Running,
         ds' = Append(ds, lookahead), rest' = Tail(rest), UNCHANGED <<text, tokens, program>>,
         Collected(at', program, Append(ds, lookahead))
  PROVE  ScInv'
<1>1. rest # << >> /\ Head(rest) = lookahead
  BY Consumed
<1>2. PICK a2 : a2 = at'
  OBVIOUS
<1>3. Scanning(at, program, text, tokens, ds, rest)
  BY DEF ScInv
<1>4. a2 \in Running /\ Collected(a2, program, Append(ds, Head(rest)))
  BY <1>1, <1>2
<1>5. Scanning(a2, program, text, tokens, Append(ds, Head(rest)), Tail(rest))
  BY ONLY <1>1, <1>3, <1>4, at \in Running, Gathers
<1>6. /\ at' = a2 /\ program' = program /\ text' = text /\ tokens' = tokens
      /\ ds' = Append(ds, Head(rest)) /\ rest' = Tail(rest)
  BY <1>1, <1>2
<1> QED
  BY ONLY <1>5, <1>6 DEF ScInv

\* A step that returns the token t.
LEMMA ReturnsKeeps ==
  ASSUME ScInv, NEW t, Returns(t), at \in Running, program' = program, GoodToken(t),
         rest' = rest \/ (rest # << >> /\ rest' = Tail(rest)),
         NEW r2, r2 = rest',
         Without(ds, LeftOut(program)) /\ Without(rest, LeftOut(program)) =>
           LongestMatch[ds \o rest] = << t >> \o LongestMatch[r2]
  PROVE  ScInv'
<1>1. Scanning(at, program, text, tokens, ds, rest)
  BY DEF ScInv
<1>2. r2 = rest \/ (rest # << >> /\ r2 = Tail(rest))
  OBVIOUS
<1>3. Scanning("scan", program, text, Append(tokens, t), << >>, r2)
  BY ONLY <1>1, <1>2, at \in Running, GoodToken(t), ReturnsToken,
         Without(ds, LeftOut(program)) /\ Without(rest, LeftOut(program)) =>
           LongestMatch[ds \o rest] = << t >> \o LongestMatch[r2]
<1>4. /\ at' = "scan" /\ program' = program /\ text' = text /\ tokens' = Append(tokens, t)
      /\ ds' = << >> /\ rest' = r2
  BY DEF Returns
<1> QED
  BY ONLY <1>3, <1>4 DEF ScInv

\* A step that ends the scan.
LEMMA StopsKeeps ==
  ASSUME ScInv, NEW where \in {"EOF", "refused", "trapped"}, Stops(where), at \in Running,
         program' = program,
         where = "EOF" => ds = << >> /\ rest = << >>,
         where = "refused" => (Without(ds, LeftOut(program)) /\ Without(rest, LeftOut(program)) =>
                              \/ program = "Swift" /\ IsNumber(ds) /\ Number(ds) \notin Word
                              \/ LongestMatch[ds \o rest] = << Tok("error") >>),
         where = "trapped" => Len(rest) <= 1
  PROVE  ScInv'
<1>1. Scanning(at, program, text, tokens, ds, rest)
  BY DEF ScInv
<1>2. Scanning(where, program, text, tokens, ds, rest)
  BY <1>1, ScanningEnds
<1>3. /\ at' = where /\ program' = program /\ text' = text /\ tokens' = tokens
      /\ ds' = ds /\ rest' = rest
  BY DEF Stops
<1> QED
  BY ONLY <1>2, <1>3 DEF ScInv

LEMMA SkipSpaceKeeps ==
  ASSUME ScInv, SkipSpace, program' = program PROVE ScInv'
<1>1. /\ at = "scan" /\ lookahead \in Spaces /\ rest' = Tail(rest)
      /\ text' = text /\ ds' = ds /\ tokens' = tokens /\ at' = at /\ program' = program
  BY DEF SkipSpace, consume
<1>2. rest # << >> /\ Head(rest) \in Spaces
  BY <1>1, Typed
<1>3. Scanning("scan", program, text, tokens, ds, rest)
  BY <1>1 DEF ScInv
<1>4. Scanning("scan", program, text, tokens, ds, Tail(rest))
  BY ONLY <1>2, <1>3, Skips
<1> QED
  BY ONLY <1>1, <1>4 DEF ScInv

LEMMA AtEOFKeeps ==
  ASSUME ScInv, AtEOF, program' = program PROVE ScInv'
<1>1. at = "scan" /\ lookahead = EOF /\ Stops("EOF")
  BY DEF AtEOF
<1>2. ds = << >> /\ rest = << >>
  BY <1>1, Typed
<1>3. at \in Running
  BY <1>1 DEF Running
<1> QED
  BY <1>1, <1>2, <1>3, StopsKeeps

\* Begins is a step that collects.
LEMMA BeginsKeeps ==
  ASSUME ScInv, NEW where \in Running, Begins(where), program' = program, lookahead # EOF,
         Collected(where, program, Append(ds, lookahead))
  PROVE  ScInv'
<1>1. /\ at = "scan" /\ ds' = << lookahead >> /\ rest' = Tail(rest) /\ at' = where
      /\ UNCHANGED <<text, tokens, program>>
  BY DEF Begins, consume
<1>2. ds' = Append(ds, lookahead) /\ at \in Running
  BY <1>1, Consumed DEF Running
<1> QED
  BY <1>1, <1>2, CollectsKeeps

LEMMA BeginWordKeeps ==
  ASSUME ScInv, BeginWord, program' = program PROVE ScInv'
<1>1. lookahead \in BeginsWord /\ Begins("word") /\ at = "scan"
  BY DEF BeginWord, Begins
<1>2. lookahead \in InWord /\ lookahead # EOF
  BY <1>1, Typed DEF InWord
<1>3. /\ Append(ds, lookahead) \in Seq(Characters)
      /\ Len(Append(ds, lookahead)) = 1 /\ Append(ds, lookahead)[1] = lookahead
  BY <1>1, <1>2, Consumed
<1>4. \A k \in 1 .. 1 : k = 1
  OBVIOUS
<1>5. IsWord(Append(ds, lookahead))
  BY ONLY <1>1, <1>2, <1>3, <1>4 DEF IsWord
<1>6. Collected("word", program, Append(ds, lookahead))
  BY ONLY <1>3, <1>5 DEF Collected
<1>7. "word" \in Running
  BY DEF Running
<1> QED
  BY ONLY ScInv, program' = program, <1>1, <1>2, <1>6, <1>7, BeginsKeeps

\* A word and one character more of a word are a word.
LEMMA WordGrows ==
  ASSUME NEW d, IsWord(d), NEW c, c \in InWord, NEW e \in Seq(Characters), Len(e) = Len(d) + 1,
         e[Len(d) + 1] = c, \A k \in 1 .. Len(d) : e[k] = d[k]
  PROVE  IsWord(e)
<1>1. d \in Seq(Characters) /\ Len(d) > 0 /\ d[1] \in BeginsWord
      /\ \A k \in 1 .. Len(d) : d[k] \in InWord
  BY DEF IsWord
<1>2. Len(d) \in Nat
  BY ONLY <1>1, LenProperties
<1>3. 1 \in 1 .. Len(d) /\ Len(e) > 0 /\ \A k \in 1 .. Len(e) : k \in 1 .. Len(d) \/ k = Len(d) + 1
  BY ONLY <1>1, <1>2, Len(e) = Len(d) + 1
<1> QED
  BY ONLY <1>1, <1>3, c \in InWord, e \in Seq(Characters), e[Len(d) + 1] = c,
          \A k \in 1 .. Len(d) : e[k] = d[k] DEF IsWord

LEMMA MoreWordKeeps ==
  ASSUME ScInv, program' = program,
         (program = "C" /\ MoreWord) \/ (program = "Swift" /\ MoreName)
  PROVE  ScInv'
<1>1. at = "word" /\ Collects /\ lookahead # EOF
  BY Typed DEF MoreWord, MoreName
<1>2. /\ Len(ds) > 0 /\ (IsWord(ds) \/ (program = "Swift" /\ ds[1] = Underscore))
      /\ Len(ds) \in Nat
  BY <1>1, Typed DEF Collected
<1>3. /\ Append(ds, lookahead) \in Seq(Characters)
      /\ Len(Append(ds, lookahead)) = Len(ds) + 1 /\ Append(ds, lookahead)[Len(ds) + 1] = lookahead
      /\ \A k \in 1 .. Len(ds) : Append(ds, lookahead)[k] = ds[k]
  BY <1>1, Consumed
<1>4. Len(Append(ds, lookahead)) > 0 /\ 1 \in 1 .. Len(ds)
  BY ONLY <1>2, <1>3
<1>5. ASSUME program = "Swift" /\ ds[1] = Underscore
      PROVE  Collected("word", program, Append(ds, lookahead))
  <2>1. Append(ds, lookahead)[1] = Underscore
    BY ONLY <1>3, <1>4, <1>5
  <2> QED
    BY ONLY <1>4, <1>5, <2>1 DEF Collected
<1>6. ASSUME IsWord(ds), ~(program = "Swift" /\ ds[1] = Underscore)
      PROVE  Collected("word", program, Append(ds, lookahead))
  <2>1. lookahead \in InWord
    BY <1>6, Typed DEF MoreWord, MoreName, InName, InWord, BeginsWord
  <2>2. IsWord(Append(ds, lookahead))
    BY ONLY <1>3, <1>6, <2>1, WordGrows
  <2> QED
    BY ONLY <1>4, <2>2 DEF Collected
<1>7. Collected("word", program, Append(ds, lookahead))
  BY ONLY <1>2, <1>5, <1>6
<1>8. /\ at \in Running /\ at' \in Running /\ at' = "word" /\ ds' = Append(ds, lookahead)
      /\ rest' = Tail(rest) /\ UNCHANGED <<text, tokens, program>>
  BY <1>1 DEF Collects, consume, Running
<1> QED
  BY <1>1, <1>7, <1>8, CollectsKeeps

\* If the rest is without a character, it is not what is read next.
LEMMA AheadWithout ==
  ASSUME NEW r \in Seq(Characters), NEW c, Without(r, c), c # EOF
  PROVE  Ahead(r) # c
<1>1. CASE r = << >>
  BY <1>1 DEF Ahead
<1>2. CASE r # << >>
  <2>1. Len(r) > 0 /\ Len(r) \in Nat /\ Ahead(r) = r[1]
    BY <1>2, ReadAhead
  <2>2. 1 \in 1 .. Len(r)
    BY ONLY <2>1
  <2> QED
    BY ONLY <2>1, <2>2, Without(r, c) DEF Without
<1> QED
  BY <1>1, <1>2

LEMMA EndWordKeeps ==
  ASSUME ScInv, program' = program,
         (program = "C" /\ EndWord) \/ (program = "Swift" /\ EndName)
  PROVE  ScInv'
<1>1. at = "word" /\ Returns(WordToken(ds)) /\ rest' = rest
  BY DEF EndWord, EndName
<1>2. /\ Len(ds) > 0 /\ (IsWord(ds) \/ (program = "Swift" /\ ds[1] = Underscore))
      /\ rest \in Seq(Characters) /\ lookahead = Ahead(rest) /\ EOF \notin InWord
  BY <1>1, Typed DEF Collected
<1>3. IsWord(ds)
  BY <1>2 DEF EndWord, EndName, InName
<1>4. ASSUME Without(rest, LeftOut(program)) PROVE Ahead(rest) \notin InWord
  <2>1. CASE program = "C" /\ EndWord
    BY <2>1, <1>2 DEF EndWord
  <2>2. CASE program = "Swift" /\ EndName
    <3>1. LeftOut(program) = Underscore
      BY <2>2 DEF LeftOut
    <3>2. Underscore # EOF
      BY ONLY <1>2 DEF InWord, BeginsWord
    <3>3. Ahead(rest) # Underscore
      BY ONLY <1>2, <1>4, <3>1, <3>2, AheadWithout
    <3>4. lookahead \notin Letters \union Digits
      BY <2>2 DEF EndName, InName
    <3> QED
      BY ONLY <1>2, <3>3, <3>4 DEF InWord, BeginsWord
  <2> QED
    BY <2>1, <2>2
<1>5. Without(ds, LeftOut(program)) /\ Without(rest, LeftOut(program)) =>
        LongestMatch[ds \o rest] = << WordToken(ds) >> \o LongestMatch[rest]
  BY ONLY <1>2, <1>3, <1>4, WordEnds
<1>6. GoodToken(WordToken(ds))
  BY ONLY <1>3, WordGood
<1>7. at \in Running
  BY ONLY <1>1 DEF Running
<1>8. PICK r2 : r2 = rest'
  OBVIOUS
<1>9. PICK t : t = WordToken(ds)
  OBVIOUS
<1>10. /\ Returns(t) /\ GoodToken(t) /\ (rest' = rest \/ (rest # << >> /\ rest' = Tail(rest)))
       /\ r2 = rest'
       /\ (Without(ds, LeftOut(program)) /\ Without(rest, LeftOut(program)) =>
             LongestMatch[ds \o rest] = << t >> \o LongestMatch[r2])
  BY <1>1, <1>5, <1>6, <1>8, <1>9
<1> QED
  BY ONLY <1>7, <1>10, ScInv, program' = program, ReturnsKeeps

LEMMA NameRunsOutKeeps ==
  ASSUME ScInv, program' = program, program = "Swift", NameRunsOut
  PROVE  ScInv'
<1>1. at = "word" /\ InName /\ lookahead = EOF /\ Stops("refused")
  BY DEF NameRunsOut
<1>2. /\ Len(ds) > 0 /\ Len(ds) \in Nat /\ EOF \notin InWord
  BY <1>1, Typed DEF Collected
<1>3. ds[1] = Underscore
  BY <1>1, <1>2 DEF InName, InWord, BeginsWord
<1>4. 1 \in 1 .. Len(ds)
  BY ONLY <1>2
<1>5. ~Without(ds, LeftOut(program))
  BY <1>3, <1>4 DEF Without, LeftOut
<1>6. at \in Running /\ "refused" \in {"EOF", "refused", "trapped"}
  BY <1>1 DEF Running
<1> QED
  BY ONLY <1>1, <1>5, <1>6, ScInv, program' = program, StopsKeeps

LEMMA BeginNumberKeeps ==
  ASSUME ScInv, BeginNumber, program' = program PROVE ScInv'
<1>1. lookahead \in Digits /\ Begins("number") /\ at = "scan"
  BY DEF BeginNumber, Begins
<1>2. lookahead # EOF
  BY <1>1, Typed DEF InWord
<1>3. /\ Len(Append(ds, lookahead)) = 1 /\ Append(ds, lookahead)[1] = lookahead
  BY <1>1, <1>2, Consumed
<1>4. \A k \in 1 .. 1 : k = 1
  OBVIOUS
<1>5. IsNumber(Append(ds, lookahead))
  BY ONLY <1>1, <1>3, <1>4 DEF IsNumber
<1>6. Collected("number", program, Append(ds, lookahead))
  BY ONLY <1>5 DEF Collected
<1>7. "number" \in Running
  BY DEF Running
<1> QED
  BY ONLY ScInv, program' = program, <1>1, <1>2, <1>6, <1>7, BeginsKeeps

LEMMA MoreNumberKeeps ==
  ASSUME ScInv, MoreNumber, program' = program PROVE ScInv'
<1>1. at = "number" /\ Collects /\ lookahead \in Digits
  BY DEF MoreNumber
<1>2. lookahead # EOF
  BY <1>1, Typed DEF InWord
<1>3. IsNumber(ds) /\ Len(ds) \in Nat
  BY <1>1, Typed DEF Collected
<1>4. /\ Len(Append(ds, lookahead)) = Len(ds) + 1 /\ Append(ds, lookahead)[Len(ds) + 1] = lookahead
      /\ \A k \in 1 .. Len(ds) : Append(ds, lookahead)[k] = ds[k]
  BY <1>2, Consumed
<1>5. \A k \in 1 .. Len(ds) + 1 : k \in 1 .. Len(ds) \/ k = Len(ds) + 1
  BY ONLY <1>3
<1>6. Len(ds) + 1 > 0
  BY ONLY <1>3
<1>7. IsNumber(Append(ds, lookahead))
  BY ONLY <1>1, <1>3, <1>4, <1>5, <1>6 DEF IsNumber
<1>8. Collected("number", program, Append(ds, lookahead))
  BY ONLY <1>7 DEF Collected
<1>9. /\ at \in Running /\ at' \in Running /\ at' = "number" /\ ds' = Append(ds, lookahead)
      /\ rest' = Tail(rest) /\ UNCHANGED <<text, tokens, program>>
  BY <1>1 DEF Collects, consume, Running
<1> QED
  BY <1>2, <1>8, <1>9, CollectsKeeps

LEMMA EndNumberKeeps ==
  ASSUME ScInv, program' = program,
         (program = "C" /\ EndNumber) \/ (program = "Swift" /\ EndInteger)
  PROVE  ScInv'
<1>1. at = "number" /\ lookahead \notin Digits
  BY DEF EndNumber, EndInteger
<1>2. /\ IsNumber(ds) /\ ds \in Seq(Characters) /\ rest \in Seq(Characters) /\ lookahead = Ahead(rest)
  BY <1>1, Typed DEF Collected
<1>3. Number(ds) \in Nat
  BY <1>2, NumberType
<1>4. at \in Running
  BY <1>1 DEF Running
<1>5. CASE rest' = rest /\ Returns(Integer(atol(ds)))
  <2>1. LongestMatch[ds \o rest] = << Integer(atol(ds)) >> \o LongestMatch[rest]
    BY ONLY <1>1, <1>2, NumberEnds
  <2>2. GoodToken(Integer(atol(ds)))
    BY ONLY <1>3, IntegerGood DEF atol
  <2>3. PICK t : t = Integer(atol(ds))
    OBVIOUS
  <2>4. PICK r2 : r2 = rest'
    OBVIOUS
  <2>5. /\ Returns(t) /\ GoodToken(t) /\ (rest' = rest \/ (rest # << >> /\ rest' = Tail(rest)))
        /\ r2 = rest'
        /\ (Without(ds, LeftOut(program)) /\ Without(rest, LeftOut(program)) =>
              LongestMatch[ds \o rest] = << t >> \o LongestMatch[r2])
    BY <1>5, <2>1, <2>2, <2>3, <2>4
  <2> QED
    BY ONLY <1>4, <2>5, ScInv, program' = program, ReturnsKeeps
<1>6. CASE program = "Swift" /\ TooLarge /\ Stops("refused")
  <2>1. Number(ds) \notin Word
    BY <1>6 DEF TooLarge
  <2>2. "refused" \in {"EOF", "refused", "trapped"}
    OBVIOUS
  <2> QED
    BY ONLY <1>2, <1>4, <1>6, <2>1, <2>2, ScInv, program' = program, StopsKeeps
<1>7. ~TooLarge => Integer(Number(ds)) = Integer(atol(ds))
  BY <1>3, IntegerGood DEF TooLarge, atol
<1> QED
  BY <1>5, <1>6, <1>7 DEF EndNumber, EndInteger

\* An operator that is not the beginning of a longer one ends with the
\* character read.
LEMMA SingleLetterKeeps ==
  ASSUME ScInv, program' = program,
         (program = "C" /\ SingleLetter) \/ (program = "Swift" /\ SingleOperator)
  PROVE  ScInv'
<1>1. /\ at = "scan" /\ IsSingle(lookahead) /\ Returns(Tok(SingleType(lookahead)))
      /\ rest' = Tail(rest)
  BY DEF SingleOperator, SingleLetter, consume
<1>2. PICK k \in 1 .. 8 : lookahead = single_letter_operators[k]
  BY <1>1, TableLengths DEF IsSingle
<1>3. lookahead \in Signs /\ lookahead # EOF
  <2>1. lookahead \in Signs
    BY ONLY <1>2, k \in 1 .. 8, SignsApart
  <2> QED
    BY <2>1, Typed
<1>4. /\ rest # << >> /\ ds \in Seq(Characters) /\ rest \in Seq(Characters) /\ lookahead = Ahead(rest)
      /\ EOF \notin Signs
  BY <1>3, Typed
<1>5. /\ Append(ds, lookahead) \in Seq(Characters) /\ Append(ds, lookahead) = << lookahead >>
      /\ Len(Append(ds, lookahead)) = 1 /\ Append(ds, lookahead)[1] = lookahead
      /\ Append(ds, lookahead) \o Tail(rest) = ds \o rest /\ Tail(rest) \in Seq(Characters)
  BY <1>1, <1>3, Consumed
<1>6. PICK t : t = Tok(SingleType(lookahead))
  OBVIOUS
<1>7. ASSUME Without(rest, LeftOut(program)) PROVE k \in 1 .. 7
  <2>1. lookahead # "NUL"
    <3>1. CASE program = "C"
      <4>1. LeftOut(program) = "NUL" /\ "NUL" # EOF
        BY <3>1 DEF LeftOut, EOF
      <4> QED
        BY ONLY <1>4, <1>7, <4>1, AheadWithout
    <3>2. CASE program = "Swift" /\ SingleOperator
      BY <3>2 DEF SingleOperator, IsSingleOperator
    <3> QED
      BY <3>1, <3>2
  <2>2. single_letter_operators[8] = "NUL"
    BY DEF single_letter_operators
  <2> QED
    BY ONLY <1>2, <2>1, <2>2, k \in 1 .. 8
<1>8. ASSUME k \in 1 .. 7 PROVE LongestMatch[ds \o rest] = << t >> \o LongestMatch[Tail(rest)]
  <2> DEFINE w == Append(ds, lookahead)
  <2>1. SingleType(single_letter_operators[k]) = token_type_t[12 + k]
    BY ONLY k \in 1 .. 8, SingleTypes
  <2>2. Spelled(<< single_letter_operators[k] >>) = { Tok(token_type_t[12 + k]) }
    BY ONLY <1>8, SpelledSingle
  <2>3. Spelled(w) = { t }
    BY ONLY <1>2, <1>5, <1>6, <2>1, <2>2
  <2>4. \A j \in 1 .. 8 : single_letter_operators[j] \notin {"&", "|", "="}
    BY DEF single_letter_operators
  <2>5. w[1] \in Signs /\ w[1] \notin {"&", "|", "="} /\ Len(w) > 0
    BY ONLY <1>2, <1>3, <1>5, <2>4, k \in 1 .. 8
  <2> HIDE DEF w
  <2>6. w \in Seq(Characters) /\ Tail(rest) \in Seq(Characters) /\ w \o Tail(rest) = ds \o rest
    BY ONLY <1>5 DEF w
  <2>7. PICK r : r = Tail(rest)
    OBVIOUS
  <2>8. w \in Seq(Characters) /\ r \in Seq(Characters)
    BY ONLY <2>6, <2>7
  <2>9. LongestMatch[w \o r] = << t >> \o LongestMatch[r]
    BY ONLY <2>3, <2>5, <2>8, OperatorEnds
  <2> QED
    BY ONLY <2>6, <2>7, <2>9
<1>9. GoodToken(t)
  BY ONLY <1>2, <1>6, k \in 1 .. 8, OperatorsGood
<1>10. PICK r2 : r2 = rest'
  OBVIOUS
<1>11. /\ Returns(t) /\ (rest' = rest \/ (rest # << >> /\ rest' = Tail(rest))) /\ r2 = rest'
       /\ (Without(ds, LeftOut(program)) /\ Without(rest, LeftOut(program)) =>
             LongestMatch[ds \o rest] = << t >> \o LongestMatch[r2])
  BY <1>1, <1>4, <1>6, <1>7, <1>8, <1>10
<1>12. at \in Running
  BY <1>1 DEF Running
<1> QED
  BY ONLY <1>9, <1>11, <1>12, ScInv, program' = program, ReturnsKeeps

LEMMA BeginPairKeeps ==
  ASSUME ScInv, BeginPair, program' = program PROVE ScInv'
<1>1. lookahead \in {"&", "|"} /\ Begins("pair") /\ at = "scan"
  BY DEF BeginPair, Begins
<1>2. lookahead # EOF
  BY <1>1 DEF EOF
<1>3. /\ Len(Append(ds, lookahead)) = 1 /\ Append(ds, lookahead)[1] = lookahead
  BY <1>1, <1>2, Consumed
<1>4. Collected("pair", program, Append(ds, lookahead))
  BY ONLY <1>1, <1>3 DEF Collected
<1>5. "pair" \in Running
  BY DEF Running
<1> QED
  BY ONLY ScInv, program' = program, <1>1, <1>2, <1>4, <1>5, BeginsKeeps

LEMMA BeginAssignKeeps ==
  ASSUME ScInv, BeginAssign, program' = program PROVE ScInv'
<1>1. lookahead = "=" /\ Begins("assign") /\ at = "scan"
  BY DEF BeginAssign, Begins
<1>2. lookahead # EOF
  BY <1>1 DEF EOF
<1>3. /\ Len(Append(ds, lookahead)) = 1 /\ Append(ds, lookahead)[1] = lookahead
  BY <1>1, <1>2, Consumed
<1>4. Collected("assign", program, Append(ds, lookahead))
  BY ONLY <1>1, <1>3 DEF Collected
<1>5. "assign" \in Running
  BY DEF Running
<1> QED
  BY ONLY ScInv, program' = program, <1>1, <1>2, <1>4, <1>5, BeginsKeeps

\* The second character of &&, || or == is read, and t is returned.
LEMMA DoubleKeeps ==
  ASSUME ScInv, program' = program, at \in Running, Len(ds) = 1, lookahead = ds[1], lookahead # EOF,
         rest' = Tail(rest), NEW t, Returns(t), GoodToken(t),
         ds[1] \in Signs, Spelled(<< ds[1], ds[1] >>) = { t }
  PROVE  ScInv'
<1>1. PICK w : w = Append(ds, lookahead)
  OBVIOUS
<1>2. PICK r : r = Tail(rest)
  OBVIOUS
<1>3. /\ rest # << >> /\ w \in Seq(Characters) /\ r \in Seq(Characters)
      /\ Len(w) = Len(ds) + 1 /\ w[Len(ds) + 1] = lookahead
      /\ \A k \in 1 .. Len(ds) : w[k] = ds[k]
      /\ w \o r = ds \o rest
  BY <1>1, <1>2, Consumed
<1>4. Len(w) = 2 /\ w[1] = ds[1] /\ w[2] = ds[1]
  <2>1. Len(ds) + 1 = 2 /\ 1 \in 1 .. Len(ds)
    BY ONLY Len(ds) = 1
  <2> QED
    BY ONLY <1>3, <2>1, lookahead = ds[1]
<1>5. w = << ds[1], ds[1] >>
  <2>1. PICK c : c = ds[1]
    OBVIOUS
  <2>2. \A k \in 1 .. 2 : k = 1 \/ k = 2
    OBVIOUS
  <2>3. w = [k \in 1 .. 2 |-> c]
    <3>1. w \in [1 .. 2 -> Characters]
      BY ONLY <1>3, <1>4, LenProperties
    <3>2. \A k \in 1 .. 2 : w[k] = c
      BY ONLY <1>4, <2>1, <2>2
    <3> QED
      BY ONLY <3>1, <3>2
  <2>4. << c, c >> = [k \in 1 .. 2 |-> c]
    OBVIOUS
  <2> QED
    BY ONLY <2>1, <2>3, <2>4
<1>6. LongestMatch[w \o r] = << t >> \o LongestMatch[r]
  <2>1. Spelled(w) = { t } /\ w[1] \in Signs /\ Len(w) > 0 /\ Len(w) # 1
    BY ONLY <1>4, <1>5, Spelled(<< ds[1], ds[1] >>) = { t }, ds[1] \in Signs
  <2> QED
    BY ONLY <1>3, <2>1, OperatorEnds
<1>7. /\ r = rest' /\ (rest' = rest \/ (rest # << >> /\ rest' = Tail(rest)))
      /\ (Without(ds, LeftOut(program)) /\ Without(rest, LeftOut(program)) =>
             LongestMatch[ds \o rest] = << t >> \o LongestMatch[r])
  BY <1>2, <1>3, <1>6
<1> QED
  BY ONLY <1>7, ScInv, program' = program, at \in Running, Returns(t), GoodToken(t), ReturnsKeeps

LEMMA EndPairKeeps ==
  ASSUME ScInv, EndPair, program' = program PROVE ScInv'
<1>1. /\ at = "pair" /\ lookahead = ds[1] /\ rest' = Tail(rest)
      /\ Returns(Tok(IF ds[1] = "&" THEN "&&" ELSE "||"))
  BY DEF EndPair, consume
<1>2. Len(ds) = 1 /\ ds[1] \in {"&", "|"}
  BY <1>1, Typed DEF Collected
<1>3. lookahead # EOF /\ ds[1] \in Signs /\ at \in Running
  BY <1>1, <1>2 DEF EOF, Signs, Running
<1>4. PICK t : t = Tok(IF ds[1] = "&" THEN "&&" ELSE "||")
  OBVIOUS
<1>5. Spelled(<< ds[1], ds[1] >>) = { t } /\ GoodToken(t)
  <2>1. CASE ds[1] = "&"
    BY ONLY <1>4, <2>1, SpelledOthers, OperatorsGood
  <2>2. CASE ds[1] = "|"
    BY ONLY <1>4, <2>2, SpelledOthers, OperatorsGood
  <2> QED
    BY <1>2, <2>1, <2>2
<1>6. Returns(t)
  BY <1>1, <1>4
<1> QED
  BY ONLY <1>1, <1>2, <1>3, <1>5, <1>6, ScInv, program' = program, DoubleKeeps

LEMMA EndAssignKeeps ==
  ASSUME ScInv, EndAssign, program' = program PROVE ScInv'
<1>1. at = "assign"
  BY DEF EndAssign
<1>2. Len(ds) = 1 /\ ds[1] = "="
  BY <1>1, Typed DEF Collected
<1>3. ds[1] \in Signs /\ at \in Running /\ EOF # "="
  BY <1>1, <1>2 DEF EOF, Signs, Running
<1>4. CASE lookahead = "=" /\ Returns(Tok("==")) /\ consume
  <2>1. Spelled(<< ds[1], ds[1] >>) = { Tok("==") } /\ GoodToken(Tok("=="))
    BY ONLY <1>2, SpelledOthers, OperatorsGood
  <2>2. lookahead = ds[1] /\ lookahead # EOF /\ rest' = Tail(rest) /\ Returns(Tok("=="))
    BY <1>2, <1>3, <1>4 DEF consume
  <2> QED
    BY ONLY <1>2, <1>3, <2>1, <2>2, ScInv, program' = program, DoubleKeeps
<1>5. CASE lookahead # "=" /\ Returns(Tok("=")) /\ rest' = rest
  <2>1. ds \in Seq(Characters) /\ rest \in Seq(Characters) /\ lookahead = Ahead(rest)
    BY Typed
  <2>2. ds = <<"=">>
    <3>1. ds \in [1 .. 1 -> Characters]
      BY ONLY <1>2, <2>1, LenProperties
    <3>2. \A k \in 1 .. 1 : k = 1
      OBVIOUS
    <3>3. ds = [k \in 1 .. 1 |-> "="]
      BY ONLY <1>2, <3>1, <3>2
    <3>4. <<"=">> = [k \in 1 .. 1 |-> "="]
      OBVIOUS
    <3> QED
      BY ONLY <3>3, <3>4
  <2>3. PICK t : t = Tok("=")
    OBVIOUS
  <2>4. Spelled(ds) = { t } /\ GoodToken(t)
    BY ONLY <2>2, <2>3, SpelledOthers, OperatorsGood
  <2>5. Len(ds) > 0 /\ Ahead(rest) # ds[1]
    BY ONLY <1>2, <1>5, <2>1
  <2>6. LongestMatch[ds \o rest] = << t >> \o LongestMatch[rest]
    BY ONLY <1>3, <2>1, <2>4, <2>5, OperatorEnds
  <2>7. PICK r2 : r2 = rest'
    OBVIOUS
  <2>8. /\ Returns(t) /\ (rest' = rest \/ (rest # << >> /\ rest' = Tail(rest))) /\ r2 = rest'
        /\ (Without(ds, LeftOut(program)) /\ Without(rest, LeftOut(program)) =>
              LongestMatch[ds \o rest] = << t >> \o LongestMatch[r2])
    BY <1>5, <2>3, <2>6, <2>7
  <2> QED
    BY ONLY <1>3, <2>4, <2>8, ScInv, program' = program, ReturnsKeeps
<1> QED
  BY <1>4, <1>5 DEF EndAssign

\* d and r begin with a character that begins no token, or with & or | and
\* not the same again.
LEMMA NothingSpelled ==
  ASSUME NEW d \in Seq(Characters), NEW r \in Seq(Characters), NEW c,
         \/ d = << >> /\ r # << >> /\ c = Ahead(r)
         \/ Len(d) = 1 /\ c = d[1] /\ Ahead(r) # c,
         c \notin InWord, c \notin Spaces, c # "=",
         c \in {"&", "|"} => Len(d) = 1,
         \A k \in 1 .. 7 : c # single_letter_operators[k]
  PROVE  LongestMatch[d \o r] = << Tok("error") >>
<1> DEFINE s == d \o r
<1>1. /\ Len(d) \in Nat /\ Len(r) \in Nat /\ s \in Seq(Characters) /\ Len(s) = Len(d) + Len(r)
      /\ Len(<< >>) = 0
  BY LenProperties, ConcatProperties
<1>2. r # << >> => Len(r) > 0 /\ Ahead(r) = r[1]
  BY ReadAhead
<1>3. Len(d) + Len(r) > 0
  <2>1. CASE d = << >> /\ r # << >>
    <3>1. Len(d) = 0
      BY ONLY <1>1, <2>1
    <3>2. Len(r) > 0
      BY ONLY <1>2, <2>1
    <3> QED
      BY ONLY <1>1, <3>1, <3>2
  <2>2. CASE Len(d) = 1
    BY ONLY <1>1, <2>2
  <2> QED
    BY ONLY <2>1, <2>2, \/ d = << >> /\ r # << >> /\ c = Ahead(r)
                        \/ Len(d) = 1 /\ c = d[1] /\ Ahead(r) # c
<1>4. ASSUME NEW n \in 1 .. Len(s) PROVE Spelled(SubSeq(s, 1, n)) = {} /\ s[1] = c
  <2>1. PICK p : p = SubSeq(d \o r, 1, n)
    OBVIOUS
  <2>2. n \in 1 .. Len(d) + Len(r)
    BY ONLY <1>1, n \in 1 .. Len(s)
  <2>3. /\ p \in Seq(Characters) /\ Len(p) = n
        /\ \A i \in 1 .. n : p[i] = IF i <= Len(d) THEN d[i] ELSE r[i - Len(d)]
    BY ONLY <2>1, <2>2, d \in Seq(Characters), r \in Seq(Characters), PrefixIs
  <2>4. 1 \in 1 .. n /\ n > 0 /\ (n = 2 => 2 \in 1 .. n) /\ 1 \in 1 .. Len(d) + Len(r)
    BY ONLY <1>1, <1>3, <2>2
  <2>5. p[1] = c /\ s[1] = c /\ (Len(d) = 1 /\ n = 2 => p[2] = Ahead(r) /\ p[2] # c)
    <3>0. s[1] = IF 1 <= Len(d) THEN d[1] ELSE r[1 - Len(d)]
      BY ONLY <2>4, d \in Seq(Characters), r \in Seq(Characters), ConcatProperties
    <3>1. CASE d = << >> /\ r # << >> /\ c = Ahead(r)
      <4>1. Len(d) = 0 /\ 1 - Len(d) = 1 /\ ~(1 <= Len(d))
        BY ONLY <1>1, <3>1
      <4> QED
        BY ONLY <1>2, <2>3, <2>4, <3>0, <3>1, <4>1
    <3>2. CASE Len(d) = 1 /\ c = d[1] /\ Ahead(r) # c
      <4>1. 1 <= Len(d) /\ ~(2 <= Len(d)) /\ 2 - Len(d) = 1
        BY ONLY <3>2
      <4>2. p[1] = c /\ s[1] = c
        BY ONLY <2>3, <2>4, <3>0, <3>2, <4>1
      <4>3. n = 2 => Len(r) # 0
        BY ONLY <1>1, <2>2, <3>2
      <4>4. n = 2 => r # << >>
        BY ONLY <1>1, <4>3
      <4>5. n = 2 => p[2] = r[1]
        BY ONLY <2>3, <2>4, <4>1
      <4> QED
        BY ONLY <1>2, <3>2, <4>2, <4>4, <4>5
    <3> QED
      BY ONLY <3>1, <3>2, \/ d = << >> /\ r # << >> /\ c = Ahead(r)
                          \/ Len(d) = 1 /\ c = d[1] /\ Ahead(r) # c
  <2>6. ~IsWord(p) /\ ~IsNumber(p)
    BY ONLY <2>3, <2>4, <2>5, c \notin InWord, ByFirst
  <2>7. ~ShortOperator(p)
    BY ONLY <2>3, <2>5, c # "=", c \in {"&", "|"} => Len(d) = 1,
            \A k \in 1 .. 7 : c # single_letter_operators[k] DEF ShortOperator
  <2>8. Len(p) > 0
    BY ONLY <2>3, <2>4
  <2>9. Spelled(p) = {}
    BY ONLY <2>3, <2>6, <2>7, <2>8, SpelledOnly
  <2> QED
    BY ONLY <2>1, <2>5, <2>9
<1> HIDE DEF s
<1>5. Ends(s) = {}
  BY ONLY <1>4 DEF Ends
<1>6. 1 \in 1 .. Len(s) /\ Len(s) # 0
  BY ONLY <1>1, <1>3
<1>7. s # << >>
  BY ONLY <1>1, <1>6
<1>8. Head(s) = c
  <2>1. Head(s) = s[1]
    BY ONLY <1>1, <1>7, ReadAhead
  <2> QED
    BY ONLY <1>4, <1>6, <2>1
<1>9. LongestMatch[s] = << Tok("error") >>
  BY ONLY <1>1, <1>5, <1>7, <1>8, c \notin Spaces, NoTokenAhead
<1> QED
  BY ONLY <1>9 DEF s

LEMMA InvalidPairKeeps ==
  ASSUME ScInv, InvalidPair, program' = program PROVE ScInv'
<1>1. at = "pair" /\ lookahead # ds[1] /\ Stops("refused")
  BY DEF InvalidPair
<1>2. /\ Len(ds) = 1 /\ ds[1] \in {"&", "|"} /\ lookahead = Ahead(rest)
      /\ ds \in Seq(Characters) /\ rest \in Seq(Characters)
  BY <1>1, Typed DEF Collected
<1>3. PICK c : c = ds[1]
  OBVIOUS
<1>4. /\ c # "=" /\ c \in Signs /\ \A k \in 1 .. 7 : c # single_letter_operators[k]
  BY <1>2, <1>3 DEF Signs, single_letter_operators
<1>5. c \notin InWord /\ c \notin Spaces
  BY ONLY <1>4, SignsApart
<1>6. LongestMatch[ds \o rest] = << Tok("error") >>
  BY ONLY <1>1, <1>2, <1>3, <1>4, <1>5, NothingSpelled
<1>7. at \in Running /\ "refused" \in {"EOF", "refused", "trapped"}
  BY <1>1 DEF Running
<1> QED
  BY ONLY <1>1, <1>6, <1>7, ScInv, program' = program, StopsKeeps

LEMMA IllegalKeeps ==
  ASSUME ScInv, program' = program,
         (program = "C" /\ InvalidCharacter) \/ (program = "Swift" /\ Illegal)
  PROVE  ScInv'
<1>1. at = "scan" /\ Stops("refused") /\ (lookahead = "NUL" \/ ~Valid(lookahead))
  BY DEF InvalidCharacter, Illegal
<1>2. /\ ds = << >> /\ ds \in Seq(Characters) /\ rest \in Seq(Characters) /\ lookahead = Ahead(rest)
      /\ lookahead = EOF <=> rest = << >>
  BY <1>1, Typed
<1>3. PICK c : c = lookahead
  OBVIOUS
<1>4. rest # << >> /\ c = Ahead(rest)
  <2>1. lookahead # EOF
    BY <1>1 DEF Valid, EOF
  <2> QED
    BY ONLY <1>2, <1>3, <2>1
<1>5. /\ c \notin InWord /\ c \notin Spaces /\ c # "=" /\ c \notin {"&", "|"}
      /\ \A k \in 1 .. 7 : c # single_letter_operators[k]
  <2>1. CASE c = "NUL"
    <3>1. "NUL" \in Signs
      BY DEF Signs
    <3>2. c \notin InWord /\ c \notin Spaces
      BY ONLY <2>1, <3>1, SignsApart
    <3> QED
      BY ONLY <2>1, <3>2 DEF single_letter_operators
  <2>2. CASE ~Valid(c)
    BY ONLY <2>2, TableLengths DEF Valid, IsSingle
  <2> QED
    BY ONLY <1>1, <1>3, <2>1, <2>2
<1>6. LongestMatch[ds \o rest] = << Tok("error") >>
  BY ONLY <1>2, <1>4, <1>5, NothingSpelled
<1>7. at \in Running /\ "refused" \in {"EOF", "refused", "trapped"}
  BY <1>1 DEF Running
<1> QED
  BY ONLY <1>1, <1>6, <1>7, ScInv, program' = program, StopsKeeps

LEMMA EndIndexReadKeeps ==
  ASSUME ScInv, EndIndexRead, program' = program PROVE ScInv'
<1>1. Len(rest) = 1 /\ Consumes /\ Stops("trapped")
  BY DEF EndIndexRead
<1>2. at \in Running /\ Len(rest) <= 1 /\ "trapped" \in {"EOF", "refused", "trapped"}
  BY <1>1 DEF Running, Consumes
<1> QED
  BY ONLY <1>1, <1>2, ScInv, program' = program, StopsKeeps

-----------------------------------------------------------------------------
(* The theorems.                                                           *)

LEMMA ScInitially == ScannersInit => ScInv
<1> SUFFICES ASSUME ScannersInit PROVE ScInv
  OBVIOUS
<1>1. /\ program \in {"C", "Swift"} /\ text \in Texts /\ rest = text /\ ds = << >> /\ tokens = << >>
      /\ at \in {"scan", "aborted", "trapped"} /\ (at # "scan" => text = << >>)
  BY DEF ScannersInit, Init, SwiftInit
<1>2. text \in Seq(Characters)
  BY <1>1, CharactersAssumption
<1>3. << >> \in Seq(Characters) /\ << >> \o text = text /\ Len(<< >>) = 0
  BY ONLY <1>2, EmptySeq, ConcatEmptySeq
<1>4. IsSeq(<< >>)
  BY ONLY <1>3, SeqIsSeq
<1>5. << >> \o LongestMatch[text] = LongestMatch[text]
  <2>1. LongestMatch[text] \in Seq(ScanTokens)
    BY ONLY <1>2, LongestMatchIs DEF RightAt
  <2> QED
    BY ONLY <2>1, ConcatEmptySeq
<1>6. Collected(at, program, ds)
  BY ONLY <1>1 DEF Collected
<1>7. MatchKept(at, program, text, tokens, ds, rest)
  BY ONLY <1>1, <1>3, <1>5 DEF MatchKept, Running
<1>8. CleanKept(at, program, text, tokens, ds, rest)
  <2>1. Without(<< >>, LeftOut(program))
    BY ONLY <1>3 DEF Without
  <2> QED
    BY ONLY <1>1, <1>7, <2>1 DEF CleanKept
<1>9. \A k \in 1 .. Len(tokens) : GoodToken(tokens[k])
  BY ONLY <1>1, <1>3
<1> QED
  BY ONLY <1>1, <1>2, <1>3, <1>4, <1>6, <1>8, <1>9 DEF ScInv, Scanning, Running

LEMMA ScStep == ScInv /\ [ScannersNext]_<<svars, program>> => ScInv'
<1> SUFFICES ASSUME ScInv, [ScannersNext]_<<svars, program>> PROVE ScInv'
  OBVIOUS
<1>1. CASE UNCHANGED <<svars, program>>
  BY <1>1 DEF ScInv, svars
<1>2. CASE program = "C" /\ Next /\ program' = program
  BY <1>2, SkipSpaceKeeps, AtEOFKeeps, BeginWordKeeps, MoreWordKeeps, EndWordKeeps,
     BeginNumberKeeps, MoreNumberKeeps, EndNumberKeeps, SingleLetterKeeps, BeginPairKeeps,
     EndPairKeeps, InvalidPairKeeps, BeginAssignKeeps, EndAssignKeeps, IllegalKeeps DEF Next
<1>3. CASE program = "Swift" /\ SwiftNext /\ program' = program
  BY <1>3, SkipSpaceKeeps, AtEOFKeeps, BeginWordKeeps, MoreWordKeeps, NameRunsOutKeeps, EndWordKeeps,
     BeginNumberKeeps, MoreNumberKeeps, EndNumberKeeps, SingleLetterKeeps, BeginPairKeeps,
     EndPairKeeps, InvalidPairKeeps, BeginAssignKeeps, EndAssignKeeps, IllegalKeeps,
     EndIndexReadKeeps DEF SwiftNext
<1> QED
  BY <1>1, <1>2, <1>3 DEF ScannersNext

LEMMA ScAlways == ScannersSpec => []ScInv
<1>1. ScannersInit => ScInv
  BY ScInitially
<1>2. ScInv /\ [ScannersNext]_<<svars, program>> => ScInv'
  BY ScStep
<1> QED
  BY <1>1, <1>2, PTL DEF ScannersSpec

\* Whatever the text, what the scanners return are tokens of the language: an
\* identifier is a word and no keyword, an integer fits a machine word and is
\* not negative, and no token is of type EOF (find_keyword, strchr and strtoll
\* in scanner.c; the names, numbers and operators of scanner.swift).
THEOREM TokensAlwaysGood == ScannersSpec => []TypeOK
<1>1. ScInv => TypeOK
  BY DEF ScInv, Scanning, GoodToken, TypeOK
<1> QED
  BY <1>1, ScAlways, PTL

\* For texts of any length, at every moment of the scan, the tokens returned
\* followed by those of what is not yet scanned are the tokens of the text by
\* the rule of the longest match: the one character of lookahead with which
\* scan and tokenize end a token is never lost, read twice or joined wrongly.
THEOREM ScansLongestMatchAlways == ScannersSpec => []ScansLongestMatch
<1>1. ScInv => ScansLongestMatch
  <2> SUFFICES ASSUME ScInv, \A k \in 1 .. Len(text) : text[k] # Excluded PROVE LongestMatchKept
    BY DEF ScansLongestMatch
  <2>1. Without(text, LeftOut(program))
    BY DEF Without, LeftOut, Excluded
  <2>2. MatchKept(at, program, text, tokens, ds, rest)
    BY <2>1 DEF ScInv, Scanning, CleanKept
  <2>3. at \in Running \union {"EOF", "refused", "aborted", "trapped"}
    BY DEF ScInv, Scanning
  <2> QED
    BY ONLY <2>2, <2>3 DEF MatchKept, LongestMatchKept, Running, NoInteger, TooLarge
<1> QED
  BY <1>1, ScAlways, PTL
=============================================================================
