------------------------------- MODULE Scanner -------------------------------
(***************************************************************************)
(* The scanner of scanner.c, one character per step, as scan_main calls it *)
(* until the end of the file; the parser calls it in the same way for each *)
(* of its tokens.                                                          *)
(***************************************************************************)
EXTENDS Words, Tokens

CONSTANTS
  Texts,                     \* the files: sequences of characters
  Letters, Digits, Spaces,   \* isalpha, isdigit, isspace
  DigitValue                 \* the number a digit stands for

VARIABLES
  text,      \* the file
  rest,      \* what is left of it, the lookahead first
  ds,        \* the characters consumed of the token being scanned
  tokens,    \* the tokens scan has returned
  at         \* "scan": in scan, before a token; inside a "word", a "number", a
             \* "pair" (after the first & or |), or "assign" (after a =);
             \* "EOF", "refused" (error_assert) or "aborted" (scan_init)

svars == <<text, rest, ds, tokens, at>>

EOF       == "EOF"
lookahead == IF rest = << >> THEN EOF ELSE Head(rest)
consume   == rest' = Tail(rest)

\* Keywords and their types, and single letters and theirs, go in step; the
\* NUL at the end of the letters is found by strchr as well.
keyword_names ==
  << <<"l","e","t">>, <<"a","n","d">>, <<"i","n">>, <<"i","f">>, <<"t","h","e","n">>,
     <<"e","l","s","e">>, <<"r","e","c","u","r">>, <<"l","o","o","p">>, <<"e","n","d">> >>
single_letter_operators == << "(", ")", "!", "-", "<", "+", "*", "NUL" >>

Underscore == "_"
BeginsWord == Letters \union {Underscore}
InWord     == BeginsWord \union Digits
Characters == UNION { { t[k] : k \in DOMAIN t } : t \in Texts }

\* The classes of characters; EOF is in none, and is no character.
ASSUME CharactersAssumption ==
  /\ Texts \subseteq Seq(Characters)
  /\ EOF \notin Characters \union InWord \union Spaces
  /\ Digits \intersect BeginsWord = {}
  /\ Spaces \intersect InWord = {}
  /\ DigitValue \in [Digits -> Nat]
  /\ \A k \in 1 .. Len(keyword_names) :
       \A j \in 1 .. Len(keyword_names[k]) : keyword_names[k][j] \in Letters
  /\ {"(", ")", "!", "-", "<", "+", "*", "NUL", "&", "|", "="} \intersect (InWord \union Spaces) = {}

find_keyword(name) ==
  IF \E k \in 1 .. Len(keyword_names) : keyword_names[k] = name
  THEN token_type_t[Place("let") - 1 + CHOOSE k \in 1 .. Len(keyword_names) :
                                         keyword_names[k] = name]
  ELSE "EOF"

IsSingle(c) == \E k \in 1 .. Len(single_letter_operators) : single_letter_operators[k] = c
SingleType(c) ==
  token_type_t[Place("(") - 1 + CHOOSE k \in 1 .. Len(single_letter_operators) :
                                  single_letter_operators[k] = c]

WordToken(name) == IF find_keyword(name) = "EOF" THEN Ident(name) ELSE Tok(find_keyword(name))

\* The number that digits spell, and what atol makes of it.
Number(s) ==
  LET value[k \in 0 .. Len(s)] ==
        IF k = 0 THEN 0 ELSE 10 * value[k - 1] + DigitValue[s[k]]
  IN  value[Len(s)]
atol(s) == strtoll(Number(s))

-----------------------------------------------------------------------------
\* scan_init asserts that there is a first character.
Init ==
  /\ text \in Texts
  /\ rest = text
  /\ ds = << >>
  /\ tokens = << >>
  /\ at = IF text = << >> THEN "aborted" ELSE "scan"

Begins(where) == at = "scan" /\ ds' = <<lookahead>> /\ consume /\ at' = where
                   /\ UNCHANGED <<text, tokens>>
Collects      == ds' = Append(ds, lookahead) /\ consume /\ UNCHANGED <<text, tokens, at>>
Returns(t)    == tokens' = Append(tokens, t) /\ ds' = << >> /\ at' = "scan"
                   /\ UNCHANGED text
Stops(where)  == at' = where /\ UNCHANGED <<text, rest, ds, tokens>>

SkipSpace == at = "scan" /\ lookahead \in Spaces /\ consume /\ UNCHANGED <<text, ds, tokens, at>>
AtEOF     == at = "scan" /\ lookahead = EOF /\ Stops("EOF")

BeginWord == lookahead \in BeginsWord /\ Begins("word")
MoreWordPeeks ==                                          \* mutant
  at = "word" /\ lookahead \in InWord /\ UNCHANGED svars
MoreWord  == at = "word" /\ lookahead \in InWord /\ Collects
EndWordConsumes ==                                        \* mutant
  at = "word" /\ lookahead \notin InWord \union {EOF} /\ Returns(WordToken(ds)) /\ consume
EndWord   == at = "word" /\ lookahead \notin InWord /\ Returns(WordToken(ds)) /\ UNCHANGED rest

BeginNumber == lookahead \in Digits /\ Begins("number")
MoreNumber  == at = "number" /\ lookahead \in Digits /\ Collects
EndNumber   == at = "number" /\ lookahead \notin Digits /\ Returns(Integer(atol(ds)))
                 /\ UNCHANGED rest

SingleLetter == at = "scan" /\ IsSingle(lookahead) /\ Returns(Tok(SingleType(lookahead))) /\ consume

\* && and ||: the second character must be the first one again.
BeginPair   == lookahead \in {"&", "|"} /\ Begins("pair")
EndPair     == at = "pair" /\ lookahead = ds[1]
                 /\ Returns(Tok(IF ds[1] = "&" THEN "&&" ELSE "||")) /\ consume
InvalidPair == at = "pair" /\ lookahead # ds[1] /\ Stops("refused")

BeginAssign == lookahead = "=" /\ Begins("assign")
EndAssign ==
  /\ at = "assign"
  /\ \/ lookahead = "=" /\ Returns(Tok("==")) /\ consume
     \/ lookahead # "=" /\ Returns(Tok("=")) /\ UNCHANGED rest

Valid(c) == c \in InWord \union Spaces \union {"&", "|", "=", EOF} \/ IsSingle(c)
InvalidCharacter == at = "scan" /\ ~Valid(lookahead) /\ Stops("refused")

Next ==
  \/ SkipSpace \/ AtEOF
  \/ BeginWord \/ MoreWord \/ EndWord
  \/ BeginNumber \/ MoreNumber \/ EndNumber
  \/ SingleLetter \/ BeginPair \/ EndPair \/ InvalidPair \/ BeginAssign \/ EndAssign
  \/ InvalidCharacter

Spec == Init /\ [][Next]_svars /\ WF_svars(Next)

-----------------------------------------------------------------------------
(* What the parser may count on: an identifier is a word and no keyword,   *)
(* an integer is one of the machine's, and no token is of type EOF, at     *)
(* which the callers of scan would stop.                                   *)
IsIdentifier(name) ==
  /\ Len(name) > 0
  /\ name[1] \in BeginsWord
  /\ \A k \in 1 .. Len(name) : name[k] \in InWord
  /\ \A k \in 1 .. Len(keyword_names) : keyword_names[k] # name

TypeOK ==
  \A k \in 1 .. Len(tokens) :
    \/ tokens[k].type = "identifier" /\ IsIdentifier(tokens[k].name)
    \/ tokens[k].type = "integer" /\ tokens[k].v \in 0 .. Half - 1
    \/ tokens[k].type \in IsKeyword \union IsOperator
=============================================================================
