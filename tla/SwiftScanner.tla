---------------------------- MODULE SwiftScanner ----------------------------
(***************************************************************************)
(* tokenize of scanner.swift, in the steps of Scanner, whose lookahead is  *)
(* nextChar; ds begins with currentChar, and holds the characters consumed *)
(* since.  Only what differs is here: names, numbers, and the reads beyond *)
(* the end.                                                                *)
(*                                                                         *)
(* A failing assert, and a consume at the end of the file, end the process *)
(* ("refused").  When the last character is consumed nextChar is read at   *)
(* endIndex: in one build that ends the process too ("trapped"), in        *)
(* another it gives a NUL, which is in no class of characters.             *)
(*                                                                         *)
(* At the end are both scanners side by side, and the tokens of a text by  *)
(* the rule of the longest match, which they are checked against.          *)
(***************************************************************************)
EXTENDS Scanner

VARIABLE program      \* whose scanner it is

SwiftInit ==
  /\ text \in Texts
  /\ rest = text
  /\ ds = << >>
  /\ tokens = << >>
  /\ at \in IF text = << >> THEN {"scan", "trapped"} ELSE {"scan"}

\* The loop asks whether currentChar is an underscore, not whether nextChar is.
InName == lookahead \in Letters \union Digits \/ ds[1] = Underscore

MoreName    == at = "word" /\ InName /\ lookahead # EOF /\ Collects
NameRunsOut == at = "word" /\ InName /\ lookahead = EOF /\ Stops("refused")
EndName     == at = "word" /\ ~InName /\ Returns(WordToken(ds)) /\ UNCHANGED rest

\* Int(number) is nil.
TooLarge == Number(ds) \notin Word

EndInteger ==
  /\ at = "number"
  /\ lookahead \notin Digits
  /\ \/ TooLarge /\ Stops("refused")
     \/ ~TooLarge /\ Returns(Integer(Number(ds))) /\ UNCHANGED rest

IsSingleOperator(c) == c # "NUL" /\ IsSingle(c)

SingleOperator == IsSingleOperator(lookahead) /\ SingleLetter

Illegal == at = "scan" /\ (lookahead = "NUL" \/ ~Valid(lookahead)) /\ Stops("refused")

\* What is done next begins with a consume.
Consumes ==
  \/ at \in {"scan", "pair"}
  \/ at = "word" /\ InName
  \/ at = "number" /\ lookahead \in Digits
  \/ at = "assign" /\ lookahead = "="

EndIndexRead == Len(rest) = 1 /\ Consumes /\ Stops("trapped")

SwiftNext ==
  \/ SkipSpace \/ AtEOF
  \/ BeginWord \/ MoreName \/ NameRunsOut \/ EndName
  \/ BeginNumber \/ MoreNumber \/ EndInteger
  \/ SingleOperator \/ BeginPair \/ EndPair \/ InvalidPair \/ BeginAssign \/ EndAssign
  \/ Illegal \/ EndIndexRead

-----------------------------------------------------------------------------
\* The two scanners side by side.

ScannersInit ==
  \/ program = "C" /\ Init
  \/ program = "Swift" /\ SwiftInit
ScannersNext ==
  /\ \/ program = "C" /\ Next
     \/ program = "Swift" /\ SwiftNext
  /\ UNCHANGED program
ScannersSpec ==
  ScannersInit /\ [][ScannersNext]_<<svars, program>> /\ WF_<<svars, program>>(ScannersNext)

-----------------------------------------------------------------------------
(* The tokens of ASSIGNMENTS.md, 1.1, by their spelling.                   *)

Spellings ==
  { [s |-> <<"l","e","t">>, type |-> "let"], [s |-> <<"a","n","d">>, type |-> "and"], [s |-> <<"i","n">>, type |-> "in"],
     [s |-> <<"i","f">>, type |-> "if"], [s |-> <<"t","h","e","n">>, type |-> "then"], [s |-> <<"e","l","s","e">>, type |-> "else"],
     [s |-> <<"r","e","c","u","r">>, type |-> "recur"], [s |-> <<"l","o","o","p">>, type |-> "loop"], [s |-> <<"e","n","d">>, type |-> "end"],
     [s |-> <<"(">>, type |-> "("], [s |-> <<")">>, type |-> ")"], [s |-> <<"!">>, type |-> "!"], [s |-> <<"-">>, type |-> "-"],
     [s |-> <<"<">>, type |-> "<"], [s |-> <<"+">>, type |-> "+"], [s |-> <<"*">>, type |-> "*"], [s |-> <<"=">>, type |-> "="],
     [s |-> <<"&","&">>, type |-> "&&"], [s |-> <<"|","|">>, type |-> "||"], [s |-> <<"=","=">>, type |-> "=="] }

IsNumber(s) == Len(s) > 0 /\ \A k \in 1 .. Len(s) : s[k] \in Digits
Spelled(s)  == { Tok(x.type) : x \in { y \in Spellings : y.s = s } }
                 \union (IF IsIdentifier(s) THEN { Ident(s) } ELSE {})
                 \union (IF IsNumber(s) THEN { Integer(atol(s)) } ELSE {})

\* Where a token that s begins with may end; it ends as late as it can.
Ends(s)        == { n \in 1 .. Len(s) : Spelled(SubSeq(s, 1, n)) # {} }
LongestEnd(s)  == CHOOSE n \in Ends(s) : \A k \in Ends(s) : k <= n
LongestOf(s)   == CHOOSE t \in Spelled(SubSeq(s, 1, LongestEnd(s))) : TRUE
BehindToken(s) == SubSeq(s, LongestEnd(s) + 1, Len(s))

\* White space only separates; a token is as long as it can be.  The end is
\* marked with what ended the text.
LongestMatch[s \in Seq(Characters)] ==
  IF s = << >> THEN << Tok("EOF") >>
  ELSE IF Head(s) \in Spaces THEN LongestMatch[Tail(s)]
  ELSE IF Ends(s) = {} THEN << Tok("error") >>
  ELSE << LongestOf(s) >> \o LongestMatch[BehindToken(s)]

\* Swift has no integer for a number that does not fit.
NoInteger == program = "Swift" /\ IsNumber(ds) /\ TooLarge

\* At every moment the tokens returned, and those in the characters that are
\* collected or not yet read, are the tokens of the file.
LongestMatchKept ==
  CASE at = "EOF"     -> Append(tokens, Tok("EOF")) = LongestMatch[text]
    [] at = "refused" -> NoInteger \/ Append(tokens, Tok("error")) = LongestMatch[text]
    [] at = "aborted" -> text = << >>
    [] at = "trapped" -> Len(rest) <= 1
    [] OTHER          -> tokens \o LongestMatch[ds \o rest] = LongestMatch[text]

(* No character is lost or read twice when a token ends with the first     *)
(* character of the next one, and none is joined that should be apart.  A  *)
(* file with a NUL is no text, and not considered in C; in Swift one with  *)
(* an underscore is not, where it fails.                                   *)
Excluded == IF program = "C" THEN "NUL" ELSE Underscore
ScansLongestMatch ==
  (\A k \in 1 .. Len(text) : text[k] # Excluded) => LongestMatchKept

(* scan, or tokenize, comes to the end of every file, or to a character    *)
(* that it refuses.                                                        *)
ScannerEnds == <>(at \in {"EOF", "refused", "aborted", "trapped"})
=============================================================================
