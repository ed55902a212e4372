----------------------------- MODULE MCScanner -----------------------------
(***************************************************************************)
(* The two scanners on every text of up to four of twelve characters, of   *)
(* which words, the keyword if, numbers that are too large for the small   *)
(* words, all kinds of operators and illegal characters can be made, and   *)
(* on the example of ASSIGNMENTS.md.  The tokens are compared with the     *)
(* longest match.                                                          *)
(***************************************************************************)
EXTENDS SwiftScanner, SequencesExt

MCHalf    == 64
MCSpaces  == {" "}
MCDigits  == {"0", "7"}
MCDigitValue == [d \in MCDigits |-> IF d = "0" THEN 0 ELSE 7]

\* ASSIGNMENTS.md, 1.1, with the digit 7 for 1, and a line with the other
\* keywords and single letters.
Example ==
  << "l", "e", "t", " ", "a", " ", "=", " ", "7", " ", "a", "n", "d", " ", "l", "o", "o", "p", "y", " ", "=", " ", "a", "+", "-", "7", " ", "i", "n", " ", "l", "o", "o", "p", "y", " ", "e", "n", "d" >>
Others ==
  << "r", "e", "c", "u", "r", " ", "i", "f", " ", "t", "h", "e", "n", "x", " ", "e", "l", "s", "e", "_", " ", "0", "7", "t", "h", "e", "n", "!", "(", "7", ")", "*", "<" >>

MCLetters == { Example[k] : k \in {1, 2, 3, 5} } \union {"i", "f", "n", "d", "o", "p", "y", "r", "c", "u", "h", "x", "s"}

Alphabet == { "i", "f", "_", "7", "0", " ", "(", "&", "|", "=", "#", "NUL" }
MaxLength == 4
MCTexts == SeqOf(Alphabet, MaxLength) \union { Example, Others }

\* For the run on underscores.
UnderscoreInit == SwiftInit /\ program = "Swift" /\ Contains(text, "_")
UnderscoreSpec == UnderscoreInit /\ [][ScannersNext]_<<svars, program>>

(* Identifiers contain underscores, as ASSIGNMENTS.md says.                *)
ScansUnderscores == LongestMatchKept
=============================================================================
