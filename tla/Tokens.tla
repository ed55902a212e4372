------------------------------- MODULE Tokens -------------------------------
(***************************************************************************)
(* The tokens of compiler.h.  The functions that ask for the kind of a     *)
(* token compare its place in the enumeration with those of the first and  *)
(* the last of the kind.                                                   *)
(***************************************************************************)
EXTENDS Naturals, Sequences

token_type_t ==
  << "EOF", "integer", "identifier",
     "let", "and", "in", "if", "then", "else", "recur", "loop", "end",
     "(", ")", "!", "-", "<", "+", "*", "&&", "||", "==", "=" >>

Place(type) == CHOOSE k \in 1 .. Len(token_type_t) : token_type_t[k] = type

Between(first, last) ==
  { token_type_t[k] : k \in Place(first) .. Place(last) }

IsKeyword        == Between("let", "end")
IsOperator       == Between("(", "=")
BinaryUpToOr     == Between("<", "||")                  \* mutant: without ==
IsBinaryOperator == Between("<", "==")

\* token_t: v is the value of an integer, name that of an identifier.
Tok(type)     == [type |-> type, v |-> 0, name |-> ""]
Integer(v)    == [type |-> "integer", v |-> v, name |-> ""]
Ident(name)   == [type |-> "identifier", v |-> 0, name |-> name]
=============================================================================
