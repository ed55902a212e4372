------------------------------- MODULE Parser -------------------------------
(***************************************************************************)
(* The recursive-descent parser of parser.c.  callers is the C stack: the  *)
(* activations of parse_primary, parse_args and parse_function that wait   *)
(* for the parse_expr or parse_primary they have called, each with the     *)
(* part of its node that it has, and the arrays of the parse_expr that     *)
(* called it.  The arrays and indices of the innermost parse_expr are      *)
(* variables of their own, and its loops are those of OperatorParser.      *)
(*                                                                         *)
(* A step is what happens from one call or return to the next.  A token    *)
(* that expect_token or parse_primary does not want fails an assert.       *)
(***************************************************************************)
EXTENDS Syntax, Tokens, Integers

CONSTANT Files            \* sequences of tokens, without the EOF that follows

VARIABLES
  input,                  \* the lookahead, and the tokens scan has yet to return
  callers,                \* the activations that wait
  expr_arr, op_arr, p, i, \* the locals of the innermost parse_expr
  ret,                    \* what parse_primary has returned
  functions,              \* the functions parsed so far
  at                      \* what goes on: entering "function" or "primary",
                          \* "returned" from primary, "join" in parse_expr,
                          \* "parsed", "aborted"

arrays == <<expr_arr, op_arr, p, i>>
pvars  == <<input, callers, arrays, ret, functions, at>>

Op == INSTANCE OperatorParser WITH chain <- 0, Operands <- {}, Chains <- {}

Top    == callers[Len(callers)]
Others == SubSeq(callers, 1, Len(callers) - 1)

\* The next tokens are of these types, in this order.
Follows(types) ==
  /\ Len(types) <= Len(input)
  /\ \A k \in 1 .. Len(types) : input[k].type = types[k]
Consume(n) == input' = SubSeq(input, n + 1, Len(input))
lookahead  == IF input = << >> THEN "EOF" ELSE input[1].type

-----------------------------------------------------------------------------
parser_init ==
  /\ callers = << >>
  /\ expr_arr = << >> /\ op_arr = << >> /\ p = 0 /\ i = 0
  /\ ret = << >>
  /\ functions = << >>
  /\ at = "function"

Init == input \in Files /\ parser_init

\* parse_expr is called, with new arrays, by an activation on top of others.
CallParseExpr(others, activation) ==
  /\ callers' = Append(others, activation)
  /\ expr_arr' = << >> /\ op_arr' = << >> /\ p' = 0 /\ i' = 0
  /\ at' = "primary"
  /\ UNCHANGED <<ret, functions>>

Activation(place, node, exprs, ops) ==
  [place |-> place, node |-> node, exprs |-> exprs, ops |-> ops]

(* parse_function, up to the body.                                         *)

parse_function ==
  /\ at = "function"
  /\ \E n \in 1 .. Len(input) :
       /\ Follows(<<"let", "identifier">> \o [k \in 1 .. n |-> "identifier"] \o <<"=">>)
       /\ Consume(n + 3)
       /\ CallParseExpr(<< >>,
            Activation("function",
              Node("Fun", 0, input[2].name, [k \in 1 .. n |-> input[k + 2].name], << >>),
              << >>, << >>))

(* parse_primary, up to the first call.                                    *)

Leaf(node) ==
  /\ Consume(1)
  /\ ret' = node
  /\ at' = "returned"
  /\ UNCHANGED <<callers, arrays, functions>>

Opens(types, place, node) ==
  /\ at = "primary"
  /\ Follows(types)
  /\ Consume(Len(types))
  /\ CallParseExpr(callers, Activation(place, node, expr_arr, op_arr))

PrimaryInteger == at = "primary" /\ Follows(<<"integer">>) /\ Leaf(Num(input[1].v))
PrimaryIdent ==
  /\ at = "primary"
  /\ Follows(<<"identifier">>)
  /\ ~Follows(<<"identifier", "(">>)
  /\ Leaf(Var(input[1].name))
PrimaryCall ==
  Opens(<<"identifier", "(">>, "args", Node("Call", 0, input[1].name, << >>, << >>))
PrimaryRecur == Opens(<<"recur", "(">>, "args", Node("Recur", 0, "", << >>, << >>))
PrimaryIf    == Opens(<<"if">>, "if", Node("If", 0, "", << >>, << >>))
PrimaryLet ==
  Opens(<<"let", "identifier", "=">>, "bindings",
        Node("Let", 0, "", <<input[2].name>>, << >>))
PrimaryLoop ==
  Opens(<<"loop", "identifier", "=">>, "bindings",
        Node("Loop", 0, "", <<input[2].name>>, << >>))
PrimaryParen == Opens(<<"(">>, "paren", << >>)

\* unop primary: parse_primary calls itself.
PrimaryUnary ==
  /\ at = "primary"
  /\ lookahead \in {"!", "-"}
  /\ Consume(1)
  /\ callers' = Append(callers, Activation("unary",
                  Node("Unary", 0, lookahead, << >>, << >>), << >>, << >>))
  /\ UNCHANGED <<arrays, ret, functions, at>>

-----------------------------------------------------------------------------
(* parse_primary has returned: to itself, or to the loop of parse_expr.    *)

ToUnary == callers # << >> /\ Top.place = "unary"

ReturnToUnary ==
  /\ at = "returned"
  /\ ToUnary
  /\ callers' = Others
  /\ ret' = [Top.node EXCEPT !.kids = <<ret>>]
  /\ UNCHANGED <<input, arrays, functions, at>>

ReturnToExpr ==
  /\ at = "returned"
  /\ ~ToUnary
  /\ expr_arr' = Append(expr_arr, ret)
  /\ \/ /\ lookahead \in IsBinaryOperator
        /\ op_arr' = Append(op_arr, lookahead)
        /\ Consume(1)
        /\ at' = "primary"
     \/ /\ lookahead \notin IsBinaryOperator
        /\ at' = "join"
        /\ UNCHANGED <<op_arr, input>>
  /\ UNCHANGED <<callers, p, i, ret, functions>>

JoinLoops ==
  /\ at = "join"
  /\ Op!Skip \/ Op!Join \/ Op!NextLevel
  /\ UNCHANGED <<input, callers, ret, functions, at>>

-----------------------------------------------------------------------------
(* parse_expr returns to the activation on top, which wants certain tokens *)
(* and then calls parse_expr again, or returns in its turn.                *)

Returns   == at = "join" /\ p = Op!Levels
Node1     == [Top.node EXCEPT !.kids = Append(@, expr_arr[1])]
Operands  == Len(Node1.kids)
Resumes(place, types) == Returns /\ Top.place = place /\ Follows(types) /\ Consume(Len(types))

Again(node, place) ==
  CallParseExpr(Others, Activation(place, node, Top.exprs, Top.ops))

PrimaryReturnsAmong(node) ==                 \* mutant: static arrays
  /\ callers' = Others
  /\ ret' = node
  /\ p' = 0 /\ i' = 0
  /\ at' = "returned"
  /\ UNCHANGED <<expr_arr, op_arr, functions>>
PrimaryReturns(node) ==
  /\ callers' = Others
  /\ ret' = node
  /\ expr_arr' = Top.exprs /\ op_arr' = Top.ops /\ p' = 0 /\ i' = 0
  /\ at' = "returned"
  /\ UNCHANGED functions

ResumeIf ==
  \/ Resumes("if", <<"then">>) /\ Operands = 1 /\ Again(Node1, "if")
  \/ Resumes("if", <<"else">>) /\ Operands = 2 /\ Again(Node1, "if")
  \/ Resumes("if", <<"end">>)  /\ Operands = 3 /\ PrimaryReturns(Node1)

ResumeBindings ==
  \/ /\ Resumes("bindings", <<"and", "identifier", "=">>)
     /\ Again([Node1 EXCEPT !.names = Append(@, input[2].name)], "bindings")
  \/ Resumes("bindings", <<"in">>) /\ Again(Node1, "body")

ResumeBody == Resumes("body", <<"end">>) /\ PrimaryReturns(Node1)

\* parse_args goes on with every opening parenthesis.
ResumeArgs ==
  \/ Resumes("args", <<")", "(">>) /\ Again(Node1, "args")
  \/ ~Follows(<<")", "(">>) /\ Resumes("args", <<")">>) /\ PrimaryReturns(Node1)

ResumeParen == Resumes("paren", <<")">>) /\ PrimaryReturns(expr_arr[1])

\* parse_function returns to parse_program, which stops at the end of file.
ResumeFunction ==
  /\ Resumes("function", <<"end">>)
  /\ functions' = Append(functions, Node1)
  /\ callers' = Others
  /\ at' = IF Len(input) > 1 THEN "function" ELSE "parsed"
  /\ UNCHANGED <<arrays, ret>>

-----------------------------------------------------------------------------
\* The beginnings of the input that the code goes on with.
Wanted ==
  LET place == Top.place IN
  CASE at = "function" ->
         { <<"let", "identifier">> \o [k \in 1 .. n |-> "identifier"] \o <<"=">> :
             n \in 1 .. Len(input) }
    [] at = "primary" ->
         { <<"integer">>, <<"identifier">>, <<"if">>, <<"let", "identifier", "=">>,
           <<"loop", "identifier", "=">>, <<"recur", "(">>, <<"!">>, <<"-">>, <<"(">> }
    [] Returns ->
         IF place = "if" THEN { << <<"then", "else", "end">>[Operands] >> }
         ELSE IF place = "bindings" THEN { <<"and", "identifier", "=">>, <<"in">> }
         ELSE IF place \in {"args", "paren"} THEN { <<")">> } ELSE { <<"end">> }
    [] OTHER -> { << >> }

\* The asserts of expect_token and parse_primary.
Abort ==
  /\ \A types \in Wanted : ~Follows(types)
  /\ at' = "aborted"
  /\ UNCHANGED <<input, callers, arrays, ret, functions>>

Next ==
  \/ parse_function
  \/ PrimaryInteger \/ PrimaryIdent \/ PrimaryCall \/ PrimaryRecur \/ PrimaryIf
  \/ PrimaryLet \/ PrimaryLoop \/ PrimaryParen \/ PrimaryUnary
  \/ ReturnToUnary \/ ReturnToExpr \/ JoinLoops
  \/ ResumeIf \/ ResumeBindings \/ ResumeBody \/ ResumeArgs \/ ResumeParen
  \/ ResumeFunction \/ Abort

Spec == Init /\ [][Next]_pvars /\ WF_pvars(Next)

-----------------------------------------------------------------------------
(* However deep expressions are nested, every open parse_expr has its two  *)
(* arrays in step, in its activation or in the variables: as many operands *)
(* as operators while it waits for the next operand, one more when it      *)
(* joins, and at the end, as its asserts say, no operator and one operand  *)
(* (parser.c:102-103).  No array of a callee is taken for the caller's.    *)
ArraysInStep ==
  /\ \A k \in 1 .. Len(callers) : Len(callers[k].exprs) = Len(callers[k].ops)
  /\ at \in {"primary", "returned"} => Len(expr_arr) = Len(op_arr)
  /\ at = "join" => Len(expr_arr) = Len(op_arr) + 1
  /\ Returns => op_arr = << >>
=============================================================================
