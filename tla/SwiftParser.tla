----------------------------- MODULE SwiftParser -----------------------------
(***************************************************************************)
(* The recursive descent of parser.swift.  callers is the stack of the     *)
(* thread: the activations of parsePrimaryExpression, parseParams and      *)
(* parseFunction that wait, each with the part of its node that it has.    *)
(* The stacks of the innermost parseBinaryExpression are variables of      *)
(* their own, those of the others are in scopes; what is done with them is *)
(* in ShuntingYard.  A parenthesis is no node of the tree here, but ret    *)
(* tells whether there was one, which parseParams asks for.                *)
(*                                                                         *)
(* A failing assert or cast, and the removal of a token when there is none,*)
(* end the process.                                                        *)
(***************************************************************************)
EXTENDS Syntax, Tokens, SequencesExt

CONSTANT Files            \* sequences of tokens

VARIABLES
  input,                  \* Parser.tokens, what is left of them
  callers,                \* the activations that wait
  scopes,                 \* resultStacks and operatorStacks without their tops ...
  resultStack, operatorStack,   \* ... and the tops
  ret,                    \* the expression returned (.node), and .paren
  functions,              \* Memory.functions, in the order of the definitions
  knownFunctions,         \* the names parsed so far, with the one begun
  at                      \* what goes on: entering "function" or "primary",
                          \* "returned" from primary, "operator" or "join" in
                          \* parseBinaryExpression, "parsed", "trapped"

stacks == <<scopes, resultStack, operatorStack>>
pvars  == <<input, callers, stacks, ret, functions, knownFunctions, at>>

Follows(types) ==
  /\ Len(types) <= Len(input)
  /\ \A k \in 1 .. Len(types) : input[k].type = types[k]
nextTokens(n)  == input' = SubSeq(input, n + 1, Len(input))
peekNextToken  == IF input = << >> THEN "nil" ELSE input[1].type

SY == INSTANCE ShuntingYard
        WITH chain <- 0, Operands <- {}, Chains <- {}, operands <- << >>, ops <- << peekNextToken >>

Top    == Last(callers)
Others == Front(callers)

Activation(place, node) == [place |-> place, node |-> node]
Expression(node, paren) == [node |-> node, paren |-> paren]

-----------------------------------------------------------------------------
parser_init ==
  /\ callers = << >>
  /\ scopes = << >> /\ resultStack = << >> /\ operatorStack = << >>
  /\ ret = << >>
  /\ functions = << >> /\ knownFunctions = {}
  /\ at = IF input = << >> THEN "parsed" ELSE "function"

Init == input \in Files /\ parser_init

\* A parser without a file.
Idle == input = << >> /\ parser_init

enterNewScope ==
  /\ scopes' = Append(scopes, [results |-> resultStack, operators |-> operatorStack])
  /\ resultStack' = << >> /\ operatorStack' = << >>

leaveScope_results ==                       \* mutant: operatorStacks is not popped
  /\ scopes' = Front(scopes)
  /\ resultStack' = Last(scopes).results /\ UNCHANGED operatorStack
leaveScope ==
  /\ scopes' = Front(scopes)
  /\ resultStack' = Last(scopes).results /\ operatorStack' = Last(scopes).operators

\* parseBinaryExpression is called by an activation, and calls parsePrimaryExpression.
ParseBinary(others, activation) ==
  /\ callers' = Append(others, activation)
  /\ at' = "primary"
  /\ UNCHANGED <<ret, functions>>

parseFunction ==
  /\ at = "function"
  /\ \E n \in 1 .. Len(input) :
       /\ Follows(<<"let", "identifier">> \o [k \in 1 .. n |-> "identifier"] \o <<"=">>)
       /\ nextTokens(n + 3)
       /\ ParseBinary(<< >>, Activation("function",
            Node("Fun", 0, input[2].name, [k \in 1 .. n |-> input[k + 2].name], << >>)))
  /\ enterNewScope
  /\ knownFunctions' = knownFunctions \union { input[2].name }

(* parsePrimaryExpression, up to the first call.                           *)

Leaf(node) ==
  /\ nextTokens(1)
  /\ ret' = Expression(node, FALSE)
  /\ at' = "returned"
  /\ UNCHANGED <<callers, stacks, functions, knownFunctions>>

Opens(types, place, node) ==
  /\ at = "primary"
  /\ Follows(types)
  /\ nextTokens(Len(types))
  /\ ParseBinary(callers, Activation(place, node))
  /\ enterNewScope
  /\ UNCHANGED knownFunctions

\* parsePrimaryExpression again, for an operand, or by way of parseParams.
Nested(place, node) ==
  /\ nextTokens(1)
  /\ callers' = Append(callers, Activation(place, node))
  /\ UNCHANGED <<stacks, ret, functions, knownFunctions, at>>

\* Mutant: a function is known when it has been parsed.
isADefinedFunction == \E k \in 1 .. Len(functions) : functions[k].id = input[1].name
isAKnownFunction == input[1].name \in knownFunctions
Enters(type)     == at = "primary" /\ Follows(<<type>>)

PrimaryInteger    == Enters("integer") /\ Leaf(Num(input[1].v))
PrimaryIdentifier == Enters("identifier") /\ ~isAKnownFunction /\ Leaf(Var(input[1].name))
PrimaryInvocation ==
  /\ Enters("identifier")
  /\ isAKnownFunction
  /\ Nested("params", Node("Call", 0, input[1].name, << >>, << >>))
PrimaryRecur == Enters("recur") /\ Nested("params", Node("Recur", 0, "", << >>, << >>))
PrimaryUnary ==
  /\ Enters("!") \/ Enters("-")
  /\ Nested("unary", Node("Unary", 0, peekNextToken, << >>, << >>))
PrimaryIf    == Opens(<<"if">>, "if", Node("If", 0, "", << >>, << >>))
PrimaryLet   == Opens(<<"let", "identifier", "=">>, "bindings",
                      Node("Let", 0, "", <<input[2].name>>, << >>))
PrimaryLoop  == Opens(<<"loop", "identifier", "=">>, "bindings",
                      Node("Loop", 0, "", <<input[2].name>>, << >>))
PrimaryParen == Opens(<<"(">>, "paren", << >>)

-----------------------------------------------------------------------------
(* parsePrimaryExpression has returned: to itself, to parseParams, or to   *)
(* the loop of parseBinaryExpression.                                      *)

ReturnsTo(place) == at = "returned" /\ Top.place = place
WithRet          == [Top.node EXCEPT !.kids = Append(@, ret.node)]

ReturnToUnary ==
  /\ ReturnsTo("unary")
  /\ callers' = Others
  /\ ret' = Expression(WithRet, FALSE)
  /\ UNCHANGED <<input, stacks, functions, knownFunctions, at>>

ReturnToParams ==
  /\ ReturnsTo("params")
  /\ ret.paren
  /\ \/ /\ peekNextToken = "("
        /\ callers' = Append(Others, Activation("params", WithRet))
        /\ at' = "primary"
        /\ UNCHANGED ret
     \/ /\ peekNextToken # "("
        /\ callers' = Others
        /\ ret' = Expression(WithRet, FALSE)
        /\ UNCHANGED at
  /\ UNCHANGED <<input, stacks, functions, knownFunctions>>

PushOperand ==
  /\ at = "returned"
  /\ Top.place \notin {"unary", "params"}
  /\ resultStack' = Append(resultStack, ret.node)
  /\ at' = IF peekNextToken \in BinaryOperators THEN "operator" ELSE "join"
  /\ UNCHANGED <<input, callers, scopes, operatorStack, ret, functions, knownFunctions>>

MakeExpression ==
  /\ \/ at = "operator" /\ SY!MustWait
     \/ at = "join" /\ operatorStack # << >>
  /\ SY!createBinaryExpression
  /\ UNCHANGED <<input, callers, scopes, ret, functions, knownFunctions, at>>

PushOperator ==
  /\ at = "operator"
  /\ ~SY!MustWait
  /\ operatorStack' = Append(operatorStack, peekNextToken)
  /\ nextTokens(1)
  /\ at' = "primary"
  /\ UNCHANGED <<callers, scopes, resultStack, ret, functions, knownFunctions>>

-----------------------------------------------------------------------------
(* parseBinaryExpression returns to the activation on top, which wants     *)
(* certain tokens and then calls it again, or returns in its turn.         *)

Returns   == at = "join" /\ operatorStack = << >>
Result    == Last(resultStack)
Node1     == [Top.node EXCEPT !.kids = Append(@, Result)]
OperandsRead == Len(Node1.kids)
Resumes(place, types) ==
  Returns /\ Top.place = place /\ Follows(types) /\ nextTokens(Len(types)) /\ UNCHANGED knownFunctions

\* The scope of the next call is as new as the one that is left.
Again(node, place) ==
  /\ ParseBinary(Others, Activation(place, node))
  /\ resultStack' = << >> /\ operatorStack' = << >> /\ UNCHANGED scopes

PrimaryReturns(node, paren) ==
  /\ callers' = Others
  /\ ret' = Expression(node, paren)
  /\ at' = "returned"
  /\ leaveScope
  /\ UNCHANGED functions

ResumeIf ==
  \/ Resumes("if", <<"then">>) /\ OperandsRead = 1 /\ Again(Node1, "if")
  \/ Resumes("if", <<"else">>) /\ OperandsRead = 2 /\ Again(Node1, "if")
  \/ Resumes("if", <<"end">>)  /\ OperandsRead = 3 /\ PrimaryReturns(Node1, FALSE)

parseBindings ==
  \/ /\ Resumes("bindings", <<"and", "identifier", "=">>)
     /\ Again([Node1 EXCEPT !.names = Append(@, input[2].name)], "bindings")
  \/ Resumes("bindings", <<"in">>) /\ Again(Node1, "body")

ResumeBody  == Resumes("body", <<"end">>) /\ PrimaryReturns(Node1, FALSE)
ResumeParen == Resumes("paren", <<")">>) /\ PrimaryReturns(Result, TRUE)

\* createSyntaxTree goes on while there are tokens.
ResumeFunction ==
  /\ Resumes("function", <<"end">>)
  /\ functions' = Append(functions, Node1)
  /\ callers' = Others
  /\ leaveScope
  /\ at' = IF Len(input) > 1 THEN "function" ELSE "parsed"
  /\ UNCHANGED ret

-----------------------------------------------------------------------------
\* The beginnings of the input that the code goes on with.
Wanted ==
  LET place == Top.place IN
  CASE at = "function" ->
         { <<"let", "identifier">> \o [k \in 1 .. n |-> "identifier"] \o <<"=">> :
             n \in 1 .. Len(input) }
    [] at = "primary" ->
         { <<"integer">>, <<"identifier">>, <<"if">>, <<"let", "identifier", "=">>,
           <<"loop", "identifier", "=">>, <<"recur">>, <<"!">>, <<"-">>, <<"(">> }
    [] Returns ->
         IF place = "if" THEN { << <<"then", "else", "end">>[OperandsRead] >> }
         ELSE IF place = "bindings" THEN { <<"and", "identifier", "=">>, <<"in">> }
         ELSE IF place = "paren" THEN { <<")">> } ELSE { <<"end">> }
    [] OTHER -> { << >> }

Trap ==
  /\ \/ \A types \in Wanted : ~Follows(types)
     \/ ReturnsTo("params") /\ ~ret.paren
  /\ at' = "trapped"
  /\ UNCHANGED <<input, callers, stacks, ret, functions, knownFunctions>>

Next ==
  \/ parseFunction
  \/ PrimaryInteger \/ PrimaryIdentifier \/ PrimaryInvocation \/ PrimaryRecur
  \/ PrimaryUnary \/ PrimaryIf \/ PrimaryLet \/ PrimaryLoop \/ PrimaryParen
  \/ ReturnToUnary \/ ReturnToParams \/ PushOperand \/ MakeExpression \/ PushOperator
  \/ ResumeIf \/ parseBindings \/ ResumeBody \/ ResumeParen \/ ResumeFunction
  \/ Trap

Spec == Init /\ [][Next]_pvars /\ WF_pvars(Next)

-----------------------------------------------------------------------------
(* However deep expressions are nested, there is a scope of its own for    *)
(* every parseBinaryExpression that is open: in those that wait there are  *)
(* as many operands as operators, so that the forced pops of all of them   *)
(* will find what they need.                                               *)
StacksInStep ==
  /\ Len(scopes) = Cardinality({ k \in 1 .. Len(callers) :
                                   callers[k].place \notin {"unary", "params"} })
  /\ \A k \in 1 .. Len(scopes) : Len(scopes[k].results) = Len(scopes[k].operators)
  /\ at \in {"primary", "returned"} => Len(resultStack) = Len(operatorStack)
  /\ at \in {"operator", "join"} => Len(resultStack) = Len(operatorStack) + 1
=============================================================================
