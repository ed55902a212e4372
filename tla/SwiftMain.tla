------------------------------ MODULE SwiftMain ------------------------------
(***************************************************************************)
(* main.swift with the option --interpret: the tokens of the file are      *)
(* parsed, then main is evaluated with the numbers of the command line.    *)
(* SwiftParser and SwiftInterp take their steps one after the other.       *)
(***************************************************************************)
EXTENDS SwiftInterp

CONSTANT CommandLines    \* .tokens of the file, .argv, and .ends for the properties

\* Tokens as Scanner returns them, and numbers as they are written.
ASSUME CommandLinesAssumption ==
  \A line \in CommandLines :
    /\ line.tokens \in Seq([type : STRING, v : Word, name : STRING])
    /\ \A k \in 1 .. Len(line.tokens) :
         line.tokens[k].type = "identifier" => line.tokens[k].name \in Identifiers
    /\ line.argv \in Seq(Int)

\* A fact about STRING that the provers have to be told.
ASSUME LiteralsAssumption == {"", "!", "-"} \union BinaryOperators \subseteq STRING

VARIABLES input, callers, scopes, resultStack, operatorStack, ret, functions,
          knownFunctions, at

P == INSTANCE SwiftParser WITH Files <- { line.tokens : line \in CommandLines }

parser == <<input, callers, scopes, resultStack, operatorStack, ret, functions,
            knownFunctions, at>>
mvars  == <<vars, parser>>

MainInit ==
  /\ \E line \in CommandLines :
       /\ program = [functions |-> << >>, args |-> << >>, ends |-> line.ends, line |-> line]
       /\ input = line.tokens
  /\ P!parser_init
  /\ stack = << >> /\ res = None
  /\ variableStacks = << >>
  /\ invocations = 0 /\ currentDepth = 0
  /\ status = "parsing"
  /\ result = 0

Parse ==
  /\ status = "parsing"
  /\ at # "parsed"
  /\ P!Next
  /\ status' = IF at' = "trapped" THEN "trapped" ELSE status
  /\ UNCHANGED <<program, stack, res, variableStacks, debug, result>>

Parsed == status = "parsing" /\ at = "parsed"
Argv   == program.line.argv
HasMain == \E k \in 1 .. Len(functions) : functions[k].id = "main"

\* exit(1) without an argument; without a main nothing is done.
Refuse ==
  /\ Parsed
  /\ Argv = << >> \/ ~HasMain
  /\ status' = "exited"
  /\ result' = IF Argv = << >> THEN 1 ELSE 0
  /\ UNCHANGED <<program, stack, res, variableStacks, debug, parser>>

\* Int(param)! is evaluated for all the arguments before main is.
NoNumber == \E k \in 1 .. Len(Argv) : Argv[k] \notin Word

EvalMain ==
  /\ Parsed
  /\ Argv # << >>
  /\ HasMain
  /\ IF NoNumber
     THEN status' = "trapped" /\ UNCHANGED <<program, stack>>
     ELSE /\ program' = [program EXCEPT !.functions = functions, !.args = Argv]
          /\ stack' = << Frame(Function("main")') >>
          /\ status' = "running"
  /\ UNCHANGED <<res, variableStacks, debug, result, parser>>

Interpret == Next /\ UNCHANGED parser

Exited == status = "exited" /\ UNCHANGED mvars

MainNext == Parse \/ Refuse \/ EvalMain \/ Interpret \/ Exited

MainSpec == MainInit /\ [][MainNext]_mvars /\ WF_mvars(MainNext)

(* The scopes of all open calls of parseBinaryExpression (see SwiftParser). *)
StacksInStep == P!StacksInStep
=============================================================================
