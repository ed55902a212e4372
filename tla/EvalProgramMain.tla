--------------------------- MODULE EvalProgramMain ---------------------------
(***************************************************************************)
(* eval_program_main of main.c: the file is parsed, the command line is    *)
(* compared with the parameters of main, and main is evaluated.  Parser    *)
(* and Interp take their steps one after the other.                        *)
(***************************************************************************)
EXTENDS Interp

CONSTANT CommandLines    \* .tokens of the file, and .argv

\* Tokens as scan returns them, and numbers as they are written.
ASSUME CommandLinesAssumption ==
  \A line \in CommandLines :
    /\ line.tokens \in Seq([type : STRING, v : Word, name : STRING])
    /\ line.argv \in Seq(Int)

\* A fact about STRING that the provers have to be told.
ASSUME LiteralsAssumption == {"", "!", "-"} \union BinaryOperators \subseteq STRING

VARIABLES input, callers, expr_arr, op_arr, p, i, ret, functions, at

P == INSTANCE Parser WITH Files <- { line.tokens : line \in CommandLines }

parser == <<input, callers, expr_arr, op_arr, p, i, ret, functions, at>>
evars  == <<vars, parser>>

parse_cmdline_args(argv) == [k \in 1 .. Len(argv) |-> strtoll(argv[k])]

MainInit ==
  /\ \E line \in CommandLines :
       /\ program = [functions |-> << >>, args |-> << >>, line |-> line]
       /\ input = line.tokens
  /\ P!parser_init
  /\ stack = << >> /\ res = None /\ heap = << >>
  /\ status = "parsing"
  /\ result = 0

Parse ==
  /\ status = "parsing"
  /\ at # "parsed"
  /\ P!Next
  /\ status' = IF at' = "aborted" THEN "aborted" ELSE status
  /\ UNCHANGED <<program, stack, res, heap, result>>

main_function == Lookup(functions, "main")
Argv == program.line.argv
Parsed == status = "parsing" /\ at = "parsed"

\* Without a main, or with another number of arguments: the exit status.
Refuse ==
  /\ Parsed
  /\ status' = "exited"
  /\ \/ ~Defines(functions, "main") /\ result' = 1
     \/ /\ Defines(functions, "main")
        /\ Len(main_function.names) # Len(Argv)
        /\ result' = 2
  /\ UNCHANGED <<program, stack, res, heap, parser>>

eval_function ==
  LET args == parse_cmdline_args(Argv) IN
  /\ Parsed
  /\ Defines(functions, "main")
  /\ Len(main_function.names) = Len(Argv)
  /\ program' = [program EXCEPT !.functions = functions, !.args = args]
  /\ stack' = << [Frame(main_function, NULL, NoLoop, NULL) EXCEPT !.vals = args] >>
  /\ status' = "running"
  /\ UNCHANGED <<res, heap, result, parser>>

Evaluate == Next /\ UNCHANGED parser

Exited == status = "exited" /\ UNCHANGED evars

MainNext == Parse \/ Refuse \/ eval_function \/ Evaluate \/ Exited

MainSpec == MainInit /\ [][MainNext]_evars /\ WF_evars(MainNext)

(* The process ends: whatever the tokens, parsing comes to an end, and so  *)
(* do the evaluations of programs that recur a bounded number of times.    *)
Ends == <>(status \in Stopped \union {"exited"})

(* The arrays of all open calls of parse_expr stay in step (see Parser).   *)
ArraysInStep == P!ArraysInStep
=============================================================================
