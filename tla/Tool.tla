-------------------------------- MODULE Tool --------------------------------
(***************************************************************************)
(* One call of one of the programs under tools/: a call is made with what  *)
(* the program reads (arguments, files, API answers), and is answered      *)
(* once.  The modules that extend this one each hold one program or a few  *)
(* that are called together; MCTools makes the calls.                      *)
(***************************************************************************)

VARIABLES
    call,     \* [tool |-> its name, in |-> what it reads]
    answer    \* [done |-> FALSE], then [done |-> TRUE, is |-> the answer]

toolVars == <<call, answer>>

Calls(tool, inputs) == [tool : {tool}, in : inputs]

Waiting(tool) == call.tool = tool /\ ~answer.done

Answer(value) == answer' = [done |-> TRUE, is |-> value] /\ UNCHANGED call

Answered(tool) == call.tool = tool /\ answer.done
=============================================================================
