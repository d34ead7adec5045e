------------------------------- MODULE Script -------------------------------
(***************************************************************************)
(* What a run of the program promises of its statements: they are run in   *)
(* the order of the input, each once; a file stops at its first failure,   *)
(* with exit status 1, and a prompt goes on; the run comes to its end.     *)
(***************************************************************************)
EXTENDS Integers, Sequences

VARIABLES
    statements, \* what there is to run
    stopping,   \* whether a failure ends the run
    ran,        \* what was run, with the results
    exit        \* the exit status, -1 during the run

script == <<statements, stopping, ran, exit>>

Init == ran = << >> /\ exit = -1 /\ stopping \in BOOLEAN

Failed == ran # << >> /\ ~ran[Len(ran)].ok

Run ==
    /\ exit = -1
    /\ Len(ran) < Len(statements)
    /\ ~(stopping /\ Failed)
    /\ \E ok \in BOOLEAN :
         ran' = Append(ran, [text |-> statements[Len(ran) + 1], ok |-> ok])
    /\ UNCHANGED <<statements, stopping, exit>>

Finish ==
    /\ exit = -1
    /\ Len(ran) = Len(statements) /\ ~(stopping /\ Failed)
    /\ exit' = 0
    /\ UNCHANGED <<statements, stopping, ran>>

(* After the first failure, or because the file cannot be opened.          *)
GiveUp ==
    /\ exit = -1
    /\ stopping /\ (Failed \/ ran = << >>)
    /\ exit' = 1
    /\ UNCHANGED <<statements, stopping, ran>>

Next == Run \/ Finish \/ GiveUp

Spec == Init /\ [][Next]_script /\ WF_script(Next)
=============================================================================
