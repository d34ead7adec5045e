----------------------------- MODULE MCSession ------------------------------
(***************************************************************************)
(* A small instance of Session: lines of up to seven characters, a log     *)
(* line of up to five, one keyword and one word that ends the session.     *)
(***************************************************************************)
EXTENDS SessionInv

MCSpaces == {" ", "\t", "\r", "\n"}
MCLetters == {"a", "A"}
MCSingles == {"*", "."}
MCSingleType == [c \in MCSingles |-> IF c = "*" THEN "STAR" ELSE "DOT"]
MCUpper == [c \in MCLetters |-> "A"]
MCKeywords == {<<"A">>, <<"A", "A", "A">>}
MCStopWords == {<<"A", "A">>}

(* Every text of up to three of these characters is a file.                *)
Characters == {" ", "1", "a", "*", "!", "=", "<", "'", "-", "?"}
Texts == UNION {[1 .. n -> Characters] : n \in 0 .. 3}

(* Inputs of up to three lines: empty and blank ones, statements with      *)
(* spaces around, with a return character inside, lexically wrong ones,    *)
(* the stop word with and without a space, and lines that are too long.    *)
Lines ==
    {<< >>, <<"\t">>, <<" ", "a", "*">>, <<"?">>, <<"a", "A">>, <<"A", "a", " ">>,
     <<"1", "\r", "a", "a">>,
     <<"1", "\t", "1", "1", "1", "1">>,
     <<"1", " ", " ", " ", " ", "*", "1", "1", "a", "a">>}
Line(l) == l \o <<"\n">>
Scripts ==
    {k \o Line(l) : k \in {<< >>} \union {Line(j) : j \in Lines}, l \in Lines}
      \union {Line(k) \o Line(l) \o m : k, l, m \in {<<" ", "a", "*">>, <<"?">>, <<"A", "a", " ">>}}

MCFiles == Texts \union Scripts

(* Every script at the prompt, with the argument users; and the arguments. *)
Users == <<"a", "A">>
MCTargets == {<< >>, <<".">>, <<"A", ".">>, <<".", "A">>, <<"A", ".", "a">>,
              <<"A", ".", "a", ".", "a">>}
MCPrompts == [typed : Scripts, target : {Users}] \union [typed : {<< >>}, target : MCTargets]

MCDefaultSchema == <<"a">>
MCLogPath == <<"logs", "query_timing.log">>
=============================================================================
