----------------------------- MODULE SessionInv -----------------------------
(***************************************************************************)
(* What the lexer and the driver must guarantee, stated without their      *)
(* loops.                                                                  *)
(***************************************************************************)
EXTENDS Session, SequencesExt

(* The table that the argument names, in the default schema when it names  *)
(* none.                                                                   *)
NamedBy(argument) ==
    /\ prepared.table # << >>
    /\ \A i \in DOMAIN prepared.table : prepared.table[i] # "."
    /\ \/ argument = prepared.table /\ prepared.schema = DefaultSchema
       \/ /\ argument = prepared.schema \o <<".">> \o prepared.table
          /\ prepared.schema # << >>

(* The variables hold what their comments say; a statement fits the buffer *)
(* it is read into; the table prepared before the first prompt is the one  *)
(* that the argument of --repl names.                                      *)
TypeOK ==
    /\ Len(sql) < Width /\ cursor \in 1 .. Len(sql) + 1
    /\ lex \in {"idle", "lexing", "lexed", "refused", "nomemory"}
    /\ (lex # "idle") <=> (pc \in {"lex", "execute"})
    /\ failures \in 0 .. MaxFailures
    /\ pos \in 1 .. Len(input) + 1
    /\ pc \in {"start", "read", "lex", "execute", "log", "exit"}
    /\ made \in 0 .. Len(LogPath) - 1
    /\ exit \in {-1, 0, 1} /\ (exit # -1) <=> (pc = "exit")
    /\ prepared # NoTable => NamedBy(target)

(* Between two statements and at the end no token, no text of one and no   *)
(* AST is left allocated, whichever way the statement went, and the SQL    *)
(* file is closed at the end.                                              *)
NoLeak ==
    /\ pc \notin {"lex", "execute"} => blocks = 0 /\ ~ast
    /\ lex \in {"refused", "nomemory"} => blocks = 0
    /\ pc = "exit" => ~open

-----------------------------------------------------------------------------
(* The tokens of the language, as texts.                                   *)

Whole(s, set) == s # << >> /\ \A i \in DOMAIN s : s[i] \in set

SameWord(s, word) ==
    Len(word) = Len(s) /\ \A k \in DOMAIN s : s[k] \in DOMAIN Upper /\ Upper[s[k]] = word[k]

TypesOf(s) ==
    {type \in {"NUMBER", "KEYWORD", "IDENTIFIER", "STRING", "OPERATOR"} \union {SingleType[c] : c \in Singles} :
        CASE type = "NUMBER" ->
               \/ Whole(s, Digits)
               \/ Len(s) > 1 /\ s[1] \in {"+", "-"} /\ Whole(Tail(s), Digits)
          [] type = "STRING" ->
               /\ Len(s) > 1 /\ s[1] = "'" /\ s[Len(s)] = "'"
               /\ \A i \in 2 .. Len(s) - 1 : s[i] # "'"
          [] type = "OPERATOR" ->
               s \in {<<"=">>, <<"<">>, <<">">>, <<"!", "=">>, <<"<", "=">>, <<">", "=">>}
          [] type \in {"KEYWORD", "IDENTIFIER"} ->
               /\ Whole(s, Letters \union Digits) /\ s[1] \in Letters
               /\ (type = "KEYWORD") <=> (\E k \in Keywords : SameWord(s, k))
          [] OTHER -> Len(s) = 1 /\ s[1] \in Singles /\ SingleType[s[1]] = type}

(* Where the longest token of s that starts at a position ends, 0 for none. *)
Longest(s, i) == Max({0} \union {j \in i .. Len(s) : TypesOf(SubSeq(s, i, j)) # {}})

(* The tokens of s from each position on; a last one of type ERROR when    *)
(* there is no token in its place.                                         *)
TokensFrom(s) ==
    LET from[i \in 1 .. Len(s) + 1] ==
          IF i > Len(s) THEN <<[type |-> "EOF", text |-> << >>]>>
          ELSE IF s[i] \in Spaces THEN from[i + 1]
          ELSE IF Longest(s, i) = 0 THEN <<[type |-> "ERROR", text |-> << >>]>>
          ELSE LET text == SubSeq(s, i, Longest(s, i))
               IN  <<[type |-> CHOOSE t \in TypesOf(text) : TRUE, text |-> text]>>
                     \o from[Longest(s, i) + 1]
    IN  from
Reference(s) == TokensFrom(s)[1]

(* lex_sql splits a text into the longest tokens there are from left to    *)
(* right, and refuses exactly the texts that cannot be split in this way.  *)
LexesByLongestMatch ==
    /\ lex = "lexed" => tokens = Reference(sql)
    /\ lex = "refused" => Last(Reference(sql)).type = "ERROR"

(* The log tells of statements in the order in which they were run, of each *)
(* at most once, in a line that never exceeds its buffer: the statement, or *)
(* when that is too long a beginning of it, alone or with three dots, that *)
(* lacks nothing but spaces of its first LogWidth - 4 characters.          *)
ThreeDots == <<".", ".", ".">>
LogTellsStatements ==
    /\ \A i, j \in DOMAIN logged : i < j => logged[i].of < logged[j].of
    /\ \A i \in DOMAIN logged :
         LET said == logged[i].text
             text == Spaced(ran[logged[i].of].text)
         IN  /\ Len(said) < LogWidth
             /\ Len(text) < LogWidth => said = text
             /\ Len(text) >= LogWidth =>
                  \E n \in 0 .. LogWidth - 1 :
                    /\ said \in {SubSeq(text, 1, n), SubSeq(text, 1, n) \o ThreeDots}
                    /\ \A k \in n + 1 .. LogWidth - 4 : text[k] = " "

(* Said of the program and not so, as its run shows: the line of a         *)
(* statement that is too long for the log ends with three dots.            *)
LogMarksCut ==
    \A i \in DOMAIN logged :
        Len(ran[logged[i].of].text) >= LogWidth => IsSuffix(ThreeDots, logged[i].text)

-----------------------------------------------------------------------------
(* The statements of an input: its lines, and of a line that is too long   *)
(* for the buffer each part of Width - 1 characters; up to a return        *)
(* character, without spaces around (at the prompt: behind), not empty,    *)
(* and at the prompt only those before a line that ends the session.       *)
Parts ==
    LET end(i) == Min({Len(input), i + Width - 2}
                        \union {k \in i .. Len(input) : input[k] = "\n"})
        from[i \in 1 .. Len(input) + 1] ==
          IF i > Len(input) THEN << >>
          ELSE <<SubSeq(input, i, end(i))>> \o from[end(i) + 1]
    IN  from[1]

Unended(s) ==
    SubSeq(s, 1, Min({Len(s) + 1} \union {k \in DOMAIN s : s[k] \in {"\r", "\n"}}) - 1)

Inner(s) == {i \in DOMAIN s : s[i] \notin Spaces}
Whittled(s) ==
    IF Inner(s) = {} THEN << >>
    ELSE SubSeq(s, IF mode = "file" THEN Min(Inner(s)) ELSE 1, Max(Inner(s)))

StatementsOfInput ==
    LET parts == Parts
        texts == [n \in DOMAIN parts |-> Unended(parts[n])]
        stops == {n \in DOMAIN texts : mode = "repl" /\ \E w \in StopWords : SameWord(texts[n], w)}
        count == Min({Len(texts) + 1} \union stops) - 1
    IN  SelectSeq([n \in 1 .. count |-> Whittled(texts[n])], LAMBDA s : s # << >>)

VARIABLE statements     \* a ghost: the statements of the input, which never changes

ObservedInit == Init /\ statements = StatementsOfInput

(* The program runs on; what it reads has an end.                          *)
Observed ==
    /\ ObservedInit
    /\ [][Next /\ UNCHANGED statements]_<<vars, statements>>
    /\ WF_vars(Next)

(* The program is a Script of the statements of its input: preloading the  *)
(* first statement of a file and failures of the log change nothing, no    *)
(* statement is skipped or run twice, and every run ends.                  *)
S == INSTANCE Script WITH stopping <- mode = "file"
IsScript == S!Spec
=============================================================================
