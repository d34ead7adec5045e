------------------------------ MODULE Session -------------------------------
(***************************************************************************)
(* main.c: a file of statements, or what is typed at the prompt, is read   *)
(* with fgets and run statement by statement, and each statement is logged.*)
(* A statement is lexed (Lexer); of the parser and the executor only the   *)
(* outcome matters here and is chosen freely.  ran and logged tell what    *)
(* was run and written to the log.                                         *)
(***************************************************************************)
EXTENDS Lexer, FiniteSetsExt

CONSTANTS
    Files,          \* the files there are to run, sequences of characters
    Prompts,        \* what is typed at the prompt, and the argument of --repl
    Width,          \* MAX_SQL_TEXT (4096), the buffer of fgets
    LogWidth,       \* MAX_LOG_SQL_TEXT (160)
    StopWords,      \* EXIT and QUIT
    LogPath,        \* the path of the log file, its segments
    DefaultSchema,  \* DEFAULT_SCHEMA_NAME
    NoTable

ASSUME SessionAssumption ==
    /\ Width \in Nat /\ Width > 1
    /\ LogWidth \in Nat /\ LogWidth > 4
    /\ LogPath \in Seq(STRING) /\ LogPath # << >>

(* The texts are C strings: no zero byte in them, which is written "end".  *)
Text == Seq(STRING \ {"end"})

ASSUME TextAssumption ==
    /\ Files \subseteq Text
    /\ \A p \in Prompts : p.typed \in Text /\ p.target \in Text
    /\ {" ", "\t", "\r", "\n"} \subseteq Spaces

VARIABLES
    mode,       \* "file" or "repl"
    input,      \* the file, or standard input
    pos,        \* the position from which fgets reads
    pc,         \* where the program is
    preload,    \* whether the statement at hand is only preloaded
    ast,        \* whether there is an AST
    open,       \* whether the SQL file is open
    ok,         \* the result of the statement
    dirs,       \* the directories there are, paths
    made,       \* how many directories of LogPath ensure_parent_directory has passed
    target,     \* the argument of --repl
    prepared,   \* the table that is prepared before the first prompt, or NoTable
    ran,        \* the statements that were run, with their results
    logged,     \* the lines of the log, and which statement each is about
    exit        \* the exit status, -1 while the program runs

prompt == <<target, prepared>>
driver == <<mode, input, pos, pc, preload, ast, open, ok, dirs, made, prompt, ran, logged, exit>>
vars == <<lexer, driver>>

-----------------------------------------------------------------------------
(* Texts.                                                                  *)

FirstOf(s, set) ==
    CHOOSE n \in 1 .. Len(s) + 1 :
        /\ n <= Len(s) => s[n] \in set
        /\ \A i \in 1 .. n - 1 : s[i] \notin set

(* A defect for comparison: no room is left for the zero byte.             *)
PieceFull ==
    LET rest == SubSeq(input, pos, Len(input))
    IN  SubSeq(rest, 1, Min({FirstOf(rest, {"\n"}), Len(rest), Width}))

(* fgets: up to and with a newline, but never more than Width - 1.         *)
Piece ==
    LET rest == SubSeq(input, pos, Len(input))
    IN  SubSeq(rest, 1, Min({FirstOf(rest, {"\n"}), Len(rest), Width - 1}))

CutAtReturn(s) == SubSeq(s, 1, FirstOf(s, {"\r", "\n"}) - 1)

Blank(s) == \A i \in DOMAIN s : s[i] \in Spaces

(* trim_whitespace, behind and in front.                                   *)
TrimEnd(s) ==
    LET n == CHOOSE k \in 0 .. Len(s) :
               /\ \A i \in k + 1 .. Len(s) : s[i] \in Spaces
               /\ k > 0 => s[k] \notin Spaces
    IN  SubSeq(s, 1, n)
TrimStart(s) ==
    SubSeq(s, CHOOSE k \in 1 .. Len(s) + 1 :
                /\ \A i \in 1 .. k - 1 : s[i] \in Spaces
                /\ k <= Len(s) => s[k] \notin Spaces,
           Len(s))
Trim(s) == TrimStart(TrimEnd(s))

(* format_sql_for_log: the buffer of LogWidth characters, "end" being its  *)
(* zero byte; dots overwrite its last characters when the text is longer.  *)
Spaced(s) == [i \in DOMAIN s |-> IF s[i] \in {"\r", "\n", "\t"} THEN " " ELSE s[i]]
Dotted(buffer) ==
    [i \in DOMAIN buffer |->
        IF i \in LogWidth - 3 .. LogWidth - 1 THEN "."
        ELSE IF i = LogWidth THEN "end" ELSE buffer[i]]

(* A defect for comparison: a text that just fits is not yet too long.     *)
TooLongLate(s) == Len(s) > LogWidth
TooLong(s) == Len(s) > LogWidth - 1

LogText(s) ==
    LET kept == SubSeq(Spaced(s), 1, IF TooLong(s) THEN LogWidth - 1 ELSE Len(s))
        end == CHOOSE k \in 0 .. Len(kept) :
                 /\ \A i \in k + 1 .. Len(kept) : kept[i] = " "
                 /\ k > 0 => kept[k] # " "
        buffer == [i \in 1 .. LogWidth |-> IF i <= end THEN kept[i] ELSE "end"]
        final == IF TooLong(s) THEN Dotted(buffer) ELSE buffer
    IN  SubSeq(final, 1, FirstOf(final, {"end"}) - 1)

-----------------------------------------------------------------------------
Init ==
    /\ LexerInit
    /\ \/ mode = "file" /\ input \in Files /\ target = << >>
       \/ mode = "repl" /\ \E p \in Prompts : input = p.typed /\ target = p.target
    /\ pos = 1 /\ pc = "start"
    /\ preload = FALSE /\ ast = FALSE /\ open = FALSE /\ ok = FALSE
    /\ dirs = {} /\ made = 0 /\ prepared = NoTable
    /\ ran = << >> /\ logged = << >> /\ exit = -1

(* The lexer's part of a step that does not lex.                           *)
Keep == UNCHANGED lexer

Exit(status) == pc' = "exit" /\ exit' = status /\ open' = FALSE

FileMissing ==
    /\ pc = "start" /\ mode = "file"
    /\ Exit(1)
    /\ Keep /\ UNCHANGED <<mode, input, pos, preload, ast, ok, dirs, made, prompt, ran, logged>>

OpenFile ==
    /\ pc = "start" /\ mode = "file"
    /\ pc' = "read" /\ preload' = TRUE /\ open' = TRUE
    /\ Keep /\ UNCHANGED <<mode, input, pos, ast, ok, dirs, made, prompt, ran, logged, exit>>

(* parse_table_argument: a table, or a schema and a table.                 *)
Dots(word) == {i \in DOMAIN word : word[i] = "."}

(* A defect for comparison: nothing need follow the dot.                   *)
GoodTargetOpen(word) == word # << >> /\ Cardinality(Dots(word)) <= 1 /\ 1 \notin Dots(word)
GoodTarget(word) ==
    word # << >> /\ Cardinality(Dots(word)) <= 1 /\ {1, Len(word)} \intersect Dots(word) = {}

TableOf(word) ==
    IF Dots(word) = {} THEN [schema |-> DefaultSchema, table |-> word]
    ELSE LET dot == CHOOSE i \in Dots(word) : TRUE
         IN  [schema |-> SubSeq(word, 1, dot - 1),
              table |-> SubSeq(word, dot + 1, Len(word))]

(* To prepare a table may fail, which like a bad argument is only reported. *)
StartPrompt ==
    /\ pc = "start" /\ mode = "repl"
    /\ prepared' \in {NoTable} \union (IF GoodTarget(target) THEN {TableOf(target)} ELSE {})
    /\ pc' = "read"
    /\ Keep
    /\ UNCHANGED <<mode, input, pos, preload, ast, open, ok, dirs, made, target, ran, logged, exit>>

-----------------------------------------------------------------------------
Reading == pc = "read" /\ pos <= Len(input)

(* What is run of a piece: at the prompt the spaces in front stay.         *)
Statement ==
    IF mode = "file" THEN Trim(CutAtReturn(Piece)) ELSE TrimEnd(CutAtReturn(Piece))

(* A line that ends the session is compared before it is trimmed.          *)
Stops == mode = "repl" /\ InCapitals(CutAtReturn(Piece)) \in StopWords

SkipBlank ==
    /\ Reading /\ Blank(CutAtReturn(Piece))
    /\ pos' = pos + Len(Piece)
    /\ Keep
    /\ UNCHANGED <<mode, input, pc, preload, ast, open, ok, dirs, made, prompt, ran, logged, exit>>

Begin ==
    /\ Reading /\ ~Stops /\ ~Blank(CutAtReturn(Piece))
    /\ Lex(Statement)
    /\ pos' = pos + Len(Piece)
    /\ pc' = "lex"
    /\ UNCHANGED <<mode, input, preload, ast, open, ok, dirs, made, prompt, ran, logged, exit>>

(* A defect for comparison: the file is not rewound.                       *)
ContinueAfterPreload == pc' = "read" /\ preload' = FALSE /\ pos' = pos

(* The end of the first loop, with or without a statement to preload.      *)
Rewind == pc' = "read" /\ preload' = FALSE /\ pos' = 1

NothingToPreload ==
    /\ pc = "read" /\ preload /\ pos > Len(input)
    /\ Rewind
    /\ Keep /\ UNCHANGED <<mode, input, ast, open, ok, dirs, made, prompt, ran, logged, exit>>

EndOfInput ==
    /\ pc = "read" /\ ~preload
    /\ pos > Len(input) \/ Stops
    /\ Exit(0)
    /\ Keep /\ UNCHANGED <<mode, input, pos, preload, ast, ok, dirs, made, prompt, ran, logged>>

-----------------------------------------------------------------------------
(* run_sql and preload_sql_context.                                        *)

LexSome == pc = "lex" /\ LexStep /\ UNCHANGED driver

(* A statement is over: a preload returns, any other is logged.            *)
Over(result) ==
    /\ ok' = result
    /\ IF preload THEN Rewind /\ UNCHANGED <<made, ran>>
       ELSE /\ pc' = "log" /\ made' = 0
            /\ ran' = Append(ran, [text |-> sql, ok |-> result])
            /\ UNCHANGED <<preload, pos>>
    /\ UNCHANGED <<mode, input, open, dirs, prompt, logged, exit>>

LexFailed ==
    /\ pc = "lex" /\ lex \in {"refused", "nomemory"}
    /\ lex' = "idle"
    /\ UNCHANGED <<sql, cursor, tokens, items, blocks, failures, ast>>
    /\ Over(FALSE)

FreeAll == FreeTokens(0) /\ ast' = FALSE /\ lex' = "idle" /\ UNCHANGED <<sql, cursor, failures>>

ParseRefuses == pc = "lex" /\ lex = "lexed" /\ FreeAll /\ Over(FALSE)

Parse ==
    /\ pc = "lex" /\ lex = "lexed"
    /\ ast' = TRUE /\ pc' = "execute"
    /\ Keep
    /\ UNCHANGED <<mode, input, pos, preload, open, ok, dirs, made, prompt, ran, logged, exit>>

Execute == pc = "execute" /\ FreeAll /\ \E result \in BOOLEAN : Over(result)

-----------------------------------------------------------------------------
(* append_query_timing_log, which has no result.                           *)

(* One iteration of ensure_parent_directory; a directory may be there.     *)
MakeDirectory ==
    /\ pc = "log" /\ made < Len(LogPath) - 1
    /\ made' = made + 1
    /\ dirs' = dirs \union {SubSeq(LogPath, 1, made + 1)}
    /\ Keep
    /\ UNCHANGED <<mode, input, pos, pc, preload, ast, open, ok, prompt, ran, logged, exit>>

(* A defect for comparison: the file is read on after a failure.           *)
AlwaysNext ==
    /\ pc' = "read"
    /\ UNCHANGED <<open, exit>>

(* The loop of the file stops at a failure, that of the prompt goes on.    *)
NextStatement ==
    IF ok \/ mode = "repl" THEN pc' = "read" /\ UNCHANGED <<open, exit>>
    ELSE Exit(1)

Log ==
    /\ pc = "log" /\ made = Len(LogPath) - 1
    /\ logged' = Append(logged, [of |-> Len(ran), text |-> LogText(sql)])
    /\ NextStatement
    /\ Keep /\ UNCHANGED <<mode, input, pos, preload, ast, ok, dirs, made, prompt, ran>>

LogFails ==
    /\ pc = "log"
    /\ NextStatement
    /\ Keep /\ UNCHANGED <<mode, input, pos, preload, ast, ok, dirs, made, prompt, ran, logged>>

Next ==
    \/ FileMissing \/ OpenFile \/ StartPrompt
    \/ SkipBlank \/ Begin \/ NothingToPreload \/ EndOfInput
    \/ LexSome \/ LexFailed \/ ParseRefuses \/ Parse \/ Execute
    \/ MakeDirectory \/ Log \/ LogFails

Spec == Init /\ [][Next]_vars
=============================================================================
