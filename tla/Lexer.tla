------------------------------- MODULE Lexer --------------------------------
(***************************************************************************)
(* lex_sql of lexer.c: a text is split into tokens.  One step is one       *)
(* iteration of its loop, with the push_token call it makes; that call     *)
(* grows the array (realloc) and copies the token (malloc), and each of    *)
(* the two can fail.  A text is a sequence of characters; of most kinds of *)
(* characters an instance has one or two.                                  *)
(***************************************************************************)
EXTENDS Integers, Sequences

CONSTANTS
    Spaces, Digits, Letters, Singles,   \* kinds of characters; "_" is a letter
    SingleType,     \* the token type of a single character
    Upper,          \* toupper
    Keywords,       \* the keywords, in capitals
    MaxFailures     \* calls for memory that fail (a bound)

ASSUME LexerAssumption ==
    /\ Letters \subseteq DOMAIN Upper
    /\ MaxFailures \in Nat

(* No character is of two kinds, and the keywords are words in capitals.   *)
Marks == {"!", ">", "<", "=", "'", "+", "-"}

ASSUME KindsAssumption ==
    /\ Spaces \cap (Digits \union Letters \union Singles \union Marks) = {}
    /\ Digits \cap (Letters \union Singles \union Marks \union {"end"}) = {}
    /\ Letters \cap (Singles \union Marks) = {} /\ Singles \cap Marks = {}
    /\ \A c \in Singles :
         SingleType[c] \notin {"NUMBER", "KEYWORD", "IDENTIFIER", "STRING", "OPERATOR", "EOF", "ERROR"}
    /\ \A word \in Keywords :
         /\ word \in Seq({Upper[c] : c \in Letters})
         /\ \A i \in DOMAIN word : word[i] \notin Digits

VARIABLES
    sql,        \* the text
    cursor,     \* the position of the next character
    tokens,     \* array.items[0 .. count - 1]
    items,      \* whether array.items points to a block
    blocks,     \* how many blocks of tokens and their texts are allocated
    lex,        \* "idle", "lexing", "lexed", or why lex_sql failed
    failures    \* how many calls for memory have failed

lexer == <<sql, cursor, tokens, items, blocks, lex, failures>>

LexerInit ==
    /\ sql = << >> /\ cursor = 1 /\ tokens = << >>
    /\ items = FALSE /\ blocks = 0
    /\ lex = "idle" /\ failures = 0

(* The call of lex_sql.                                                    *)
Lex(text) ==
    /\ sql' = text /\ cursor' = 1 /\ tokens' = << >>
    /\ items' = FALSE
    /\ lex' = "lexing"
    /\ UNCHANGED <<blocks, failures>>

(* free_tokens, once `extra` more blocks have been allocated: the array is *)
(* freed with the texts of the tokens it counts.                           *)
FreeTokens(extra) ==
    /\ blocks' = IF items \/ extra > 0 THEN blocks + extra - (1 + Len(tokens)) ELSE blocks
    /\ items' = FALSE
    /\ tokens' = << >>

-----------------------------------------------------------------------------
More == lex = "lexing" /\ cursor <= Len(sql)
Char == sql[cursor]
Following == IF cursor < Len(sql) THEN sql[cursor + 1] ELSE "end"

(* How many characters of a set there are from a position on.              *)
Span(set, from) ==
    CHOOSE n \in 0 .. Len(sql) :
        /\ \A i \in from .. from + n - 1 : i <= Len(sql) /\ sql[i] \in set
        /\ from + n <= Len(sql) => sql[from + n] \notin set

Push(type, n) ==
    /\ tokens' = Append(tokens, [type |-> type, text |-> SubSeq(sql, cursor, cursor + n - 1)])
    /\ cursor' = cursor + n
    /\ blocks' = blocks + (IF items THEN 1 ELSE 2)
    /\ items' = TRUE
    /\ UNCHANGED <<sql, lex, failures>>

(* Either the array cannot grow, or it has grown and the text cannot be    *)
(* copied; then a first block of the array is there without a token.       *)
PushFails ==
    /\ failures < MaxFailures
    /\ failures' = failures + 1
    /\ \E resized \in BOOLEAN : FreeTokens(IF resized /\ ~items THEN 1 ELSE 0)
    /\ lex' = "nomemory"
    /\ UNCHANGED <<sql, cursor>>

Token(type, n) == Push(type, n) \/ PushFails

(* A defect for comparison: the return without free_tokens.                *)
RefuseUnfreed ==
    /\ tokens' = << >>
    /\ lex' = "refused"
    /\ UNCHANGED <<sql, cursor, items, blocks, failures>>

Refuse ==
    /\ FreeTokens(0)
    /\ lex' = "refused"
    /\ UNCHANGED <<sql, cursor, failures>>

-----------------------------------------------------------------------------
SkipSpace ==
    /\ More /\ Char \in Spaces
    /\ cursor' = cursor + 1
    /\ UNCHANGED <<sql, tokens, items, blocks, lex, failures>>

SingleToken == More /\ Char \in Singles /\ Token(SingleType[Char], 1)

Operators == {"!", ">", "<", "="}

(* A defect for comparison: the second character is never looked at.       *)
OperatorLengthOne == 1
OperatorLength == IF Char \in {"!", ">", "<"} /\ Following = "=" THEN 2 ELSE 1

OperatorToken ==
    /\ More /\ Char \in Operators
    /\ ~(Char = "!" /\ OperatorLength = 1)
    /\ Token("OPERATOR", OperatorLength)

BadOperator == More /\ Char = "!" /\ OperatorLength = 1 /\ Refuse

(* The position of the closing quote, behind the text when there is none.  *)
Closing == cursor + 1 + Span({sql[i] : i \in DOMAIN sql} \ {"'"}, cursor + 1)

StringToken == More /\ Char = "'" /\ Closing <= Len(sql) /\ Token("STRING", Closing - cursor + 1)

UnterminatedString == More /\ Char = "'" /\ Closing > Len(sql) /\ Refuse

StartsNumber == Char \in Digits \/ (Char \in {"+", "-"} /\ Following \in Digits)

NumberToken == More /\ StartsNumber /\ Token("NUMBER", 1 + Span(Digits, cursor + 1))

(* equals_ignore_case and keyword_type.                                    *)
InCapitals(word) == [i \in DOMAIN word |-> IF word[i] \in DOMAIN Upper THEN Upper[word[i]] ELSE word[i]]
WordType(word) == IF InCapitals(word) \in Keywords THEN "KEYWORD" ELSE "IDENTIFIER"

WordToken ==
    /\ More /\ Char \in Letters
    /\ LET n == 1 + Span(Letters \union Digits, cursor + 1)
       IN  Token(WordType(SubSeq(sql, cursor, cursor + n - 1)), n)

BadCharacter ==
    /\ More
    /\ Char \notin Spaces \union Singles \union Operators \union Letters \union {"'"}
    /\ ~StartsNumber
    /\ Refuse

EndOfText ==
    /\ lex = "lexing" /\ cursor > Len(sql)
    /\ \/ /\ tokens' = Append(tokens, [type |-> "EOF", text |-> << >>])
          /\ blocks' = blocks + (IF items THEN 1 ELSE 2)
          /\ items' = TRUE
          /\ lex' = "lexed"
          /\ UNCHANGED <<sql, cursor, failures>>
       \/ PushFails

LexStep ==
    \/ SkipSpace \/ SingleToken \/ OperatorToken \/ BadOperator
    \/ StringToken \/ UnterminatedString \/ NumberToken \/ WordToken
    \/ BadCharacter \/ EndOfText
=============================================================================
