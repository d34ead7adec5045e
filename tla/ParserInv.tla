----------------------------- MODULE ParserInv -----------------------------
(***************************************************************************)
(* What parse_statement promises: no block is lost or freed twice on any   *)
(* of its returns, it accepts the statements of the grammar and no others, *)
(* and the tree it returns is the one the executor and storage expect.     *)
(***************************************************************************)
EXTENDS Parser, SequencesExt

Steps == Reading \cup
    {"value list", "value read", "column list", "all columns", "columns read",
     "column named", "column made", "column tried", "table named", "schema",
     "table name", "names copied", "table tried", "schema linked", "where named",
     "where made", "where copied", "where tried", "operator", "operator made",
     "operator linked", "bounds read", "between made", "lower linked",
     "upper linked", "statement", "root made", "first linked", "second linked",
     "failed", "returned", "broken"}

NodeTypes == Literals \cup {"INSERT", "SELECT", "TABLE", "COLUMN", "COLUMN_LIST", "VALUE_LIST",
                            "WHERE", "IDENTIFIER", "OPERATOR", "BETWEEN", "TEXT"}

\* The types and ranges of the parser's state: the index never passes the
\* tokens seen, and every link of a block is NULL or an address given out.
TypeOK ==
    /\ tokens \in Seq(TokenTypes) /\ Len(tokens) <= MaxTokens
    /\ index \in 0..Len(tokens)
    /\ pc \in Steps
    /\ made \in Nat /\ DOMAIN heap \subseteq 1..made
    /\ \A b \in DOMAIN heap :
         heap[b] \in [type : NodeTypes, text : 0..Len(tokens), child : 0..made, next : 0..made]
    /\ own \in [Locals -> 0..made]
    /\ message \in {"", "Parse error", "Execution error"}
    /\ failures \in 0..MaxFailures

\* No block is reached by two pointers of h, so that free_ast, which follows
\* them, meets each block of a tree once.
LinkedOnce(h) ==
    /\ \A p, q \in DOMAIN h : \A b \in {h[p].child, h[p].next} \cap {h[q].child, h[q].next} :
         b # NULL => p = q
    /\ \A p \in DOMAIN h : h[p].child # NULL => h[p].child # h[p].next

\* No return of parse_statement leaks: after a failure, whichever allocation
\* or token caused it, every block made for the statement was freed; after a
\* success the only live blocks are those of the tree that is handed over.
\* And no error path frees a block twice or through a pointer to a freed block,
\* no append_child links a freed node or one that has a parent already, and
\* current_token never reads past EOF.
BlocksFreedOnce ==
    /\ pc # "broken" /\ LinkedOnce(heap)
    /\ pc \in {"start", "failed"} => DOMAIN heap = {}
    /\ pc = "returned" => DOMAIN heap = Freed(own["root"])

-----------------------------------------------------------------------------
(* The grammar, written as sets of token sequences.                         *)

Then(A, B) == {a \o b : a \in A, b \in B}
ListsOf(S) ==
    LET L[n \in 1..MaxTokens] ==
          IF n = 1 THEN {<<s>> : s \in S} ELSE {l \o <<",", s>> : l \in L[n - 1], s \in S}
    IN  UNION {L[n] : n \in 1..(1 + MaxTokens \div 2)}

TableNames == {<<"IDENTIFIER">>, <<"IDENTIFIER", ".", "IDENTIFIER">>}
Conditions == {<<"IDENTIFIER", op, v>> : op \in Operators, v \in Literals}
                \cup {<<"IDENTIFIER", "BETWEEN", l, "AND", u>> : l \in Literals, u \in Literals}
Endings == {<<"EOF">>, <<";", "EOF">>}

Inserts == Then(Then({<<"INSERT", "INTO">>}, TableNames),
                Then({<<"VALUES", "(">> \o l \o <<")">> : l \in ListsOf(Literals)}, Endings))
Selects == Then({<<"SELECT">> \o l \o <<"FROM">> : l \in ListsOf({"IDENTIFIER"}) \cup {<<"*">>}},
                Then(TableNames, Then({<< >>} \cup {<<"WHERE">> \o c : c \in Conditions}, Endings)))
Sentences == Inserts \cup Selects

\* parse_statement accepts exactly the grammar: what it returns 1 for is a
\* sentence with nothing after it, and when memory does not run out it stops at
\* the first token that no sentence has there.
AcceptsGrammar ==
    /\ pc = "returned" => tokens \in Sentences
    /\ pc = "failed" /\ failures = 0 => \A s \in Sentences : ~IsPrefix(tokens, s)

\* A statement that returns 1 lost no allocation on the way: a NULL node is
\* never appended in silence, which would hand over a tree with a part missing.
NoSilentFailure == pc = "returned" => failures = 0

-----------------------------------------------------------------------------
(* The tree.                                                                *)

\* The texts of the tree in the order storage walks it, children first to last.
Spelling(b) ==
    LET S[x \in 0..made] ==
          IF x = NULL THEN << >>
          ELSE (IF heap[x].text = 0 THEN << >> ELSE <<heap[x].text>>)
                 \o S[heap[x].child] \o S[heap[x].next]
    IN  S[b]

Spelled == Literals \cup Operators \cup {"IDENTIFIER", "*"}

\* The tree keeps the statement: each name, operator and literal of the text is
\* in it once, in the order it was written (columns, values and bounds are not
\* swapped, lost or repeated), whatever was freed and made in between.
TreeSpellsStatement ==
    pc = "returned" =>
      Spelling(own["root"]) = SelectSeq([i \in 1..Len(tokens) |-> i], LAMBDA i : tokens[i] \in Spelled)

Children(b) ==
    LET C[x \in 0..made] == IF x = NULL THEN << >> ELSE <<x>> \o C[heap[x].next]
    IN  C[heap[b].child]
Types(b) == [i \in DOMAIN Children(b) |-> heap[Children(b)[i]].type]
FindChild(b, type) == SelectSeq(Children(b), LAMBDA c : heap[c].type = type)

\* The tree has the shape that extract_table_names, find_child and the two
\* extract_*_where_parts rely on: one table with a schema and a name, one list
\* of columns or values, and a WHERE, when one was written, that is either
\* column, operator, value or column, BETWEEN(lower, upper) and never both.
TreeServesExecutor ==
    pc = "returned" =>
      LET root == own["root"]
          table == FindChild(root, "TABLE")
          list == FindChild(root, IF Inserting THEN "VALUE_LIST" ELSE "COLUMN_LIST")
          where == FindChild(root, "WHERE")
          whereTypes == Types(where[1])
      IN  /\ heap[root].type = tokens[1] /\ heap[root].next = NULL
          /\ Len(table) = 1 /\ Types(table[1]) = <<"IDENTIFIER", "IDENTIFIER">>
          /\ heap[Children(table[1])[2]].text > 0
          /\ Len(list) = 1 /\ Types(list[1]) # << >>
          /\ \A t \in ToSet(Types(list[1])) : IF Inserting THEN t \in Literals ELSE t = "COLUMN"
          /\ Len(where) = IF "WHERE" \in ToSet(tokens) THEN 1 ELSE 0
          /\ where # << >> =>
               /\ Head(whereTypes) = "COLUMN"
               /\ \/ Len(whereTypes) = 3 /\ whereTypes[2] = "OPERATOR" /\ whereTypes[3] \in Literals
                  \/ /\ Tail(whereTypes) = <<"BETWEEN">>
                     /\ Len(Types(Children(where[1])[2])) = 2
=============================================================================
