------------------------------- MODULE Parser -------------------------------
(***************************************************************************)
(* parse_statement of src/parser.c: one call after another, each on a      *)
(* token array of its own, with the memory of the AST modelled block by    *)
(* block (create_ast_node, append_child, free_ast and sp_strdup of         *)
(* src/util.c).  pc is the place in the parser; it names the step that     *)
(* comes next, and since no function calls itself it needs no stack.  The  *)
(* token array is complete when the parser starts: the model draws a token *)
(* only when the parser gets to it (NextToken), so that it need not        *)
(* enumerate the arrays whose tails nobody reads.  A text is the position  *)
(* of the token it was copied from, 0 for a text the parser supplies.      *)
(***************************************************************************)
EXTENDS Integers, Sequences, FiniteSets, Functions

CONSTANTS
    MaxTokens,    \* bound: the longest token array, its EOF included
    MaxFailures   \* bound: allocations that fail during one statement

ASSUME ParserBounds == MaxTokens \in Nat \ {0} /\ MaxFailures \in Nat

VARIABLES
    tokens,    \* types of the tokens the parser has got to, in order
    index,     \* parser.index: tokens consumed
    pc,        \* the next step; "failed" and "returned" after the statement
    heap,      \* live heap blocks: address -> [type, text, child, next]
    own,       \* the C locals that point to blocks, 0 is NULL
    made,      \* addresses given out during this statement
    message,   \* status.message: "", "Parse error" or "Execution error"
    failures   \* allocations that failed during this statement

vars == <<tokens, index, pc, heap, own, made, message, failures>>

Operators == {"=", "!=", ">", ">=", "<", "<="}
Literals == {"STRING", "NUMBER"}
Keywords == {"INSERT", "INTO", "VALUES", "SELECT", "FROM", "WHERE", "BETWEEN", "AND"}
TokenTypes == {"IDENTIFIER", "*", ",", ".", "(", ")", ";", "EOF"}
                \cup Operators \cup Literals \cup Keywords

Nodes == {"root", "table_node", "schema_node", "table_name_node", "list_node",
          "column_node", "where_node", "operator_node", "value_node",
          "between_node", "lower_node", "upper_node"}
Names == {"first_identifier", "table_text", "column_name"}
Locals == Nodes \cup Names

NULL == 0

-----------------------------------------------------------------------------
(* Memory.                                                                  *)

\* The blocks free_ast(b) passes to free: the node, its children and the
\* siblings after it.  An address that is no live block stands for itself.
Freed(b) ==
    LET F[x \in 0..made] ==
          IF x = NULL THEN {}
          ELSE IF x \notin DOMAIN heap THEN {x}
          ELSE F[heap[x].child] \cup F[heap[x].next] \cup {x}
    IN  F[b]

\* free or free_ast on every local of held, then on to step `to`; a block
\* freed twice, or through a pointer to a block already freed, breaks the run.
Release(held, to) ==
    LET given == {own[v] : v \in {h \in held : own[h] # NULL}}
        lost == UNION {Freed(b) : b \in given}
        sound == /\ \A v, w \in held : v # w => Freed(own[v]) \cap Freed(own[w]) = {}
                 /\ lost \subseteq DOMAIN heap
    IN  /\ heap' = Restrict(heap, DOMAIN heap \ lost)
        /\ pc' = IF sound THEN to ELSE "broken"

\* The early return of a parse function and of its callers: what they hold
\* is freed and the caller of parse_statement gets 0.
Fail(held, text) ==
    /\ Release(held, "failed")
    /\ message' = text

\* malloc succeeds: v points to a fresh block.
Make(v, type, text) ==
    LET b == made + 1
    IN  /\ made' = b
        /\ own' = [own EXCEPT ![v] = b]
        /\ heap' = [x \in DOMAIN heap \cup {b} |->
                      IF x = b THEN [type |-> type, text |-> text, child |-> NULL, next |-> NULL]
                               ELSE heap[x]]

NoMemory == failures < MaxFailures /\ failures' = failures + 1

\* v = create_ast_node(type, text); if (v == NULL) free held and return.
Create(from, v, type, text, to, held) ==
    /\ pc = from
    /\ \/ Make(v, type, text) /\ pc' = to /\ UNCHANGED <<message, failures>>
       \/ NoMemory /\ Fail(held, "Execution error") /\ UNCHANGED <<own, made>>
    /\ UNCHANGED <<tokens, index>>

\* v = create_ast_node(type, text), the result looked at later.
CreateOrNull(from, v, type, text, to) ==
    /\ pc = from
    /\ pc' = to
    /\ \/ Make(v, type, text) /\ UNCHANGED failures
       \/ NoMemory /\ own' = [own EXCEPT ![v] = NULL] /\ UNCHANGED <<heap, made>>
    /\ UNCHANGED <<tokens, index, message>>

\* The last of the siblings that start at b.
LastSibling(b) ==
    LET L[x \in DOMAIN heap] == IF heap[x].next = NULL THEN x ELSE L[heap[x].next]
    IN  L[b]

\* append_child(parent, child): after the last of the parent's children.
AppendChild(from, parent, child, to) ==
    LET p == own[parent]
        c == own[child]
    IN  /\ pc = from
        /\ IF p = NULL \/ c = NULL THEN pc' = to /\ UNCHANGED heap
           ELSE IF {p, c} \subseteq DOMAIN heap
           THEN /\ pc' = to
                /\ heap' = IF heap[p].child = NULL
                           THEN [heap EXCEPT ![p].child = c]
                           ELSE [heap EXCEPT ![LastSibling(heap[p].child)].next = c]
           ELSE pc' = "broken" /\ UNCHANGED heap
        /\ UNCHANGED <<tokens, index, own, made, message, failures>>

-----------------------------------------------------------------------------
(* Tokens.                                                                  *)

Looking(from) == pc = from /\ index < Len(tokens)
Current == tokens[index + 1]

\* expect(type): consumes the token, or frees held and returns.
Expect(from, type, to, held) ==
    /\ Looking(from)
    /\ \/ Current = type /\ index' = index + 1 /\ pc' = to /\ UNCHANGED <<heap, message>>
       \/ Current # type /\ Fail(held, "Parse error") /\ UNCHANGED index
    /\ UNCHANGED <<tokens, own, made, failures>>

\* A defect for comparison: an optional token taken together with the one after it.
MatchTwo(from, type, taken, otherwise) ==
    /\ Looking(from)
    /\ \/ Current = type /\ index' = index + 2 /\ pc' = taken
       \/ Current # type /\ pc' = otherwise /\ UNCHANGED index
    /\ UNCHANGED <<tokens, heap, own, made, message, failures>>

\* if (match(type)): the token is optional.
Match(from, type, taken, otherwise) ==
    /\ Looking(from)
    /\ \/ Current = type /\ index' = index + 1 /\ pc' = taken
       \/ Current # type /\ pc' = otherwise /\ UNCHANGED index
    /\ UNCHANGED <<tokens, heap, own, made, message, failures>>

\* parse_identifier_text: the token is consumed even when its text cannot be
\* copied, and then nothing is said about why the statement fails.
CopyIdentifier(from, v, to, held) ==
    /\ Looking(from)
    /\ \/ /\ Current = "IDENTIFIER"
          /\ index' = index + 1
          /\ \/ Make(v, "TEXT", index + 1) /\ pc' = to /\ UNCHANGED <<message, failures>>
             \/ NoMemory /\ Fail(held, message) /\ UNCHANGED <<own, made>>
       \/ /\ Current # "IDENTIFIER"
          /\ Fail(held, "Parse error")
          /\ UNCHANGED <<index, own, made, failures>>
    /\ UNCHANGED tokens

\* v = parse_value_node(); oom is the message that stays if memory runs out.
ParseValue(from, v, to, held, oom) ==
    /\ Looking(from)
    /\ \/ /\ Current \in Literals
          /\ Make(v, Current, index + 1)
          /\ index' = index + 1
          /\ pc' = to
          /\ UNCHANGED <<message, failures>>
       \/ Current \in Literals /\ NoMemory /\ Fail(held, oom) /\ UNCHANGED <<index, own, made>>
       \/ /\ Current \notin Literals
          /\ Fail(held, "Parse error")
          /\ UNCHANGED <<index, own, made, failures>>
    /\ UNCHANGED tokens

\* free(name) once the nodes that copy its text were tried.
FreeNames(from, held, to) ==
    /\ pc = from
    /\ Release(held, to)
    /\ UNCHANGED <<tokens, index, own, made, message, failures>>

TextOf(v) == IF own[v] \in DOMAIN heap THEN heap[own[v]].text ELSE 0

\* The steps that look at current_token.
Reading == {"start", "into", "table", "dot", "qualified", "values", "(", "value",
            "more values", ")", "star", "column", "more columns", "from", "where",
            "where column", "between", "lower", "and", "upper", "operand",
            "semicolon", "end"}

\* The next token of the array, as far as the parser can tell.
NextToken ==
    /\ pc \in Reading
    /\ index = Len(tokens)
    /\ IF tokens # <<>> /\ tokens[Len(tokens)] = "EOF"
       THEN pc' = "broken" /\ UNCHANGED tokens   \* a read past the array
       ELSE /\ \E t \in TokenTypes :
                 /\ Len(tokens) + 1 = MaxTokens => t = "EOF"
                 /\ tokens' = Append(tokens, t)
            /\ UNCHANGED pc
    /\ UNCHANGED <<index, heap, own, made, message, failures>>

-----------------------------------------------------------------------------
(* parse_statement.  A failing step frees what the function itself and its  *)
(* callers free on that return.  list_node is the column list of a SELECT   *)
(* and the value list of an INSERT, and still NULL when an INSERT reads its *)
(* table.                                                                   *)

Init ==
    /\ tokens = <<>> /\ index = 0 /\ pc = "start"
    /\ heap = [b \in {} |-> NULL]
    /\ own = [v \in Locals |-> NULL]
    /\ made = 0 /\ message = "" /\ failures = 0

\* The first token chooses the statement.
Start ==
    /\ Looking("start")
    /\ \/ /\ Current \in {"INSERT", "SELECT"}
          /\ index' = 1
          /\ pc' = IF Current = "INSERT" THEN "into" ELSE "column list"
          /\ UNCHANGED <<heap, message>>
       \/ Current \notin {"INSERT", "SELECT"} /\ Fail({}, "Parse error") /\ UNCHANGED index
    /\ UNCHANGED <<tokens, own, made, failures>>

Inserting == tokens[1] = "INSERT"

\* parse_insert
Into == Expect("into", "INTO", "table", {})
Values == Expect("values", "VALUES", "(", {"table_node"})
LeftParen == Expect("(", "(", "value list", {"table_node"})
\* A defect for comparison: the value list is not freed.
RightParenLeaks == Expect(")", ")", "semicolon", {"table_node"})
RightParen == Expect(")", ")", "semicolon", {"table_node", "list_node"})

\* parse_value_list_node
ValueList == Create("value list", "list_node", "VALUE_LIST", 0, "value", {"table_node"})
Value == ParseValue("value", "value_node", "value read", {"list_node", "table_node"}, "Execution error")
LinkValue == AppendChild("value read", "list_node", "value_node", "more values")
MoreValues == Match("more values", ",", "value", ")")

\* parse_column_list_node
ColumnList == Create("column list", "list_node", "COLUMN_LIST", 0, "star", {})
Star == Match("star", "*", "all columns", "column")
\* "*" and the operators are texts the parser supplies; the model keeps the
\* position of the token they stand for all the same.
AllColumns == Create("all columns", "column_node", "COLUMN", index, "columns read", {"list_node"})
LinkAll == AppendChild("columns read", "list_node", "column_node", "from")
ColumnName == CopyIdentifier("column", "column_name", "column named", {"list_node"})
Column == CreateOrNull("column named", "column_node", "COLUMN", TextOf("column_name"), "column made")
FreeColumnName == FreeNames("column made", {"column_name"}, "column tried")
\* A defect for comparison: the name is freed again.
ColumnLostTwice ==
    /\ pc = "column tried" /\ own["column_node"] = NULL
    /\ Fail({"column_name", "list_node"}, "Execution error")
    /\ UNCHANGED <<tokens, index, own, made, failures>>
ColumnLost ==
    /\ pc = "column tried" /\ own["column_node"] = NULL
    /\ Fail({"list_node"}, "Execution error")
    /\ UNCHANGED <<tokens, index, own, made, failures>>
LinkColumn ==
    /\ own["column_node"] # NULL
    /\ AppendChild("column tried", "list_node", "column_node", "more columns")
MoreColumns == Match("more columns", ",", "column", "from")

\* parse_select
From == Expect("from", "FROM", "table", {"list_node"})
Where == Match("where", "WHERE", "where column", "semicolon")

\* parse_table_node
TableName == CopyIdentifier("table", "first_identifier", "table named", {"list_node"})
Table == Create("table named", "table_node", "TABLE", 0, "dot", {"first_identifier", "list_node"})
Dot == Match("dot", ".", "qualified", "schema")
QualifiedName == CopyIdentifier("qualified", "table_text", "schema",
                                {"first_identifier", "table_node", "list_node"})

\* Without a dot the schema is DEFAULT_SCHEMA_NAME and the first name the table's.
Qualified == own["table_text"] # NULL
\* A defect for comparison: the name after the dot is taken for the schema.
SchemaLast == CreateOrNull("schema", "schema_node", "IDENTIFIER",
                           IF Qualified THEN TextOf("table_text") ELSE 0, "table name")
Schema == CreateOrNull("schema", "schema_node", "IDENTIFIER",
                       IF Qualified THEN TextOf("first_identifier") ELSE 0, "table name")
TableNameNode == CreateOrNull("table name", "table_name_node", "IDENTIFIER",
                              TextOf(IF Qualified THEN "table_text" ELSE "first_identifier"), "names copied")
FreeTableNames == FreeNames("names copied", {"first_identifier", "table_text"}, "table tried")
\* A defect for comparison: only one of the two nodes is looked at.
TableHalfMade == own["schema_node"] # NULL
TableMade == own["schema_node"] # NULL /\ own["table_name_node"] # NULL
TableLost ==
    /\ pc = "table tried" /\ ~TableMade
    /\ Fail({"schema_node", "table_name_node", "table_node", "list_node"}, "Execution error")
    /\ UNCHANGED <<tokens, index, own, made, failures>>
LinkSchema == TableMade /\ AppendChild("table tried", "table_node", "schema_node", "schema linked")
LinkTableName == AppendChild("schema linked", "table_node", "table_name_node",
                             IF Inserting THEN "values" ELSE "where")

\* parse_where_node; parse_select holds its list and its table.
Held == {"list_node", "table_node"}
WhereColumn == CopyIdentifier("where column", "column_name", "where named", Held)
WhereNode == CreateOrNull("where named", "where_node", "WHERE", 0, "where made")
WhereColumnNode == CreateOrNull("where made", "column_node", "COLUMN", TextOf("column_name"), "where copied")
FreeWhereName == FreeNames("where copied", {"column_name"}, "where tried")
WhereMade == own["where_node"] # NULL /\ own["column_node"] # NULL
WhereLost ==
    /\ pc = "where tried" /\ ~WhereMade
    /\ Fail({"where_node", "column_node"} \cup Held, "Execution error")
    /\ UNCHANGED <<tokens, index, own, made, failures>>
LinkWhereColumn == WhereMade /\ AppendChild("where tried", "where_node", "column_node", "between")

\* The operator's node is made after the value's.  A token that is neither BETWEEN nor an operator ends the parse.
Comparison ==
    /\ Looking("between")
    /\ \/ /\ Current = "BETWEEN" \/ Current \in Operators
          /\ index' = index + 1
          /\ pc' = IF Current = "BETWEEN" THEN "lower" ELSE "operand"
          /\ UNCHANGED <<heap, message>>
       \/ /\ Current \notin Operators \cup {"BETWEEN"}
          /\ Fail({"where_node"} \cup Held, "Parse error")
          /\ UNCHANGED index
    /\ UNCHANGED <<tokens, own, made, failures>>
Operand == ParseValue("operand", "value_node", "operator", {"where_node"} \cup Held, "Execution error")
\* The operator's token is the one before the value's.
Operator == Create("operator", "operator_node", "OPERATOR", index - 1, "operator made",
                   {"where_node", "value_node"} \cup Held)
LinkOperator == AppendChild("operator made", "where_node", "operator_node", "operator linked")
\* A defect for comparison: the value becomes a child of the operator.
LinkOperandBelow ==
    AppendChild("operator linked", "operator_node", "value_node", "semicolon")
LinkOperand == AppendChild("operator linked", "where_node", "value_node", "semicolon")

\* parse_between_node: whatever stopped a bound, the message blames the syntax.
Lower == ParseValue("lower", "lower_node", "and", {"where_node"} \cup Held, "Parse error")
And == Expect("and", "AND", "upper", {"lower_node", "where_node"} \cup Held)
Upper == ParseValue("upper", "upper_node", "bounds read",
                    {"lower_node", "where_node"} \cup Held, "Parse error")
Between == Create("bounds read", "between_node", "BETWEEN", 0, "between made",
                  {"lower_node", "upper_node", "where_node"} \cup Held)
LinkLower == AppendChild("between made", "between_node", "lower_node", "lower linked")
LinkUpper == AppendChild("lower linked", "between_node", "upper_node", "upper linked")
LinkBetween == AppendChild("upper linked", "where_node", "between_node", "semicolon")

\* The end of both statements; where_node is NULL when there is none.
Parts == {"list_node", "table_node", "where_node"}
Semicolon == Match("semicolon", ";", "end", "end")
\* A defect for comparison: what follows the statement is not looked at.
EndUnchecked == Match("end", "EOF", "statement", "statement")
EndOfInput == Expect("end", "EOF", "statement", Parts)
Root == Create("statement", "root", tokens[1], 0, "root made", Parts)
LinkFirst == AppendChild("root made", "root", IF Inserting THEN "table_node" ELSE "list_node", "first linked")
LinkSecond == AppendChild("first linked", "root", IF Inserting THEN "list_node" ELSE "table_node", "second linked")
LinkWhere == AppendChild("second linked", "root", "where_node", "returned")

\* run_sql: the caller prints or executes, frees the tree it got and the
\* tokens, and the next statement is parsed.
NextStatement ==
    /\ pc \in {"failed", "returned"}
    /\ heap' = IF pc = "returned" THEN Restrict(heap, DOMAIN heap \ Freed(own["root"])) ELSE heap
    /\ pc' = "start" /\ tokens' = <<>> /\ index' = 0 /\ made' = 0
    /\ own' = [v \in Locals |-> NULL] /\ message' = "" /\ failures' = 0

Next ==
    \/ NextToken \/ Start
    \/ Into \/ Values \/ LeftParen \/ ValueList \/ Value \/ LinkValue \/ MoreValues \/ RightParen
    \/ ColumnList \/ Star \/ AllColumns \/ LinkAll \/ ColumnName \/ Column \/ FreeColumnName
    \/ ColumnLost \/ LinkColumn \/ MoreColumns \/ From
    \/ TableName \/ Table \/ Dot \/ QualifiedName \/ Schema \/ TableNameNode \/ FreeTableNames
    \/ TableLost \/ LinkSchema \/ LinkTableName
    \/ Where \/ WhereColumn \/ WhereNode \/ WhereColumnNode \/ FreeWhereName \/ WhereLost
    \/ LinkWhereColumn \/ Comparison \/ Operand \/ Operator \/ LinkOperator \/ LinkOperand
    \/ Lower \/ And \/ Upper \/ Between \/ LinkLower \/ LinkUpper \/ LinkBetween
    \/ Semicolon \/ EndOfInput \/ Root \/ LinkFirst \/ LinkSecond \/ LinkWhere
    \/ NextStatement

Spec == Init /\ [][Next]_vars
=============================================================================
