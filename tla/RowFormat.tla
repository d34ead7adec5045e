----------------------------- MODULE RowFormat ------------------------------
(***************************************************************************)
(* Statements on one table, down to the bytes: every statement loads the   *)
(* schema file (Schema), executor.c keeps or replaces the context, and     *)
(* storage.c writes and reads rows by the columns of the context (RowCodec)*)
(* in a data file that is one sequence of bytes.  The schema file can be   *)
(* edited between two statements, and the process can be restarted.  Which *)
(* statement it is matters only once its table is ready, so it is chosen   *)
(* there.  An access beyond the row buffer or the list of columns, and an  *)
(* overflow of the sum of sizes, are undefined behaviour and lead to the   *)
(* state "undefined".                                                      *)
(***************************************************************************)
EXTENDS Schema

CONSTANTS
    Schemas,        \* the schema files there can be at the start
    Edits,          \* those it can be replaced with
    ValueLists,     \* the VALUES of the INSERT statements, sequences of literals
    Lists,          \* the column lists of SELECT, "*" being a name
    Wheres,         \* the WHERE clauses
    NoFile,         \* a data file that does not exist
    MaxData,        \* the data file grows up to this size (a bound); its
                    \* rows are no more than an int, record_count, counts
    MaxEdits        \* the schema file is edited this often (a bound)

NoWhere == [kind |-> "none"]
Operators == {"=", "!=", ">", ">=", "<", "<="}

(* What the lexer lets through: no text has a zero byte, a string has its  *)
(* quotes, a number begins with a digit or a sign.                         *)
Literal ==
    {lit \in [type : {"number", "string"}, text : Seq(1 .. Base - 1), num : Int] :
        IF lit.type = "number" THEN Len(lit.text) > 0 /\ lit.text[1] # Quote
        ELSE /\ Len(lit.text) >= 2
             /\ lit.text[1] = Quote /\ lit.text[Len(lit.text)] = Quote}

ASSUME StatementAssumption ==
    /\ ValueLists \subseteq Seq(Literal)
    /\ Lists \subseteq Seq(Names \union {"*"})
    /\ \A where \in Wheres :
         \/ where = NoWhere
         \/ /\ where.kind = "compare" /\ where.op \in Operators
            /\ where.lit \in Literal
         \/ /\ where.kind = "between"
            /\ where.lower \in Literal /\ where.upper \in Literal

ASSUME RowFormatAssumption ==
    /\ Schemas \union Edits \subseteq Seq(Lines) \union {NoSchema}
    /\ NoFile \notin Seq(Bytes)
    /\ MaxData \in 0 .. IntMax * IntBytes /\ MaxEdits \in Nat

VARIABLES
    ctx,        \* g_context
    data,       \* the data file
    given,      \* the values of the rows this context has appended (a ghost)
    answer,     \* the outcome of the last statement
    edits       \* how often the schema file was edited

vars == <<schema, loading, pc, ctx, data, given, answer, edits>>

NoContext == [loaded |-> FALSE, columns |-> << >>, rowSize |-> 0,
              index |-> << >>, count |-> 0]
Answer(kind, ok, list, where, out) ==
    [kind |-> kind, ok |-> ok, list |-> list, where |-> where, out |-> out]
NoAnswer == Answer("none", TRUE, << >>, NoWhere, << >>)

Content == IF data = NoFile THEN << >> ELSE data

(* fread row by row: a rest that is shorter than a row is not seen.        *)
RowsOf(size) ==
    [i \in 1 .. Len(Content) \div size |->
        SubSeq(Content, (i - 1) * size + 1, i * size)]

(* The elements of s at the positions in T, in their order.                *)
Kept(s, T) ==
    LET kept[n \in 0 .. Len(s)] ==
          IF n = 0 THEN << >>
          ELSE IF n \in T THEN Append(kept[n - 1], s[n]) ELSE kept[n - 1]
    IN  kept[Len(s)]

Return(ans) == pc' = "idle" /\ answer' = ans
Undefined(ans) == pc' = "undefined" /\ answer' = ans

TableInit ==
    /\ Init
    /\ schema \in Schemas
    /\ ctx = NoContext
    /\ data = NoFile
    /\ given = << >>
    /\ answer = NoAnswer
    /\ edits = 0

-----------------------------------------------------------------------------
(* prepare_execution_context_for_table.                                    *)

LoadSchema == Load /\ answer' = NoAnswer /\ UNCHANGED <<schema, ctx, data, given, edits>>

Refuse ==
    /\ pc = "refused"
    /\ Return(Answer("load", FALSE, << >>, NoWhere, << >>))
    /\ UNCHANGED <<schema, loading, ctx, data, given, edits>>

(* is_same_table_context: of the columns only their total size counts.     *)
SameTable == ctx.loaded /\ ctx.rowSize = offset

(* A defect for comparison: the context takes the columns just loaded.     *)
ReuseNewColumns ==
    /\ pc = "loaded" /\ SameTable
    /\ pc' = "ready"
    /\ ctx' = [ctx EXCEPT !.columns = columns]
    /\ UNCHANGED <<schema, loading, data, given, answer, edits>>

Reuse ==
    /\ pc = "loaded" /\ SameTable
    /\ pc' = "ready"
    /\ UNCHANGED <<schema, loading, ctx, data, given, answer, edits>>

(* validate_id_column.                                                     *)
IdColumn(c) == c.name = "id" /\ c.type = "INT" /\ c.size = IntBytes

RowId(row) == DecodeInt(SubSeq(row, 1, IntBytes))
DistinctIds(rows) ==
    \A i, j \in DOMAIN rows : i # j => RowId(rows[i]) # RowId(rows[j])

(* build_id_index_from_data: an id met twice is refused by bptree_insert.  *)
Rebuild ==
    /\ pc = "loaded" /\ ~SameTable
    /\ IdColumn(columns[1]) /\ DistinctIds(RowsOf(offset))
    /\ LET rows == RowsOf(offset)
           row(id) == CHOOSE i \in DOMAIN rows : RowId(rows[i]) = id
       IN  ctx' = [loaded |-> TRUE, columns |-> columns, rowSize |-> offset,
                   count |-> Len(rows),
                   index |-> [id \in {RowId(rows[i]) : i \in DOMAIN rows} |->
                                (row(id) - 1) * offset]]
    /\ given' = << >>
    /\ pc' = "ready"
    /\ UNCHANGED <<schema, loading, data, answer, edits>>

RebuildFails ==
    /\ pc = "loaded" /\ ~SameTable
    /\ ~IdColumn(columns[1]) \/ ~DistinctIds(RowsOf(offset))
    /\ ctx' = NoContext
    /\ given' = << >>
    /\ Return(Answer("load", FALSE, << >>, NoWhere, << >>))
    /\ UNCHANGED <<schema, loading, data, edits>>

-----------------------------------------------------------------------------
(* append_binary_row.                                                      *)

Values(lits) == Least(Len(lits), Len(ctx.columns) - 1)
Accepted(lits, i) == Accepts(ctx.columns[i + 1], lits[i])

(* A value is written beyond the row buffer before one is refused.         *)
Overruns(lits) ==
    \E i \in 1 .. Values(lits) :
        /\ \A j \in 1 .. i : Accepted(lits, j)
        /\ ~Fits(ctx.columns[i + 1], Len(ValueBytes(ctx.columns[i + 1], lits[i])))

AllAccepted(lits) ==
    /\ Len(lits) = Len(ctx.columns) - 1
    /\ \A i \in DOMAIN lits : Accepted(lits, i)

(* The id and then the values, in the order of the columns.                *)
NewRow(lits) ==
    LET row[i \in 0 .. Len(lits)] ==
          IF i = 0 THEN Overwrite(Zeros(MaxRowSize), 0, EncodeInt(ctx.count + 1))
          ELSE Overwrite(row[i - 1], ctx.columns[i + 1].offset,
                         ValueBytes(ctx.columns[i + 1], lits[i]))
    IN  SubSeq(row[Len(lits)], 1, ctx.rowSize)

InsertUndefined(lits) ==
    /\ pc = "ready" /\ Overruns(lits)
    /\ Undefined(Answer("insert", FALSE, << >>, NoWhere, << >>))
    /\ UNCHANGED <<schema, loading, ctx, data, given, edits>>

InsertRefused(lits) ==
    /\ pc = "ready" /\ ~Overruns(lits) /\ ~AllAccepted(lits)
    /\ Return(Answer("insert", FALSE, << >>, NoWhere, << >>))
    /\ UNCHANGED <<schema, loading, ctx, data, given, edits>>

(* The row is appended before bptree_insert may refuse its id.             *)
Insert(lits) ==
    /\ pc = "ready" /\ ~Overruns(lits) /\ AllAccepted(lits)
    /\ Len(Content) + ctx.rowSize <= MaxData
    /\ data' = Content \o NewRow(lits)
    /\ given' = Append(given, lits)
    /\ LET id == ctx.count + 1
           fresh == id \notin DOMAIN ctx.index
       IN  /\ ctx' = IF ~fresh THEN ctx
                     ELSE [ctx EXCEPT
                       !.count = id,
                       !.index = [k \in DOMAIN @ \union {id} |->
                         IF k = id THEN (id - 1) * ctx.rowSize ELSE @[k]]]
           /\ Return(Answer("insert", fresh, << >>, NoWhere, << >>))
    /\ UNCHANGED <<schema, loading, edits>>

-----------------------------------------------------------------------------
(* execute_select.                                                         *)

ListColumns(list) ==
    IF list = <<"*">> THEN [i \in DOMAIN ctx.columns |-> i]
    ELSE [i \in DOMAIN list |-> FindColumn(ctx.columns, list[i])]

Unknown(list) == \E i \in DOMAIN ListColumns(list) : ListColumns(list)[i] = 0

(* More known columns, one after the other, than selected_indexes holds.   *)
ListOverruns(list) ==
    /\ Len(ListColumns(list)) > MaxColumns
    /\ \A i \in 1 .. MaxColumns + 1 : ListColumns(list)[i] # 0

Listed(list) == {ListColumns(list)[i] : i \in DOMAIN ListColumns(list)}

(* The column WHERE reads in a row: BETWEEN looks at its types before it   *)
(* reads, a comparison with an int column reads first.                     *)
Compared(where) ==
    IF where.kind = "none" \/ (where.kind = "between" /\ WhereFails(ctx.columns, where))
      THEN {}
    ELSE {FindColumn(ctx.columns, where.name)} \ {0}

(* One of these columns ends behind the row buffer.                        *)
Beyond(cols) == \E i \in cols : ~ReadsWithin(ctx.columns[i])

(* What the row buffer holds behind the row is left from earlier calls.    *)
Behind == IF \A i \in DOMAIN ctx.columns : ctx.columns[i].type = "INT" =>
                ctx.columns[i].offset + IntBytes <= ctx.rowSize
            THEN {0} ELSE Bytes
Buffer(row, b) == row \o [i \in 1 .. MaxRowSize - Len(row) |-> b]

Printed(row, list) ==
    [i \in DOMAIN ListColumns(list) |-> Cell(row, ctx.columns[ListColumns(list)[i]])]

(* extract_index_search_id: WHERE id = number.                             *)
ById(where) ==
    /\ where.kind = "compare" /\ where.name = "id" /\ where.op = "="
    /\ where.lit.type = "number"

(* The row at the offset in the index; fread may find no whole row there.  *)
InIndex(where) == IntValue(where.lit) \in DOMAIN ctx.index
At(where) == ctx.index[IntValue(where.lit)]
WholeRow(where) == At(where) + ctx.rowSize <= Len(Content)
RowAt(where, b) ==
    Buffer(SubSeq(Content, At(where) + 1, At(where) + ctx.rowSize), b)

(* The rows as the scan holds them in its buffer, and those it prints.     *)
Scanned(b) ==
    [i \in DOMAIN RowsOf(ctx.rowSize) |-> Buffer(RowsOf(ctx.rowSize)[i], b)]
Found(where, b) ==
    {i \in DOMAIN Scanned(b) : Matches(ctx.columns, Scanned(b)[i], where)}

(* A row is read beyond the buffer: for WHERE, or to print it.             *)
ScanReadsBeyond(list, where, b) ==
    /\ RowsOf(ctx.rowSize) # << >>
    /\ \/ Beyond(Compared(where))
       \/ /\ ~WhereFails(ctx.columns, where) /\ Beyond(Listed(list))
          /\ Found(where, b) # {}
ReadsBeyond(list, where, b) ==
    IF ById(where) THEN InIndex(where) /\ WholeRow(where) /\ Beyond(Listed(list))
    ELSE ScanReadsBeyond(list, where, b)

SelectUndefined(list, where) ==
    /\ pc = "ready"
    /\ \/ ListOverruns(list)
       \/ ~Unknown(list) /\ \E b \in Behind : ReadsBeyond(list, where, b)
    /\ Undefined(Answer("select", FALSE, list, where, << >>))
    /\ UNCHANGED <<schema, loading, ctx, data, given, edits>>

(* An unknown column, a scan without a data file, a WHERE that fails: the  *)
(* last is only noticed when there is a row.                               *)
SelectFails(list, where) ==
    /\ pc = "ready" /\ ~ListOverruns(list)
    /\ \/ Unknown(list)
       \/ ~ById(where) /\ data = NoFile
       \/ /\ ~ById(where) /\ RowsOf(ctx.rowSize) # << >>
          /\ WhereFails(ctx.columns, where) /\ ~Beyond(Compared(where))
    /\ Return(Answer("select", FALSE, list, where, << >>))
    /\ UNCHANGED <<schema, loading, ctx, data, given, edits>>

Selecting(list) == pc = "ready" /\ ~ListOverruns(list) /\ ~Unknown(list)

SelectById(list, where) ==
    /\ Selecting(list) /\ ById(where)
    /\ IF ~InIndex(where) THEN Return(Answer("select", TRUE, list, where, << >>))
       ELSE IF ~WholeRow(where) THEN Return(Answer("select", FALSE, list, where, << >>))
       ELSE /\ ~Beyond(Listed(list))
            /\ \E b \in Behind :
                 Return(Answer("select", TRUE, list, where,
                               <<Printed(RowAt(where, b), list)>>))
    /\ UNCHANGED <<schema, loading, ctx, data, given, edits>>

SelectScan(list, where) ==
    /\ Selecting(list) /\ ~ById(where) /\ data # NoFile
    /\ RowsOf(ctx.rowSize) = << >> \/ ~WhereFails(ctx.columns, where)
    /\ \E b \in Behind :
         /\ ~ScanReadsBeyond(list, where, b)
         /\ LET found == Kept(Scanned(b), Found(where, b))
            IN  Return(Answer("select", TRUE, list, where,
                              [i \in DOMAIN found |-> Printed(found[i], list)]))
    /\ UNCHANGED <<schema, loading, ctx, data, given, edits>>

-----------------------------------------------------------------------------
Edit ==
    /\ pc = "idle" /\ edits < MaxEdits
    /\ schema' \in Edits \ {schema}
    /\ edits' = edits + 1
    /\ answer' = NoAnswer
    /\ UNCHANGED <<loading, pc, ctx, data, given>>

Restart ==
    /\ pc = "idle" /\ ctx.loaded
    /\ ctx' = NoContext
    /\ given' = << >>
    /\ answer' = NoAnswer
    /\ UNCHANGED <<schema, loading, pc, data, edits>>

Select(list, where) ==
    \/ SelectUndefined(list, where) \/ SelectFails(list, where)
    \/ SelectById(list, where) \/ SelectScan(list, where)

Next ==
    \/ LoadSchema \/ Refuse
    \/ Reuse \/ Rebuild \/ RebuildFails
    \/ \E lits \in ValueLists :
         InsertUndefined(lits) \/ InsertRefused(lits) \/ Insert(lits)
    \/ \E list \in Lists, where \in Wheres : Select(list, where)
    \/ Edit \/ Restart

Spec == TableInit /\ [][Next]_vars
=============================================================================
