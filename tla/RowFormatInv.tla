---------------------------- MODULE RowFormatInv ----------------------------
(***************************************************************************)
(* What the row format must guarantee, stated with the meaning of literals *)
(* and not with the functions that write and read bytes.                   *)
(***************************************************************************)
EXTENDS RowFormat, FiniteSetsExt

-----------------------------------------------------------------------------
(* The meaning of a literal: its number, or the characters it quotes.      *)

Value(col, lit) ==
    IF col.type = "INT" THEN [int |-> lit.num]
    ELSE [char |-> IF lit.type = "string"
                     THEN SubSeq(lit.text, 2, Len(lit.text) - 1) ELSE lit.text]

(* A literal that an int and a text buffer can hold.                       *)
Faithful(col, lit) ==
    IF col.type = "INT" THEN lit.num \in -IntMax - 1 .. IntMax
    ELSE Len(lit.text) < TempSize

FaithfulRow(lits) == \A i \in DOMAIN lits : Faithful(ctx.columns[i + 1], lits[i])

(* INT columns that have room for an int.                                  *)
ProperInts == \A i \in DOMAIN ctx.columns :
                 ctx.columns[i].type = "INT" => ctx.columns[i].size >= IntBytes

Rows == RowsOf(ctx.rowSize)
Aligned == Len(Content) % ctx.rowSize = 0

(* The rows this context appended are the last ones of the file.           *)
Stored(i) == Rows[Len(Rows) - Len(given) + i]
Settled == ctx.loaded /\ Aligned /\ ProperInts

-----------------------------------------------------------------------------
(* A schema file that describes a table, in the words of its format: after *)
(* the header, lines that are empty or give a name, a known type and a     *)
(* positive size; at least one of these, at most MaxColumns; and a row     *)
(* that fits the row buffer.                                               *)
Body == SubSeq(schema, 2, Len(schema))
Filled(lines) == Kept(lines, {i \in DOMAIN lines : lines[i].parts # 0})
Given == Filled(Body)
SumTo(lines, n) ==
    LET sum[i \in 0 .. n] == IF i = 0 THEN 0 ELSE sum[i - 1] + lines[i].size
    IN  sum[n]

Readable ==
    /\ schema # NoSchema /\ schema # << >>
    /\ Given # << >>
    /\ \A i \in DOMAIN Given :
         /\ Given[i].parts = 3
         /\ Given[i].type \in {"INT", "CHAR"}
         /\ Given[i].size > 0
    /\ Len(Given) <= MaxColumns
    /\ SumTo(Given, Len(Given)) <= MaxRowSize

(* As many columns as there can be, and an empty line behind them.         *)
EmptyBehindFull == Len(Given) = MaxColumns /\ Body[Len(Body)].parts = 0

(* The columns such a file gives: its names, types and sizes in its order, *)
(* each column where the one before it ends.                               *)
Described(lines) ==
    [i \in DOMAIN lines |->
        [name |-> KeptName[lines[i].name], type |-> lines[i].type,
         size |-> lines[i].size, offset |-> SumTo(lines, i - 1)]]

-----------------------------------------------------------------------------
(* The comparisons of the statement language.                              *)

Before(s, t) ==
    \E n \in 0 .. Least(Len(s), Len(t)) :
        /\ SubSeq(s, 1, n) = SubSeq(t, 1, n)
        /\ IF n = Len(s) THEN n < Len(t) ELSE n < Len(t) /\ s[n + 1] < t[n + 1]

Less(col, v, w) == IF col.type = "INT" THEN v.int < w.int ELSE Before(v.char, w.char)

Holds(col, op, v, w) ==
    \/ op = "="  /\ v = w
    \/ op = "!=" /\ v # w
    \/ op = "<"  /\ Less(col, v, w)
    \/ op = ">"  /\ Less(col, w, v)
    \/ op = "<=" /\ ~Less(col, w, v)
    \/ op = ">=" /\ ~Less(col, v, w)

(* The value of column c in the i-th row of the table, when this context   *)
(* has appended all of them.                                               *)
GivenValue(i, c) ==
    IF c = 1 THEN [int |-> i] ELSE Value(ctx.columns[c], given[i][c - 1])

WhereValues(where) ==
    IF where.kind = "none" THEN {}
    ELSE IF where.kind = "compare" THEN {where.lit}
    ELSE {where.lower, where.upper}

FaithfulWhere(where) ==
    where.kind # "none" =>
      LET c == FindColumn(ctx.columns, where.name)
      IN  c # 0 /\ \A lit \in WhereValues(where) : Faithful(ctx.columns[c], lit)

MeantBy(i, where) ==
    where.kind # "none" =>
      LET c == FindColumn(ctx.columns, where.name)
          col == ctx.columns[c]
      IN  IF where.kind = "compare"
            THEN Holds(col, where.op, GivenValue(i, c), Value(col, where.lit))
          ELSE /\ Holds(col, ">=", GivenValue(i, c), Value(col, where.lower))
               /\ Holds(col, "<=", GivenValue(i, c), Value(col, where.upper))

MeantColumns(list) ==
    IF list = <<"*">> THEN [c \in DOMAIN ctx.columns |-> c]
    ELSE [k \in DOMAIN list |->
            Min({c \in DOMAIN ctx.columns : ctx.columns[c].name = list[k]})]

MeantAnswer(list, where) ==
    LET rows == Kept([i \in DOMAIN given |-> i],
                     {i \in DOMAIN given : MeantBy(i, where)})
    IN  [r \in DOMAIN rows |->
            [k \in DOMAIN MeantColumns(list) |->
                GivenValue(rows[r], MeantColumns(list)[k])]]

-----------------------------------------------------------------------------
(* The variables hold what their comments say, there are never more        *)
(* columns than the array has, and the schema file is open only while it   *)
(* is read.                                                                *)
TypeOK ==
    /\ pc \in {"idle", "reading", "refused", "loaded", "ready", "undefined"}
    /\ Len(columns) <= MaxColumns
    /\ offset \in 0 .. IntMax
    /\ open = (pc = "reading")
    /\ ctx.loaded => Len(ctx.columns) \in 1 .. MaxColumns /\ ctx.rowSize \in 1 .. MaxRowSize
    /\ data = NoFile \/ data \in Seq(Bytes)
    /\ answer.kind \in {"none", "load", "insert", "select"}
    /\ edits \in 0 .. MaxEdits

(* load_table_meta accepts only schema files that describe a table, and    *)
(* its columns are the ones the file describes.  It refuses none of them   *)
(* but those with an empty line behind the last possible column (see       *)
(* LoadsDocumentedFormat).                                                 *)
LoadsAsDescribed ==
    /\ pc = "loaded" => Readable /\ columns = Described(Given)
                         /\ offset = SumTo(Given, Len(Given))
    /\ pc = "refused" => ~Readable \/ EmptyBehindFull

(* Every row this context appended is read back with the values that were  *)
(* given, by the columns of the context: they may differ from those of the *)
(* schema file when that was edited and the row size stayed the same.      *)
RowsComeBack ==
    Settled =>
      \A i \in DOMAIN given :
        FaithfulRow(given[i]) =>
          \A c \in 2 .. Len(ctx.columns) :
            Cell(Stored(i), ctx.columns[c]) = Value(ctx.columns[c], given[i][c - 1])

(* WHERE column = literal finds the row that was inserted with this very   *)
(* literal, even when the literal was cut off on its way into the row.     *)
InsertedIsFound ==
    Settled =>
      \A i \in DOMAIN given : \A c \in 2 .. Len(ctx.columns) :
        FindColumn(ctx.columns, ctx.columns[c].name) = c =>
          Matches(ctx.columns, Stored(i),
                  [kind |-> "compare", name |-> ctx.columns[c].name, op |-> "=",
                   lit |-> given[i][c - 1]])

(* SELECT prints the rows the condition means, in the order of the file,   *)
(* with the columns of its list, when this context appended every row.     *)
SelectsByMeaning ==
    /\ answer.kind = "select" /\ answer.ok /\ pc = "idle"
    /\ Settled /\ Len(given) = Len(Rows)
    /\ \A i \in DOMAIN given : FaithfulRow(given[i])
    /\ FaithfulWhere(answer.where)
    => answer.out = MeantAnswer(answer.list, answer.where)

Numbers == {lit \in UNION {WhereValues(where) : where \in Wheres} : lit.type = "number"}

(* The index has the id that a number means exactly when the scan for ids  *)
(* between that number and itself finds a row, and leads to that row.  An  *)
(* INSERT refused for its id leaves a row behind the counted ones that     *)
(* only the scan finds.                                                    *)
IndexAgreesWithScan ==
    ctx.loaded /\ Aligned =>
      \A lit \in Numbers :
        LET where == [kind |-> "between", name |-> "id", lower |-> lit, upper |-> lit]
            found == {i \in DOMAIN Rows : Matches(ctx.columns, Rows[i], where)}
            id == IntValue(lit)
        IN  IF id \in DOMAIN ctx.index
              THEN found \intersect 1 .. ctx.count = {ctx.index[id] \div ctx.rowSize + 1}
            ELSE found = {}

(* Undefined behaviour has one of three causes: sizes whose sum overflows  *)
(* an int, an INT column too narrow for an int, or a SELECT list with more *)
(* names than a table has columns.  Text of any length is none of them.    *)
UndefinedNeedsCause ==
    pc = "undefined" =>
      \/ answer.kind = "none" /\ offset + Line.size > IntMax
      \/ answer.kind \in {"insert", "select"} /\ ~ProperInts
      \/ answer.kind = "select" /\ Len(answer.list) > MaxColumns

-----------------------------------------------------------------------------
(* Said of the program and not so; each has a run that shows how.          *)

(* Of a schema file empty lines are said to be skipped, and an INT column  *)
(* is said to be an integer of four bytes.                                 *)
Documented ==
    /\ Readable
    /\ \A i \in DOMAIN Given : Given[i].type = "INT" => Given[i].size = IntBytes

(* load_table_meta loads the files of the documented format and refuses    *)
(* all others.                                                             *)
LoadsDocumentedFormat ==
    /\ pc = "loaded" => Documented
    /\ pc = "refused" => ~Documented

(* select_by_id_index is said to find, for id = ?, the offset of the row   *)
(* in the tree and to read and print that one row: what it prints has the  *)
(* id that the statement asks for.                                         *)
PrintsOnlyThatId ==
    answer.kind = "select" /\ answer.ok /\ answer.list = <<"*">> /\ ById(answer.where) =>
      \A r \in DOMAIN answer.out : answer.out[r][1] = [int |-> answer.where.lit.num]
=============================================================================
