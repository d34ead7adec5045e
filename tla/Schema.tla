------------------------------- MODULE Schema -------------------------------
(***************************************************************************)
(* load_table_meta of meta.c: a schema file is read line by line into the  *)
(* columns of a table, each at the offset where the one before it ends.    *)
(* One step is one iteration of its loop.  What fgets returns is a line: a *)
(* line of 255 bytes or more counts as several.  A line is the number of   *)
(* parts parse_csv_line finds in it (0 for an empty line; it looks for no  *)
(* more than three and leaves a further comma to atoi), and of three parts *)
(* the name, the type and what atoi makes of the size.                     *)
(***************************************************************************)
EXTENDS RowCodec

CONSTANTS
    MaxColumns,     \* MAX_COLUMNS
    Names,          \* the names in schema files and statements
    KeptName,       \* what a name buffer of MAX_NAME_LEN keeps of a name
    Lines,          \* the lines a schema file can have
    NoSchema        \* a schema file that does not exist

ASSUME SchemaAssumption ==
    /\ MaxColumns \in Nat \ {0} /\ MaxRowSize < IntMax
    /\ \A l \in Lines :
         /\ l.parts \in 0 .. 3
         /\ l.parts = 3 => l.name \in Names /\ l.size \in -IntMax - 1 .. IntMax
    /\ KeptName \in [Names -> Names]
    /\ NoSchema \notin Seq(Lines)

VARIABLES
    schema,     \* the lines of the schema file, its header first
    pc,         \* what load_table_meta, or the statement it serves, is doing
    next,       \* the line that is read next
    columns,    \* meta->columns
    offset,     \* the sum of the sizes so far
    open        \* whether the file is open

loading == <<next, columns, offset, open>>

Column(line) == [name |-> KeptName[line.name], type |-> line.type,
                 size |-> line.size, offset |-> offset]

Init ==
    /\ pc = "idle"
    /\ next = 1
    /\ columns = << >>
    /\ offset = 0
    /\ open = FALSE

Close(label) == pc' = label /\ open' = FALSE /\ UNCHANGED <<next, columns, offset>>

-----------------------------------------------------------------------------
(* fopen, and the header, which is read and not looked at.                 *)
Open ==
    /\ pc = "idle"
    /\ schema # NoSchema /\ schema # << >>
    /\ pc' = "reading"
    /\ next' = 2
    /\ columns' = << >>
    /\ offset' = 0
    /\ open' = TRUE

OpenFails ==
    /\ pc = "idle"
    /\ schema = NoSchema \/ schema = << >>
    /\ columns' = << >>
    /\ pc' = "refused"
    /\ UNCHANGED <<next, offset, open>>

Reading == pc = "reading" /\ next <= Len(schema)
Line == schema[next]

(* A defect for comparison: one column more than the array has.            *)
FullLate == Len(columns) > MaxColumns

(* Looked at before the line: an empty one after the last column counts.   *)
Full == Len(columns) >= MaxColumns

TooManyColumns == Reading /\ Full /\ Close("refused")

SkipEmptyLine ==
    /\ Reading /\ ~Full
    /\ Line.parts = 0
    /\ next' = next + 1
    /\ UNCHANGED <<pc, columns, offset, open>>

BadParts == Reading /\ ~Full /\ Line.parts \in {1, 2} /\ Close("refused")

BadType ==
    /\ Reading /\ ~Full
    /\ Line.parts = 3 /\ Line.type \notin {"INT", "CHAR"}
    /\ Close("refused")

Typed == Reading /\ ~Full /\ Line.parts = 3 /\ Line.type \in {"INT", "CHAR"}

(* A defect for comparison: the return without fclose.                     *)
BadSizeLeavesOpen ==
    /\ Typed /\ Line.size <= 0
    /\ pc' = "refused"
    /\ UNCHANGED <<next, columns, offset, open>>
BadSize == Typed /\ Line.size <= 0 /\ Close("refused")

NextOffset(line) == offset + line.size

AddColumn ==
    /\ Typed
    /\ Line.size > 0
    /\ NextOffset(Line) <= IntMax
    /\ columns' = Append(columns, Column(Line))
    /\ offset' = NextOffset(Line)
    /\ next' = next + 1
    /\ UNCHANGED <<pc, open>>

(* The sum of the sizes is an int, and looked at only after the last line. *)
OffsetOverflows ==
    /\ Typed
    /\ NextOffset(Line) > IntMax
    /\ Close("undefined")

AtEnd == pc = "reading" /\ next > Len(schema)

(* A defect for comparison: a row may be one byte longer than the buffer.  *)
RowFitsLoosely == offset <= MaxRowSize + 1
RowFits == offset <= MaxRowSize

LoadFails == AtEnd /\ (columns = << >> \/ ~RowFits) /\ Close("refused")
Loaded == AtEnd /\ columns # << >> /\ RowFits /\ Close("loaded")

Load ==
    \/ Open \/ OpenFails
    \/ TooManyColumns \/ SkipEmptyLine \/ BadParts \/ BadType \/ BadSize
    \/ AddColumn \/ OffsetOverflows
    \/ LoadFails \/ Loaded
=============================================================================
