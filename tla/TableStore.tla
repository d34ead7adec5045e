----------------------------- MODULE TableStore -----------------------------
(***************************************************************************)
(* The execution of statements by executor.c and storage.c: processes that *)
(* share the data files on disk, each with the global context g_context    *)
(* (table, id index, record_count) it built from a file once and never     *)
(* compares with the file again.  One step is the work between two system  *)
(* calls.  A process can be killed at any step, and an open, a read, a     *)
(* seek, a write or a malloc can fail, MaxFaults times in all.             *)
(*                                                                         *)
(* A row is two words, the id and the rest of the columns; a data file is  *)
(* the sequence of its words, so that a write cut short leaves a file that *)
(* is no longer a whole number of rows.  The id index is the partial map   *)
(* that IdIndex promises and BPTree implements; offsets count words.       *)
(***************************************************************************)
EXTENDS Integers, Sequences

CONSTANTS
    Procs,          \* the running sql_processor processes
    Tables,         \* the tables a statement can name
    Schemas,        \* those whose schema file exists and is well formed
    IdTables,       \* those of them whose first column is id INT 4
    Payloads,       \* what the columns after the id can hold
    Ids,            \* the ids a WHERE clause asks for
    NoFile,         \* a data file that does not exist
    NoTable,        \* the table of an empty context
    InitialFiles,   \* the data files there can be at the start
    MaxWords,       \* a table of this size gets no INSERT any more (a bound)
    MaxFaults       \* how many system calls may fail (a bound)

RowSize == 2

ASSUME SchemasAssumption ==
    /\ IdTables \subseteq Schemas
    /\ Schemas \subseteq Tables
    /\ NoTable \notin Tables
ASSUME PayloadsAssumption == Payloads \subseteq Int /\ Ids \subseteq Int
ASSUME FilesAssumption ==
    NoFile \notin Seq(Int) /\ InitialFiles \subseteq Seq(Int) \union {NoFile}
ASSUME BoundsAssumption == MaxWords \in Nat /\ MaxFaults \in Nat

VARIABLES
    file,       \* the data file of every table
    ctx,        \* g_context of every process
    pc,         \* where each process is in the statement
    stmt,       \* the statement it executes
    pos,        \* its position in the file it reads
    out,        \* the rows printed so far
    answer,     \* the outcome of its last statement, as logged
    faults      \* how many system calls have failed

vars == <<file, ctx, pc, stmt, pos, out, answer, faults>>

-----------------------------------------------------------------------------
(* A context that has just been reset, for the table whose index is built. *)
ContextFor(t) == [table |-> t, index |-> << >>, count |-> 0,
                  loaded |-> FALSE, path |-> "unknown"]
EmptyContext == ContextFor(NoTable)

Statements ==
    [kind : {"insert"}, table : Tables, arg : Payloads]
      \union [kind : {"byId", "atLeast"}, table : Tables, arg : Ids]
      \union [kind : {"badInsert", "badSelect", "badWhere", "preload"},
              table : Tables, arg : {0}]

(* bptree_insert of an id that is not in the index.                        *)
Bind(index, id, offset) ==
    [k \in DOMAIN index \union {id} |-> IF k = id THEN offset ELSE index[k]]

NoStatement == [kind |-> "none", table |-> NoTable, arg |-> 0]
NoAnswer == [stmt |-> NoStatement, ok |-> TRUE, out |-> << >>,
             path |-> "unknown"]

Words(t) == IF file[t] = NoFile THEN << >> ELSE file[t]

(* fread of a whole row at word offset o.                                  *)
CanRead(t, o) == o + RowSize <= Len(Words(t))
RowAt(t, o) == SubSeq(Words(t), o + 1, o + RowSize)

Fault == faults < MaxFaults /\ faults' = faults + 1

(* run_sql prints the outcome and logs it with last_execution_path.        *)
Finish(p, ok, rows, path) ==
    /\ pc' = [pc EXCEPT ![p] = "idle"]
    /\ stmt' = [stmt EXCEPT ![p] = NoStatement]
    /\ pos' = [pos EXCEPT ![p] = 0]
    /\ out' = [out EXCEPT ![p] = << >>]
    /\ answer' = [answer EXCEPT ![p] = [stmt |-> stmt[p], ok |-> ok,
                                        out |-> rows, path |-> path]]

(* An error leaves the context, and the path it holds, as they are.        *)
Fail(p) == Finish(p, FALSE, out[p], ctx[p].path) /\ UNCHANGED ctx

Goto(p, label) == pc' = [pc EXCEPT ![p] = label]

At(p, label) == pc[p] = label

Table(p) == stmt[p].table

-----------------------------------------------------------------------------
Init ==
    /\ file \in [Tables -> InitialFiles]
    /\ ctx = [p \in Procs |-> EmptyContext]
    /\ pc = [p \in Procs |-> "idle"]
    /\ stmt = [p \in Procs |-> NoStatement]
    /\ pos = [p \in Procs |-> 0]
    /\ out = [p \in Procs |-> << >>]
    /\ answer = [p \in Procs |-> NoAnswer]
    /\ faults = 0

(* run_sql with a statement that parses.                                   *)
Begin(p, s) ==
    /\ At(p, "idle")
    /\ s.kind = "insert" => Len(Words(s.table)) < MaxWords
    /\ stmt' = [stmt EXCEPT ![p] = s]
    /\ answer' = [answer EXCEPT ![p] = NoAnswer]
    /\ Goto(p, "prepare")
    /\ UNCHANGED <<file, ctx, pos, out, faults>>

(* run_sql with a text that lex_sql or parse_statement refuses.            *)
RefuseText(p) ==
    /\ At(p, "idle")
    /\ Finish(p, FALSE, << >>, "unknown")
    /\ UNCHANGED <<file, ctx, faults>>

-----------------------------------------------------------------------------
(* prepare_execution_context and ensure_execution_context.                 *)

(* load_table_meta fails before the context is looked at.                  *)
MetaMissing(p) ==
    /\ At(p, "prepare")
    /\ Table(p) \notin Schemas
    /\ Fail(p)
    /\ UNCHANGED <<file, faults>>

(* The schema file exists and cannot be opened or read.  It is smaller     *)
(* than a buffer of stdio: a read that fails leaves no line of it.         *)
MetaFails(p) ==
    /\ At(p, "prepare")
    /\ Table(p) \in Schemas
    /\ Fault
    /\ Fail(p)
    /\ UNCHANGED file

(* is_same_table_context: the file itself is not looked at.                *)

(* A defect for comparison: any loaded context is taken for the table's.   *)
AnyTable(p) == ctx[p].loaded
SameTable(p) == ctx[p].loaded /\ ctx[p].table = Table(p)

Reuse(p) ==
    /\ At(p, "prepare")
    /\ Table(p) \in Schemas
    /\ SameTable(p)
    /\ Goto(p, "execute")
    /\ UNCHANGED <<file, ctx, stmt, pos, out, answer, faults>>

(* reset_execution_context, and the start of build_id_index_from_data.     *)
Reload(p) ==
    /\ At(p, "prepare")
    /\ Table(p) \in Schemas
    /\ ~SameTable(p)
    /\ ctx' = [ctx EXCEPT ![p] = ContextFor(Table(p))]
    /\ pos' = [pos EXCEPT ![p] = 0]
    /\ Goto(p, "build")
    /\ UNCHANGED <<file, stmt, out, answer, faults>>

(* One iteration: a row is read and its id goes into the index.            *)
BuildRow(p) ==
    /\ At(p, "build")
    /\ Table(p) \in IdTables
    /\ CanRead(Table(p), pos[p])
    /\ LET id == RowAt(Table(p), pos[p])[1]
       IN  /\ id \notin DOMAIN ctx[p].index
           /\ ctx' = [ctx EXCEPT ![p].index = Bind(@, id, pos[p]),
                                 ![p].count = @ + 1]
    /\ pos' = [pos EXCEPT ![p] = @ + RowSize]
    /\ UNCHANGED <<file, pc, stmt, out, answer, faults>>

BuildFails(p) ==
    /\ ctx' = [ctx EXCEPT ![p] = EmptyContext]
    /\ Finish(p, FALSE, << >>, "unknown")
    /\ UNCHANGED file

(* validate_id_column.                                                     *)
BuildRefused(p) ==
    /\ At(p, "build")
    /\ Table(p) \notin IdTables
    /\ BuildFails(p)
    /\ UNCHANGED faults

(* bptree_insert refuses an id that occurs twice in the file.              *)
BuildDuplicate(p) ==
    /\ At(p, "build")
    /\ Table(p) \in IdTables
    /\ CanRead(Table(p), pos[p])
    /\ RowAt(Table(p), pos[p])[1] \in DOMAIN ctx[p].index
    /\ BuildFails(p)
    /\ UNCHANGED faults

(* A read error, or no memory for the index.                               *)
BuildError(p) ==
    /\ At(p, "build")
    /\ Table(p) \in IdTables
    /\ file[Table(p)] # NoFile
    /\ Fault
    /\ BuildFails(p)

(* The index is taken as complete as it is.                                *)
BuildDone(p) ==
    /\ ctx' = [ctx EXCEPT ![p].loaded = TRUE]
    /\ pos' = [pos EXCEPT ![p] = 0]
    /\ Goto(p, "execute")
    /\ UNCHANGED <<file, stmt, out, answer>>

(* A file that cannot be opened is taken for one that does not exist: the  *)
(* index stays empty and the statement goes on.                            *)
BuildOpenFails(p) ==
    /\ At(p, "build")
    /\ Table(p) \in IdTables
    /\ file[Table(p)] # NoFile
    /\ pos[p] = 0
    /\ Fault
    /\ BuildDone(p)

(* No file, or feof: a rest that is shorter than a row is not reported.    *)
BuildEnd(p) ==
    /\ At(p, "build")
    /\ Table(p) \in IdTables
    /\ ~CanRead(Table(p), pos[p])
    /\ BuildDone(p)
    /\ UNCHANGED faults

(* preload_sql_context and preload_table_context prepare and do no more.   *)
PreloadEnd(p) ==
    /\ At(p, "execute")
    /\ stmt[p].kind = "preload"
    /\ Finish(p, TRUE, << >>, ctx[p].path)
    /\ UNCHANGED <<file, ctx, faults>>

-----------------------------------------------------------------------------
(* append_binary_row.                                                      *)

(* A defect for comparison: the path of an earlier statement stays.        *)
SetPathNever(p, path) == UNCHANGED ctx
SetPath(p, path) == ctx' = [ctx EXCEPT ![p].path = path]

(* A defect for comparison: the ids start from zero.                       *)
NextIdFromZero(p) == ctx[p].count
NextId(p) == ctx[p].count + 1

(* A defect for comparison: the offset is taken after the row was counted. *)
NextOffsetLate(p) == (ctx[p].count + 1) * RowSize

(* A defect for comparison: the offset of the row before.                  *)
NextOffsetBefore(p) == (ctx[p].count - 1) * RowSize
NextOffset(p) == ctx[p].count * RowSize
NewRow(p) == <<NextId(p), stmt[p].arg>>

(* A value too many, too few, too long or of the wrong type.               *)
InsertRefused(p) ==
    /\ At(p, "execute")
    /\ stmt[p].kind = "badInsert"
    /\ SetPath(p, "insert")
    /\ Finish(p, FALSE, << >>, "insert")
    /\ UNCHANGED <<file, faults>>

(* fopen in mode "ab" creates the file.                                    *)
InsertOpen(p) ==
    /\ At(p, "execute")
    /\ stmt[p].kind = "insert"
    /\ SetPath(p, "insert")
    /\ file' = [file EXCEPT ![Table(p)] = Words(Table(p))]
    /\ Goto(p, "write")
    /\ UNCHANGED <<stmt, pos, out, answer, faults>>

(* The directory cannot be made or the file cannot be opened.              *)
InsertOpenFails(p) ==
    /\ At(p, "execute")
    /\ stmt[p].kind = "insert"
    /\ Fault
    /\ SetPath(p, "insert")
    /\ Finish(p, FALSE, << >>, "insert")
    /\ UNCHANGED file

(* A defect for comparison: fopen in mode "wb" empties the file.           *)
ReplaceWords(t, words) == file' = [file EXCEPT ![t] = words]
AppendWords(t, words) == file' = [file EXCEPT ![t] = Words(t) \o words]

InsertWrite(p) ==
    /\ At(p, "write")
    /\ AppendWords(Table(p), NewRow(p))
    /\ Goto(p, "bind")
    /\ UNCHANGED <<ctx, stmt, pos, out, answer, faults>>

(* The row fits the buffer of stdio and reaches the file in fclose, whose  *)
(* result is not looked at: a full disk cuts the row and goes unnoticed.   *)
InsertWriteCut(p) ==
    /\ At(p, "write")
    /\ Fault
    /\ \E n \in 0 .. RowSize - 1 : AppendWords(Table(p), SubSeq(NewRow(p), 1, n))
    /\ Goto(p, "bind")
    /\ UNCHANGED <<ctx, stmt, pos, out, answer>>

(* fwrite itself reports the short write.                                  *)
InsertWriteFails(p) ==
    /\ At(p, "write")
    /\ Fault
    /\ \E n \in 0 .. RowSize - 1 : AppendWords(Table(p), SubSeq(NewRow(p), 1, n))
    /\ Fail(p)

(* The new id goes into the index after the row is in the file.            *)
InsertBind(p) ==
    /\ At(p, "bind")
    /\ NextId(p) \notin DOMAIN ctx[p].index
    /\ ctx' = [ctx EXCEPT ![p].index = Bind(@, NextId(p), NextOffset(p)),
                          ![p].count = @ + 1]
    /\ Finish(p, TRUE, <<NewRow(p)>>, "insert")
    /\ UNCHANGED <<file, faults>>

InsertDuplicate(p) ==
    /\ At(p, "bind")
    /\ NextId(p) \in DOMAIN ctx[p].index
    /\ Fail(p)
    /\ UNCHANGED <<file, faults>>

(* No memory for a node of the index: the id is not bound, or it is, or    *)
(* the ids from some k on, old or new, are lost with the right half of a   *)
(* root.  The row stays in the file and record_count is not raised.        *)
InsertNoMemory(p) ==
    /\ At(p, "bind")
    /\ NextId(p) \notin DOMAIN ctx[p].index
    /\ Fault
    /\ \/ UNCHANGED ctx
       \/ LET bound == Bind(ctx[p].index, NextId(p), NextOffset(p))
          IN  \/ ctx' = [ctx EXCEPT ![p].index = bound]
              \/ \E k \in DOMAIN bound :
                   ctx' = [ctx EXCEPT ![p].index =
                             [j \in {i \in DOMAIN bound : i < k} |-> bound[j]]]
    /\ Finish(p, FALSE, << >>, "insert")
    /\ UNCHANGED file

-----------------------------------------------------------------------------
(* execute_select.                                                         *)

(* A column the table does not have: the path is not set yet.              *)
SelectRefused(p) ==
    /\ At(p, "execute")
    /\ stmt[p].kind = "badSelect"
    /\ SetPath(p, "unknown")
    /\ Finish(p, FALSE, << >>, "unknown")
    /\ UNCHANGED <<file, faults>>

(* WHERE id = number: the row is read at the offset the index gives.       *)
SelectById(p) ==
    /\ At(p, "execute")
    /\ stmt[p].kind = "byId"
    /\ SetPath(p, "indexed")
    /\ IF stmt[p].arg \notin DOMAIN ctx[p].index
         THEN Finish(p, TRUE, << >>, "indexed")
         ELSE LET offset == ctx[p].index[stmt[p].arg]
              IN  IF CanRead(Table(p), offset)
                    THEN Finish(p, TRUE, <<RowAt(Table(p), offset)>>, "indexed")
                    ELSE Finish(p, FALSE, << >>, "indexed")
    /\ UNCHANGED <<file, faults>>

(* fopen, fseek or fread fails for an id that the index has.               *)
SelectByIdFails(p) ==
    /\ At(p, "execute")
    /\ stmt[p].kind = "byId"
    /\ stmt[p].arg \in DOMAIN ctx[p].index
    /\ Fault
    /\ SetPath(p, "indexed")
    /\ Finish(p, FALSE, << >>, "indexed")
    /\ UNCHANGED file

(* WHERE id >= number: every row is read and compared.                     *)
ScanOpen(p) ==
    /\ At(p, "execute")
    /\ stmt[p].kind \in {"atLeast", "badWhere"}
    /\ SetPath(p, "full_scan")
    /\ IF file[Table(p)] = NoFile
         THEN Finish(p, FALSE, << >>, "full_scan")
         ELSE Goto(p, "scan") /\ UNCHANGED <<stmt, pos, out, answer>>
    /\ UNCHANGED <<file, faults>>

(* The data file exists and cannot be opened.                              *)
ScanOpenFails(p) ==
    /\ At(p, "execute")
    /\ stmt[p].kind \in {"atLeast", "badWhere"}
    /\ file[Table(p)] # NoFile
    /\ Fault
    /\ SetPath(p, "full_scan")
    /\ Finish(p, FALSE, << >>, "full_scan")
    /\ UNCHANGED file

(* A defect for comparison: the comparison is strict.                      *)
MatchesStrict(p, row) == row[1] > stmt[p].arg
Matches(p, row) == row[1] >= stmt[p].arg

(* A defect for comparison: only a row that matches moves the position.    *)
ScanPosStuck(p, row) == IF Matches(p, row) THEN pos[p] + RowSize ELSE pos[p]
ScanPos(p, row) == pos[p] + RowSize

ScanRow(p) ==
    /\ At(p, "scan")
    /\ stmt[p].kind = "atLeast"
    /\ CanRead(Table(p), pos[p])
    /\ LET row == RowAt(Table(p), pos[p])
       IN  /\ out' = IF Matches(p, row)
                        THEN [out EXCEPT ![p] = Append(@, row)] ELSE out
           /\ pos' = [pos EXCEPT ![p] = ScanPos(p, row)]
    /\ UNCHANGED <<file, ctx, pc, stmt, answer, faults>>

(* A column the table does not have, met when the first row is compared.   *)
ScanRefused(p) ==
    /\ At(p, "scan")
    /\ stmt[p].kind = "badWhere"
    /\ CanRead(Table(p), pos[p])
    /\ Fail(p)
    /\ UNCHANGED <<file, faults>>

(* A short read ends the scan with success, at the end of the file ...     *)
ScanDone(p) == Finish(p, TRUE, out[p], ctx[p].path) /\ UNCHANGED <<file, ctx>>

ScanEnd(p) ==
    /\ At(p, "scan")
    /\ ~CanRead(Table(p), pos[p])
    /\ ScanDone(p)
    /\ UNCHANGED faults

(* ... and before it, by an error: the rows behind are missing.            *)
ScanError(p) ==
    /\ At(p, "scan")
    /\ Fault
    /\ ScanDone(p)

-----------------------------------------------------------------------------
(* The process ends or is killed, and a new one starts.                    *)
Restart(p) ==
    /\ ctx' = [ctx EXCEPT ![p] = EmptyContext]
    /\ pc' = [pc EXCEPT ![p] = "idle"]
    /\ stmt' = [stmt EXCEPT ![p] = NoStatement]
    /\ pos' = [pos EXCEPT ![p] = 0]
    /\ out' = [out EXCEPT ![p] = << >>]
    /\ answer' = [answer EXCEPT ![p] = NoAnswer]
    /\ UNCHANGED <<file, faults>>

Prepare(p) ==
    \/ MetaMissing(p) \/ MetaFails(p) \/ Reuse(p) \/ Reload(p)
    \/ BuildRefused(p) \/ BuildOpenFails(p)
    \/ BuildRow(p) \/ BuildDuplicate(p) \/ BuildError(p) \/ BuildEnd(p)
    \/ PreloadEnd(p)

Insert(p) ==
    \/ InsertRefused(p) \/ InsertOpen(p) \/ InsertOpenFails(p)
    \/ InsertWrite(p) \/ InsertWriteCut(p) \/ InsertWriteFails(p)
    \/ InsertBind(p) \/ InsertDuplicate(p) \/ InsertNoMemory(p)

Select(p) ==
    \/ SelectRefused(p) \/ SelectById(p) \/ SelectByIdFails(p)
    \/ ScanOpen(p) \/ ScanOpenFails(p) \/ ScanRow(p) \/ ScanRefused(p)
    \/ ScanEnd(p) \/ ScanError(p)

Execute(p) == Prepare(p) \/ Insert(p) \/ Select(p)

Next ==
    \E p \in Procs :
        \/ \E s \in Statements : Begin(p, s)
        \/ RefuseText(p)
        \/ Execute(p)
        \/ Restart(p)

Spec == Init /\ [][Next]_vars

(* A process that executes a statement is scheduled until it has finished. *)
FairSpec == Spec /\ \A p \in Procs : WF_vars(Execute(p))
=============================================================================
