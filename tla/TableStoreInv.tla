--------------------------- MODULE TableStoreInv ----------------------------
(***************************************************************************)
(* What TableStore must keep: the data files, the contexts built from them *)
(* and the answers agree.  The strong properties need a single process and *)
(* no fault; the others say what is left without them.                     *)
(***************************************************************************)
EXTENDS TableStore, FiniteSets

RowCount(t) == Len(Words(t)) \div RowSize
RowsOf(t) == [i \in 1 .. RowCount(t) |-> RowAt(t, (i - 1) * RowSize)]

(* The rows are whole and the i-th row has the id i.                       *)
Dense(words) ==
    /\ Len(words) % RowSize = 0
    /\ \A i \in 1 .. Len(words) \div RowSize : words[RowSize * i - 1] = i

-----------------------------------------------------------------------------
ContextOK(c) ==
    /\ c.table \in Tables \union {NoTable}
    /\ DOMAIN c.index \subseteq Int
    /\ \A k \in DOMAIN c.index : c.index[k] \in Nat
    /\ c.count \in Nat
    /\ c.loaded \in BOOLEAN

ControlOK(p) ==
    /\ pc[p] \in {"idle", "prepare", "build", "execute", "write", "bind",
                  "scan"}
    /\ stmt[p] \in IF pc[p] = "idle" THEN {NoStatement} ELSE Statements
    /\ pc[p] \in {"write", "bind"} => stmt[p].kind = "insert"
    /\ pos[p] \in Nat

(* The types of the files, the contexts and the statement in progress.     *)
TypeOK ==
    /\ \A t \in Tables : file[t] = NoFile \/ file[t] \in Seq(Int)
    /\ \A p \in Procs : ContextOK(ctx[p]) /\ ControlOK(p)
    /\ faults \in 0 .. MaxFaults

(* One process and no fault: append_binary_row numbers the rows 1, 2, ...  *)
(* in the order of the file, across changes of the table and across kills  *)
(* of the process between the write and the index.                         *)
DenseIds == \A t \in Tables : Dense(Words(t))

(* One process and no fault: a loaded context agrees with the file, the    *)
(* index has every id of the file at the offset of its row, record_count   *)
(* counts the rows, and so the next id is free; only the row that is being *)
(* inserted is in the file and not yet in the index.                       *)
IndexAgrees ==
    \A p \in Procs : ctx[p].loaded =>
      LET t == ctx[p].table
          n == ctx[p].count
      IN  /\ DOMAIN ctx[p].index = 1 .. n
          /\ \A k \in 1 .. n : /\ CanRead(t, ctx[p].index[k])
                               /\ RowAt(t, ctx[p].index[k])[1] = k
          /\ RowCount(t) = IF pc[p] = "bind" THEN n + 1 ELSE n

(* The rows of t in the places S are printed, in the order of the file.    *)
Prints(printed, t, S) ==
    /\ Len(printed) = Cardinality(S)
    /\ \A i \in S : printed[Cardinality({j \in S : j <= i})] = RowsOf(t)[i]

(* One process and no fault: WHERE id = k through the index prints the     *)
(* rows of the file with that id, and a scan prints every row that matches *)
(* in the order of the file.                                               *)
SelectsRight ==
    \A p \in Procs : LET s == answer[p].stmt IN
      (answer[p].ok /\ s.table \in IdTables) =>
        LET rows == RowsOf(s.table)
        IN  /\ s.kind = "byId" =>
                 Prints(answer[p].out, s.table, {i \in DOMAIN rows : rows[i][1] = s.arg})
            /\ s.kind = "atLeast" =>
                 Prints(answer[p].out, s.table, {i \in DOMAIN rows : rows[i][1] >= s.arg})

(* One process and no fault: a well-formed statement on a well-formed      *)
(* table only ever fails because the scan finds no data file; a restart    *)
(* always finds a file that it can index again.                            *)
FailsOnlyWithoutFile ==
    \A p \in Procs : LET s == answer[p].stmt IN
      (~answer[p].ok /\ s.table \in IdTables
         /\ s.kind \in {"insert", "byId", "atLeast", "preload"}) =>
            s.kind = "atLeast" /\ file[s.table] = NoFile

(* Several processes, no fault: the contexts go stale, but the offsets in  *)
(* an index are still those of whole rows, so that an indexed read never   *)
(* ends short, and record_count never exceeds the rows of the file.        *)
IndexWithinFile ==
    \A p \in Procs :
      LET t == ctx[p].table
      IN  t # NoTable =>
            /\ ctx[p].count <= RowCount(t)
            /\ \A k \in DOMAIN ctx[p].index :
                 ctx[p].index[k] % RowSize = 0 /\ CanRead(t, ctx[p].index[k])

(* Several processes, no fault: ids are given twice, but never skipped     *)
(* ahead: the i-th row has an id of at most i, and the ids in the file are *)
(* 1 .. n for some n.                                                      *)
IdsWithoutGaps ==
    \A t \in Tables :
      /\ \A i \in 1 .. RowCount(t) : RowsOf(t)[i][1] \in 1 .. i
      /\ \A i \in 1 .. RowCount(t) : \A k \in 1 .. RowsOf(t)[i][1] :
           \E j \in 1 .. i : RowsOf(t)[j][1] = k

(* Several processes, no fault: a row whose INSERT was acknowledged is in  *)
(* the file with the id that was printed and the values that were given.   *)
AckedRowStored ==
    \A p \in Procs :
      (answer[p].stmt.kind = "insert" /\ answer[p].ok) =>
        \E i \in 1 .. RowCount(answer[p].stmt.table) :
          /\ RowsOf(answer[p].stmt.table)[i] = answer[p].out[1]
          /\ answer[p].out[1][2] = answer[p].stmt.arg

(* Rows with n different ids, and behind them only rows that were given the *)
(* id n + 1 although one of the n has it: each of their INSERTs has failed. *)
Numbered(words) ==
    LET rows == Len(words) \div RowSize
        id(i) == words[RowSize * i - 1]
    IN  /\ Len(words) % RowSize = 0
        /\ \E n \in 0 .. rows :
             /\ \A i, j \in 1 .. n : i # j => id(i) # id(j)
             /\ \A i \in n + 1 .. rows : id(i) = n + 1
             /\ n < rows => \E j \in 1 .. n : id(j) = n + 1

(* One process, and data files with any ids: a fault on one table, and the *)
(* loss of the context after it, never disturb the ids of another table.   *)
FaultsStayInTable ==
    Cardinality({t \in Tables : ~Numbered(Words(t))}) <= faults

(* One process, data files with any ids, until a fault: the index has the  *)
(* first record_count rows of the file at their offsets, and every row     *)
(* behind them has the id of one of these and was refused.                 *)
IndexCoversFile ==
    \A p \in Procs : (faults = 0 /\ ctx[p].loaded /\ pc[p] = "idle") =>
      LET rows == RowsOf(ctx[p].table)
          n == ctx[p].count
          index == ctx[p].index
      IN  /\ n <= Len(rows)
          /\ DOMAIN index = {rows[i][1] : i \in 1 .. n}
          /\ \A i \in 1 .. n : index[rows[i][1]] = (i - 1) * RowSize
          /\ \A i \in n + 1 .. Len(rows) :
               rows[i][1] = n + 1 /\ n + 1 \in DOMAIN index

(* One process, data files with any ids, until a fault: when record_count  *)
(* + 1 meets an id of the file the row has been appended and cannot be     *)
(* taken back; from then on no INSERT into that file is acknowledged.      *)
AckedOnlyIfDistinct ==
    \A p \in Procs :
      (faults = 0 /\ answer[p].stmt.kind = "insert" /\ answer[p].ok) =>
        LET rows == RowsOf(answer[p].stmt.table)
        IN  \A i, j \in 1 .. Len(rows) : i # j => rows[i][1] # rows[j][1]

(* Whatever failed: a scan that succeeds has printed a beginning of the    *)
(* rows that match, each once and in the order of the file, and all of     *)
(* them if there is one process and nothing failed.                        *)
ScanPrintsBeginning ==
    \A p \in Procs : LET s == answer[p].stmt IN
      (answer[p].ok /\ s.kind = "atLeast") =>
        LET rows == RowsOf(s.table)
        IN  \E m \in 0 .. Len(rows) :
              /\ Prints(answer[p].out, s.table, {i \in 1 .. m : rows[i][1] >= s.arg})
              /\ (faults = 0 /\ Procs = {p}) => m = Len(rows)

(* The path by which a statement of that kind is executed.                 *)
PathOf(kind) ==
    CASE kind \in {"insert", "badInsert"} -> "insert"
      [] kind = "byId" -> "indexed"
      [] kind \in {"atLeast", "badWhere"} -> "full_scan"
      [] OTHER -> "unknown"

(* A statement that succeeded is logged with the path it was executed by,  *)
(* also after statements on other tables and after faults.                 *)
SuccessLogsItsPath ==
    \A p \in Procs : LET s == answer[p].stmt IN
      (answer[p].ok /\ s.kind \notin {"none", "preload"}) =>
         answer[p].path = PathOf(s.kind)

(* A statement that has begun ends, if its process is scheduled: a build   *)
(* and a scan reach the end of the file.  Stated of a single process: the  *)
(* file does not grow while it is read.                                    *)
StatementsEnd == \A p \in Procs : pc[p] # "idle" ~> pc[p] = "idle"

-----------------------------------------------------------------------------
(* The comment on ExecutionContext: record_count is the number of rows of  *)
(* the data file.  It holds of a loaded context between two statements.    *)
RecordCountIsRowCount ==
    \A p \in Procs : (ctx[p].loaded /\ pc[p] = "idle") =>
      ctx[p].count = RowCount(ctx[p].table)

(* The comment on last_execution_path: the path the last statement really  *)
(* used; a statement that failed before it has none is logged as unknown.  *)
LogsExecutedPath ==
    \A p \in Procs : LET s == answer[p].stmt IN
      s.kind \notin {"none", "preload"} =>
         answer[p].path \in {"unknown", PathOf(s.kind)}
=============================================================================
