-------------------------- MODULE TableStoreProofs --------------------------
(***************************************************************************)
(* Theorems about TableStore.  TypeCorrect and LogsPathAlways hold for any *)
(* number of processes and faults; the SingleWriter theorems are about one *)
(* process that meets no fault; the Shared theorems about any number of    *)
(* processes that meet no fault; the last three about one process that     *)
(* meets any number of faults.                                             *)
(***************************************************************************)
EXTENDS TableStoreInv, FiniteSetTheorems, TLAPS

-----------------------------------------------------------------------------
(* TypeOK by parts, with the domains of the functions.                     *)

FileInv ==
    /\ DOMAIN file = Tables
    /\ \A t \in Tables : file[t] = NoFile \/ file[t] \in Seq(Int)

ContextInv ==
    /\ DOMAIN ctx = Procs
    /\ \A p \in Procs :
         /\ DOMAIN ctx[p] = {"table", "index", "count", "loaded", "path"}
         /\ ContextOK(ctx[p])

ControlInv ==
    /\ DOMAIN pc = Procs /\ DOMAIN stmt = Procs /\ DOMAIN pos = Procs
    /\ \A p \in Procs : ControlOK(p)

TypeInv ==
    FileInv /\ ContextInv /\ ControlInv /\ faults \in 0 .. MaxFaults

LEMMA TypeInvType == TypeInv => TypeOK
BY DEF TypeInv, FileInv, ContextInv, ControlInv, TypeOK

-----------------------------------------------------------------------------
(* The words of a file, and the rows that can be read from them.           *)

LEMMA WordsType ==
    ASSUME NEW t \in Tables, FileInv
    PROVE  Words(t) \in Seq(Int)
BY DEF FileInv, Words

LEMMA RowType ==
    ASSUME NEW t \in Tables, NEW o \in Nat, FileInv, CanRead(t, o)
    PROVE  /\ RowAt(t, o)[1] = Words(t)[o + 1]
           /\ RowAt(t, o)[1] \in Int
<1> DEFINE w == Words(t)
<1>1. w \in Seq(Int)
  BY WordsType
<1>2. o + 2 <= Len(w) /\ Len(w) \in Nat
  BY <1>1 DEF CanRead, RowSize
<1> HIDE DEF w
<1>3. SubSeq(w, o + 1, o + 2)[1] = w[o + 1] /\ w[o + 1] \in Int
  BY <1>1, <1>2
<1> QED
  BY <1>3 DEF RowAt, RowSize, w

(* A statement in progress names a table.                                  *)
LEMMA TableOf ==
    ASSUME ControlInv, NEW p \in Procs, pc[p] # "idle"
    PROVE  Table(p) \in Tables
BY DEF ControlInv, ControlOK, Statements, Table

-----------------------------------------------------------------------------
(* What the parts of the actions do to the parts of the invariant.         *)

LEMMA FinishTyped ==
    ASSUME ControlInv, NEW p \in Procs, NEW ok, NEW rows, NEW path,
           Finish(p, ok, rows, path)
    PROVE  ControlInv'
BY DEF Finish, ControlInv, ControlOK

LEMMA PathTyped ==
    ASSUME ContextInv, NEW p \in Procs, NEW path, SetPath(p, path)
    PROVE  ContextInv'
BY DEF SetPath, ContextInv, ContextOK

LEMMA ContextForOK ==
    ASSUME NEW t \in Tables \union {NoTable}
    PROVE  /\ DOMAIN ContextFor(t) =
                {"table", "index", "count", "loaded", "path"}
           /\ ContextOK(ContextFor(t))
<1>1. DOMAIN << >> = {}
  OBVIOUS
<1> QED
  BY <1>1 DEF ContextFor, ContextOK

LEMMA ResetTyped ==
    ASSUME ContextInv, NEW p \in Procs, NEW t \in Tables \union {NoTable},
           ctx' = [ctx EXCEPT ![p] = ContextFor(t)]
    PROVE  ContextInv'
BY ContextForOK DEF ContextInv, ContextOK

LEMMA BindTyped ==
    ASSUME ContextInv, NEW p \in Procs, NEW k \in Int, NEW o \in Nat,
           ctx' = [ctx EXCEPT ![p].index = Bind(@, k, o), ![p].count = @ + 1]
    PROVE  ContextInv'
BY DEF ContextInv, ContextOK, Bind

LEMMA NextTyped ==
    ASSUME ContextInv, NEW p \in Procs
    PROVE  NextId(p) \in Int /\ NextOffset(p) \in Nat
BY DEF ContextInv, ContextOK, NextId, NextOffset, RowSize

LEMMA NoMemoryTyped ==
    ASSUME ContextInv, NEW p \in Procs, InsertNoMemory(p)
    PROVE  ContextInv'
<1> DEFINE bound == Bind(ctx[p].index, NextId(p), NextOffset(p))
<1>1. NextId(p) \in Int /\ NextOffset(p) \in Nat
  BY NextTyped
<1>2. DOMAIN bound \subseteq Int /\ \A k \in DOMAIN bound : bound[k] \in Nat
  BY <1>1 DEF ContextInv, ContextOK, Bind
<1>3. UNCHANGED ctx \/ ctx' = [ctx EXCEPT ![p].index = bound]
      \/ \E k \in DOMAIN bound :
           ctx' = [ctx EXCEPT ![p].index =
                     [j \in {i \in DOMAIN bound : i < k} |-> bound[j]]]
  BY DEF InsertNoMemory
<1> HIDE DEF bound
<1>4. CASE UNCHANGED ctx
  BY <1>4 DEF ContextInv
<1>5. CASE ctx' = [ctx EXCEPT ![p].index = bound]
  BY <1>2, <1>5 DEF ContextInv, ContextOK
<1>6. CASE \E k \in DOMAIN bound :
             ctx' = [ctx EXCEPT ![p].index =
                       [j \in {i \in DOMAIN bound : i < k} |-> bound[j]]]
  BY <1>2, <1>6 DEF ContextInv, ContextOK
<1> QED
  BY <1>3, <1>4, <1>5, <1>6

LEMMA LoadedTyped ==
    ASSUME ContextInv, NEW p \in Procs, ctx' = [ctx EXCEPT ![p].loaded = TRUE]
    PROVE  ContextInv'
<1>1. \A q \in Procs : q # p => ctx[q]' = ctx[q]
  BY DEF ContextInv
<1>2. DOMAIN ctx' = Procs /\ DOMAIN ctx[p]' = DOMAIN ctx[p] /\ ctx[p]'.loaded = TRUE
  BY DEF ContextInv
<1>3. /\ ctx[p]'.table = ctx[p].table /\ ctx[p]'.index = ctx[p].index
      /\ ctx[p]'.count = ctx[p].count
  BY DEF ContextInv
<1>4. ContextOK(ctx[p])'
  BY <1>2, <1>3 DEF ContextInv, ContextOK
<1> QED
  BY <1>1, <1>2, <1>4 DEF ContextInv

LEMMA NewRowTyped ==
    ASSUME ContextInv, ControlInv, NEW p \in Procs, pc[p] = "write",
           NEW n \in 0 .. 2
    PROVE  NewRow(p) \in Seq(Int) /\ SubSeq(NewRow(p), 1, n) \in Seq(Int)
<1>1. NextId(p) \in Int
  BY NextTyped
<1>2. stmt[p].arg \in Int
  BY PayloadsAssumption DEF ControlInv, ControlOK, Statements
<1> QED
  BY <1>1, <1>2 DEF NewRow

LEMMA AppendTyped ==
    ASSUME FileInv, NEW t \in Tables, NEW words \in Seq(Int),
           AppendWords(t, words)
    PROVE  FileInv'
BY WordsType DEF FileInv, AppendWords

-----------------------------------------------------------------------------
LEMMA TypeInit == Init => TypeInv
<1> SUFFICES ASSUME Init PROVE TypeInv
  OBVIOUS
<1>1. FileInv
  BY FilesAssumption DEF Init, FileInv
<1>2. ContextInv
  BY ContextForOK DEF Init, ContextInv, EmptyContext
<1>3. ControlInv
  BY DEF Init, ControlInv, ControlOK
<1>4. faults \in 0 .. MaxFaults
  BY BoundsAssumption DEF Init
<1> QED
  BY <1>1, <1>2, <1>3, <1>4 DEF TypeInv

LEMMA TypeStep == TypeInv /\ [Next]_vars => TypeInv'
<1> SUFFICES ASSUME TypeInv, Next PROVE TypeInv'
  <2>1. CASE UNCHANGED vars
    BY <2>1 DEF vars, TypeInv, FileInv, ContextInv, ControlInv, ControlOK
  <2> QED
    BY <2>1
<1> USE DEF TypeInv
<1>1. ASSUME NEW p \in Procs, NEW s \in Statements, Begin(p, s) PROVE TypeInv'
  <2>1. FileInv'
    BY <1>1 DEF Begin, FileInv
  <2>2. ContextInv'
    BY <1>1 DEF Begin, ContextInv
  <2>3. ControlInv'
    BY <1>1 DEF Begin, Goto, At, ControlInv, ControlOK
  <2>4. (faults \in 0 .. MaxFaults)'
    BY <1>1 DEF Begin
  <2> QED
    BY <2>1, <2>2, <2>3, <2>4
<1>2. ASSUME NEW p \in Procs, RefuseText(p) PROVE TypeInv'
  <2>1. FileInv'
    BY <1>2 DEF RefuseText, FileInv
  <2>2. ContextInv'
    BY <1>2 DEF RefuseText, ContextInv
  <2>3. ControlInv'
    BY <1>2, FinishTyped DEF RefuseText
  <2>4. (faults \in 0 .. MaxFaults)'
    BY <1>2 DEF RefuseText
  <2> QED
    BY <2>1, <2>2, <2>3, <2>4
<1>3. ASSUME NEW p \in Procs, MetaMissing(p) PROVE TypeInv'
  <2>1. FileInv'
    BY <1>3 DEF MetaMissing, FileInv
  <2>2. ContextInv'
    BY <1>3 DEF MetaMissing, Fail, ContextInv
  <2>3. ControlInv'
    BY <1>3, FinishTyped DEF MetaMissing, Fail
  <2>4. (faults \in 0 .. MaxFaults)'
    BY <1>3 DEF MetaMissing
  <2> QED
    BY <2>1, <2>2, <2>3, <2>4
<1>4. ASSUME NEW p \in Procs, Reuse(p) PROVE TypeInv'
  <2>1. FileInv'
    BY <1>4 DEF Reuse, FileInv
  <2>2. ContextInv'
    BY <1>4 DEF Reuse, ContextInv
  <2>3. ControlInv'
    BY <1>4 DEF Reuse, Goto, At, ControlInv, ControlOK
  <2>4. (faults \in 0 .. MaxFaults)'
    BY <1>4 DEF Reuse
  <2> QED
    BY <2>1, <2>2, <2>3, <2>4
<1>5. ASSUME NEW p \in Procs, Reload(p) PROVE TypeInv'
  <2>1. FileInv'
    BY <1>5 DEF Reload, FileInv
  <2>2. ContextInv'
    BY <1>5, TableOf, ResetTyped DEF Reload, At
  <2>3. ControlInv'
    BY <1>5 DEF Reload, Goto, At, ControlInv, ControlOK
  <2>4. (faults \in 0 .. MaxFaults)'
    BY <1>5 DEF Reload
  <2> QED
    BY <2>1, <2>2, <2>3, <2>4
<1>6. ASSUME NEW p \in Procs, BuildRefused(p) PROVE TypeInv'
  <2>1. FileInv'
    BY <1>6 DEF BuildRefused, BuildFails, FileInv
  <2>2. ContextInv'
    BY <1>6, ResetTyped DEF BuildRefused, BuildFails, EmptyContext
  <2>3. ControlInv'
    BY <1>6, FinishTyped DEF BuildRefused, BuildFails
  <2>4. (faults \in 0 .. MaxFaults)'
    BY <1>6 DEF BuildRefused, BuildFails
  <2> QED
    BY <2>1, <2>2, <2>3, <2>4
<1>7. ASSUME NEW p \in Procs, BuildRow(p) PROVE TypeInv'
  <2>1. FileInv'
    BY <1>7 DEF BuildRow, FileInv
  <2>2. ContextInv'
    BY <1>7, BindTyped, TableOf, RowType DEF BuildRow, At, ControlInv, ControlOK
  <2>3. ControlInv'
    BY <1>7 DEF BuildRow, At, ControlInv, ControlOK, RowSize
  <2>4. (faults \in 0 .. MaxFaults)'
    BY <1>7 DEF BuildRow
  <2> QED
    BY <2>1, <2>2, <2>3, <2>4
<1>8. ASSUME NEW p \in Procs, BuildDuplicate(p) PROVE TypeInv'
  <2>1. FileInv'
    BY <1>8 DEF BuildDuplicate, BuildFails, FileInv
  <2>2. ContextInv'
    BY <1>8, ResetTyped DEF BuildDuplicate, BuildFails, EmptyContext
  <2>3. ControlInv'
    BY <1>8, FinishTyped DEF BuildDuplicate, BuildFails
  <2>4. (faults \in 0 .. MaxFaults)'
    BY <1>8 DEF BuildDuplicate, BuildFails
  <2> QED
    BY <2>1, <2>2, <2>3, <2>4
<1>9. ASSUME NEW p \in Procs, BuildError(p) PROVE TypeInv'
  <2>1. FileInv'
    BY <1>9 DEF BuildError, BuildFails, FileInv
  <2>2. ContextInv'
    BY <1>9, ResetTyped DEF BuildError, BuildFails, EmptyContext
  <2>3. ControlInv'
    BY <1>9, FinishTyped DEF BuildError, BuildFails
  <2>4. (faults \in 0 .. MaxFaults)'
    BY <1>9, BoundsAssumption DEF BuildError, Fault
  <2> QED
    BY <2>1, <2>2, <2>3, <2>4
<1>10. ASSUME NEW p \in Procs, BuildEnd(p) PROVE TypeInv'
  <2>1. FileInv'
    BY <1>10 DEF BuildEnd, BuildDone, FileInv
  <2>2. ContextInv'
    BY <1>10, LoadedTyped DEF BuildEnd, BuildDone
  <2>3. ControlInv'
    BY <1>10 DEF BuildEnd, BuildDone, Goto, At, ControlInv, ControlOK
  <2>4. (faults \in 0 .. MaxFaults)'
    BY <1>10 DEF BuildEnd, BuildDone
  <2> QED
    BY <2>1, <2>2, <2>3, <2>4
<1>11. ASSUME NEW p \in Procs, PreloadEnd(p) PROVE TypeInv'
  <2>1. FileInv'
    BY <1>11 DEF PreloadEnd, FileInv
  <2>2. ContextInv'
    BY <1>11 DEF PreloadEnd, ContextInv
  <2>3. ControlInv'
    BY <1>11, FinishTyped DEF PreloadEnd
  <2>4. (faults \in 0 .. MaxFaults)'
    BY <1>11 DEF PreloadEnd
  <2> QED
    BY <2>1, <2>2, <2>3, <2>4
<1>12. ASSUME NEW p \in Procs, InsertRefused(p) PROVE TypeInv'
  <2>1. FileInv'
    BY <1>12 DEF InsertRefused, FileInv
  <2>2. ContextInv'
    BY <1>12, PathTyped DEF InsertRefused
  <2>3. ControlInv'
    BY <1>12, FinishTyped DEF InsertRefused
  <2>4. (faults \in 0 .. MaxFaults)'
    BY <1>12 DEF InsertRefused
  <2> QED
    BY <2>1, <2>2, <2>3, <2>4
<1>13. ASSUME NEW p \in Procs, InsertOpen(p) PROVE TypeInv'
  <2>1. FileInv'
    BY <1>13, WordsType, TableOf DEF InsertOpen, At, FileInv
  <2>2. ContextInv'
    BY <1>13, PathTyped DEF InsertOpen
  <2>3. ControlInv'
    BY <1>13 DEF InsertOpen, Goto, At, ControlInv, ControlOK
  <2>4. (faults \in 0 .. MaxFaults)'
    BY <1>13 DEF InsertOpen
  <2> QED
    BY <2>1, <2>2, <2>3, <2>4
<1>14. ASSUME NEW p \in Procs, InsertOpenFails(p) PROVE TypeInv'
  <2>1. FileInv'
    BY <1>14 DEF InsertOpenFails, FileInv
  <2>2. ContextInv'
    BY <1>14, PathTyped DEF InsertOpenFails
  <2>3. ControlInv'
    BY <1>14, FinishTyped DEF InsertOpenFails
  <2>4. (faults \in 0 .. MaxFaults)'
    BY <1>14, BoundsAssumption DEF InsertOpenFails, Fault
  <2> QED
    BY <2>1, <2>2, <2>3, <2>4
<1>15. ASSUME NEW p \in Procs, InsertWrite(p) PROVE TypeInv'
  <2>1. FileInv'
    BY <1>15, AppendTyped, NewRowTyped, TableOf DEF InsertWrite, At
  <2>2. ContextInv'
    BY <1>15 DEF InsertWrite, ContextInv
  <2>3. ControlInv'
    BY <1>15 DEF InsertWrite, Goto, At, ControlInv, ControlOK
  <2>4. (faults \in 0 .. MaxFaults)'
    BY <1>15 DEF InsertWrite
  <2> QED
    BY <2>1, <2>2, <2>3, <2>4
<1>16. ASSUME NEW p \in Procs, InsertWriteCut(p) PROVE TypeInv'
  <2>1. FileInv'
    <3>1. PICK n \in 0 .. 1 : AppendWords(Table(p), SubSeq(NewRow(p), 1, n))
      BY <1>16 DEF InsertWriteCut, RowSize
    <3>2. Table(p) \in Tables /\ pc[p] = "write"
      BY <1>16, TableOf DEF InsertWriteCut, At
    <3>3. SubSeq(NewRow(p), 1, n) \in Seq(Int)
      BY <3>2, NewRowTyped
    <3> QED
      BY <3>1, <3>2, <3>3, AppendTyped
  <2>2. ContextInv'
    BY <1>16 DEF InsertWriteCut, ContextInv
  <2>3. ControlInv'
    BY <1>16 DEF InsertWriteCut, Goto, At, ControlInv, ControlOK
  <2>4. (faults \in 0 .. MaxFaults)'
    BY <1>16, BoundsAssumption DEF InsertWriteCut, Fault
  <2> QED
    BY <2>1, <2>2, <2>3, <2>4
<1>17. ASSUME NEW p \in Procs, InsertWriteFails(p) PROVE TypeInv'
  <2>1. FileInv'
    <3>1. PICK n \in 0 .. 1 : AppendWords(Table(p), SubSeq(NewRow(p), 1, n))
      BY <1>17 DEF InsertWriteFails, RowSize
    <3>2. Table(p) \in Tables /\ pc[p] = "write"
      BY <1>17, TableOf DEF InsertWriteFails, At
    <3>3. SubSeq(NewRow(p), 1, n) \in Seq(Int)
      BY <3>2, NewRowTyped
    <3> QED
      BY <3>1, <3>2, <3>3, AppendTyped
  <2>2. ContextInv'
    BY <1>17 DEF InsertWriteFails, Fail, ContextInv
  <2>3. ControlInv'
    BY <1>17, FinishTyped DEF InsertWriteFails, Fail
  <2>4. (faults \in 0 .. MaxFaults)'
    BY <1>17, BoundsAssumption DEF InsertWriteFails, Fault
  <2> QED
    BY <2>1, <2>2, <2>3, <2>4
<1>18. ASSUME NEW p \in Procs, InsertBind(p) PROVE TypeInv'
  <2>1. FileInv'
    BY <1>18 DEF InsertBind, FileInv
  <2>2. ContextInv'
    BY <1>18, BindTyped, NextTyped DEF InsertBind
  <2>3. ControlInv'
    BY <1>18, FinishTyped DEF InsertBind
  <2>4. (faults \in 0 .. MaxFaults)'
    BY <1>18 DEF InsertBind
  <2> QED
    BY <2>1, <2>2, <2>3, <2>4
<1>19. ASSUME NEW p \in Procs, InsertDuplicate(p) PROVE TypeInv'
  <2>1. FileInv'
    BY <1>19 DEF InsertDuplicate, FileInv
  <2>2. ContextInv'
    BY <1>19 DEF InsertDuplicate, Fail, ContextInv
  <2>3. ControlInv'
    BY <1>19, FinishTyped DEF InsertDuplicate, Fail
  <2>4. (faults \in 0 .. MaxFaults)'
    BY <1>19 DEF InsertDuplicate
  <2> QED
    BY <2>1, <2>2, <2>3, <2>4
<1>20. ASSUME NEW p \in Procs, InsertNoMemory(p) PROVE TypeInv'
  <2>1. FileInv'
    BY <1>20 DEF InsertNoMemory, FileInv
  <2>2. ContextInv'
    BY <1>20, NoMemoryTyped DEF InsertNoMemory
  <2>3. ControlInv'
    BY <1>20, FinishTyped DEF InsertNoMemory
  <2>4. (faults \in 0 .. MaxFaults)'
    BY <1>20, BoundsAssumption DEF InsertNoMemory, Fault
  <2> QED
    BY <2>1, <2>2, <2>3, <2>4
<1>21. ASSUME NEW p \in Procs, SelectRefused(p) PROVE TypeInv'
  <2>1. FileInv'
    BY <1>21 DEF SelectRefused, FileInv
  <2>2. ContextInv'
    BY <1>21, PathTyped DEF SelectRefused
  <2>3. ControlInv'
    BY <1>21, FinishTyped DEF SelectRefused
  <2>4. (faults \in 0 .. MaxFaults)'
    BY <1>21 DEF SelectRefused
  <2> QED
    BY <2>1, <2>2, <2>3, <2>4
<1>22. ASSUME NEW p \in Procs, SelectById(p) PROVE TypeInv'
  <2>1. FileInv'
    BY <1>22 DEF SelectById, FileInv
  <2>2. ContextInv'
    BY <1>22, PathTyped DEF SelectById
  <2>3. ControlInv'
    BY <1>22, FinishTyped DEF SelectById
  <2>4. (faults \in 0 .. MaxFaults)'
    BY <1>22 DEF SelectById
  <2> QED
    BY <2>1, <2>2, <2>3, <2>4
<1>23. ASSUME NEW p \in Procs, ScanOpen(p) PROVE TypeInv'
  <2>1. FileInv'
    BY <1>23 DEF ScanOpen, FileInv
  <2>2. ContextInv'
    BY <1>23, PathTyped DEF ScanOpen
  <2>3. ControlInv'
    BY <1>23, FinishTyped DEF ScanOpen, Goto, At, ControlInv, ControlOK
  <2>4. (faults \in 0 .. MaxFaults)'
    BY <1>23 DEF ScanOpen
  <2> QED
    BY <2>1, <2>2, <2>3, <2>4
<1>24. ASSUME NEW p \in Procs, ScanRow(p) PROVE TypeInv'
  <2>1. FileInv'
    BY <1>24 DEF ScanRow, FileInv
  <2>2. ContextInv'
    BY <1>24 DEF ScanRow, ContextInv
  <2>3. ControlInv'
    BY <1>24 DEF ScanRow, ScanPos, At, ControlInv, ControlOK, RowSize
  <2>4. (faults \in 0 .. MaxFaults)'
    BY <1>24 DEF ScanRow
  <2> QED
    BY <2>1, <2>2, <2>3, <2>4
<1>25. ASSUME NEW p \in Procs, ScanRefused(p) PROVE TypeInv'
  <2>1. FileInv'
    BY <1>25 DEF ScanRefused, FileInv
  <2>2. ContextInv'
    BY <1>25 DEF ScanRefused, Fail, ContextInv
  <2>3. ControlInv'
    BY <1>25, FinishTyped DEF ScanRefused, Fail
  <2>4. (faults \in 0 .. MaxFaults)'
    BY <1>25 DEF ScanRefused
  <2> QED
    BY <2>1, <2>2, <2>3, <2>4
<1>26. ASSUME NEW p \in Procs, ScanEnd(p) PROVE TypeInv'
  <2>1. FileInv'
    BY <1>26 DEF ScanEnd, ScanDone, FileInv
  <2>2. ContextInv'
    BY <1>26 DEF ScanEnd, ScanDone, ContextInv
  <2>3. ControlInv'
    BY <1>26, FinishTyped DEF ScanEnd, ScanDone
  <2>4. (faults \in 0 .. MaxFaults)'
    BY <1>26 DEF ScanEnd, ScanDone
  <2> QED
    BY <2>1, <2>2, <2>3, <2>4
<1>27. ASSUME NEW p \in Procs, Restart(p) PROVE TypeInv'
  <2>1. FileInv'
    BY <1>27 DEF Restart, FileInv
  <2>2. ContextInv'
    BY <1>27, ResetTyped DEF Restart, EmptyContext
  <2>3. ControlInv'
    BY <1>27 DEF Restart, ControlInv, ControlOK
  <2>4. (faults \in 0 .. MaxFaults)'
    BY <1>27 DEF Restart
  <2> QED
    BY <2>1, <2>2, <2>3, <2>4
<1>28. ASSUME NEW p \in Procs, MetaFails(p) PROVE TypeInv'
  <2>1. FileInv'
    BY <1>28 DEF MetaFails, FileInv
  <2>2. ContextInv'
    BY <1>28 DEF MetaFails, Fail, ContextInv
  <2>3. ControlInv'
    BY <1>28, FinishTyped DEF MetaFails, Fail
  <2>4. (faults \in 0 .. MaxFaults)'
    BY <1>28, BoundsAssumption DEF MetaFails, Fault
  <2> QED
    BY <2>1, <2>2, <2>3, <2>4
<1>29. ASSUME NEW p \in Procs, BuildOpenFails(p) PROVE TypeInv'
  <2>1. FileInv'
    BY <1>29 DEF BuildOpenFails, BuildDone, FileInv
  <2>2. ContextInv'
    BY <1>29, LoadedTyped DEF BuildOpenFails, BuildDone
  <2>3. ControlInv'
    BY <1>29 DEF BuildOpenFails, BuildDone, Goto, At, ControlInv, ControlOK
  <2>4. (faults \in 0 .. MaxFaults)'
    BY <1>29, BoundsAssumption DEF BuildOpenFails, Fault
  <2> QED
    BY <2>1, <2>2, <2>3, <2>4
<1>30. ASSUME NEW p \in Procs, SelectByIdFails(p) PROVE TypeInv'
  <2>1. FileInv'
    BY <1>30 DEF SelectByIdFails, FileInv
  <2>2. ContextInv'
    BY <1>30, PathTyped DEF SelectByIdFails
  <2>3. ControlInv'
    BY <1>30, FinishTyped DEF SelectByIdFails
  <2>4. (faults \in 0 .. MaxFaults)'
    BY <1>30, BoundsAssumption DEF SelectByIdFails, Fault
  <2> QED
    BY <2>1, <2>2, <2>3, <2>4
<1>31. ASSUME NEW p \in Procs, ScanOpenFails(p) PROVE TypeInv'
  <2>1. FileInv'
    BY <1>31 DEF ScanOpenFails, FileInv
  <2>2. ContextInv'
    BY <1>31, PathTyped DEF ScanOpenFails
  <2>3. ControlInv'
    BY <1>31, FinishTyped DEF ScanOpenFails
  <2>4. (faults \in 0 .. MaxFaults)'
    BY <1>31, BoundsAssumption DEF ScanOpenFails, Fault
  <2> QED
    BY <2>1, <2>2, <2>3, <2>4
<1>32. ASSUME NEW p \in Procs, ScanError(p) PROVE TypeInv'
  <2>1. FileInv'
    BY <1>32 DEF ScanError, ScanDone, FileInv
  <2>2. ContextInv'
    BY <1>32 DEF ScanError, ScanDone, ContextInv
  <2>3. ControlInv'
    BY <1>32, FinishTyped DEF ScanError, ScanDone
  <2>4. (faults \in 0 .. MaxFaults)'
    BY <1>32, BoundsAssumption DEF ScanError, Fault
  <2> QED
    BY <2>1, <2>2, <2>3, <2>4
<1> QED
  BY <1>1, <1>2, <1>3, <1>4, <1>5, <1>6, <1>7, <1>8, <1>9, <1>10, <1>11,
     <1>12, <1>13, <1>14, <1>15, <1>16, <1>17, <1>18, <1>19, <1>20, <1>21,
     <1>22, <1>23, <1>24, <1>25, <1>26, <1>27, <1>28, <1>29, <1>30, <1>31, <1>32
     DEF Next, Execute, Prepare, Insert, Select

(* The types and the shape of the state, for any number of processes,      *)
(* tables and faults: ids in an index are integers, offsets and positions  *)
(* are never negative, and a row is only written for an INSERT.            *)
THEOREM TypeCorrect == Spec => []TypeOK
<1>1. Init => TypeInv
  BY TypeInit
<1>2. TypeInv /\ [Next]_vars => TypeInv'
  BY TypeStep
<1>3. TypeInv => TypeOK
  BY TypeInvType
<1> QED
  BY <1>1, <1>2, <1>3, PTL DEF Spec

-----------------------------------------------------------------------------
(* One process, no fault, and files that INSERT could have left.           *)
SingleWriterAssumption ==
    /\ \A p, q \in Procs : p = q
    /\ MaxFaults = 0
    /\ \A f \in InitialFiles : f = NoFile \/ Dense(f)

(* DenseIds and IndexAgrees are not inductive: while an index is built it  *)
(* has the rows before the position that is read, and between the write    *)
(* and the binding the file is one row ahead.                              *)
Agree(p) ==
    LET c == ctx[p]
        n == Len(Words(c.table))
    IN  /\ DOMAIN c.index = 1 .. c.count
        /\ \A k \in 1 .. c.count : c.index[k] = 2 * (k - 1)
        /\ c.table # NoTable => 2 * c.count <= n
        /\ c.loaded => /\ c.table # NoTable
                       /\ pc[p] # "bind" => n = 2 * c.count
                       /\ pc[p] = "bind" => n = 2 * c.count + 2
        /\ pc[p] = "build" => /\ c.table = Table(p) /\ ~c.loaded
                              /\ pos[p] = 2 * c.count
        /\ pc[p] \in {"execute", "write", "bind", "scan"} =>
             c.table = Table(p) /\ c.loaded

WriterInv ==
    /\ TypeInv
    /\ DenseIds
    /\ \A p \in Procs : Agree(p)

-----------------------------------------------------------------------------
LEMMA DenseLength ==
    ASSUME NEW w \in Seq(Int), Dense(w)
    PROVE  /\ Len(w) \in Nat /\ Len(w) % 2 = 0
           /\ \A i \in 1 .. Len(w) \div 2 : w[2 * i - 1] = i
BY DEF Dense, RowSize

LEMMA EvenBetween ==
    ASSUME NEW n \in Nat, NEW m \in Nat, n % 2 = 0, 2 * m <= n,
           ~(2 * m + 2 <= n)
    PROVE  n = 2 * m
OBVIOUS

(* Another row with the next number keeps the numbering dense.             *)
LEMMA DenseAppend ==
    ASSUME NEW w \in Seq(Int), Dense(w), NEW n \in Nat, Len(w) = 2 * n,
           NEW x \in Int
    PROVE  /\ Dense(w \o <<n + 1, x>>)
           /\ Len(w \o <<n + 1, x>>) = 2 * n + 2
<1> DEFINE v == w \o <<n + 1, x>>
<1>1. Len(v) = 2 * n + 2
  OBVIOUS
<1>2. \A j \in 1 .. 2 * n : v[j] = w[j]
  OBVIOUS
<1>3. v[2 * n + 1] = n + 1
  OBVIOUS
<1>4. \A i \in 1 .. n : w[2 * i - 1] = i
  <2>1. Len(w) \div 2 = n
    OBVIOUS
  <2> QED
    BY <2>1, DenseLength
<1> HIDE DEF v
<1>5. \A i \in 1 .. n + 1 : v[2 * i - 1] = i
  <2> TAKE i \in 1 .. n + 1
  <2>1. CASE i \in 1 .. n
    BY <2>1, <1>2, <1>4
  <2>2. CASE i = n + 1
    BY <2>2, <1>3
  <2> QED
    BY <2>1, <2>2
<1>6. Len(v) \div 2 = n + 1 /\ Len(v) % 2 = 0
  BY <1>1
<1>7. Dense(v)
  BY <1>5, <1>6 DEF Dense, RowSize
<1> QED
  BY <1>1, <1>7 DEF v

(* The row at offset 2 n of a dense file has the id n + 1.                 *)
LEMMA DenseRow ==
    ASSUME TypeInv, NEW t \in Tables, Dense(Words(t)), NEW n \in Nat,
           2 * n + 2 <= Len(Words(t))
    PROVE  CanRead(t, 2 * n) /\ RowAt(t, 2 * n)[1] = n + 1
<1>1. Words(t) \in Seq(Int)
  BY WordsType DEF TypeInv
<1>2. CanRead(t, 2 * n)
  BY DEF CanRead, RowSize
<1>3. RowAt(t, 2 * n)[1] = Words(t)[2 * n + 1]
  BY <1>2, RowType DEF TypeInv
<1>4. n + 1 \in 1 .. Len(Words(t)) \div 2
  BY <1>1
<1>5. Words(t)[2 * (n + 1) - 1] = n + 1
  BY <1>1, <1>4, DenseLength
<1> QED
  BY <1>2, <1>3, <1>5

LEMMA WordsUnchanged ==
    ASSUME NEW t, UNCHANGED file PROVE Words(t)' = Words(t)
BY DEF Words

-----------------------------------------------------------------------------
LEMMA WriterInit == SingleWriterAssumption /\ Init => WriterInv
<1> SUFFICES ASSUME SingleWriterAssumption, Init PROVE WriterInv
  OBVIOUS
<1>1. TypeInv
  BY TypeInit
<1>2. Dense(<< >>)
  BY DEF Dense, RowSize
<1>3. DenseIds
  BY <1>2 DEF SingleWriterAssumption, Init, DenseIds, Words
<1>4. ASSUME NEW p \in Procs PROVE Agree(p)
  <2>1. DOMAIN << >> = 1 .. 0
    OBVIOUS
  <2> QED
    BY <2>1 DEF Init, Agree, EmptyContext, ContextFor
<1> QED
  BY <1>1, <1>3, <1>4 DEF WriterInv

LEMMA NoFault ==
    ASSUME ~Fault, NEW p \in Procs
    PROVE  /\ ~MetaFails(p) /\ ~BuildError(p) /\ ~BuildOpenFails(p)
           /\ ~InsertOpenFails(p) /\ ~InsertWriteCut(p) /\ ~InsertWriteFails(p)
           /\ ~InsertNoMemory(p) /\ ~SelectByIdFails(p) /\ ~ScanOpenFails(p)
           /\ ~ScanError(p)
BY DEF MetaFails, BuildError, BuildOpenFails, InsertOpenFails, InsertWriteCut,
       InsertWriteFails, InsertNoMemory, SelectByIdFails, ScanOpenFails,
       ScanError

LEMMA WriterStep ==
    SingleWriterAssumption /\ WriterInv /\ [Next]_vars => WriterInv'
<1> SUFFICES ASSUME SingleWriterAssumption, WriterInv, [Next]_vars
             PROVE  WriterInv'
  OBVIOUS
<1>1. TypeInv /\ TypeInv'
  BY TypeStep DEF WriterInv
<1>2. faults = 0 /\ ~Fault
  BY <1>1 DEF SingleWriterAssumption, TypeInv, Fault
<1>3. CASE UNCHANGED vars
  <2>1. \A t \in Tables : Words(t)' = Words(t)
    BY <1>3 DEF vars, Words
  <2> QED
    BY <1>1, <1>3, <2>1
       DEF vars, WriterInv, DenseIds, Agree, Words, Table
<1> SUFFICES ASSUME NEW p \in Procs,
                    \/ \E s \in Statements : Begin(p, s)
                    \/ RefuseText(p) \/ Execute(p) \/ Restart(p)
             PROVE  DenseIds' /\ Agree(p)'
  BY <1>1, <1>3 DEF WriterInv, SingleWriterAssumption, Next
<1> DEFINE c == ctx[p]
<1>4. /\ c.count \in Nat /\ Agree(p)
      /\ p \in DOMAIN ctx /\ p \in DOMAIN pc /\ p \in DOMAIN pos
      /\ p \in DOMAIN stmt
      /\ DOMAIN c = {"table", "index", "count", "loaded", "path"}
      /\ \A t \in Tables : Words(t) \in Seq(Int) /\ Dense(Words(t))
  BY <1>1, WordsType
     DEF WriterInv, TypeInv, ContextInv, ControlInv, ContextOK, DenseIds
<1>5. ASSUME UNCHANGED file PROVE DenseIds'
  BY <1>5, <1>4 DEF DenseIds, Words
<1>6. ASSUME NEW s \in Statements, Begin(p, s) PROVE Agree(p)'
  BY <1>6, <1>4 DEF Begin, Goto, At, Agree, Words
<1>7. ASSUME RefuseText(p) PROVE Agree(p)'
  BY <1>7, <1>4 DEF RefuseText, SetPath, Goto, Finish, At, Agree, Words, Table
<1>8. ASSUME MetaMissing(p) PROVE Agree(p)'
  BY <1>8, <1>4 DEF MetaMissing, Fail, Finish, At, Agree, Words, Table
<1>9. ASSUME Reuse(p) PROVE Agree(p)'
  BY <1>9, <1>4 DEF Reuse, SameTable, Goto, At, Agree, Words, Table
<1>10. ASSUME PreloadEnd(p) PROVE Agree(p)'
  BY <1>10, <1>4 DEF PreloadEnd, SetPath, Goto, Finish, At, Agree, Words, Table
<1>11. ASSUME InsertRefused(p) PROVE Agree(p)'
  BY <1>11, <1>4 DEF InsertRefused, SetPath, Goto, Finish, At, Agree, Words,
                     Table
<1>12. ASSUME SelectRefused(p) PROVE Agree(p)'
  BY <1>12, <1>4 DEF SelectRefused, SetPath, Goto, Finish, At, Agree, Words,
                     Table
<1>13. ASSUME SelectById(p) PROVE Agree(p)'
  BY <1>13, <1>4 DEF SelectById, SetPath, Goto, Finish, At, Agree, Words, Table
<1>14. ASSUME ScanOpen(p) PROVE Agree(p)'
  BY <1>14, <1>4 DEF ScanOpen, SetPath, Goto, Finish, At, Agree, Words, Table
<1>15. ASSUME ScanRow(p) PROVE Agree(p)'
  BY <1>15, <1>4 DEF ScanRow, At, Agree, Words, Table
<1>16. ASSUME ScanRefused(p) PROVE Agree(p)'
  BY <1>16, <1>4 DEF ScanRefused, Fail, Finish, At, Agree, Words, Table
<1>17. ASSUME ScanEnd(p) PROVE Agree(p)'
  BY <1>17, <1>4 DEF ScanEnd, ScanDone, SetPath, Goto, Finish, At, Agree,
                     Words, Table
<1>18. ASSUME Reload(p) PROVE Agree(p)'
  <2>1. DOMAIN << >> = 1 .. 0
    OBVIOUS
  <2>2. Table(p) \in Tables /\ Words(Table(p)) \in Seq(Int)
    BY <1>18, <1>1, <1>4, TableOf DEF Reload, At, TypeInv
  <2>3. ctx[p]' = ContextFor(Table(p)) /\ pc[p]' = "build" /\ pos[p]' = 0
        /\ stmt' = stmt /\ file' = file
    BY <1>18, <1>4 DEF Reload, Goto
  <2> QED
    BY <2>1, <2>2, <2>3 DEF Agree, ContextFor, Words, Table
<1>19. ASSUME BuildRow(p) PROVE Agree(p)'
  <2>1. /\ Table(p) \in Tables /\ c.table = Table(p) /\ ~c.loaded
        /\ pos[p] = 2 * c.count /\ Len(Words(Table(p))) \in Nat
        /\ 2 * c.count + 2 <= Len(Words(Table(p)))
    BY <1>19, <1>1, <1>4, TableOf
       DEF BuildRow, At, TypeInv, Agree, CanRead, RowSize
  <2>2. RowAt(Table(p), pos[p])[1] = c.count + 1
    BY <2>1, <1>1, <1>4, DenseRow
  <2>3. /\ ctx[p]' = [c EXCEPT !.index = Bind(@, c.count + 1, 2 * c.count),
                              !.count = @ + 1]
        /\ pos[p]' = 2 * c.count + 2
        /\ pc' = pc /\ stmt' = stmt /\ file' = file
    BY <1>19, <1>4, <2>1, <2>2 DEF BuildRow, RowSize
  <2>4. /\ DOMAIN ctx[p]'.index = 1 .. c.count + 1
        /\ \A k \in 1 .. c.count + 1 : ctx[p]'.index[k] = 2 * (k - 1)
    BY <2>3, <1>4 DEF Agree, Bind
  <2>5. /\ ctx[p]'.table = Table(p) /\ ~ctx[p]'.loaded
        /\ ctx[p]'.count = c.count + 1
    <3>1. ctx[p]'.table = c.table /\ ctx[p]'.loaded = c.loaded
      BY <2>3, <1>4
    <3>2. ctx[p]'.count = c.count + 1
      BY <2>3, <1>4
    <3> QED
      BY <3>1, <3>2, <2>1
  <2>6. pc[p]' = "build" /\ Table(p)' = Table(p)
    BY <2>3, <1>19 DEF BuildRow, At, Table
  <2>7. Words(ctx[p].table)' = Words(Table(p))
    BY <2>3, <2>5 DEF Words
  <2>8. 2 * (c.count + 1) = 2 * c.count + 2
    BY <1>4
  <2> QED
    BY <2>1, <2>3, <2>4, <2>5, <2>6, <2>7, <2>8 DEF Agree
<1>20. ASSUME ctx' = [ctx EXCEPT ![p] = EmptyContext], pc[p]' = "idle"
       PROVE  Agree(p)'
  <2>1. DOMAIN << >> = 1 .. 0
    OBVIOUS
  <2> QED
    BY <1>20, <1>4, <2>1 DEF Agree, EmptyContext, ContextFor
<1>21. ASSUME BuildRefused(p) \/ BuildDuplicate(p) \/ Restart(p)
       PROVE  Agree(p)'
  BY <1>21, <1>20, <1>4
     DEF BuildRefused, BuildDuplicate, Restart, BuildFails, Finish
<1>22. ASSUME BuildEnd(p) PROVE Agree(p)'
  <2>1. /\ Table(p) \in Tables /\ c.table = Table(p)
        /\ 2 * c.count <= Len(Words(Table(p)))
        /\ ~(2 * c.count + 2 <= Len(Words(Table(p))))
    BY <1>22, <1>1, <1>4, TableOf, SchemasAssumption
       DEF BuildEnd, BuildDone, At, TypeInv, Agree, CanRead, RowSize
  <2> DEFINE n == Len(Words(Table(p)))
  <2>4. n \in Nat /\ n % 2 = 0
    BY <2>1, <1>4, DenseLength
  <2>5. 2 * c.count <= n /\ ~(2 * c.count + 2 <= n)
    BY <2>1
  <2> HIDE DEF n
  <2>7. n = 2 * c.count
    BY <2>4, <2>5, <1>4, EvenBetween
  <2>2. Len(Words(Table(p))) = 2 * c.count
    BY <2>7 DEF n
  <2>3. /\ ctx[p]' = [c EXCEPT !.loaded = TRUE] /\ pc[p]' = "execute"
        /\ stmt' = stmt /\ file' = file
    BY <1>22, <1>4 DEF BuildEnd, BuildDone, Goto
  <2>6. /\ ctx[p]'.table = c.table /\ ctx[p]'.loaded
        /\ ctx[p]'.count = c.count /\ ctx[p]'.index = c.index
    BY <2>3, <1>4
  <2>8. c.table # NoTable /\ pc[p] = "build"
    BY <2>1, <1>22, SchemasAssumption DEF BuildEnd, BuildDone, At
  <2>9. Table(p)' = c.table /\ Words(ctx[p].table)' = Words(Table(p))
    BY <2>1, <2>3, <2>6 DEF Words, Table
  <2>10. /\ DOMAIN c.index = 1 .. c.count
         /\ \A k \in 1 .. c.count : c.index[k] = 2 * (k - 1)
    BY <1>4 DEF Agree
  <2> HIDE DEF c
  <2> QED
    BY <2>2, <2>3, <2>5, <2>6, <2>7, <2>8, <2>9, <2>10 DEF Agree, n
<1>23. ASSUME InsertOpen(p) PROVE DenseIds' /\ Agree(p)'
  <2>1. \A t \in Tables : Words(t)' = Words(t)
    BY <1>23, <1>1, <1>4, FilesAssumption
       DEF InsertOpen, TypeInv, FileInv, Words
  <2>2. DenseIds'
    BY <2>1, <1>4 DEF DenseIds
  <2>3. Table(p) \in Tables /\ c.table = Table(p) /\ c.loaded
    BY <1>23, <1>1, <1>4, TableOf DEF InsertOpen, At, TypeInv, Agree
  <2>4. /\ ctx[p]' = [c EXCEPT !.path = "insert"] /\ pc[p]' = "write"
        /\ stmt' = stmt
    BY <1>23, <1>4 DEF InsertOpen, SetPath, Goto
  <2>5. /\ ctx[p]'.table = c.table /\ ctx[p]'.loaded = c.loaded
        /\ ctx[p]'.count = c.count /\ ctx[p]'.index = c.index
    BY <2>4, <1>4
  <2>6. pc[p] # "bind"
    BY <1>23 DEF InsertOpen, At
  <2>7. PICK t \in Tables : t = c.table /\ Words(t)' = Words(t)
    BY <2>1, <2>3
  <2> QED
    BY <2>2, <2>3, <2>4, <2>5, <2>6, <2>7, <1>4 DEF Agree, Table
<1>24. ASSUME InsertWrite(p) PROVE DenseIds' /\ Agree(p)'
  <2>0. PICK t \in Tables : t = Table(p)
    BY <1>24, <1>1, <1>4, TableOf DEF InsertWrite, At, TypeInv
  <2> DEFINE w == Words(t)
  <2>1. /\ c.table = t /\ c.loaded
        /\ Len(w) = 2 * c.count /\ pc[p] = "write"
    BY <1>24, <1>4, <2>0 DEF InsertWrite, At, Agree
  <2>2. stmt[p].arg \in Int /\ w \in Seq(Int) /\ Dense(w)
    BY <2>1, <1>1, <1>4, PayloadsAssumption
       DEF TypeInv, ControlInv, ControlOK, Statements
  <2>3. file' = [file EXCEPT ![t] = w \o <<c.count + 1, stmt[p].arg>>]
    BY <1>24, <2>0 DEF InsertWrite, AppendWords, NewRow, NextId
  <2>4. w \o <<c.count + 1, stmt[p].arg>> \in Seq(Int)
    BY <2>2, <1>4
  <2>5. Words(t)' = w \o <<c.count + 1, stmt[p].arg>>
    BY <2>1, <2>3, <2>4, <1>1, FilesAssumption DEF TypeInv, FileInv, Words
  <2>6. Dense(Words(t)') /\ Len(Words(t)') = 2 * c.count + 2
    BY <2>1, <2>2, <2>5, <1>4, DenseAppend
  <2>7. \A u \in Tables : u # t => Words(u)' = Words(u)
    BY <2>3, <1>1 DEF TypeInv, FileInv, Words
  <2>8. DenseIds'
    BY <2>6, <2>7, <1>4 DEF DenseIds
  <2>9. ctx' = ctx /\ pc[p]' = "bind" /\ stmt' = stmt
    BY <1>24, <1>4 DEF InsertWrite, Goto
  <2> HIDE DEF w
  <2> QED
    BY <2>0, <2>1, <2>6, <2>8, <2>9, <1>4 DEF Agree, Table
<1>25. ASSUME InsertBind(p) PROVE Agree(p)'
  <2>1. /\ c.table = Table(p) /\ c.loaded /\ pc[p] = "bind"
        /\ Table(p) \in Tables
        /\ Len(Words(Table(p))) = 2 * c.count + 2
    BY <1>25, <1>1, <1>4, TableOf DEF InsertBind, At, TypeInv, Agree
  <2>0. NextId(p) = c.count + 1 /\ NextOffset(p) = 2 * c.count
    BY <1>4 DEF NextId, NextOffset, RowSize
  <2>2. /\ ctx[p]' = [c EXCEPT !.index = Bind(@, c.count + 1, 2 * c.count),
                              !.count = @ + 1]
        /\ pc[p]' = "idle" /\ file' = file
    BY <1>25, <1>4, <2>0 DEF InsertBind, Finish
  <2>3. /\ DOMAIN ctx[p]'.index = 1 .. c.count + 1
        /\ \A k \in 1 .. c.count + 1 : ctx[p]'.index[k] = 2 * (k - 1)
    BY <2>2, <1>4 DEF Agree, Bind
  <2>4. /\ ctx[p]'.table = Table(p) /\ ctx[p]'.loaded
        /\ ctx[p]'.count = c.count + 1
    BY <2>1, <2>2, <1>4
  <2>5. Words(ctx[p].table)' = Words(Table(p))
    BY <2>2, <2>4 DEF Words
  <2> QED
    BY <2>1, <2>2, <2>3, <2>4, <2>5, <1>4, SchemasAssumption DEF Agree
<1>26. ~InsertDuplicate(p)
  BY <1>4 DEF InsertDuplicate, NextId, Agree
<1>27. /\ ~MetaFails(p) /\ ~BuildError(p) /\ ~BuildOpenFails(p)
       /\ ~InsertOpenFails(p) /\ ~InsertWriteCut(p) /\ ~InsertWriteFails(p)
       /\ ~InsertNoMemory(p) /\ ~SelectByIdFails(p) /\ ~ScanOpenFails(p)
       /\ ~ScanError(p)
  BY <1>2, NoFault
<1>28. UNCHANGED file \/ InsertOpen(p) \/ InsertWrite(p)
  BY <1>27
     DEF Begin, RefuseText, Execute, Restart, Prepare, Insert, Select,
         MetaMissing, Reuse, Reload, BuildRefused, BuildRow, BuildDuplicate,
         BuildFails, BuildEnd, BuildDone, PreloadEnd, InsertRefused, InsertBind,
         InsertDuplicate, SelectRefused, SelectById, ScanOpen, ScanRow,
         ScanRefused, ScanEnd, ScanDone
<1>29. DenseIds'
  BY <1>5, <1>23, <1>24, <1>28
<1>30. Agree(p)'
  BY <1>6, <1>7, <1>8, <1>9, <1>10, <1>11, <1>12, <1>13, <1>14, <1>15, <1>16,
     <1>17, <1>18, <1>19, <1>21, <1>22, <1>23, <1>24, <1>25, <1>26, <1>27
     DEF Execute, Prepare, Insert, Select
<1> QED
  BY <1>29, <1>30

LEMMA WriterAgrees == WriterInv => DenseIds /\ IndexAgrees
<1> SUFFICES ASSUME WriterInv, NEW p \in Procs, ctx[p].loaded
             PROVE  LET t == ctx[p].table
                        n == ctx[p].count
                    IN  /\ DOMAIN ctx[p].index = 1 .. n
                        /\ \A k \in 1 .. n :
                             /\ CanRead(t, ctx[p].index[k])
                             /\ RowAt(t, ctx[p].index[k])[1] = k
                        /\ RowCount(t) = IF pc[p] = "bind" THEN n + 1 ELSE n
  BY DEF WriterInv, IndexAgrees
<1> DEFINE t == ctx[p].table
           n == ctx[p].count
<1>1. n \in Nat /\ t \in Tables /\ Words(t) \in Seq(Int) /\ Dense(Words(t))
      /\ TypeInv
  BY WordsType
     DEF WriterInv, TypeInv, ContextInv, ContextOK, DenseIds, Agree
<1>2. /\ DOMAIN ctx[p].index = 1 .. n
      /\ \A k \in 1 .. n : ctx[p].index[k] = 2 * (k - 1)
      /\ Len(Words(t)) = IF pc[p] = "bind" THEN 2 * n + 2 ELSE 2 * n
  BY DEF WriterInv, Agree
<1>3. ASSUME NEW k \in 1 .. n
      PROVE  CanRead(t, ctx[p].index[k]) /\ RowAt(t, ctx[p].index[k])[1] = k
  <2>1. k - 1 \in Nat /\ 2 * (k - 1) + 2 <= Len(Words(t))
    BY <1>1, <1>2
  <2>2. CanRead(t, 2 * (k - 1)) /\ RowAt(t, 2 * (k - 1))[1] = (k - 1) + 1
    BY <2>1, <1>1, DenseRow
  <2> QED
    BY <2>2, <1>2
<1>4. RowCount(t) = IF pc[p] = "bind" THEN n + 1 ELSE n
  BY <1>1, <1>2 DEF RowCount, RowSize
<1> QED
  BY <1>2, <1>3, <1>4

(* A single process that meets no fault keeps every data file numbered     *)
(* 1, 2, ..., whatever tables its statements go to and wherever it is      *)
(* killed and restarted.                                                   *)
THEOREM SingleWriterDense ==
    ASSUME SingleWriterAssumption PROVE Spec => []DenseIds
<1>1. Init => WriterInv
  BY SingleWriterAssumption, WriterInit
<1>2. WriterInv /\ [Next]_vars => WriterInv'
  BY SingleWriterAssumption, WriterStep
<1>3. WriterInv => DenseIds
  BY WriterAgrees
<1> QED
  BY <1>1, <1>2, <1>3, PTL DEF Spec

(* And its index has, for every id of the file, the offset of that row:    *)
(* the next id is free and a lookup reads the row it asks for.             *)
THEOREM SingleWriterIndex ==
    ASSUME SingleWriterAssumption PROVE Spec => []IndexAgrees
<1>1. Init => WriterInv
  BY SingleWriterAssumption, WriterInit
<1>2. WriterInv /\ [Next]_vars => WriterInv'
  BY SingleWriterAssumption, WriterStep
<1>3. WriterInv => IndexAgrees
  BY WriterAgrees
<1> QED
  BY <1>1, <1>2, <1>3, PTL DEF Spec

-----------------------------------------------------------------------------
(* The path in the log.  A process that writes, binds or scans has set the *)
(* path of its statement; the rest of a statement is one step.             *)
PathSet(p) ==
    /\ pc[p] \in {"write", "bind"} => ctx[p].path = "insert"
    /\ pc[p] = "scan" => /\ ctx[p].path = "full_scan"
                         /\ stmt[p].kind \in {"atLeast", "badWhere"}

Logged(p) ==
    LET s == answer[p].stmt
    IN  (answer[p].ok /\ s.kind \notin {"none", "preload"}) =>
          answer[p].path = PathOf(s.kind)

PathInv ==
    /\ TypeInv
    /\ DOMAIN answer = Procs
    /\ \A p \in Procs : PathSet(p) /\ Logged(p)

LEMMA PathOfKinds ==
    /\ PathOf("insert") = "insert" /\ PathOf("badInsert") = "insert"
    /\ PathOf("byId") = "indexed"
    /\ PathOf("atLeast") = "full_scan" /\ PathOf("badWhere") = "full_scan"
    /\ PathOf("badSelect") = "unknown"
BY DEF PathOf

LEMMA PathStep ==
    ASSUME PathInv, TypeInv', NEW p \in Procs,
           (\E s \in Statements : Begin(p, s)) \/ RefuseText(p) \/ Execute(p) \/ Restart(p)
    PROVE  PathSet(p)' /\ Logged(p)'
<1>0. /\ p \in DOMAIN ctx /\ p \in DOMAIN pc /\ p \in DOMAIN stmt
      /\ p \in DOMAIN answer
      /\ DOMAIN ctx[p] = {"table", "index", "count", "loaded", "path"}
      /\ PathSet(p) /\ Logged(p)
  BY DEF PathInv, TypeInv, ContextInv, ControlInv
<1>1. ASSUME NEW ok, NEW rows, NEW path, Finish(p, ok, rows, path)
      PROVE  /\ pc[p]' = "idle" /\ answer[p]'.stmt = stmt[p]
             /\ answer[p]'.ok = ok /\ answer[p]'.path = path
  BY <1>0, <1>1 DEF Finish
<1>2. ASSUME NEW ok, NEW rows, NEW path, Finish(p, ok, rows, path),
             \/ stmt[p].kind \in {"none", "preload"}
             \/ path = PathOf(stmt[p].kind)
             \/ ~ok
      PROVE  PathSet(p)' /\ Logged(p)'
  <2>1. /\ pc[p]' = "idle" /\ answer[p]'.stmt = stmt[p] /\ answer[p]'.ok = ok
        /\ answer[p]'.path = path
    BY <1>1, <1>2
  <2> QED
    BY <1>2, <2>1 DEF PathSet, Logged
<1>3. ASSUME answer' = answer PROVE Logged(p)'
  BY <1>0, <1>3 DEF Logged
<1>4. ASSUME \E s \in Statements : Begin(p, s) PROVE PathSet(p)' /\ Logged(p)'
  BY <1>0, <1>4 DEF Begin, Goto, PathSet, Logged, NoAnswer, NoStatement
<1>5. ASSUME Restart(p) PROVE PathSet(p)' /\ Logged(p)'
  BY <1>0, <1>5 DEF Restart, PathSet, Logged, NoAnswer, NoStatement
<1>6. ASSUME RefuseText(p) PROVE PathSet(p)' /\ Logged(p)'
  <2>1. stmt[p].kind = "none"
    BY <1>6 DEF RefuseText, At, PathInv, TypeInv, ControlInv, ControlOK,
                NoStatement
  <2> QED
    BY <1>2, <1>6, <2>1 DEF RefuseText
<1>7. ASSUME MetaMissing(p) \/ MetaFails(p) PROVE PathSet(p)' /\ Logged(p)'
  BY <1>2, <1>7 DEF MetaMissing, MetaFails, Fail
<1>8. ASSUME \/ Reuse(p) \/ Reload(p) \/ BuildRow(p) \/ BuildEnd(p)
             \/ BuildOpenFails(p)
      PROVE  PathSet(p)' /\ Logged(p)'
  BY <1>0, <1>3, <1>8 DEF Reuse, Reload, BuildRow, BuildEnd, BuildDone,
                          BuildOpenFails, At, Goto, PathSet
<1>9. ASSUME BuildRefused(p) \/ BuildDuplicate(p) \/ BuildError(p)
      PROVE  PathSet(p)' /\ Logged(p)'
  BY <1>2, <1>9 DEF BuildRefused, BuildDuplicate, BuildError, BuildFails
<1>10. ASSUME PreloadEnd(p) PROVE PathSet(p)' /\ Logged(p)'
  BY <1>2, <1>10 DEF PreloadEnd
<1>11. ASSUME InsertRefused(p) \/ InsertOpenFails(p) PROVE PathSet(p)' /\ Logged(p)'
  BY <1>2, <1>11, PathOfKinds DEF InsertRefused, InsertOpenFails
<1>12. ASSUME InsertOpen(p) PROVE PathSet(p)' /\ Logged(p)'
  BY <1>0, <1>3, <1>12 DEF InsertOpen, SetPath, Goto, PathSet
<1>13. ASSUME InsertWrite(p) \/ InsertWriteCut(p) PROVE PathSet(p)' /\ Logged(p)'
  BY <1>0, <1>3, <1>13 DEF InsertWrite, InsertWriteCut, At, Goto, PathSet
<1>14. pc[p] \in {"write", "bind"} => stmt[p].kind = "insert" /\ ctx[p].path = "insert"
  BY <1>0 DEF PathInv, TypeInv, ControlInv, ControlOK, PathSet
<1>15. ASSUME InsertWriteFails(p) \/ InsertDuplicate(p) PROVE PathSet(p)' /\ Logged(p)'
  BY <1>2, <1>14, <1>15, PathOfKinds
     DEF InsertWriteFails, InsertDuplicate, At, Fail
<1>16. ASSUME InsertBind(p) \/ InsertNoMemory(p) PROVE PathSet(p)' /\ Logged(p)'
  BY <1>2, <1>14, <1>16, PathOfKinds DEF InsertBind, InsertNoMemory, At
<1>17. ASSUME SelectRefused(p) PROVE PathSet(p)' /\ Logged(p)'
  BY <1>2, <1>17, PathOfKinds DEF SelectRefused
<1>18. ASSUME SelectById(p) \/ SelectByIdFails(p) \/ ScanOpenFails(p)
       PROVE  PathSet(p)' /\ Logged(p)'
  BY <1>2, <1>18, PathOfKinds DEF SelectById, SelectByIdFails, ScanOpenFails
<1>19. ASSUME ScanOpen(p) PROVE PathSet(p)' /\ Logged(p)'
  <2>1. CASE file[Table(p)] = NoFile
    BY <1>2, <1>19, <2>1, PathOfKinds DEF ScanOpen
  <2>2. CASE file[Table(p)] # NoFile
    BY <1>0, <1>3, <1>19, <2>2 DEF ScanOpen, SetPath, Goto, PathSet
  <2> QED
    BY <2>1, <2>2
<1>20. ASSUME ScanRow(p) PROVE PathSet(p)' /\ Logged(p)'
  BY <1>0, <1>3, <1>20 DEF ScanRow, At, PathSet
<1>21. ASSUME ScanRefused(p) \/ ScanEnd(p) \/ ScanError(p) PROVE PathSet(p)' /\ Logged(p)'
  <2>1. /\ stmt[p].kind \in {"atLeast", "badWhere"} /\ ctx[p].path = "full_scan"
    BY <1>0, <1>21 DEF ScanRefused, ScanEnd, ScanDone, ScanError, At, PathSet
  <2> QED
    BY <1>2, <1>21, <2>1, PathOfKinds
       DEF ScanRefused, ScanEnd, ScanDone, ScanError, Fail
<1> QED
  BY <1>4, <1>5, <1>6, <1>7, <1>8, <1>9, <1>10, <1>11, <1>12, <1>13, <1>15,
     <1>16, <1>17, <1>18, <1>19, <1>20, <1>21 DEF Execute, Prepare, Insert, Select

(* A step of a process leaves the others alone.                            *)
LEMMA OtherProcess ==
    ASSUME TypeInv, DOMAIN answer = Procs, NEW p \in Procs,
           (\E s \in Statements : Begin(p, s)) \/ RefuseText(p) \/ Execute(p) \/ Restart(p)
    PROVE  /\ DOMAIN answer' = Procs
           /\ \A q \in Procs : q # p =>
                /\ pc[q]' = pc[q] /\ ctx[q]' = ctx[q] /\ stmt[q]' = stmt[q]
                /\ answer[q]' = answer[q]
<1>1. UNCHANGED ctx \/ \E c : ctx' = [ctx EXCEPT ![p] = c]
  BY DEF Begin, RefuseText, Execute, Restart, Prepare, Insert, Select,
         MetaMissing, MetaFails, Reuse, Reload, BuildRefused, BuildRow,
         BuildDuplicate, BuildError, BuildFails, BuildEnd, BuildDone,
         BuildOpenFails, PreloadEnd, InsertRefused, InsertOpen,
         InsertOpenFails, InsertWrite, InsertWriteCut, InsertWriteFails,
         InsertBind, InsertDuplicate, InsertNoMemory, SelectRefused,
         SelectByIdFails, SelectById, ScanOpen, ScanOpenFails, ScanError,
         ScanRow, ScanRefused, ScanEnd, ScanDone, Fail, SetPath
<1>2. /\ UNCHANGED pc \/ \E x : pc' = [pc EXCEPT ![p] = x]
      /\ UNCHANGED stmt \/ \E x : stmt' = [stmt EXCEPT ![p] = x]
      /\ UNCHANGED answer \/ \E x : answer' = [answer EXCEPT ![p] = x]
  BY DEF Begin, RefuseText, Execute, Restart, Prepare, Insert, Select,
         MetaMissing, MetaFails, Reuse, Reload, BuildRefused, BuildRow,
         BuildDuplicate, BuildError, BuildFails, BuildEnd, BuildDone,
         BuildOpenFails, PreloadEnd, InsertRefused, InsertOpen,
         InsertOpenFails, InsertWrite, InsertWriteCut, InsertWriteFails,
         InsertBind, InsertDuplicate, InsertNoMemory, SelectRefused,
         SelectByIdFails, SelectById, ScanOpen, ScanOpenFails, ScanError,
         ScanRow, ScanRefused, ScanEnd, ScanDone, Fail, Finish, Goto
<1> QED
  BY <1>1, <1>2 DEF TypeInv, ContextInv, ControlInv

(* Any number of processes and faults: a statement that succeeded is       *)
(* logged with the path by which it was executed.                          *)
THEOREM LogsPathAlways == Spec => []SuccessLogsItsPath
<1>1. Init => PathInv
  BY TypeInit DEF Init, PathInv, PathSet, Logged, NoAnswer, NoStatement
<1>2. PathInv /\ [Next]_vars => PathInv'
  <2> SUFFICES ASSUME PathInv, [Next]_vars PROVE PathInv'
    OBVIOUS
  <2>1. TypeInv /\ TypeInv'
    BY TypeStep DEF PathInv
  <2>2. CASE UNCHANGED vars
    BY <2>1, <2>2 DEF vars, PathInv, PathSet, Logged
  <2>3. ASSUME NEW p \in Procs,
               \/ \E s \in Statements : Begin(p, s)
               \/ RefuseText(p) \/ Execute(p) \/ Restart(p)
        PROVE  PathInv'
    <3>1. PathSet(p)' /\ Logged(p)'
      BY <2>1, <2>3, PathStep
    <3>2. DOMAIN answer = Procs
      BY DEF PathInv
    <3>3. /\ DOMAIN answer' = Procs
          /\ \A q \in Procs : q # p =>
               /\ pc[q]' = pc[q] /\ ctx[q]' = ctx[q] /\ stmt[q]' = stmt[q]
               /\ answer[q]' = answer[q]
      BY <2>1, <2>3, <3>2, OtherProcess
    <3>4. \A q \in Procs : q # p => PathSet(q)' /\ Logged(q)'
      BY <3>3 DEF PathInv, PathSet, Logged
    <3> QED
      BY <2>1, <3>1, <3>3, <3>4 DEF PathInv
  <2> QED
    BY <2>2, <2>3 DEF Next
<1>3. PathInv => SuccessLogsItsPath
  BY DEF PathInv, Logged, SuccessLogsItsPath
<1> QED
  BY <1>1, <1>2, <1>3, PTL DEF Spec

-----------------------------------------------------------------------------
(* What a statement prints.  On a dense file the rows with ids from a on   *)
(* are those in the places a, a + 1, ...                                   *)
RowIn(w, i) == SubSeq(w, 2 * i - 1, 2 * i)

Rows(w, a, m) ==
    [j \in 1 .. (IF a <= m THEN m - a + 1 ELSE 0) |-> RowIn(w, a + j - 1)]

Lowest(arg) == IF arg < 1 THEN 1 ELSE arg

(* A scan has printed the rows before its position.                        *)
Scanning(p) ==
    /\ pc[p] # "scan" => out[p] = << >>
    /\ pc[p] \notin {"build", "scan"} => pos[p] = 0
    /\ pc[p] = "scan" =>
         /\ stmt[p].kind \in {"atLeast", "badWhere"}
         /\ \E m \in Nat :
              /\ pos[p] = 2 * m /\ 2 * m <= Len(Words(Table(p)))
              /\ stmt[p].kind = "atLeast" =>
                   out[p] = Rows(Words(Table(p)), Lowest(stmt[p].arg), m)

(* The answer of the last statement, which stays until the next begins.    *)
Answers(p) ==
    LET s == answer[p].stmt
        w == Words(s.table)
    IN  s.table \in IdTables =>
          /\ s.arg \in Int
          /\ (~answer[p].ok /\ s.kind \in {"insert", "byId", "atLeast", "preload"}) =>
               s.kind = "atLeast" /\ file[s.table] = NoFile
          /\ (answer[p].ok /\ s.kind = "byId") =>
               \E n \in Nat :
                 /\ Len(w) = 2 * n
                 /\ s.arg \in 1 .. n => answer[p].out = Rows(w, s.arg, s.arg)
                 /\ s.arg \notin 1 .. n => answer[p].out = << >>
          /\ (answer[p].ok /\ s.kind = "atLeast") =>
               \E n \in Nat : Len(w) = 2 * n /\ answer[p].out = Rows(w, Lowest(s.arg), n)

Replies(p) ==
    /\ pc[p] # "idle" => answer[p] = NoAnswer
    /\ Scanning(p) /\ Answers(p)

AnswerInv ==
    /\ WriterInv
    /\ DOMAIN answer = Procs /\ DOMAIN out = Procs
    /\ \A p \in Procs : Replies(p)

LEMMA RowsNone ==
    ASSUME NEW w, NEW a \in Nat, a >= 1 PROVE Rows(w, a, 0) = << >>
<1>1. 1 .. (IF a <= 0 THEN 0 - a + 1 ELSE 0) = {}
  OBVIOUS
<1> QED
  BY <1>1 DEF Rows

LEMMA ListOf ==
    ASSUME NEW S, NEW k \in Nat, NEW e \in [1 .. k -> S]
    PROVE  e \in Seq(S) /\ Len(e) = k
OBVIOUS

LEMMA RowsNext ==
    ASSUME NEW w \in Seq(Int), NEW a \in Nat, a >= 1, NEW m \in Nat,
           2 * m + 2 <= Len(w)
    PROVE  Rows(w, a, m + 1) = IF a <= m + 1
                                 THEN Append(Rows(w, a, m), SubSeq(w, 2 * m + 1, 2 * m + 2))
                                 ELSE Rows(w, a, m)
<1>1. CASE a > m + 1
  <2>1. ~(a <= m + 1) /\ ~(a <= m)
    BY <1>1
  <2> QED
    BY <2>1 DEF Rows
<1>2. CASE a <= m + 1
  <2> DEFINE s == Rows(w, a, m)
             r == SubSeq(w, 2 * m + 1, 2 * m + 2)
  <2>1. PICK k \in Nat : m + 1 = a + k
    BY <1>2
  <2>2. /\ (IF a <= m THEN m - a + 1 ELSE 0) = k
        /\ (IF a <= m + 1 THEN m + 1 - a + 1 ELSE 0) = k + 1
    BY <2>1
  <2>3. s = [j \in 1 .. k |-> RowIn(w, a + j - 1)]
    BY <2>2 DEF Rows
  <2>4. Rows(w, a, m + 1) = [j \in 1 .. k + 1 |-> RowIn(w, a + j - 1)]
    BY <2>2 DEF Rows
  <2>5. RowIn(w, a + (k + 1) - 1) = r
    <3>1. a + (k + 1) - 1 = m + 1 /\ 2 * (m + 1) - 1 = 2 * m + 1 /\ 2 * (m + 1) = 2 * m + 2
      BY <2>1
    <3> QED
      BY <3>1 DEF RowIn
  <2> DEFINE R(j) == RowIn(w, a + j - 1)
  <2>6. Append([j \in 1 .. k |-> R(j)], R(k + 1)) = [j \in 1 .. k + 1 |-> R(j)]
    <3> HIDE DEF R
    <3>1. PICK f : f = [j \in 1 .. k + 1 |-> R(j)]
      OBVIOUS
    <3>2. PICK e : e = [j \in 1 .. k |-> R(j)]
      OBVIOUS
    <3>3. e \in Seq({R(j) : j \in 1 .. k}) /\ Len(e) = k
      <4>1. e \in [1 .. k -> {R(j) : j \in 1 .. k}]
        BY ONLY <3>2
      <4> QED
        BY ONLY <4>1, k \in Nat, ListOf
    <3>4. /\ Append(e, R(k + 1)) \in Seq({R(j) : j \in 1 .. k} \union {R(k + 1)})
          /\ Len(Append(e, R(k + 1))) = k + 1
          /\ \A j \in 1 .. k + 1 : Append(e, R(k + 1))[j] = f[j]
      BY <3>1, <3>2, <3>3
    <3>5. f \in Seq({R(j) : j \in 1 .. k + 1}) /\ Len(f) = k + 1
      <4>1. f \in [1 .. k + 1 -> {R(j) : j \in 1 .. k + 1}] /\ k + 1 \in Nat
        BY ONLY <3>1, k \in Nat
      <4> QED
        BY ONLY <4>1, ListOf
    <3>6. Append(e, R(k + 1)) = f
      BY <3>4, <3>5
    <3> QED
      BY <3>1, <3>2, <3>6
  <2> QED
    BY <1>2, <2>3, <2>4, <2>5, <2>6
<1> QED
  BY <1>1, <1>2


LEMMA RowsOne ==
    ASSUME NEW w, NEW a \in Nat PROVE Rows(w, a, a) = <<RowIn(w, a)>>
<1>1. (IF a <= a THEN a - a + 1 ELSE 0) = 1 /\ a + 1 - 1 = a
  OBVIOUS
<1>2. Rows(w, a, a) = [j \in 1 .. 1 |-> RowIn(w, a + j - 1)]
  BY <1>1 DEF Rows
<1>3. 1 .. 1 = {1}
  OBVIOUS
<1>4. Rows(w, a, a) = [j \in {1} |-> RowIn(w, a)]
  BY <1>1, <1>2, <1>3
<1>5. PICK r : r = RowIn(w, a)
  OBVIOUS
<1>6. <<r>> = [j \in {1} |-> r]
  BY <1>3
<1> QED
  BY <1>4, <1>5, <1>6

LEMMA ArgTyped == ASSUME NEW s \in Statements PROVE s.arg \in Int
<1>1. CASE s \in [kind : {"insert"}, table : Tables, arg : Payloads]
  <2>1. s.arg \in Payloads
    BY <1>1
  <2> QED
    BY <2>1, PayloadsAssumption
<1>2. CASE s \in [kind : {"byId", "atLeast"}, table : Tables, arg : Ids]
  <2>1. s.arg \in Ids
    BY <1>2
  <2> QED
    BY <2>1, PayloadsAssumption
<1>3. CASE s \in [kind : {"badInsert", "badSelect", "badWhere", "preload"},
                  table : Tables, arg : {0}]
  <2>1. s.arg \in {0}
    BY <1>3
  <2> QED
    BY <2>1
<1> QED
  BY <1>1, <1>2, <1>3 DEF Statements

(* Before a statement ends there is no answer.                             *)
LEMMA NoReply ==
    ASSUME NEW p \in Procs, answer[p]' = NoAnswer PROVE Answers(p)'
BY SchemasAssumption DEF Answers, NoAnswer, NoStatement

(* What Finish leaves.                                                     *)
LEMMA FinishReply ==
    ASSUME TypeInv, DOMAIN answer = Procs, DOMAIN out = Procs, NEW p \in Procs,
           NEW ok \in BOOLEAN, NEW rows, NEW path, Finish(p, ok, rows, path),
           UNCHANGED file
    PROVE  /\ pc[p]' = "idle" /\ Scanning(p)'
           /\ DOMAIN answer' = Procs /\ DOMAIN out' = Procs
           /\ answer[p]'.stmt = stmt[p] /\ answer[p]'.ok = ok
           /\ answer[p]'.out = rows
           /\ stmt[p].arg \in Int
           /\ \A t : Words(t)' = Words(t)
<1>1. /\ DOMAIN pc = Procs /\ DOMAIN pos = Procs /\ ControlOK(p)
  BY DEF TypeInv, ControlInv
<1>2. /\ pc[p]' = "idle" /\ pos[p]' = 0 /\ out[p]' = << >>
      /\ DOMAIN answer' = Procs /\ DOMAIN out' = Procs
  BY <1>1 DEF Finish
<1>3. answer[p]' = [stmt |-> stmt[p], ok |-> ok, out |-> rows, path |-> path]
  BY DEF Finish
<1>4. stmt[p].arg \in Int
  <2>1. stmt[p] = NoStatement \/ stmt[p] \in Statements
    BY <1>1 DEF ControlOK
  <2>2. NoStatement.arg = 0
    BY DEF NoStatement
  <2>3. ASSUME NEW s \in Statements PROVE s.arg \in Int
    BY ArgTyped
  <2> QED
    BY <2>1, <2>2, <2>3
<1>5. Scanning(p)'
  BY <1>2 DEF Scanning
<1>6. answer[p]'.stmt = stmt[p] /\ answer[p]'.ok = ok /\ answer[p]'.out = rows
  BY <1>3
<1>7. \A t : Words(t)' = Words(t)
  BY DEF Words
<1> QED
  BY <1>2, <1>4, <1>5, <1>6, <1>7

(* Failures that SelectsRight and FailsOnlyWithoutFile do not speak of.    *)
LEMMA ExcusedReply ==
    ASSUME TypeInv, DOMAIN answer = Procs, DOMAIN out = Procs, NEW p \in Procs,
           NEW rows, NEW path, Finish(p, FALSE, rows, path), UNCHANGED file,
           \/ stmt[p].kind \notin {"insert", "byId", "atLeast", "preload"}
           \/ Table(p) \notin IdTables
           \/ stmt[p].kind = "atLeast" /\ file[Table(p)] = NoFile
    PROVE  Replies(p)' /\ DOMAIN answer' = Procs /\ DOMAIN out' = Procs
<1>1. /\ pc[p]' = "idle" /\ Scanning(p)'
      /\ DOMAIN answer' = Procs /\ DOMAIN out' = Procs
      /\ answer[p]'.stmt = stmt[p] /\ answer[p]'.ok = FALSE
      /\ stmt[p].arg \in Int
  BY FinishReply
<1>2. Answers(p)'
  BY <1>1 DEF Answers, Table
<1> QED
  BY <1>1, <1>2 DEF Replies

LEMMA AnswerStep ==
    ASSUME SingleWriterAssumption, AnswerInv, NEW p \in Procs,
           \/ \E s \in Statements : Begin(p, s)
           \/ RefuseText(p) \/ Execute(p) \/ Restart(p)
    PROVE  Replies(p)' /\ DOMAIN answer' = Procs /\ DOMAIN out' = Procs
<1> DEFINE Goal == Replies(p)' /\ DOMAIN answer' = Procs /\ DOMAIN out' = Procs
<1>1. /\ TypeInv /\ DOMAIN answer = Procs /\ DOMAIN out = Procs
      /\ Scanning(p) /\ (pc[p] # "idle" => answer[p] = NoAnswer)
      /\ Agree(p)
  BY DEF AnswerInv, WriterInv, Replies
<1>2. /\ DOMAIN ctx = Procs /\ DOMAIN pc = Procs /\ DOMAIN pos = Procs
      /\ DOMAIN stmt = Procs /\ ControlOK(p) /\ ctx[p].count \in Nat
      /\ DOMAIN ctx[p] = {"table", "index", "count", "loaded", "path"}
  BY <1>1 DEF TypeInv, ContextInv, ContextOK, ControlInv
<1>3. \A t \in Tables : Words(t) \in Seq(Int) /\ Dense(Words(t))
  BY <1>1, WordsType DEF AnswerInv, WriterInv, TypeInv, DenseIds
<1>4. ~Fault
  BY <1>1 DEF SingleWriterAssumption, TypeInv, Fault
(* Steps that leave no answer.                                             *)
<1>5. ASSUME answer[p]' = NoAnswer, out' = out \/ out' = [out EXCEPT ![p] = << >>],
             DOMAIN answer' = Procs, pc[p]' # "scan",
             out[p]' = << >>, pc[p]' # "build" => pos[p]' = 0
      PROVE  Goal
  BY <1>1, <1>5, NoReply DEF Replies, Scanning
<1>6. ASSUME pc[p] # "idle", pc[p] # "scan", pc[p]' \notin {"idle", "scan"},
             answer' = answer, out' = out, pc[p]' # "build" => pos[p]' = 0
      PROVE  Goal
  <2>1. answer[p]' = NoAnswer /\ out[p]' = << >>
    BY <1>1, <1>6 DEF Scanning
  <2> QED
    BY <1>1, <1>5, <1>6, <2>1
<1>7. ASSUME NEW s \in Statements, Begin(p, s) PROVE Goal
  BY <1>1, <1>2, <1>5, <1>7 DEF Begin, At, Goto, Scanning
<1>8. ASSUME Restart(p) PROVE Goal
  BY <1>1, <1>2, <1>5, <1>8 DEF Restart
<1>9. ASSUME RefuseText(p) PROVE Goal
  <2>1. stmt[p].kind = "none"
    BY <1>2, <1>9 DEF RefuseText, At, ControlOK, NoStatement
  <2> QED
    BY <1>1, <1>9, <2>1, ExcusedReply DEF RefuseText
<1>10. ASSUME MetaMissing(p) PROVE Goal
  BY <1>1, <1>10, ExcusedReply, SchemasAssumption DEF MetaMissing, Fail
<1>11. ASSUME BuildRefused(p) PROVE Goal
  BY <1>1, <1>11, ExcusedReply DEF BuildRefused, BuildFails
<1>12. ASSUME InsertRefused(p) PROVE Goal
  BY <1>1, <1>12, ExcusedReply DEF InsertRefused
<1>13. ASSUME ScanRefused(p) PROVE Goal
  <2>1. stmt[p].kind = "badWhere"
    BY <1>13 DEF ScanRefused
  <2> QED
    BY <1>1, <1>13, <2>1, ExcusedReply DEF ScanRefused, Fail
<1>14. ASSUME SelectRefused(p) PROVE Goal
  BY <1>1, <1>14, ExcusedReply DEF SelectRefused
<1>15. ~BuildDuplicate(p) /\ ~InsertDuplicate(p)
  <2>1. ASSUME BuildDuplicate(p) PROVE FALSE
    <3>1. /\ pc[p] = "build" /\ Table(p) \in Tables /\ pos[p] = 2 * ctx[p].count
          /\ DOMAIN ctx[p].index = 1 .. ctx[p].count
      BY <1>1, <2>1, TableOf DEF BuildDuplicate, At, TypeInv, Agree
    <3>2. 2 * ctx[p].count + 2 <= Len(Words(Table(p)))
      BY <2>1, <3>1 DEF BuildDuplicate, CanRead, RowSize
    <3>3. RowAt(Table(p), 2 * ctx[p].count)[1] = ctx[p].count + 1
      BY <1>1, <1>2, <1>3, <3>1, <3>2, DenseRow
    <3> QED
      BY <1>2, <2>1, <3>1, <3>3 DEF BuildDuplicate
  <2>2. ~InsertDuplicate(p)
    BY <1>1, <1>2 DEF InsertDuplicate, NextId, Agree
  <2> QED
    BY <2>1, <2>2
<1>16. ASSUME Reuse(p) PROVE Goal
  BY <1>1, <1>2, <1>6, <1>16 DEF Reuse, At, Goto, Scanning
<1>17. ASSUME Reload(p) PROVE Goal
  BY <1>1, <1>2, <1>6, <1>17 DEF Reload, At, Goto
<1>18. ASSUME BuildRow(p) PROVE Goal
  BY <1>1, <1>2, <1>6, <1>18 DEF BuildRow, At
<1>19. ASSUME BuildEnd(p) PROVE Goal
  BY <1>1, <1>2, <1>6, <1>19 DEF BuildEnd, BuildDone, At, Goto
<1>20. ASSUME InsertOpen(p) PROVE Goal
  BY <1>1, <1>2, <1>6, <1>20 DEF InsertOpen, At, Goto, Scanning
<1>21. ASSUME InsertWrite(p) PROVE Goal
  BY <1>1, <1>2, <1>6, <1>21 DEF InsertWrite, At, Goto, Scanning
<1>22. ASSUME PreloadEnd(p) PROVE Goal
  <2>1. /\ stmt[p].kind = "preload" /\ file' = file
        /\ Finish(p, TRUE, << >>, ctx[p].path)
    BY <1>22 DEF PreloadEnd
  <2>2. /\ pc[p]' = "idle" /\ Scanning(p)'
        /\ DOMAIN answer' = Procs /\ DOMAIN out' = Procs
        /\ answer[p]'.stmt = stmt[p] /\ answer[p]'.ok = TRUE
        /\ stmt[p].arg \in Int
    BY <1>1, <2>1, FinishReply
  <2>3. Answers(p)'
    BY <2>1, <2>2 DEF Answers
  <2> QED
    BY <2>2, <2>3 DEF Replies
<1>23. ASSUME InsertBind(p) PROVE Goal
  <2>1. /\ stmt[p].kind = "insert" /\ file' = file
        /\ Finish(p, TRUE, <<NewRow(p)>>, "insert")
    BY <1>2, <1>23 DEF InsertBind, At, ControlOK
  <2>2. /\ pc[p]' = "idle" /\ Scanning(p)'
        /\ DOMAIN answer' = Procs /\ DOMAIN out' = Procs
        /\ answer[p]'.stmt = stmt[p] /\ answer[p]'.ok = TRUE
        /\ stmt[p].arg \in Int
    BY <1>1, <2>1, FinishReply
  <2>3. Answers(p)'
    BY <2>1, <2>2 DEF Answers
  <2> QED
    BY <2>2, <2>3 DEF Replies
<1>24. ASSUME SelectById(p) PROVE Goal
  <2>1. PICK t : t = Table(p)
    OBVIOUS
  <2>2. PICK n : n = ctx[p].count
    OBVIOUS
  <2>3. PICK a : a = stmt[p].arg
    OBVIOUS
  <2>4. /\ t \in Tables /\ n \in Nat /\ Len(Words(t)) = 2 * n
        /\ DOMAIN ctx[p].index = 1 .. n
        /\ \A k \in 1 .. n : ctx[p].index[k] = 2 * (k - 1)
    BY <1>1, <1>2, <1>24, <2>1, <2>2, TableOf DEF SelectById, At, TypeInv, Agree
  <2>5. stmt[p].kind = "byId" /\ file' = file
    BY <1>24 DEF SelectById
  <2>6. ASSUME NEW rows, Finish(p, TRUE, rows, "indexed"),
               a \in 1 .. n => rows = Rows(Words(t), a, a),
               a \notin 1 .. n => rows = << >>
        PROVE  Goal
    <3>1. /\ pc[p]' = "idle" /\ Scanning(p)'
          /\ DOMAIN answer' = Procs /\ DOMAIN out' = Procs
          /\ answer[p]'.stmt = stmt[p] /\ answer[p]'.ok = TRUE
          /\ answer[p]'.out = rows /\ stmt[p].arg \in Int
          /\ \A u : Words(u)' = Words(u)
      BY <1>1, <2>5, <2>6, FinishReply
    <3>2. PICK w : w = Words(t) /\ w = Words(t)'
      BY <3>1
    <3>3. Words(answer[p].stmt.table)' = w
      BY <2>1, <3>1, <3>2 DEF Table, Words
    <3>4. Answers(p)'
      BY <2>3, <2>4, <2>5, <2>6, <3>1, <3>2, <3>3 DEF Answers
    <3> QED
      BY <3>1, <3>4 DEF Replies
  <2>7. CASE a \notin 1 .. n
    BY <1>24, <2>3, <2>4, <2>6, <2>7 DEF SelectById
  <2>8. CASE a \in 1 .. n
    <3>1. a - 1 \in Nat /\ 2 * (a - 1) + 2 <= Len(Words(t))
      BY <2>4, <2>8
    <3>2. CanRead(t, 2 * (a - 1))
      BY <1>1, <1>3, <2>4, <3>1, DenseRow
    <3>3. RowAt(t, 2 * (a - 1)) = RowIn(Words(t), a)
      <4>1. 2 * (a - 1) + 1 = 2 * a - 1 /\ 2 * (a - 1) + 2 = 2 * a
        BY <2>8
      <4> QED
        BY <4>1 DEF RowAt, RowIn, RowSize
    <3>4. <<RowAt(t, 2 * (a - 1))>> = Rows(Words(t), a, a)
      BY <2>8, <3>3, RowsOne
    <3>5. Finish(p, TRUE, <<RowAt(t, 2 * (a - 1))>>, "indexed")
      BY <1>24, <2>1, <2>3, <2>4, <2>8, <3>2 DEF SelectById
    <3> QED
      BY <2>6, <2>8, <3>4, <3>5
  <2> QED
    BY <2>7, <2>8
<1>25. ASSUME ScanOpen(p) PROVE Goal
  <2>1. CASE file[Table(p)] = NoFile
    <3>1. Finish(p, FALSE, << >>, "full_scan") /\ file' = file
          /\ stmt[p].kind \in {"atLeast", "badWhere"}
      BY <1>25, <2>1 DEF ScanOpen
    <3> QED
      BY <1>1, <2>1, <3>1, ExcusedReply
  <2>2. CASE file[Table(p)] # NoFile
    <3>1. /\ pc[p]' = "scan" /\ stmt' = stmt /\ pos' = pos /\ out' = out
          /\ answer' = answer /\ file' = file
          /\ stmt[p].kind \in {"atLeast", "badWhere"} /\ pc[p] = "execute"
      BY <1>2, <1>25, <2>2 DEF ScanOpen, Goto, At
    <3>2. out[p] = << >> /\ pos[p] = 0 /\ answer[p]' = NoAnswer
      BY <1>1, <3>1 DEF Scanning
    <3>3. stmt[p].arg \in Int /\ Table(p) \in Tables
      <4>1. stmt[p] \in Statements /\ Table(p) \in Tables
        BY <1>1, <1>2, <3>1, TableOf DEF TypeInv, ControlOK
      <4> QED
        BY <4>1, ArgTyped
    <3>4. Lowest(stmt[p].arg) \in Nat /\ Lowest(stmt[p].arg) >= 1
      BY <3>3 DEF Lowest
    <3>5. Table(p)' = Table(p) /\ Words(Table(p))' = Words(Table(p))
      BY <3>1 DEF Words, Table
    <3>6. PICK w : w = Words(Table(p)) /\ w = Words(Table(p))'
      BY <3>5
    <3>7. Rows(w, Lowest(stmt[p].arg), 0) = << >> /\ 2 * 0 <= Len(w) /\ 2 * 0 = 0
      BY <1>3, <3>3, <3>4, <3>6, RowsNone
    <3>8. out[p]' = << >> /\ pos[p]' = 0 /\ stmt[p]' = stmt[p]
      BY <3>1, <3>2
    <3>9. Scanning(p)'
      BY <3>1, <3>6, <3>7, <3>8 DEF Scanning
    <3> QED
      BY <1>1, <3>1, <3>2, <3>9, NoReply DEF Replies
  <2> QED
    BY <2>1, <2>2
<1>26. ASSUME ScanRow(p) PROVE Goal
  <2>1. /\ pc[p] = "scan" /\ pc' = pc /\ stmt' = stmt /\ answer' = answer
        /\ file' = file /\ stmt[p].kind = "atLeast"
        /\ CanRead(Table(p), pos[p])
    BY <1>26 DEF ScanRow, At
  <2>2. PICK m \in Nat : /\ pos[p] = 2 * m
                         /\ out[p] = Rows(Words(Table(p)), Lowest(stmt[p].arg), m)
    BY <1>1, <2>1 DEF Scanning
  <2>3. PICK a : a = stmt[p].arg
    OBVIOUS
  <2>4. PICK t : t = Table(p)
    OBVIOUS
  <2>5. a \in Int /\ t \in Tables
    <3>1. t \in Tables
      BY <1>1, <2>1, <2>4, TableOf DEF TypeInv
    <3>2. stmt[p] \in Statements
      BY <1>2, <2>1 DEF ControlOK
    <3> QED
      BY <2>3, <3>1, <3>2, ArgTyped
  <2>6. Lowest(a) \in Nat /\ Lowest(a) >= 1
        /\ (m + 1 >= a <=> Lowest(a) <= m + 1)
    BY <2>5 DEF Lowest
  <2>7. 2 * m + 2 <= Len(Words(t))
    BY <2>1, <2>2, <2>4 DEF CanRead, RowSize
  <2>8. RowAt(t, 2 * m)[1] = m + 1
        /\ RowAt(t, 2 * m) = SubSeq(Words(t), 2 * m + 1, 2 * m + 2)
    <3>1. RowAt(t, 2 * m)[1] = m + 1
      BY <1>1, <1>3, <2>5, <2>7, DenseRow
    <3> QED
      BY <3>1 DEF RowAt, RowSize
  <2>9. Rows(Words(t), Lowest(a), m + 1) =
          IF Lowest(a) <= m + 1
            THEN Append(Rows(Words(t), Lowest(a), m),
                        SubSeq(Words(t), 2 * m + 1, 2 * m + 2))
            ELSE Rows(Words(t), Lowest(a), m)
    BY <1>3, <2>5, <2>6, <2>7, RowsNext
  <2>10. /\ out' = IF m + 1 >= a THEN [out EXCEPT ![p] = Append(@, RowAt(t, 2 * m))]
                                 ELSE out
         /\ pos[p]' = 2 * m + 2
    BY <1>2, <1>26, <2>2, <2>3, <2>4, <2>8
       DEF ScanRow, Matches, ScanPos, RowSize
  <2>11. out[p]' = Rows(Words(t), Lowest(a), m + 1) /\ DOMAIN out' = Procs
    <3>1. PICK s : s = Rows(Words(t), Lowest(a), m)
      OBVIOUS
    <3>2. out[p] = s
      BY <2>2, <2>3, <2>4, <3>1
    <3>3. PICK r : r = RowAt(t, 2 * m)
      OBVIOUS
    <3>4. CASE m + 1 >= a
      <4>1. out' = [out EXCEPT ![p] = Append(@, r)]
        BY <2>10, <3>3, <3>4
      <4>2. Rows(Words(t), Lowest(a), m + 1) = Append(s, r)
        BY <2>6, <2>8, <2>9, <3>1, <3>3, <3>4
      <4> QED
        BY <1>1, <3>2, <4>1, <4>2
    <3>5. CASE ~(m + 1 >= a)
      BY <1>1, <2>6, <2>9, <2>10, <3>1, <3>2, <3>5
    <3> QED
      BY <3>4, <3>5
  <2>12. Table(p)' = t /\ stmt[p]'.arg = a /\ stmt[p]'.kind = "atLeast"
         /\ pc[p]' = "scan"
    BY <2>1, <2>3, <2>4 DEF Table
  <2>13. PICK w : w = Words(t)
    OBVIOUS
  <2>14. Words(Table(p))' = w
    BY <2>1, <2>12, <2>13 DEF Words
  <2>15. 2 * (m + 1) = 2 * m + 2 /\ m + 1 \in Nat
    OBVIOUS
  <2>16. Scanning(p)'
    BY <2>7, <2>10, <2>11, <2>12, <2>13, <2>14, <2>15 DEF Scanning
  <2>17. answer[p]' = NoAnswer
    BY <1>1, <2>1
  <2> QED
    BY <1>1, <2>1, <2>11, <2>16, <2>17, NoReply DEF Replies
<1>27. ASSUME ScanEnd(p) PROVE Goal
  <2>1. /\ pc[p] = "scan" /\ file' = file /\ ~CanRead(Table(p), pos[p])
        /\ Finish(p, TRUE, out[p], ctx[p].path)
    BY <1>27 DEF ScanEnd, ScanDone, At
  <2>2. PICK rows : rows = out[p]
    OBVIOUS
  <2>3. PICK path : path = ctx[p].path
    OBVIOUS
  <2>4. Finish(p, TRUE, rows, path)
    BY <2>1, <2>2, <2>3
  <2>5. /\ pc[p]' = "idle" /\ Scanning(p)'
        /\ DOMAIN answer' = Procs /\ DOMAIN out' = Procs
        /\ answer[p]'.stmt = stmt[p] /\ answer[p]'.ok = TRUE
        /\ answer[p]'.out = rows /\ stmt[p].arg \in Int
        /\ \A u : Words(u)' = Words(u)
    BY <1>1, <2>1, <2>4, FinishReply
  <2>6. PICK m \in Nat :
          /\ pos[p] = 2 * m /\ 2 * m <= Len(Words(Table(p)))
          /\ stmt[p].kind = "atLeast" =>
               rows = Rows(Words(Table(p)), Lowest(stmt[p].arg), m)
    BY <1>1, <2>1, <2>2 DEF Scanning
  <2>7. stmt[p].kind \in {"atLeast", "badWhere"}
    BY <1>1, <2>1 DEF Scanning
  <2>8. Len(Words(Table(p))) = 2 * m
    <3>1. PICK k : k = Len(Words(Table(p)))
      OBVIOUS
    <3>2. k \in Nat /\ k % 2 = 0
      BY <1>1, <1>3, <2>1, <3>1, TableOf, DenseLength DEF TypeInv
    <3>3. 2 * m <= k /\ ~(2 * m + 2 <= k)
      BY <2>1, <2>6, <3>1 DEF CanRead, RowSize
    <3> QED
      BY <3>1, <3>2, <3>3, EvenBetween
  <2>9. PICK w : w = Words(Table(p))
    OBVIOUS
  <2>10. Words(answer[p].stmt.table)' = w
    BY <2>1, <2>5, <2>9 DEF Table, Words
  <2>11. Answers(p)'
    BY <2>5, <2>6, <2>7, <2>8, <2>9, <2>10 DEF Answers
  <2> QED
    BY <2>5, <2>11 DEF Replies
<1>28. /\ ~MetaFails(p) /\ ~BuildError(p) /\ ~BuildOpenFails(p)
       /\ ~InsertOpenFails(p) /\ ~InsertWriteCut(p) /\ ~InsertWriteFails(p)
       /\ ~InsertNoMemory(p) /\ ~SelectByIdFails(p) /\ ~ScanOpenFails(p)
       /\ ~ScanError(p)
  BY <1>4, NoFault
<1> QED
  BY <1>7, <1>8, <1>9, <1>10, <1>11, <1>12, <1>13, <1>14, <1>15, <1>16, <1>17,
     <1>18, <1>19, <1>20, <1>21, <1>22, <1>23, <1>24, <1>25, <1>26, <1>27, <1>28
     DEF Execute, Prepare, Insert, Select

-----------------------------------------------------------------------------
(* The rows a .. b in the words are the rows a .. b that Prints speaks of. *)
LEMMA RowsPrint ==
    ASSUME TypeInv, NEW t \in Tables, NEW n \in Nat, Len(Words(t)) = 2 * n,
           NEW a \in Nat, a >= 1, NEW b \in Nat, b <= n
    PROVE  Prints(Rows(Words(t), a, b), t, a .. b)
<1> DEFINE r == Rows(Words(t), a, b)
           k == IF a <= b THEN b - a + 1 ELSE 0
<1>1. k \in Nat /\ r = [j \in 1 .. k |-> RowIn(Words(t), a + j - 1)]
  BY DEF Rows
<1>2. Len(r) = k
  BY <1>1
<1>3. Cardinality(a .. b) = k
  BY FS_Interval
<1>4. ASSUME NEW i \in a .. b
      PROVE  r[Cardinality({j \in a .. b : j <= i})] = RowsOf(t)[i]
  <2>1. {j \in a .. b : j <= i} = a .. i /\ i \in Nat /\ a <= i /\ i <= b
    OBVIOUS
  <2>2. Cardinality(a .. i) = i - a + 1
    BY <2>1, FS_Interval
  <2>3. i - a + 1 \in 1 .. k /\ a + (i - a + 1) - 1 = i
    BY <2>1
  <2>4. r[i - a + 1] = RowIn(Words(t), i)
    BY <1>1, <2>3
  <2>5. RowCount(t) = n
    BY DEF RowCount, RowSize
  <2>6. RowsOf(t)[i] = SubSeq(Words(t), (i - 1) * 2 + 1, (i - 1) * 2 + 2)
    BY <2>1, <2>5 DEF RowsOf, RowAt, RowSize
  <2>7. (i - 1) * 2 + 1 = 2 * i - 1 /\ (i - 1) * 2 + 2 = 2 * i
    BY <2>1
  <2> QED
    BY <2>1, <2>2, <2>4, <2>6, <2>7 DEF RowIn
<1> QED
  BY <1>2, <1>3, <1>4 DEF Prints

LEMMA PrintsNothing == ASSUME NEW t PROVE Prints(<< >>, t, {})
BY FS_EmptySet DEF Prints

LEMMA AnswersSelect == SingleWriterAssumption /\ AnswerInv => SelectsRight
<1> SUFFICES ASSUME SingleWriterAssumption, AnswerInv, NEW p \in Procs,
                    answer[p].ok, answer[p].stmt.table \in IdTables
             PROVE  LET s == answer[p].stmt
                        rows == RowsOf(s.table)
                    IN  /\ s.kind = "byId" =>
                             Prints(answer[p].out, s.table,
                                    {i \in DOMAIN rows : rows[i][1] = s.arg})
                        /\ s.kind = "atLeast" =>
                             Prints(answer[p].out, s.table,
                                    {i \in DOMAIN rows : rows[i][1] >= s.arg})
  BY DEF SelectsRight
<1>1. PICK t : t = answer[p].stmt.table
  OBVIOUS
<1>2. PICK a : a = answer[p].stmt.arg
  OBVIOUS
<1>3. PICK o : o = answer[p].out
  OBVIOUS
<1>4. PICK rows : rows = RowsOf(t)
  OBVIOUS
<1>5. /\ TypeInv /\ t \in Tables /\ Words(t) \in Seq(Int) /\ Dense(Words(t))
      /\ a \in Int
  BY <1>1, <1>2, WordsType, SchemasAssumption
     DEF AnswerInv, Replies, Answers, WriterInv, TypeInv, DenseIds
<1>6. ASSUME NEW n \in Nat, Len(Words(t)) = 2 * n
      PROVE  DOMAIN rows = 1 .. n /\ \A i \in 1 .. n : rows[i][1] = i
  <2>1. RowCount(t) = n /\ DOMAIN rows = 1 .. RowCount(t)
    BY <1>4, <1>6 DEF RowCount, RowsOf, RowSize
  <2>2. ASSUME NEW i \in 1 .. n PROVE rows[i][1] = i
    <3>1. i - 1 \in Nat /\ 2 * (i - 1) + 2 <= Len(Words(t)) /\ (i - 1) * 2 = 2 * (i - 1)
      BY <1>6
    <3>2. RowAt(t, 2 * (i - 1))[1] = (i - 1) + 1
      BY <1>5, <3>1, DenseRow
    <3>3. rows[i] = RowAt(t, (i - 1) * 2)
      BY <1>4, <2>1 DEF RowsOf, RowSize
    <3> QED
      BY <3>1, <3>2, <3>3
  <2> QED
    BY <2>1, <2>2
<1>7. ASSUME answer[p].stmt.kind = "byId"
      PROVE  Prints(o, t, {i \in DOMAIN rows : rows[i][1] = a})
  <2>1. PICK n \in Nat : /\ Len(Words(t)) = 2 * n
                         /\ a \in 1 .. n => o = Rows(Words(t), a, a)
                         /\ a \notin 1 .. n => o = << >>
    BY <1>1, <1>2, <1>3, <1>7 DEF AnswerInv, Replies, Answers
  <2>2. DOMAIN rows = 1 .. n /\ \A i \in 1 .. n : rows[i][1] = i
    BY <1>6, <2>1
  <2>3. CASE a \in 1 .. n
    <3>1. {i \in DOMAIN rows : rows[i][1] = a} = a .. a
      BY <2>2, <2>3
    <3>2. Prints(Rows(Words(t), a, a), t, a .. a)
      <4>1. a \in Nat /\ a >= 1 /\ a <= n
        BY <2>3
      <4> QED
        BY <1>5, <2>1, <4>1, RowsPrint
    <3> QED
      BY <2>1, <2>3, <3>1, <3>2
  <2>4. CASE a \notin 1 .. n
    <3>1. {i \in DOMAIN rows : rows[i][1] = a} = {}
      BY <2>2, <2>4
    <3> QED
      BY <2>1, <2>4, <3>1, PrintsNothing
  <2> QED
    BY <2>3, <2>4
<1>8. ASSUME answer[p].stmt.kind = "atLeast"
      PROVE  Prints(o, t, {i \in DOMAIN rows : rows[i][1] >= a})
  <2>1. PICK n \in Nat : Len(Words(t)) = 2 * n /\ o = Rows(Words(t), Lowest(a), n)
    BY <1>1, <1>2, <1>3, <1>8 DEF AnswerInv, Replies, Answers
  <2>2. DOMAIN rows = 1 .. n /\ \A i \in 1 .. n : rows[i][1] = i
    BY <1>6, <2>1
  <2>3. PICK l \in Nat : l = Lowest(a) /\ l >= 1
    BY <1>5 DEF Lowest
  <2>4. \A i \in Nat : i >= 1 => (i >= a <=> i >= l)
    BY <1>5, <2>3 DEF Lowest
  <2>5. {i \in DOMAIN rows : rows[i][1] >= a} = l .. n
    BY <2>2, <2>3, <2>4
  <2>6. Prints(Rows(Words(t), l, n), t, l .. n)
    BY <1>5, <2>1, <2>3, RowsPrint
  <2> QED
    BY <2>1, <2>3, <2>5, <2>6
<1> QED
  BY <1>1, <1>2, <1>3, <1>4, <1>7, <1>8

LEMMA AnswerInit == SingleWriterAssumption /\ Init => AnswerInv
<1> SUFFICES ASSUME SingleWriterAssumption, Init PROVE AnswerInv
  OBVIOUS
<1>1. WriterInv
  BY WriterInit
<1>2. ASSUME NEW p \in Procs PROVE Scanning(p) /\ Answers(p)
  BY SchemasAssumption DEF Init, Scanning, Answers, NoAnswer, NoStatement
<1> QED
  BY <1>1, <1>2 DEF Init, AnswerInv, Replies

LEMMA AnswerNext ==
    SingleWriterAssumption /\ AnswerInv /\ [Next]_vars => AnswerInv'
<1> SUFFICES ASSUME SingleWriterAssumption, AnswerInv, [Next]_vars PROVE AnswerInv'
  OBVIOUS
<1>1. WriterInv'
  BY WriterStep DEF AnswerInv
<1>2. CASE UNCHANGED vars
  <2>1. \A t : Words(t)' = Words(t)
    BY <1>2 DEF vars, Words
  <2>2. ASSUME NEW p \in Procs PROVE Scanning(p)' /\ Answers(p)'
    <3>1. PICK w : w = Words(Table(p)) /\ w = Words(Table(p))'
      BY <1>2, <2>1 DEF vars, Table, Words
    <3>2. Scanning(p)'
      BY <1>2, <3>1 DEF vars, AnswerInv, Replies, Scanning
    <3>3. PICK v : v = Words(answer[p].stmt.table) /\ v = Words(answer[p].stmt.table)'
      BY <1>2, <2>1 DEF vars, Words
    <3>4. Answers(p)'
      BY <1>2, <3>3 DEF vars, AnswerInv, Replies, Answers
    <3> QED
      BY <3>2, <3>4
  <2> QED
    BY <1>1, <1>2, <2>2 DEF vars, AnswerInv, Replies
<1>3. ASSUME NEW p \in Procs,
             \/ \E s \in Statements : Begin(p, s)
             \/ RefuseText(p) \/ Execute(p) \/ Restart(p)
      PROVE  AnswerInv'
  <2>1. Replies(p)' /\ DOMAIN answer' = Procs /\ DOMAIN out' = Procs
    BY <1>3, AnswerStep
  <2>2. \A q \in Procs : q = p
    BY DEF SingleWriterAssumption
  <2> QED
    BY <1>1, <2>1, <2>2 DEF AnswerInv
<1> QED
  BY <1>2, <1>3 DEF Next

(* A single process that meets no fault answers WHERE id = k, looked up in *)
(* the index, and WHERE id >= k, compared row by row, with the rows of the *)
(* file that match, once each and in the order of the file.                *)
THEOREM SingleWriterSelects ==
    ASSUME SingleWriterAssumption PROVE Spec => []SelectsRight
<1>1. Init => AnswerInv
  BY SingleWriterAssumption, AnswerInit
<1>2. AnswerInv /\ [Next]_vars => AnswerInv'
  BY SingleWriterAssumption, AnswerNext
<1>3. AnswerInv => SelectsRight
  BY SingleWriterAssumption, AnswersSelect
<1> QED
  BY <1>1, <1>2, <1>3, PTL DEF Spec

(* And it refuses no well-formed statement: only a scan of a table that    *)
(* has no data file yet fails.                                             *)
THEOREM SingleWriterServes ==
    ASSUME SingleWriterAssumption PROVE Spec => []FailsOnlyWithoutFile
<1>1. Init => AnswerInv
  BY SingleWriterAssumption, AnswerInit
<1>2. AnswerInv /\ [Next]_vars => AnswerInv'
  BY SingleWriterAssumption, AnswerNext
<1>3. AnswerInv => FailsOnlyWithoutFile
  BY DEF AnswerInv, Replies, Answers, FailsOnlyWithoutFile
<1> QED
  BY <1>1, <1>2, <1>3, PTL DEF Spec

-----------------------------------------------------------------------------
(***************************************************************************)
(* Any number of processes share the data files and meet no fault: what is *)
(* left of the numbering when the contexts go stale.  The files only grow, *)
(* so that a context may fall behind its file but never says of it what is *)
(* not so.                                                                 *)
(***************************************************************************)

(* Whole rows; the i-th of them has an id of at most i, and every smaller  *)
(* id is in a row before it.                                               *)
HasId(w, k, n) == \E j \in Nat : 0 < j /\ j <= n /\ w[2 * j - 1] = k

Gapless(w) ==
    /\ Len(w) % 2 = 0
    /\ \A i \in Nat : (0 < i /\ 2 * i <= Len(w)) =>
         /\ w[2 * i - 1] \in 1 .. i
         /\ \A k \in 1 .. w[2 * i - 1] : HasId(w, k, i)

(* No fault, and files that any number of processes could have left.       *)
SharedAssumption ==
    /\ MaxFaults = 0
    /\ \A f \in InitialFiles : f = NoFile \/ Gapless(f)

(* None of the three properties is inductive.  What a context says of its  *)
(* file holds of the rows it has read or written, which are there for good:*)
(* the ids 1 .. count, at offsets within the file, and at "bind" the row   *)
(* that was just written as well.                                          *)
HasRow(w, k) == \E j \in Nat : 0 < j /\ 2 * j <= Len(w) /\ w[2 * j - 1] = k

Written(w, row) ==
    \E j \in Nat : 0 < j /\ 2 * j <= Len(w) /\ w[2 * j - 1] = row[1] /\ w[2 * j] = row[2]

Mirrors(p) ==
    LET c == ctx[p]
        w == Words(c.table)
    IN  /\ DOMAIN c.index = 1 .. c.count
        /\ \A k \in 1 .. c.count : c.index[k] = 2 * (k - 1)
        /\ c.table # NoTable =>
             /\ 2 * c.count <= Len(w)
             /\ \A k \in 1 .. c.count : HasRow(w, k)
        /\ pc[p] = "build" => c.table = Table(p) /\ pos[p] = 2 * c.count
        /\ pc[p] \in {"execute", "write", "bind", "scan"} => c.table = Table(p)
        /\ pc[p] = "bind" => /\ 2 * c.count + 2 <= Len(w)
                             /\ Written(w, NewRow(p))
        /\ pc[p] = "scan" => stmt[p].kind # "insert"

Acked(p) ==
    (answer[p].stmt.kind = "insert" /\ answer[p].ok) =>
      /\ answer[p].stmt.table \in Tables
      /\ answer[p].out[1] \in Int \X Int
      /\ answer[p].out[1][2] = answer[p].stmt.arg
      /\ Written(Words(answer[p].stmt.table), answer[p].out[1])

SharedInv ==
    /\ TypeInv
    /\ DOMAIN answer = Procs
    /\ \A t \in Tables : Gapless(Words(t))
    /\ \A p \in Procs : Mirrors(p) /\ Acked(p)

-----------------------------------------------------------------------------
(* Files only grow.                                                        *)

Grown(w, v) == Len(w) <= Len(v) /\ \A i \in 1 .. Len(w) : v[i] = w[i]

LEMMA WrittenGrown ==
    ASSUME NEW w \in Seq(Int), NEW v \in Seq(Int), Grown(w, v),
           NEW row, Written(w, row)
    PROVE  Written(v, row)
<1>1. PICK j \in Nat : 0 < j /\ 2 * j <= Len(w) /\ w[2 * j - 1] = row[1] /\ w[2 * j] = row[2]
  BY DEF Written
<1>2. 2 * j - 1 \in 1 .. Len(w) /\ 2 * j \in 1 .. Len(w) /\ 2 * j <= Len(v)
  <2>1. Len(w) \in Nat /\ Len(v) \in Nat /\ Len(w) <= Len(v)
    BY DEF Grown
  <2>2. PICK l \in Nat : l = Len(w)
    BY <2>1
  <2>3. PICK m \in Nat : m = Len(v)
    BY <2>1
  <2>4. l <= m /\ 0 < j /\ 2 * j <= l
    BY ONLY <1>1, <2>1, <2>2, <2>3
  <2>5. 2 * j - 1 \in 1 .. l /\ 2 * j \in 1 .. l /\ 2 * j <= m
    BY ONLY <2>4, j \in Nat, l \in Nat, m \in Nat
  <2> QED
    BY ONLY <2>2, <2>3, <2>5
<1>3. v[2 * j - 1] = row[1] /\ v[2 * j] = row[2]
  <2>1. \A i \in 1 .. Len(w) : v[i] = w[i]
    BY DEF Grown
  <2> QED
    BY ONLY <1>1, <1>2, <2>1
<1> QED
  BY <1>1, <1>2, <1>3 DEF Written

LEMMA IdGrown ==
    ASSUME NEW w \in Seq(Int), NEW v \in Seq(Int), Grown(w, v), NEW k, HasRow(w, k)
    PROVE  HasRow(v, k)
<1>1. PICK j \in Nat : 0 < j /\ 2 * j <= Len(w) /\ w[2 * j - 1] = k
  BY DEF HasRow
<1>2. 2 * j - 1 \in 1 .. Len(w) /\ 2 * j <= Len(v)
  BY <1>1 DEF Grown
<1>3. v[2 * j - 1] = k
  BY <1>1, <1>2 DEF Grown
<1> QED
  BY <1>1, <1>2, <1>3 DEF HasRow

LEMMA AppendGrown ==
    ASSUME NEW w \in Seq(Int), NEW a \in Int, NEW b \in Int
    PROVE  /\ w \o <<a, b>> \in Seq(Int) /\ Grown(w, w \o <<a, b>>)
           /\ Len(w \o <<a, b>>) = Len(w) + 2
           /\ (w \o <<a, b>>)[Len(w) + 1] = a
           /\ (w \o <<a, b>>)[Len(w) + 2] = b
BY DEF Grown

(* A further row with an id that all the rows before lead up to.           *)
LEMMA GaplessAppend ==
    ASSUME NEW w \in Seq(Int), Gapless(w), NEW n \in Nat, NEW x \in Int,
           2 * n <= Len(w), \A k \in 1 .. n : HasRow(w, k)
    PROVE  Gapless(w \o <<n + 1, x>>)
<1> DEFINE v == w \o <<n + 1, x>>
<1>1. /\ v \in Seq(Int) /\ Grown(w, v) /\ Len(v) = Len(w) + 2
      /\ v[Len(w) + 1] = n + 1
  BY AppendGrown
<1>2. PICK m \in Nat : Len(w) = 2 * m
  BY DEF Gapless
<1> HIDE DEF v
<1>3. Len(v) % 2 = 0
  BY <1>1, <1>2
<1>4. ASSUME NEW i \in Nat, 0 < i, 2 * i <= Len(v)
      PROVE  /\ v[2 * i - 1] \in 1 .. i
             /\ \A k \in 1 .. v[2 * i - 1] : HasId(v, k, i)
  <2>1. CASE i <= m
    <3>1. \A j \in Nat : (0 < j /\ j <= i) => v[2 * j - 1] = w[2 * j - 1]
      BY <2>1, <1>1, <1>2 DEF Grown
    <3>2. /\ w[2 * i - 1] \in 1 .. i
          /\ \A k \in 1 .. w[2 * i - 1] : HasId(w, k, i)
      BY <2>1, <1>2, <1>4 DEF Gapless
    <3>3. v[2 * i - 1] \in 1 .. i
      BY <3>1, <3>2, <1>4
    <3>4. ASSUME NEW k \in 1 .. v[2 * i - 1] PROVE HasId(v, k, i)
      <4>1. HasId(w, k, i)
        BY <3>1, <3>2, <1>4
      <4> QED
        BY <4>1, <3>1 DEF HasId
    <3> QED
      BY <3>3, <3>4
  <2>2. CASE i = m + 1
    <3>1. v[2 * i - 1] = n + 1 /\ n + 1 \in 1 .. i
      BY <2>2, <1>1, <1>2
    <3>2. ASSUME NEW k \in 1 .. n PROVE HasId(v, k, i)
      <4>1. PICK j \in Nat : 0 < j /\ 2 * j <= Len(w) /\ w[2 * j - 1] = k
        BY DEF HasRow
      <4>2. v[2 * j - 1] = k /\ j <= i
        BY <4>1, <2>2, <1>1, <1>2 DEF Grown
      <4> QED
        BY <4>1, <4>2 DEF HasId
    <3>3. HasId(v, n + 1, i)
      BY <3>1, <1>4 DEF HasId
    <3> QED
      BY <3>1, <3>2, <3>3
  <2> QED
    BY <2>1, <2>2, <1>1, <1>2, <1>4
<1>5. Gapless(v)
  BY <1>3, <1>4 DEF Gapless
<1> QED
  BY <1>5 DEF v

(* The index takes in the next row.                                        *)
LEMMA BindNext ==
    ASSUME NEW n \in Nat, NEW index, DOMAIN index = 1 .. n,
           \A k \in 1 .. n : index[k] = 2 * (k - 1)
    PROVE  /\ DOMAIN Bind(index, n + 1, 2 * n) = 1 .. n + 1
           /\ \A k \in 1 .. n + 1 : Bind(index, n + 1, 2 * n)[k] = 2 * (k - 1)
<1>1. DOMAIN Bind(index, n + 1, 2 * n) = 1 .. n + 1
  BY DEF Bind
<1>2. Bind(index, n + 1, 2 * n)[n + 1] = 2 * n
  BY DEF Bind
<1>3. ASSUME NEW k \in 1 .. n PROVE Bind(index, n + 1, 2 * n)[k] = 2 * (k - 1)
  BY DEF Bind
<1> QED
  BY <1>1, <1>2, <1>3

(* What a step of one process leaves of what another one relies on.        *)
LEMMA MirrorsStable ==
    ASSUME NEW p \in Procs, TypeInv, TypeInv', Mirrors(p),
           \A t \in Tables : Grown(Words(t), Words(t)'),
           ctx[p]' = ctx[p], pc[p]' = pc[p], stmt[p]' = stmt[p],
           pos[p]' = pos[p]
    PROVE  Mirrors(p)'
<1> DEFINE t == ctx[p].table
           w == Words(t)
           v == Words(t)'
<1>1. NewRow(p)' = NewRow(p) /\ Table(p)' = Table(p) /\ Words(ctx[p].table)' = v
  BY DEF NewRow, NextId, Table, Words
<1>2. CASE t = NoTable
  <2>1. ~(pc[p] \in {"build", "execute", "write", "bind", "scan"})
    BY <1>2, TableOf, SchemasAssumption DEF Mirrors, TypeInv, Table
  <2> QED
    BY <1>1, <1>2, <2>1 DEF Mirrors
<1>3. CASE t # NoTable
  <2>1. t \in Tables /\ w \in Seq(Int) /\ v \in Seq(Int) /\ Grown(w, v)
    BY <1>3, WordsType DEF TypeInv, ContextInv, ContextOK, FileInv, Words
  <2>2. Len(w) <= Len(v) /\ Len(w) \in Nat /\ Len(v) \in Nat /\ ctx[p].count \in Nat
    BY <2>1 DEF Grown, TypeInv, ContextInv, ContextOK
  <2>3. ASSUME NEW k \in 1 .. ctx[p].count PROVE HasRow(v, k)
    <3>1. HasRow(w, k)
      BY <1>3 DEF Mirrors
    <3> QED
      BY <3>1, <2>1, IdGrown
  <2>4. pc[p] = "bind" => Written(v, NewRow(p))
    BY <2>1, WrittenGrown DEF Mirrors
  <2> HIDE DEF v, w
  <2>5. Mirrors(p) <=>
          /\ DOMAIN ctx[p].index = 1 .. ctx[p].count
          /\ \A k \in 1 .. ctx[p].count : ctx[p].index[k] = 2 * (k - 1)
          /\ t # NoTable =>
               /\ 2 * ctx[p].count <= Len(w)
               /\ \A k \in 1 .. ctx[p].count : HasRow(w, k)
          /\ pc[p] = "build" => t = Table(p) /\ pos[p] = 2 * ctx[p].count
          /\ pc[p] \in {"execute", "write", "bind", "scan"} => t = Table(p)
          /\ pc[p] = "bind" => /\ 2 * ctx[p].count + 2 <= Len(w)
                               /\ Written(w, NewRow(p))
          /\ pc[p] = "scan" => stmt[p].kind # "insert"
    BY DEF Mirrors, w
  <2> QED
    BY <1>1, <1>3, <2>2, <2>3, <2>4, <2>5 DEF Mirrors
<1> QED
  BY <1>2, <1>3

LEMMA AckedStable ==
    ASSUME NEW p \in Procs, TypeInv, TypeInv', Acked(p),
           \A t \in Tables : Grown(Words(t), Words(t)'),
           answer[p]' = answer[p]
    PROVE  Acked(p)'
<1> SUFFICES ASSUME answer[p].stmt.kind = "insert" /\ answer[p].ok
             PROVE  Acked(p)'
  BY DEF Acked
<1> DEFINE t == answer[p].stmt.table
<1>1. t \in Tables /\ Written(Words(t), answer[p].out[1])
  BY DEF Acked
<1>2. Words(t) \in Seq(Int) /\ Words(t)' \in Seq(Int)
  BY <1>1, WordsType DEF TypeInv, FileInv, Words
<1>3. Written(Words(t)', answer[p].out[1])
  BY <1>1, <1>2, WrittenGrown
<1>4. Words(answer[p].stmt.table)' = Words(t)'
  BY DEF Words
<1> QED
  BY <1>3, <1>4 DEF Acked

-----------------------------------------------------------------------------
LEMMA SharedInit == SharedAssumption /\ Init => SharedInv
<1> SUFFICES ASSUME SharedAssumption, Init PROVE SharedInv
  OBVIOUS
<1>1. TypeInv /\ DOMAIN answer = Procs
  BY TypeInit DEF Init
<1>2. Gapless(<< >>)
  BY DEF Gapless
<1>3. \A t \in Tables : Gapless(Words(t))
  BY <1>2 DEF SharedAssumption, Init, Words
<1>4. ASSUME NEW p \in Procs PROVE Mirrors(p) /\ Acked(p)
  <2>1. DOMAIN << >> = 1 .. 0
    OBVIOUS
  <2>2. Mirrors(p)
    BY <2>1 DEF Init, Mirrors, EmptyContext, ContextFor
  <2>3. Acked(p)
    BY DEF Init, Acked, NoAnswer, NoStatement
  <2> QED
    BY <2>2, <2>3
<1> QED
  BY <1>1, <1>3, <1>4 DEF SharedInv

(* A step writes at most one row, with the id after those its process      *)
(* knows of, at the end of one file.                                       *)
LEMMA SharedFiles ==
    ASSUME SharedAssumption, SharedInv, NEW p \in Procs,
           \/ \E s \in Statements : Begin(p, s)
           \/ RefuseText(p) \/ Execute(p) \/ Restart(p)
    PROVE  \A t \in Tables : Gapless(Words(t)') /\ Grown(Words(t), Words(t)')
<1>1. TypeInv /\ ~Fault
  BY DEF SharedAssumption, SharedInv, TypeInv, Fault
<1>2. \A t \in Tables : Words(t) \in Seq(Int) /\ Gapless(Words(t))
  BY <1>1, WordsType DEF SharedInv, TypeInv
<1>3. ASSUME NEW t \in Tables, Words(t)' = Words(t)
      PROVE  Gapless(Words(t)') /\ Grown(Words(t), Words(t)')
  <2>1. Len(Words(t)) \in Nat
    BY <1>2
  <2> QED
    BY <1>2, <1>3, <2>1 DEF Grown
<1>4. CASE UNCHANGED file
  BY <1>3, <1>4 DEF Words
<1>5. CASE InsertOpen(p)
  <2>1. \A t \in Tables : Words(t)' = Words(t)
    BY <1>1, <1>2, <1>5, FilesAssumption DEF InsertOpen, TypeInv, FileInv, Words
  <2> QED
    BY <2>1, <1>3
<1>6. CASE InsertWrite(p)
  <2> DEFINE n == ctx[p].count
             x == stmt[p].arg
  <2>1. PICK u \in Tables : u = Table(p)
    BY <1>1, <1>6, TableOf DEF InsertWrite, At, TypeInv
  <2>2. n \in Nat /\ x \in Int /\ pc[p] = "write" /\ Mirrors(p)
    BY <1>1, <1>6, PayloadsAssumption
       DEF InsertWrite, At, TypeInv, ContextInv, ContextOK, ControlInv,
           ControlOK, Statements, SharedInv
  <2>3. ctx[p].table = u /\ u # NoTable
    BY <2>1, <2>2, SchemasAssumption DEF Mirrors
  <2>4. 2 * n <= Len(Words(u)) /\ \A k \in 1 .. n : HasRow(Words(u), k)
    BY <2>2, <2>3 DEF Mirrors
  <2>5. file' = [file EXCEPT ![u] = Words(u) \o <<n + 1, x>>]
    BY <1>6, <2>1 DEF InsertWrite, AppendWords, NewRow, NextId
  <2> HIDE DEF n, x
  <2>6. /\ Words(u) \o <<n + 1, x>> \in Seq(Int)
        /\ Grown(Words(u), Words(u) \o <<n + 1, x>>)
        /\ Gapless(Words(u) \o <<n + 1, x>>)
    <3>1. n + 1 \in Int
      BY <2>2
    <3> QED
      BY <3>1, <1>2, <2>2, <2>4, AppendGrown, GaplessAppend
  <2>7. Words(u)' = Words(u) \o <<n + 1, x>>
    BY <2>5, <2>6, <1>1, FilesAssumption DEF TypeInv, FileInv, Words
  <2>8. \A t \in Tables : t # u => Words(t)' = Words(t)
    BY <2>5, <1>1 DEF TypeInv, FileInv, Words
  <2> QED
    BY <2>6, <2>7, <2>8, <1>3
<1>7. /\ ~MetaFails(p) /\ ~BuildError(p) /\ ~BuildOpenFails(p)
      /\ ~InsertOpenFails(p) /\ ~InsertWriteCut(p) /\ ~InsertWriteFails(p)
      /\ ~InsertNoMemory(p) /\ ~SelectByIdFails(p) /\ ~ScanOpenFails(p)
      /\ ~ScanError(p)
  BY <1>1, NoFault
<1>8. UNCHANGED file \/ InsertOpen(p) \/ InsertWrite(p)
  BY <1>7
     DEF Begin, RefuseText, Execute, Restart, Prepare, Insert, Select,
         MetaMissing, Reuse, Reload, BuildRefused, BuildRow, BuildDuplicate,
         BuildFails, BuildEnd, BuildDone, PreloadEnd, InsertRefused, InsertBind,
         InsertDuplicate, SelectRefused, SelectById, ScanOpen, ScanRow,
         ScanRefused, ScanEnd, ScanDone
<1> QED
  BY <1>4, <1>5, <1>6, <1>8

(* What the process that takes the step knows of its file, before and      *)
(* after: the context grows by the row it has read or written.             *)
LEMMA SharedMirrors ==
    ASSUME SharedAssumption, SharedInv, NEW p \in Procs,
           \/ \E s \in Statements : Begin(p, s)
           \/ RefuseText(p) \/ Execute(p) \/ Restart(p)
    PROVE  Mirrors(p)'
<1> DEFINE c == ctx[p]
<1>1. TypeInv /\ TypeInv' /\ ~Fault
  <2>1. Next
    BY DEF Next
  <2> QED
    BY <2>1, TypeStep DEF SharedAssumption, SharedInv, TypeInv, Fault
<1>2. /\ c.count \in Nat /\ Mirrors(p)
      /\ p \in DOMAIN ctx /\ p \in DOMAIN pc /\ p \in DOMAIN pos
      /\ p \in DOMAIN stmt
      /\ DOMAIN c = {"table", "index", "count", "loaded", "path"}
      /\ \A t \in Tables : Words(t) \in Seq(Int) /\ Gapless(Words(t))
  BY <1>1, WordsType DEF SharedInv, TypeInv, ContextInv, ControlInv, ContextOK
<1>3. ASSUME NEW s \in Statements, Begin(p, s) PROVE Mirrors(p)'
  BY <1>3, <1>2 DEF Begin, Goto, At, Mirrors, Words
<1>4. ASSUME RefuseText(p) PROVE Mirrors(p)'
  BY <1>4, <1>2 DEF RefuseText, Finish, At, Mirrors, Words
<1>5. ASSUME MetaMissing(p) PROVE Mirrors(p)'
  BY <1>5, <1>2 DEF MetaMissing, Fail, Finish, At, Mirrors, Words
<1>6. ASSUME Reuse(p) PROVE Mirrors(p)'
  BY <1>6, <1>2 DEF Reuse, SameTable, Goto, At, Mirrors, Words, Table
<1>7. ASSUME PreloadEnd(p) PROVE Mirrors(p)'
  BY <1>7, <1>2 DEF PreloadEnd, Finish, At, Mirrors, Words
<1>8. ASSUME InsertRefused(p) PROVE Mirrors(p)'
  BY <1>8, <1>2 DEF InsertRefused, SetPath, Finish, At, Mirrors, Words
<1>9. ASSUME SelectRefused(p) PROVE Mirrors(p)'
  BY <1>9, <1>2 DEF SelectRefused, SetPath, Finish, At, Mirrors, Words
<1>10. ASSUME SelectById(p) PROVE Mirrors(p)'
  BY <1>10, <1>2 DEF SelectById, SetPath, Finish, At, Mirrors, Words
<1>11. ASSUME ScanOpen(p) PROVE Mirrors(p)'
  BY <1>11, <1>2 DEF ScanOpen, SetPath, Goto, Finish, At, Mirrors, Words, Table
<1>12. ASSUME ScanRow(p) PROVE Mirrors(p)'
  BY <1>12, <1>2 DEF ScanRow, At, Mirrors, Words, Table
<1>13. ASSUME ScanRefused(p) PROVE Mirrors(p)'
  BY <1>13, <1>2 DEF ScanRefused, Fail, Finish, At, Mirrors, Words
<1>14. ASSUME ScanEnd(p) PROVE Mirrors(p)'
  BY <1>14, <1>2 DEF ScanEnd, ScanDone, Finish, At, Mirrors, Words
<1>15. ASSUME BuildEnd(p) PROVE Mirrors(p)'
  BY <1>15, <1>2 DEF BuildEnd, BuildDone, Goto, At, Mirrors, Words, Table
<1>16. ASSUME Reload(p) PROVE Mirrors(p)'
  <2>1. DOMAIN << >> = 1 .. 0
    OBVIOUS
  <2>2. Table(p) \in Tables /\ Words(Table(p)) \in Seq(Int)
    BY <1>16, <1>1, <1>2, TableOf DEF Reload, At, TypeInv
  <2>3. ctx[p]' = ContextFor(Table(p)) /\ pc[p]' = "build" /\ pos[p]' = 0
        /\ stmt' = stmt /\ file' = file
    BY <1>16, <1>2 DEF Reload, Goto
  <2> QED
    BY <2>1, <2>2, <2>3 DEF Mirrors, ContextFor, Words, Table
<1>17. ASSUME ctx' = [ctx EXCEPT ![p] = EmptyContext], pc[p]' = "idle"
       PROVE  Mirrors(p)'
  <2>1. DOMAIN << >> = 1 .. 0
    OBVIOUS
  <2> QED
    BY <1>17, <1>2, <2>1 DEF Mirrors, EmptyContext, ContextFor
<1>18. ASSUME BuildRefused(p) \/ BuildDuplicate(p) \/ Restart(p)
       PROVE  Mirrors(p)'
  BY <1>18, <1>17, <1>2
     DEF BuildRefused, BuildDuplicate, Restart, BuildFails, Finish
<1> DEFINE n == c.count
<1>19. ASSUME BuildRow(p) PROVE Mirrors(p)'
  <2>1. PICK t \in Tables : t = Table(p)
    BY <1>19, <1>1, TableOf DEF BuildRow, At, TypeInv
  <2> DEFINE w == Words(t)
             id == RowAt(t, 2 * n)[1]
  <2>2. /\ pc[p] = "build" /\ c.table = t /\ t # NoTable /\ pos[p] = 2 * n
        /\ CanRead(t, 2 * n) /\ id \notin 1 .. n
        /\ ctx' = [ctx EXCEPT ![p].index = Bind(@, id, 2 * n), ![p].count = @ + 1]
        /\ pos[p]' = 2 * n + 2 /\ pc' = pc /\ stmt' = stmt /\ file' = file
    BY <1>19, <1>2, <2>1, SchemasAssumption
       DEF BuildRow, At, Mirrors, RowSize
  <2>3. 2 * n + 2 <= Len(w) /\ id = w[2 * n + 1]
    <3>1. 2 * n \in Nat /\ FileInv
      BY <1>1, <1>2 DEF TypeInv
    <3>2. RowAt(t, 2 * n)[1] = Words(t)[2 * n + 1]
      BY <2>2, <3>1, RowType
    <3>3. 2 * n + 2 <= Len(Words(t))
      BY <2>2 DEF CanRead, RowSize
    <3> QED
      BY <3>2, <3>3
  <2>4. w \in Seq(Int) /\ Gapless(w)
    BY <1>2
  <2>5. /\ \A k \in 1 .. n : HasRow(w, k) /\ c.index[k] = 2 * (k - 1)
        /\ DOMAIN c.index = 1 .. n
    BY <2>2, <1>2 DEF Mirrors
  <2>6. n \in Nat
    BY <1>2
  <2> HIDE DEF w, id, n
  <2>7. id = n + 1
    <3>1. 2 * (n + 1) <= Len(w) /\ 2 * (n + 1) - 1 = 2 * n + 1
      BY <2>3, <2>6
    <3>2. w[2 * n + 1] \in 1 .. n + 1
      BY <3>1, <2>4, <2>6 DEF Gapless
    <3> QED
      BY <3>2, <2>2, <2>3, <2>6
  <2>8. \A k \in 1 .. n + 1 : HasRow(w, k)
    <3>1. HasRow(w, n + 1)
      <4>1. PICK j \in Nat : j = n + 1
        BY <2>6
      <4>2. 0 < j /\ 2 * j <= Len(w) /\ 2 * j - 1 = 2 * n + 1
        BY <4>1, <2>3, <2>4, <2>6
      <4>3. w[2 * j - 1] = n + 1
        BY <4>2, <2>3, <2>7
      <4> QED
        BY <4>2, <4>3 DEF HasRow
    <3> QED
      BY <3>1, <2>5, <2>6
  <2>9. /\ ctx[p]'.count = n + 1 /\ ctx[p]'.table = t
        /\ ctx[p]'.index = Bind(c.index, n + 1, 2 * n)
    BY <2>2, <2>7, <1>2 DEF n
  <2>10. /\ DOMAIN ctx[p]'.index = 1 .. n + 1
         /\ \A k \in 1 .. n + 1 : ctx[p]'.index[k] = 2 * (k - 1)
    <3>1. /\ DOMAIN Bind(c.index, n + 1, 2 * n) = 1 .. n + 1
          /\ \A k \in 1 .. n + 1 : Bind(c.index, n + 1, 2 * n)[k] = 2 * (k - 1)
      BY <2>5, <2>6, BindNext
    <3> QED
      BY <2>9, <3>1
  <2>11. /\ Words(ctx[p].table)' = w /\ Table(p)' = t
         /\ pos[p]' = 2 * (n + 1) /\ pc[p]' = "build"
    BY <2>1, <2>2, <2>6, <2>9 DEF Words, Table, w
  <2>12. 2 * (n + 1) <= Len(w)
    BY <2>3, <2>6
  <2> QED
    BY <2>8, <2>9, <2>10, <2>11, <2>12 DEF Mirrors
<1>20. ASSUME InsertOpen(p) PROVE Mirrors(p)'
  <2>1. PICK t \in Tables : t = Table(p)
    BY <1>20, <1>1, TableOf DEF InsertOpen, At, TypeInv
  <2>2. Words(t)' = Words(t)
    BY <1>20, <1>1, <1>2, <2>1, FilesAssumption
       DEF InsertOpen, TypeInv, FileInv, Words
  <2>3. c.table = t /\ pc[p]' = "write" /\ stmt' = stmt
    BY <1>20, <1>2, <2>1 DEF InsertOpen, At, Mirrors, Goto
  <2>4. /\ ctx[p]'.table = t /\ ctx[p]'.count = n
        /\ ctx[p]'.index = c.index
    BY <1>20, <1>2, <2>3 DEF InsertOpen, SetPath
  <2> QED
    BY <1>2, <2>1, <2>2, <2>3, <2>4 DEF Mirrors, Table
<1>21. ASSUME InsertWrite(p) PROVE Mirrors(p)'
  <2>1. PICK t \in Tables : t = Table(p)
    BY <1>21, <1>1, TableOf DEF InsertWrite, At, TypeInv
  <2> DEFINE w == Words(t)
             x == stmt[p].arg
  <2>2. /\ pc[p] = "write" /\ c.table = t /\ t # NoTable
        /\ ctx' = ctx /\ pc[p]' = "bind" /\ stmt' = stmt
        /\ file' = [file EXCEPT ![t] = w \o <<n + 1, x>>]
    BY <1>21, <1>2, <2>1, SchemasAssumption
       DEF InsertWrite, At, Mirrors, Goto, AppendWords, NewRow, NextId
  <2>3. n \in Nat /\ x \in Int /\ w \in Seq(Int) /\ Gapless(w)
    BY <1>1, <1>2, <2>2, PayloadsAssumption
       DEF TypeInv, ControlInv, ControlOK, Statements
  <2>4. /\ 2 * n <= Len(w) /\ \A k \in 1 .. n : HasRow(w, k)
        /\ DOMAIN c.index = 1 .. n
        /\ \A k \in 1 .. n : c.index[k] = 2 * (k - 1)
    BY <1>2, <2>2 DEF Mirrors
  <2> HIDE DEF w, x, n
  <2> DEFINE v == w \o <<n + 1, x>>
  <2>5. /\ v \in Seq(Int) /\ Grown(w, v) /\ Len(v) = Len(w) + 2
        /\ v[Len(w) + 1] = n + 1 /\ v[Len(w) + 2] = x
    BY <2>3, AppendGrown
  <2> HIDE DEF v
  <2>6. Words(t)' = v
    BY <2>2, <2>5, <1>1, FilesAssumption DEF TypeInv, FileInv, Words, v
  <2>7. NewRow(p)' = <<n + 1, x>> /\ Table(p)' = t
    BY <2>1, <2>2 DEF NewRow, NextId, Table, n, x
  <2>8. Written(v, <<n + 1, x>>)
    <3>1. PICK m \in Nat : Len(w) = 2 * m
      BY <2>3 DEF Gapless
    <3>2. PICK j \in Nat : j = m + 1
      OBVIOUS
    <3>3. /\ 0 < j /\ 2 * j <= Len(v)
          /\ v[2 * j - 1] = n + 1 /\ v[2 * j] = x
      BY <3>1, <3>2, <2>5
    <3> QED
      BY <3>3 DEF Written
  <2>9. \A k \in 1 .. n : HasRow(v, k)
    BY <2>3, <2>4, <2>5, IdGrown
  <2>10. Len(w) \in Nat /\ 2 * n <= Len(v) /\ 2 * n + 2 <= Len(v)
    BY <2>3, <2>4, <2>5
  <2>11. ctx[p]'.table = t /\ ctx[p]'.count = n /\ ctx[p]'.index = c.index
    BY <2>2 DEF n
  <2>12. Words(ctx[p].table)' = v
    BY <2>6, <2>11 DEF Words
  <2> QED
    BY <2>2, <2>4, <2>7, <2>8, <2>9, <2>10, <2>11, <2>12 DEF Mirrors
<1>22. ASSUME InsertBind(p) PROVE Mirrors(p)'
  <2>1. PICK t \in Tables : t = Table(p)
    BY <1>22, <1>1, TableOf DEF InsertBind, At, TypeInv
  <2> DEFINE w == Words(t)
  <2>8. NextId(p) = n + 1 /\ NextOffset(p) = 2 * n
    BY <1>2 DEF NextId, NextOffset, RowSize
  <2>2. /\ pc[p] = "bind" /\ c.table = t /\ t # NoTable
        /\ ctx' = [ctx EXCEPT ![p].index = Bind(@, n + 1, 2 * n),
                              ![p].count = @ + 1]
        /\ pc[p]' = "idle" /\ file' = file
    BY <1>22, <1>2, <2>1, <2>8, SchemasAssumption
       DEF InsertBind, At, Mirrors, Finish
  <2>3. /\ n \in Nat /\ w \in Seq(Int)
        /\ 2 * n + 2 <= Len(w) /\ \A k \in 1 .. n : HasRow(w, k)
        /\ DOMAIN c.index = 1 .. n
        /\ \A k \in 1 .. n : c.index[k] = 2 * (k - 1)
        /\ Written(w, <<n + 1, stmt[p].arg>>)
    BY <1>2, <2>2 DEF Mirrors, NewRow, NextId
  <2> HIDE DEF w, n
  <2>4. \A k \in 1 .. n + 1 : HasRow(w, k)
    <3>1. HasRow(w, n + 1)
      BY <2>3 DEF Written, HasRow
    <3> QED
      BY <3>1, <2>3
  <2>5. /\ ctx[p]'.count = n + 1 /\ ctx[p]'.table = t
        /\ ctx[p]'.index = Bind(c.index, n + 1, 2 * n)
    BY <2>2, <1>2 DEF n
  <2>6. /\ DOMAIN ctx[p]'.index = 1 .. n + 1
        /\ \A k \in 1 .. n + 1 : ctx[p]'.index[k] = 2 * (k - 1)
    <3>1. /\ DOMAIN Bind(c.index, n + 1, 2 * n) = 1 .. n + 1
          /\ \A k \in 1 .. n + 1 : Bind(c.index, n + 1, 2 * n)[k] = 2 * (k - 1)
      BY <2>3, BindNext
    <3> QED
      BY <2>5, <3>1
  <2>7. Words(ctx[p].table)' = w /\ 2 * (n + 1) <= Len(w)
    <3>1. Words(ctx[p].table)' = w
      BY <2>2, <2>5 DEF Words, w
    <3>2. 2 * (n + 1) <= Len(w)
      BY <2>3
    <3> QED
      BY <3>1, <3>2
  <2> QED
    BY <2>2, <2>4, <2>5, <2>6, <2>7 DEF Mirrors
<1>23. ~InsertDuplicate(p)
  BY <1>2 DEF InsertDuplicate, NextId, Mirrors
<1>24. /\ ~MetaFails(p) /\ ~BuildError(p) /\ ~BuildOpenFails(p)
       /\ ~InsertOpenFails(p) /\ ~InsertWriteCut(p) /\ ~InsertWriteFails(p)
       /\ ~InsertNoMemory(p) /\ ~SelectByIdFails(p) /\ ~ScanOpenFails(p)
       /\ ~ScanError(p)
  BY <1>1, NoFault
<1> QED
  BY <1>3, <1>4, <1>5, <1>6, <1>7, <1>8, <1>9, <1>10, <1>11, <1>12, <1>13,
     <1>14, <1>15, <1>16, <1>18, <1>19, <1>20, <1>21, <1>22, <1>23, <1>24
     DEF Execute, Prepare, Insert, Select

(* An INSERT is acknowledged only by InsertBind, after its row is in the   *)
(* file.                                                                   *)
LEMMA SharedAcknowledges ==
    ASSUME SharedAssumption, SharedInv, NEW p \in Procs,
           \/ \E s \in Statements : Begin(p, s)
           \/ RefuseText(p) \/ Execute(p) \/ Restart(p)
    PROVE  Acked(p)' /\ DOMAIN answer' = Procs
<1>1. /\ TypeInv /\ ~Fault /\ Mirrors(p) /\ Acked(p)
      /\ p \in DOMAIN answer /\ DOMAIN answer = Procs
  BY DEF SharedAssumption, SharedInv, TypeInv, Fault
<1>3. DOMAIN answer' = Procs
  BY <1>1
     DEF Begin, RefuseText, Execute, Restart, Prepare, Insert, Select,
         MetaMissing, MetaFails, Reuse, Reload, BuildRefused, BuildRow,
         BuildDuplicate, BuildFails, BuildEnd, BuildDone, BuildOpenFails,
         BuildError, PreloadEnd, InsertRefused, InsertBind, InsertDuplicate,
         InsertOpen, InsertOpenFails, InsertWrite, InsertWriteCut,
         InsertWriteFails, InsertNoMemory, SelectRefused, SelectByIdFails,
         SelectById, ScanOpen, ScanOpenFails, ScanError, ScanRow, ScanRefused,
         ScanEnd, ScanDone, Finish, Fail
<1>4. ASSUME answer[p]' = NoAnswer PROVE Acked(p)'
  BY <1>4 DEF Acked, NoAnswer, NoStatement
<1>5. ASSUME NEW ok, NEW rows, NEW path, Finish(p, ok, rows, path),
             ~ok \/ stmt[p].kind # "insert"
      PROVE  Acked(p)'
  <2>1. answer[p]' = [stmt |-> stmt[p], ok |-> ok, out |-> rows, path |-> path]
    BY <1>1, <1>5 DEF Finish
  <2> QED
    BY <1>5, <2>1 DEF Acked
<1>6. ASSUME UNCHANGED answer PROVE Acked(p)'
  <2>1. TypeInv' /\ \A t \in Tables : Grown(Words(t), Words(t)')
    <3>1. Next
      BY DEF Next
    <3> QED
      BY <1>1, <3>1, TypeStep, SharedFiles
  <2> QED
    BY <1>1, <1>6, <2>1, AckedStable
<1>7. ASSUME (\E s \in Statements : Begin(p, s)) \/ Restart(p)
      PROVE  Acked(p)'
  BY <1>1, <1>4, <1>7 DEF Begin, Restart
<1>8. ASSUME RefuseText(p) \/ MetaMissing(p) \/ BuildRefused(p)
               \/ BuildDuplicate(p) \/ InsertRefused(p) \/ InsertDuplicate(p)
               \/ ScanRefused(p)
      PROVE  Acked(p)'
  BY <1>5, <1>8
     DEF RefuseText, MetaMissing, BuildRefused, BuildDuplicate, BuildFails,
         InsertRefused, InsertDuplicate, ScanRefused, Fail
<1>9. ASSUME PreloadEnd(p) \/ SelectRefused(p) PROVE Acked(p)'
  BY <1>5, <1>9 DEF PreloadEnd, SelectRefused
<1>10. ASSUME SelectById(p) PROVE Acked(p)'
  BY <1>5, <1>10 DEF SelectById
<1>11. ASSUME ScanEnd(p) PROVE Acked(p)'
  <2>1. stmt[p].kind # "insert"
    BY <1>1, <1>11 DEF ScanEnd, ScanDone, At, Mirrors
  <2> QED
    BY <1>5, <1>11, <2>1 DEF ScanEnd, ScanDone
<1>12. ASSUME ScanOpen(p) PROVE Acked(p)'
  BY <1>5, <1>6, <1>12 DEF ScanOpen
<1>13. ASSUME Reuse(p) \/ Reload(p) \/ BuildRow(p) \/ BuildEnd(p)
                \/ InsertOpen(p) \/ InsertWrite(p) \/ ScanRow(p)
       PROVE  Acked(p)'
  BY <1>6, <1>13
     DEF Reuse, Reload, BuildRow, BuildEnd, BuildDone, InsertOpen, InsertWrite,
         ScanRow
<1>14. ASSUME InsertBind(p) PROVE Acked(p)'
  <2>1. /\ answer[p]' = [stmt |-> stmt[p], ok |-> TRUE,
                         out |-> <<NewRow(p)>>, path |-> "insert"]
        /\ file' = file /\ pc[p] = "bind"
    BY <1>1, <1>14 DEF InsertBind, Finish, At
  <2>2. /\ stmt[p].table \in Tables /\ stmt[p].arg \in Int
        /\ NextId(p) \in Int /\ ctx[p].table = stmt[p].table
    BY <1>1, <2>1, NextTyped, PayloadsAssumption
       DEF TypeInv, ControlInv, ControlOK, Statements, Mirrors, Table
  <2>3. Written(Words(stmt[p].table), NewRow(p))
    BY <1>1, <2>1, <2>2, SchemasAssumption DEF Mirrors
  <2>4. /\ answer[p]'.stmt.table = stmt[p].table
        /\ answer[p]'.stmt.arg = stmt[p].arg
        /\ answer[p]'.out[1] = NewRow(p)
    BY <2>1
  <2> QED
    BY <2>1, <2>2, <2>3, <2>4 DEF Acked, NewRow, Words
<1>15. /\ ~MetaFails(p) /\ ~BuildError(p) /\ ~BuildOpenFails(p)
       /\ ~InsertOpenFails(p) /\ ~InsertWriteCut(p) /\ ~InsertWriteFails(p)
       /\ ~InsertNoMemory(p) /\ ~SelectByIdFails(p) /\ ~ScanOpenFails(p)
       /\ ~ScanError(p)
  BY <1>1, NoFault
<1> QED
  BY <1>3, <1>7, <1>8, <1>9, <1>10, <1>11, <1>12, <1>13, <1>14, <1>15
     DEF Execute, Prepare, Insert, Select

LEMMA SharedStep ==
    SharedAssumption /\ SharedInv /\ [Next]_vars => SharedInv'
<1> SUFFICES ASSUME SharedAssumption, SharedInv, [Next]_vars
             PROVE  SharedInv'
  OBVIOUS
<1>1. TypeInv /\ TypeInv'
  BY TypeStep DEF SharedInv
<1>2. CASE UNCHANGED vars
  <2>1. \A t \in Tables : Words(t)' = Words(t) /\ Len(Words(t)) \in Nat
    BY <1>1, <1>2, WordsType DEF vars, Words, TypeInv
  <2>2. \A t \in Tables : Gapless(Words(t)') /\ Grown(Words(t), Words(t)')
    BY <2>1 DEF SharedInv, Grown
  <2>3. ASSUME NEW q \in Procs PROVE Mirrors(q)' /\ Acked(q)'
    BY <1>1, <1>2, <2>2, MirrorsStable, AckedStable DEF vars, SharedInv
  <2> QED
    BY <1>1, <1>2, <2>2, <2>3 DEF vars, SharedInv
<1>3. CASE Next
  <2>1. PICK p \in Procs : \/ \E s \in Statements : Begin(p, s)
                           \/ RefuseText(p) \/ Execute(p) \/ Restart(p)
    BY <1>3 DEF Next
  <2>2. \A t \in Tables : Gapless(Words(t)') /\ Grown(Words(t), Words(t)')
    BY <2>1, SharedFiles
  <2>3. Mirrors(p)' /\ Acked(p)' /\ DOMAIN answer' = Procs
    BY <2>1, SharedMirrors, SharedAcknowledges
  <2>4. ASSUME NEW q \in Procs, q # p PROVE Mirrors(q)' /\ Acked(q)'
    <3>1. /\ ctx[q]' = ctx[q] /\ pc[q]' = pc[q] /\ stmt[q]' = stmt[q]
          /\ pos[q]' = pos[q] /\ answer[q]' = answer[q]
      <4>1. /\ q \in DOMAIN ctx /\ q \in DOMAIN pc /\ q \in DOMAIN stmt
            /\ q \in DOMAIN pos /\ q \in DOMAIN answer
        BY <1>1 DEF TypeInv, ContextInv, ControlInv, SharedInv
      <4>2. CASE (\E s \in Statements : Begin(p, s)) \/ RefuseText(p) \/ Restart(p)
        BY <4>1, <4>2, <2>4 DEF Begin, RefuseText, Restart, Finish, Goto
      <4>3. CASE Prepare(p)
        BY <4>1, <4>3, <2>4
           DEF Prepare, MetaMissing, MetaFails, Reuse, Reload, BuildRefused,
               BuildRow, BuildDuplicate, BuildFails, BuildEnd, BuildDone,
               BuildOpenFails, BuildError, PreloadEnd, Finish, Fail, Goto
      <4>4. CASE Insert(p)
        BY <4>1, <4>4, <2>4
           DEF Insert, InsertRefused, InsertOpen, InsertOpenFails, InsertWrite,
               InsertWriteCut, InsertWriteFails, InsertBind, InsertDuplicate,
               InsertNoMemory, SetPath, Finish, Fail, Goto
      <4>5. CASE Select(p)
        BY <4>1, <4>5, <2>4
           DEF Select, SelectRefused, SelectByIdFails, SelectById, ScanOpen,
               ScanOpenFails, ScanError, ScanRow, ScanRefused, ScanEnd,
               ScanDone, SetPath, Finish, Fail, Goto
      <4> QED
        BY <2>1, <4>2, <4>3, <4>4, <4>5 DEF Execute
    <3> QED
      BY <1>1, <2>2, <3>1, MirrorsStable, AckedStable DEF SharedInv
  <2> QED
    BY <1>1, <2>2, <2>3, <2>4 DEF SharedInv
<1> QED
  BY <1>2, <1>3

-----------------------------------------------------------------------------
(* The i-th row of a file is its words 2 i - 1 and 2 i.                    *)
LEMMA RowWords ==
    ASSUME TypeInv, NEW t \in Tables
    PROVE  /\ Words(t) \in Seq(Int) /\ Len(Words(t)) \in Nat
           /\ RowCount(t) \in Nat /\ RowCount(t) = Len(Words(t)) \div 2
           /\ \A i \in Nat : i \in 1 .. RowCount(t) <=> 0 < i /\ 2 * i <= Len(Words(t))
           /\ \A i \in 1 .. RowCount(t) :
                /\ RowsOf(t)[i] = <<Words(t)[2 * i - 1], Words(t)[2 * i]>>
                /\ RowsOf(t)[i][1] = Words(t)[2 * i - 1]
<1> DEFINE w == Words(t)
<1>1. w \in Seq(Int) /\ Len(w) \in Nat /\ RowCount(t) = Len(w) \div 2
  BY WordsType DEF TypeInv, RowCount, RowSize
<1> HIDE DEF w
<1>2. /\ RowCount(t) \in Nat
      /\ \A i \in Nat : i \in 1 .. RowCount(t) <=> 0 < i /\ 2 * i <= Len(w)
  BY <1>1
<1>3. ASSUME NEW i \in 1 .. RowCount(t)
      PROVE  /\ RowsOf(t)[i] = <<w[2 * i - 1], w[2 * i]>>
             /\ RowsOf(t)[i][1] = w[2 * i - 1]
  <2>1. i \in Nat /\ 0 < i /\ 2 * i <= Len(w)
    BY <1>2
  <2>2. RowsOf(t)[i] = SubSeq(w, (i - 1) * 2 + 1, (i - 1) * 2 + 2)
    BY DEF RowsOf, RowAt, RowSize, w
  <2>3. (i - 1) * 2 + 1 = 2 * i - 1 /\ (i - 1) * 2 + 2 = 2 * i
    BY <2>1
  <2>4. SubSeq(w, 2 * i - 1, 2 * i) = <<w[2 * i - 1], w[2 * i]>>
    <3> DEFINE r == SubSeq(w, 2 * i - 1, 2 * i)
    <3>1. Len(r) = 2 /\ r[1] = w[2 * i - 1] /\ r[2] = w[2 * i] /\ r \in Seq(Int)
      BY <1>1, <2>1
    <3> HIDE DEF r
    <3>2. r = <<w[2 * i - 1], w[2 * i]>>
      BY <3>1
    <3> QED
      BY <3>2 DEF r
  <2> QED
    BY <2>2, <2>3, <2>4
<1> QED
  BY <1>1, <1>2, <1>3 DEF w

LEMMA SharedWithinFile == SharedInv => IndexWithinFile
<1> SUFFICES ASSUME SharedInv, NEW p \in Procs, ctx[p].table # NoTable
             PROVE  /\ ctx[p].count <= RowCount(ctx[p].table)
                    /\ \A k \in DOMAIN ctx[p].index :
                         /\ ctx[p].index[k] % RowSize = 0
                         /\ CanRead(ctx[p].table, ctx[p].index[k])
  BY DEF IndexWithinFile
<1> DEFINE n == ctx[p].count
<1>1. PICK t \in Tables : t = ctx[p].table
  BY DEF SharedInv, TypeInv, ContextInv, ContextOK
<1>2. n \in Nat /\ Len(Words(t)) \in Nat /\ RowCount(t) = Len(Words(t)) \div 2
  BY RowWords DEF SharedInv, TypeInv, ContextInv, ContextOK
<1>3. /\ DOMAIN ctx[p].index = 1 .. n
      /\ \A k \in 1 .. n : ctx[p].index[k] = 2 * (k - 1)
      /\ 2 * n <= Len(Words(t))
  BY <1>1 DEF SharedInv, Mirrors
<1> HIDE DEF n
<1>4. n <= RowCount(t)
  BY <1>2, <1>3
<1>5. ASSUME NEW k \in 1 .. n
      PROVE  ctx[p].index[k] % RowSize = 0 /\ CanRead(t, ctx[p].index[k])
  BY <1>2, <1>3 DEF CanRead, RowSize
<1> QED
  BY <1>1, <1>3, <1>4, <1>5 DEF n

LEMMA SharedNumbering == SharedInv => IdsWithoutGaps
<1> SUFFICES ASSUME SharedInv, NEW t \in Tables, NEW i \in 1 .. RowCount(t)
             PROVE  /\ RowsOf(t)[i][1] \in 1 .. i
                    /\ \A k \in 1 .. RowsOf(t)[i][1] :
                         \E j \in 1 .. i : RowsOf(t)[j][1] = k
  BY DEF IdsWithoutGaps
<1> DEFINE w == Words(t)
           r == RowsOf(t)
           m == RowCount(t)
<1>1. /\ m \in Nat /\ Len(w) \in Nat /\ Gapless(w)
      /\ \A j \in Nat : j \in 1 .. m <=> 0 < j /\ 2 * j <= Len(w)
      /\ \A j \in 1 .. m : r[j][1] = w[2 * j - 1]
  BY RowWords DEF SharedInv
<1> HIDE DEF w, r, m
<1>2. i \in 1 .. m /\ i \in Nat /\ 0 < i /\ 2 * i <= Len(w)
  BY <1>1 DEF m
<1>3. w[2 * i - 1] \in 1 .. i /\ \A k \in 1 .. w[2 * i - 1] : HasId(w, k, i)
  BY <1>1, <1>2 DEF Gapless
<1>4. ASSUME NEW k \in 1 .. r[i][1] PROVE \E j \in 1 .. i : r[j][1] = k
  <2>1. PICK j \in Nat : 0 < j /\ j <= i /\ w[2 * j - 1] = k
    BY <1>1, <1>2, <1>3 DEF HasId
  <2>2. j \in 1 .. i /\ j \in 1 .. m
    BY <1>1, <1>2, <2>1
  <2> QED
    BY <1>1, <2>1, <2>2
<1> QED
  BY <1>1, <1>2, <1>3, <1>4 DEF r, m

LEMMA SharedStored == SharedInv => AckedRowStored
<1> SUFFICES ASSUME SharedInv, NEW p \in Procs,
                    answer[p].stmt.kind = "insert", answer[p].ok
             PROVE  \E i \in 1 .. RowCount(answer[p].stmt.table) :
                      /\ RowsOf(answer[p].stmt.table)[i] = answer[p].out[1]
                      /\ answer[p].out[1][2] = answer[p].stmt.arg
  BY DEF AckedRowStored
<1> DEFINE row == answer[p].out[1]
<1>1. PICK t \in Tables : t = answer[p].stmt.table
  BY DEF SharedInv, Acked
<1>2. row \in Int \X Int /\ row[2] = answer[p].stmt.arg /\ Written(Words(t), row)
  BY <1>1 DEF SharedInv, Acked
<1> HIDE DEF row
<1>3. PICK i \in Nat : /\ 0 < i /\ 2 * i <= Len(Words(t))
                       /\ Words(t)[2 * i - 1] = row[1] /\ Words(t)[2 * i] = row[2]
  BY <1>2 DEF Written
<1>4. i \in 1 .. RowCount(t) /\ RowsOf(t)[i] = <<row[1], row[2]>>
  <2>1. /\ i \in 1 .. RowCount(t) <=> 0 < i /\ 2 * i <= Len(Words(t))
        /\ i \in 1 .. RowCount(t) =>
             RowsOf(t)[i] = <<Words(t)[2 * i - 1], Words(t)[2 * i]>>
    BY RowWords DEF SharedInv
  <2> QED
    BY ONLY <1>3, <2>1
<1>5. RowsOf(t)[i] = row
  BY <1>2, <1>4
<1> QED
  BY <1>1, <1>2, <1>4, <1>5 DEF row

(* Any number of processes that meet no fault: an index is only ever stale *)
(* in that it lacks rows.  Every offset in it is that of a whole row, and  *)
(* record_count does not exceed the rows of the file.                      *)
THEOREM SharedIndexWithinFile ==
    ASSUME SharedAssumption PROVE Spec => []IndexWithinFile
<1>1. Init => SharedInv
  BY SharedAssumption, SharedInit
<1>2. SharedInv /\ [Next]_vars => SharedInv'
  BY SharedAssumption, SharedStep
<1>3. SharedInv => IndexWithinFile
  BY SharedWithinFile
<1> QED
  BY <1>1, <1>2, <1>3, PTL DEF Spec

(* They give ids twice, but skip none: the i-th row has an id of at most   *)
(* i, and the smaller ids are all in rows before it.                       *)
THEOREM SharedIdsWithoutGaps ==
    ASSUME SharedAssumption PROVE Spec => []IdsWithoutGaps
<1>1. Init => SharedInv
  BY SharedAssumption, SharedInit
<1>2. SharedInv /\ [Next]_vars => SharedInv'
  BY SharedAssumption, SharedStep
<1>3. SharedInv => IdsWithoutGaps
  BY SharedNumbering
<1> QED
  BY <1>1, <1>2, <1>3, PTL DEF Spec

(* And whatever the others do, a row whose INSERT was acknowledged is in   *)
(* the file, with the id that was printed and the values that were given.  *)
THEOREM SharedAckedRowStored ==
    ASSUME SharedAssumption PROVE Spec => []AckedRowStored
<1>1. Init => SharedInv
  BY SharedAssumption, SharedInit
<1>2. SharedInv /\ [Next]_vars => SharedInv'
  BY SharedAssumption, SharedStep
<1>3. SharedInv => AckedRowStored
  BY SharedStored
<1> QED
  BY <1>1, <1>2, <1>3, PTL DEF Spec

-----------------------------------------------------------------------------
(***************************************************************************)
(* One process meets any number of faults, on files with any ids: a fault  *)
(* costs the numbering of one table at most, and until the first one the   *)
(* index covers its file.                                                  *)
(***************************************************************************)

(* One process, and files in which the next id may be taken or not.        *)
SingleAssumption ==
    /\ \A p, q \in Procs : p = q
    /\ \A f \in InitialFiles : f = NoFile \/ Numbered(f)

(* The first n rows of w are in the index at their offsets, and only they. *)
Indexed(index, n, w) ==
    /\ 2 * n <= Len(w)
    /\ DOMAIN index = {w[2 * i - 1] : i \in 1 .. n}
    /\ \A i \in 1 .. n : index[w[2 * i - 1]] = 2 * (i - 1)

(* The m rows the process knows are those and, at "bind", the one it has   *)
(* just written.  Whatever is behind the indexed rows has the id n + 1, and *)
(* there are more than m only if that id was in the index and refused.     *)
Known(p) == IF pc[p] = "bind" THEN ctx[p].count + 1 ELSE ctx[p].count

Covers(c, w, m) ==
    LET n == c.count
    IN  /\ Indexed(c.index, n, w)
        /\ 2 * m <= Len(w)
        /\ c.loaded =>
             /\ \A i \in Nat : (n < i /\ 2 * i <= Len(w)) => w[2 * i - 1] = n + 1
             /\ 2 * m < Len(w) => n + 1 \in DOMAIN c.index

(* None of the three properties is inductive.  After a fault an INSERT     *)
(* that itself meets none may give an id twice, because the context is no  *)
(* longer right about its file.  A table is suspect as soon as that is so, *)
(* and it takes a fault of its own for a table to become suspect.          *)
Sound(t) ==
    /\ Numbered(Words(t))
    /\ \A p \in Procs : ctx[p].table = t => Covers(ctx[p], Words(t), Known(p))

Suspects == {t \in Tables : ~Sound(t)}

(* Where the context of a process is, whether it can be trusted or not.    *)
Place(p) ==
    LET c == ctx[p]
    IN  /\ pc[p] = "build" => /\ c.table = Table(p) /\ ~c.loaded
                              /\ pos[p] = 2 * c.count
        /\ pc[p] \in {"execute", "write", "bind", "scan"} =>
             c.table = Table(p) /\ c.loaded
        /\ pc[p] = "scan" => stmt[p].kind # "insert"
        /\ c.loaded => c.table # NoTable
        /\ (~c.loaded /\ pc[p] # "build") => c.table = NoTable

Distinct(w) ==
    \A i, j \in Nat :
      (0 < i /\ i < j /\ 2 * j <= Len(w)) => w[2 * i - 1] # w[2 * j - 1]

Acknowledged(p) ==
    /\ pc[p] # "idle" => answer[p] = NoAnswer
    /\ (faults = 0 /\ answer[p].stmt.kind = "insert" /\ answer[p].ok) =>
         /\ answer[p].stmt.table \in Tables
         /\ Distinct(Words(answer[p].stmt.table))

FaultInv ==
    /\ TypeInv
    /\ DOMAIN answer = Procs
    /\ \A p \in Procs : Place(p) /\ Acknowledged(p)
    /\ IsFiniteSet(Suspects) /\ Cardinality(Suspects) <= faults

-----------------------------------------------------------------------------
(* What the steps of an INSERT and of a rebuild do to these relations.     *)

LEMMA IndexedNone ==
    ASSUME NEW w \in Seq(Int) PROVE Indexed(<< >>, 0, w)
<1>1. DOMAIN << >> = {} /\ 1 .. 0 = {}
  OBVIOUS
<1> QED
  BY <1>1 DEF Indexed

LEMMA IndexedNext ==
    ASSUME NEW w \in Seq(Int), NEW n \in Nat, NEW index, Indexed(index, n, w),
           2 * n + 2 <= Len(w), w[2 * n + 1] \notin DOMAIN index
    PROVE  Indexed(Bind(index, w[2 * n + 1], 2 * n), n + 1, w)
<1> DEFINE id == w[2 * n + 1]
           new == Bind(index, id, 2 * n)
<1>1. /\ DOMAIN index = {w[2 * i - 1] : i \in 1 .. n}
      /\ \A i \in 1 .. n : index[w[2 * i - 1]] = 2 * (i - 1)
  BY DEF Indexed
<1>2. 2 * (n + 1) - 1 = 2 * n + 1 /\ 1 .. n + 1 = 1 .. n \union {n + 1}
      /\ 2 * (n + 1) <= Len(w)
  <2>1. 2 * (n + 1) - 1 = 2 * n + 1 /\ 2 * (n + 1) = 2 * n + 2
    BY ONLY n \in Nat
  <2>2. 1 .. n + 1 = 1 .. n \union {n + 1}
    BY ONLY n \in Nat
  <2> QED
    BY <2>1, <2>2
<1>3. /\ DOMAIN new = DOMAIN index \union {id} /\ new[id] = 2 * n
      /\ \A k \in DOMAIN index : new[k] = index[k]
  BY DEF Bind
<1>4. w[2 * (n + 1) - 1] = id
  BY <1>2
<1> HIDE DEF id, new
<1>5. DOMAIN new = {w[2 * i - 1] : i \in 1 .. n + 1}
  <2>1. {w[2 * i - 1] : i \in 1 .. n \union {n + 1}} =
          {w[2 * i - 1] : i \in 1 .. n} \union {w[2 * (n + 1) - 1]}
    OBVIOUS
  <2> QED
    BY ONLY <1>1, <1>2, <1>3, <1>4, <2>1
<1>6. ASSUME NEW i \in 1 .. n + 1 PROVE new[w[2 * i - 1]] = 2 * (i - 1)
  <2>1. CASE i \in 1 .. n
    BY <2>1, <1>1, <1>3
  <2>2. CASE i = n + 1
    BY <2>2, <1>3, <1>4
  <2> QED
    BY <2>1, <2>2, <1>2
<1> QED
  BY <1>2, <1>5, <1>6 DEF Indexed, new, id

LEMMA IndexedGrown ==
    ASSUME NEW w \in Seq(Int), NEW v \in Seq(Int), Grown(w, v),
           NEW n \in Nat, NEW index, Indexed(index, n, w)
    PROVE  Indexed(index, n, v)
<1>1. \A i \in 1 .. n : v[2 * i - 1] = w[2 * i - 1]
  BY DEF Grown, Indexed
<1>2. {v[2 * i - 1] : i \in 1 .. n} = {w[2 * i - 1] : i \in 1 .. n}
  BY <1>1
<1>3. 2 * n <= Len(v)
  BY DEF Grown, Indexed
<1> QED
  BY <1>1, <1>2, <1>3 DEF Indexed

(* Rows that are indexed have different ids.                               *)
LEMMA IndexedDistinct ==
    ASSUME NEW w \in Seq(Int), NEW n \in Nat, NEW index, Indexed(index, n, w),
           NEW i \in 1 .. n, NEW j \in 1 .. n, i # j
    PROVE  w[2 * i - 1] # w[2 * j - 1]
<1>1. index[w[2 * i - 1]] = 2 * (i - 1) /\ index[w[2 * j - 1]] = 2 * (j - 1)
  BY DEF Indexed
<1> QED
  BY <1>1

(* append_binary_row writes a row with the next id.                        *)
LEMMA CoversWrite ==
    ASSUME NEW w \in Seq(Int), Len(w) % 2 = 0, NEW c, c.count \in Nat, c.loaded,
           Covers(c, w, c.count), NEW x \in Int
    PROVE  LET v == w \o <<c.count + 1, x>>
           IN  Covers(c, v, c.count + 1) /\ Numbered(v)
<1> DEFINE v == w \o <<c.count + 1, x>>
           n == c.count
           index == c.index
<1>1. /\ Indexed(index, n, w) /\ 2 * n <= Len(w)
      /\ \A i \in Nat : (n < i /\ 2 * i <= Len(w)) => w[2 * i - 1] = n + 1
      /\ 2 * n < Len(w) => n + 1 \in DOMAIN index
  BY DEF Covers
<1>2. /\ v \in Seq(Int) /\ Len(v) = Len(w) + 2 /\ v[Len(w) + 1] = n + 1
      /\ \A i \in 1 .. Len(w) : v[i] = w[i]
  OBVIOUS
<1>3. n \in Nat
  OBVIOUS
<1>4. PICK m \in Nat : Len(w) = 2 * m
  <2>1. Len(w) \div 2 \in Nat /\ Len(w) = 2 * (Len(w) \div 2)
    OBVIOUS
  <2> QED
    BY <2>1
<1> HIDE DEF v, n, index
<1>5. n <= m /\ Len(v) = 2 * (m + 1) /\ v[2 * (m + 1) - 1] = n + 1
  BY <1>1, <1>2, <1>3, <1>4
<1>6. Indexed(index, n, v)
  <2>0. Len(w) \in Nat
    OBVIOUS
  <2>1. Grown(w, v)
    BY ONLY <2>0, <1>2 DEF Grown
  <2> QED
    BY ONLY <2>1, <1>1, <1>2, <1>3, w \in Seq(Int), IndexedGrown
<1>7. ASSUME NEW i \in Nat, n < i, 2 * i <= Len(v) PROVE v[2 * i - 1] = n + 1
  <2>1. CASE i = m + 1
    BY <2>1, <1>5
  <2>2. CASE i # m + 1
    <3>1. 2 * i <= Len(w) /\ 2 * i - 1 \in 1 .. Len(w)
      BY <2>2, <1>3, <1>4, <1>5, <1>7
    <3> QED
      BY <3>1, <1>1, <1>2, <1>7
  <2> QED
    BY <2>1, <2>2
<1>8. Covers(c, v, c.count + 1)
  <2>1. 2 * (n + 1) <= Len(v)
    BY <1>3, <1>5
  <2>2. 2 * (n + 1) < Len(v) => n + 1 \in DOMAIN index
    BY <1>1, <1>3, <1>4, <1>5
  <2> QED
    BY <1>6, <1>7, <2>1, <2>2 DEF Covers, n, index
<1>9. Len(v) \div RowSize = m + 1 /\ Len(v) % RowSize = 0
  BY <1>5 DEF RowSize
<1>10. DOMAIN index = {v[2 * i - 1] : i \in 1 .. n}
  BY <1>6 DEF Indexed
<1>11. CASE n + 1 \in DOMAIN index
  <2>1. \A i, j \in 1 .. n : i # j => v[2 * i - 1] # v[2 * j - 1]
    BY <1>2, <1>3, <1>6, IndexedDistinct
  <2>2. \A i \in n + 1 .. m + 1 : v[2 * i - 1] = n + 1
    BY <1>3, <1>5, <1>7
  <2>3. \E j \in 1 .. n : v[2 * j - 1] = n + 1
    BY <1>10, <1>11
  <2>4. n \in 0 .. m + 1
    BY <1>3, <1>5
  <2>5. Numbered(v)
    BY <1>9, <2>1, <2>2, <2>3, <2>4 DEF Numbered, RowSize
  <2> QED
    BY <1>8, <2>5 DEF v, n
<1>12. CASE n + 1 \notin DOMAIN index
  <2>1. m = n
    BY <1>1, <1>3, <1>4, <1>5, <1>12
  <2>2. ASSUME NEW i \in 1 .. n + 1, NEW j \in 1 .. n + 1, i # j
        PROVE  v[2 * i - 1] # v[2 * j - 1]
    <3>1. CASE i \in 1 .. n /\ j \in 1 .. n
      BY <3>1, <2>2, <1>2, <1>3, <1>6, IndexedDistinct
    <3>2. CASE i \in 1 .. n /\ j = n + 1
      BY <3>2, <2>1, <1>5, <1>10, <1>12
    <3>3. CASE i = n + 1 /\ j \in 1 .. n
      BY <3>3, <2>1, <1>5, <1>10, <1>12
    <3> QED
      BY <3>1, <3>2, <3>3, <2>2, <1>3
  <2>3. n + 1 \in 0 .. m + 1 /\ n + 1 + 1 .. m + 1 = {} /\ ~(n + 1 < m + 1)
    BY <2>1, <1>3
  <2>4. Numbered(v)
    BY <1>9, <2>2, <2>3 DEF Numbered, RowSize
  <2> QED
    BY <1>8, <2>4 DEF v, n
<1> QED
  BY <1>11, <1>12

(* The row that was written goes into the index.                           *)
LEMMA CoversBound ==
    ASSUME NEW w \in Seq(Int), NEW c, c.count \in Nat, c.loaded,
           DOMAIN c = {"table", "index", "count", "loaded", "path"},
           Len(w) % 2 = 0, Covers(c, w, c.count + 1), c.count + 1 \notin DOMAIN c.index,
           NEW d, d.index = Bind(c.index, c.count + 1, 2 * c.count),
           d.count = c.count + 1
    PROVE  Covers(d, w, d.count) /\ Distinct(w)
<1> DEFINE n == c.count
<1>1. /\ Indexed(c.index, n, w) /\ 2 * (n + 1) <= Len(w)
      /\ \A i \in Nat : (n < i /\ 2 * i <= Len(w)) => w[2 * i - 1] = n + 1
      /\ ~(2 * (n + 1) < Len(w))
  BY DEF Covers
<1>2. n \in Nat /\ Len(w) \in Nat
  OBVIOUS
<1> HIDE DEF n
<1>3. Len(w) = 2 * n + 2
  BY <1>1, <1>2
<1>4. w[2 * n + 1] = n + 1
  <2>1. n + 1 \in Nat /\ n < n + 1 /\ 2 * (n + 1) <= Len(w) /\ 2 * (n + 1) - 1 = 2 * n + 1
    BY <1>1, <1>2
  <2> QED
    BY <2>1, <1>1
<1>5. Indexed(d.index, n + 1, w)
  <2>1. Indexed(Bind(c.index, w[2 * n + 1], 2 * n), n + 1, w)
    <3>1. w[2 * n + 1] \notin DOMAIN c.index /\ 2 * n + 2 <= Len(w)
      BY <1>3, <1>4 DEF n
    <3>2. Indexed(c.index, n, w)
      BY <1>1
    <3> QED
      BY ONLY <3>1, <3>2, <1>2, w \in Seq(Int), IndexedNext
  <2> QED
    BY <2>1, <1>4 DEF n
<1>6. \A i \in Nat : ~(n + 1 < i /\ 2 * i <= Len(w))
  BY <1>2, <1>3
<1>7. Covers(d, w, d.count)
  BY <1>1, <1>2, <1>3, <1>5, <1>6 DEF Covers, n
<1>8. ASSUME NEW i \in Nat, NEW j \in Nat, 0 < i, i < j, 2 * j <= Len(w)
      PROVE  w[2 * i - 1] # w[2 * j - 1]
  <2>1. i \in 1 .. n + 1 /\ j \in 1 .. n + 1 /\ i # j
    BY <1>2, <1>3, <1>8
  <2>2. n + 1 \in Nat
    BY <1>2
  <2>3. PICK m \in Nat : m = n + 1
    BY <2>2
  <2>4. Indexed(d.index, m, w) /\ i \in 1 .. m /\ j \in 1 .. m
    BY <2>1, <2>3, <1>5
  <2> QED
    BY ONLY <2>1, <2>4, m \in Nat, w \in Seq(Int), IndexedDistinct
<1> QED
  BY <1>7, <1>8 DEF Distinct

(* The id that was written is in the index already.                        *)
LEMMA CoversRefused ==
    ASSUME NEW w \in Seq(Int), NEW c, c.count \in Nat, Covers(c, w, c.count + 1),
           c.count + 1 \in DOMAIN c.index
    PROVE  Covers(c, w, c.count)
BY DEF Covers

-----------------------------------------------------------------------------
(* The steps of a process, by what they do to its context and its file.    *)

Step(p) ==
    \/ \E s \in Statements : Begin(p, s)
    \/ RefuseText(p) \/ Execute(p) \/ Restart(p)

SameContext(p) ==
    /\ ctx[p].table' = ctx[p].table /\ ctx[p].index' = ctx[p].index
    /\ ctx[p].count' = ctx[p].count /\ ctx[p].loaded' = ctx[p].loaded

SameWords == \A t \in Tables : Words(t)' = Words(t)

(* Another place in the statement, or another path, and no more.           *)
Kept(p) == SameWords /\ SameContext(p) /\ Known(p)' = ctx[p].count /\ Known(p) = ctx[p].count

Dropped(p) == SameWords /\ ctx[p]' = EmptyContext

LEMMA SameFile == ASSUME UNCHANGED file PROVE SameWords
BY DEF SameWords, Words

LEMMA PathSame ==
    ASSUME TypeInv, NEW p \in Procs, NEW path, SetPath(p, path)
    PROVE  SameContext(p)
BY DEF SetPath, SameContext, TypeInv, ContextInv

LEMMA FinishIdle ==
    ASSUME TypeInv, NEW p \in Procs, NEW ok, NEW rows, NEW path,
           Finish(p, ok, rows, path)
    PROVE  pc[p]' = "idle" /\ pos[p]' = 0 /\ stmt[p]' = NoStatement
BY DEF Finish, TypeInv, ControlInv

(* Every step is one of these, or one of the ten that are looked at below. *)
LEMMA StepKinds ==
    ASSUME TypeInv, NEW p \in Procs, Step(p)
    PROVE  \/ Kept(p) \/ Dropped(p)
           \/ Reload(p) \/ BuildRow(p) \/ BuildEnd(p) \/ BuildOpenFails(p)
           \/ InsertWrite(p) \/ InsertWriteCut(p) \/ InsertWriteFails(p)
           \/ InsertBind(p) \/ InsertDuplicate(p) \/ InsertNoMemory(p)
<1>0. p \in DOMAIN ctx /\ p \in DOMAIN pc
  BY DEF TypeInv, ContextInv, ControlInv
<1>1. ASSUME SameWords, SameContext(p), pc[p] # "bind", pc[p]' # "bind"
      PROVE  Kept(p)
  BY <1>1 DEF Kept, Known, SameContext
<1>2. ASSUME UNCHANGED ctx PROVE SameContext(p)
  BY <1>2 DEF SameContext
<1>3. ASSUME NEW s \in Statements, Begin(p, s) PROVE Kept(p)
  BY <1>0, <1>1, <1>2, <1>3, SameFile DEF Begin, At, Goto
<1>4. ASSUME RefuseText(p) PROVE Kept(p)
  BY <1>1, <1>2, <1>4, SameFile, FinishIdle DEF RefuseText, At
<1>5. ASSUME MetaMissing(p) \/ MetaFails(p) PROVE Kept(p)
  BY <1>1, <1>2, <1>5, SameFile, FinishIdle DEF MetaMissing, MetaFails, At, Fail
<1>6. ASSUME Reuse(p) PROVE Kept(p)
  BY <1>0, <1>1, <1>2, <1>6, SameFile DEF Reuse, At, Goto
<1>7. ASSUME PreloadEnd(p) PROVE Kept(p)
  BY <1>1, <1>2, <1>7, SameFile, FinishIdle DEF PreloadEnd, At
<1>8. ASSUME InsertRefused(p) PROVE Kept(p)
  BY <1>1, <1>8, SameFile, PathSame, FinishIdle DEF InsertRefused, At
<1>9. ASSUME InsertOpen(p) PROVE Kept(p)
  <2>1. SameWords
    BY <1>9, FilesAssumption DEF InsertOpen, TypeInv, FileInv, Words, SameWords
  <2> QED
    BY <1>0, <1>1, <1>9, <2>1, PathSame DEF InsertOpen, At, Goto
<1>10. ASSUME InsertOpenFails(p) PROVE Kept(p)
  BY <1>1, <1>10, SameFile, PathSame, FinishIdle DEF InsertOpenFails, At
<1>11. ASSUME SelectRefused(p) PROVE Kept(p)
  BY <1>1, <1>11, SameFile, PathSame, FinishIdle DEF SelectRefused, At
<1>12. ASSUME SelectById(p) \/ SelectByIdFails(p) \/ ScanOpenFails(p) PROVE Kept(p)
  BY <1>1, <1>12, SameFile, PathSame, FinishIdle
     DEF SelectById, SelectByIdFails, ScanOpenFails, At
<1>13. ASSUME ScanOpen(p) PROVE Kept(p)
  BY <1>0, <1>1, <1>13, SameFile, PathSame, FinishIdle DEF ScanOpen, At, Goto
<1>14. ASSUME ScanRow(p) PROVE Kept(p)
  BY <1>1, <1>2, <1>14, SameFile DEF ScanRow, At
<1>15. ASSUME ScanRefused(p) PROVE Kept(p)
  BY <1>1, <1>2, <1>15, SameFile, FinishIdle DEF ScanRefused, At, Fail
<1>16. ASSUME ScanEnd(p) \/ ScanError(p) PROVE Kept(p)
  BY <1>1, <1>2, <1>16, SameFile, FinishIdle
     DEF ScanEnd, ScanError, ScanDone, At
<1>17. ASSUME BuildRefused(p) \/ BuildDuplicate(p) \/ BuildError(p) \/ Restart(p)
       PROVE  Dropped(p)
  BY <1>0, <1>17, SameFile
     DEF BuildRefused, BuildDuplicate, BuildError, BuildFails, Restart, Dropped
<1> QED
  BY <1>3, <1>4, <1>5, <1>6, <1>7, <1>8, <1>9, <1>10, <1>11, <1>12, <1>13,
     <1>14, <1>15, <1>16, <1>17 DEF Step, Execute, Prepare, Insert, Select

(* Where the context of a process is, step by step.                        *)
LEMMA PlaceStep ==
    ASSUME TypeInv, NEW p \in Procs, Place(p), Step(p)
    PROVE  Place(p)'
<1>0. /\ p \in DOMAIN ctx /\ p \in DOMAIN pc /\ p \in DOMAIN pos /\ p \in DOMAIN stmt
      /\ DOMAIN ctx[p] = {"table", "index", "count", "loaded", "path"}
      /\ ctx[p].count \in Nat
  BY DEF TypeInv, ContextInv, ControlInv, ContextOK
<1>1. ASSUME SameContext(p), pc[p] # "build", pc[p]' = "idle" PROVE Place(p)'
  BY <1>1 DEF Place, SameContext
<1>2. ASSUME UNCHANGED ctx PROVE SameContext(p)
  BY <1>2 DEF SameContext
<1>3. ASSUME NEW s \in Statements, Begin(p, s) PROVE Place(p)'
  BY <1>0, <1>3 DEF Begin, At, Goto, Place
<1>4. ASSUME RefuseText(p) \/ PreloadEnd(p) \/ ScanEnd(p) \/ ScanError(p)
      PROVE  Place(p)'
  BY <1>1, <1>2, <1>4, FinishIdle
     DEF RefuseText, PreloadEnd, ScanEnd, ScanError, ScanDone, At
<1>5. ASSUME MetaMissing(p) \/ MetaFails(p) \/ ScanRefused(p) \/ InsertDuplicate(p)
      PROVE  Place(p)'
  BY <1>1, <1>2, <1>5, FinishIdle
     DEF MetaMissing, MetaFails, ScanRefused, InsertDuplicate, At, Fail
<1>6. ASSUME Reuse(p) PROVE Place(p)'
  BY <1>0, <1>6 DEF Reuse, SameTable, At, Goto, Place, Table
<1>7. ASSUME \/ InsertRefused(p) \/ InsertOpenFails(p) \/ SelectRefused(p)
             \/ SelectById(p) \/ SelectByIdFails(p) \/ ScanOpenFails(p)
      PROVE  Place(p)'
  BY <1>1, <1>7, PathSame, FinishIdle
     DEF InsertRefused, InsertOpenFails, SelectRefused, SelectById,
         SelectByIdFails, ScanOpenFails, At
<1>8. ASSUME InsertOpen(p) PROVE Place(p)'
  BY <1>0, <1>8, PathSame DEF InsertOpen, At, Goto, Place, SameContext, Table
<1>9. ASSUME ScanOpen(p) PROVE Place(p)'
  <2>1. CASE pc[p]' = "idle"
    BY <1>1, <1>9, <2>1, PathSame DEF ScanOpen, At
  <2>2. CASE pc[p]' # "idle"
    <3>1. pc[p]' = "scan" /\ stmt' = stmt
      BY <1>0, <1>9, <2>2, FinishIdle DEF ScanOpen, Goto
    <3> QED
      BY <1>9, <3>1, PathSame DEF ScanOpen, At, Place, SameContext, Table
  <2> QED
    BY <2>1, <2>2
<1>10. ASSUME ScanRow(p) PROVE Place(p)'
  BY <1>0, <1>10 DEF ScanRow, At, Place, Table
<1>11. ASSUME Dropped(p), pc[p]' = "idle" PROVE Place(p)'
  BY <1>11 DEF Dropped, Place, EmptyContext, ContextFor
<1>12. ASSUME BuildRefused(p) \/ BuildDuplicate(p) \/ BuildError(p) \/ Restart(p)
       PROVE  Place(p)'
  BY <1>0, <1>11, <1>12, SameFile, FinishIdle
     DEF BuildRefused, BuildDuplicate, BuildError, BuildFails, Restart, Dropped
<1>13. ASSUME Reload(p) PROVE Place(p)'
  BY <1>0, <1>13 DEF Reload, Goto, Place, ContextFor, Table
<1>14. ASSUME BuildRow(p) PROVE Place(p)'
  <2>1. /\ ctx[p].table' = ctx[p].table /\ ctx[p].count' = ctx[p].count + 1
        /\ ctx[p].loaded' = ctx[p].loaded
        /\ pos[p]' = pos[p] + 2 /\ pc' = pc /\ stmt' = stmt
    BY <1>0, <1>14 DEF BuildRow, RowSize
  <2>2. pos[p] = 2 * ctx[p].count /\ pos[p]' = 2 * ctx[p].count'
    BY <1>0, <1>14, <2>1 DEF BuildRow, At, Place
  <2> QED
    BY <1>14, <2>1, <2>2 DEF BuildRow, At, Place, Table
<1>15. ASSUME BuildEnd(p) \/ BuildOpenFails(p) PROVE Place(p)'
  <2>1. Table(p) # NoTable
    BY <1>15, TableOf, SchemasAssumption
       DEF BuildEnd, BuildOpenFails, At, TypeInv
  <2> QED
    BY <1>0, <1>15, <2>1
       DEF BuildEnd, BuildOpenFails, BuildDone, At, Goto, Place, Table
<1>16. ASSUME InsertWrite(p) \/ InsertWriteCut(p) PROVE Place(p)'
  BY <1>0, <1>16 DEF InsertWrite, InsertWriteCut, At, Goto, Place, Table
<1>17. ASSUME InsertWriteFails(p) PROVE Place(p)'
  BY <1>1, <1>2, <1>17, FinishIdle DEF InsertWriteFails, At, Fail
<1>18. ASSUME InsertBind(p) PROVE Place(p)'
  <2>1. ctx[p].table' = ctx[p].table /\ ctx[p].loaded' = ctx[p].loaded
    BY <1>0, <1>18 DEF InsertBind
  <2> QED
    BY <1>18, <2>1, FinishIdle DEF InsertBind, At, Place
<1>19. ASSUME InsertNoMemory(p) PROVE Place(p)'
  <2>1. ctx[p].table' = ctx[p].table /\ ctx[p].loaded' = ctx[p].loaded
    BY <1>0, <1>19 DEF InsertNoMemory
  <2> QED
    BY <1>19, <2>1, FinishIdle DEF InsertNoMemory, At, Place
<1> QED
  BY <1>3, <1>4, <1>5, <1>6, <1>7, <1>8, <1>9, <1>10, <1>12, <1>13, <1>14,
     <1>15, <1>16, <1>17, <1>18, <1>19 DEF Step, Execute, Prepare, Insert, Select

-----------------------------------------------------------------------------
(* A table becomes suspect only by a fault of a statement on it.           *)
LEMMA SoundStep ==
    ASSUME SingleAssumption, TypeInv, NEW p \in Procs, Place(p), Step(p),
           NEW t \in Tables, Sound(t), faults' = faults \/ t # Table(p)
    PROVE  Sound(t)'
<1> DEFINE c == ctx[p]
           w == Words(t)
<1>0. /\ p \in DOMAIN ctx /\ p \in DOMAIN pc /\ p \in DOMAIN stmt
      /\ DOMAIN c = {"table", "index", "count", "loaded", "path"}
      /\ c.count \in Nat
      /\ w \in Seq(Int) /\ Numbered(w) /\ Len(w) % 2 = 0
      /\ t # NoTable /\ faults \in Nat
  <2>1. faults \in Nat /\ t # NoTable
    BY SchemasAssumption, BoundsAssumption DEF TypeInv
  <2>2. w \in Seq(Int)
    BY WordsType DEF TypeInv
  <2>3. Numbered(w) /\ Len(w) % 2 = 0
    BY DEF Sound, Numbered, RowSize
  <2> QED
    BY <2>1, <2>2, <2>3 DEF TypeInv, ContextInv, ControlInv, ContextOK
<1>1. c.table = t => Covers(c, w, Known(p))
  BY DEF Sound
<1>2. ASSUME Numbered(w'), c.table' = t => Covers(c', w', Known(p)')
      PROVE  Sound(t)'
  BY <1>2 DEF Sound, SingleAssumption
<1>3. ASSUME w' = w, c.table' = t => Covers(c', w, Known(p)')
      PROVE  Sound(t)'
  BY <1>0, <1>2, <1>3
<1>4. CASE Kept(p)
  <2>1. w' = w
    BY <1>4 DEF Kept, SameWords
  <2>2. c.table' = t => Covers(c', w, Known(p)')
    BY <1>1, <1>4 DEF Kept, SameContext, Covers
  <2> QED
    BY <1>3, <2>1, <2>2
<1>5. CASE Dropped(p)
  BY <1>0, <1>3, <1>5 DEF Dropped, SameWords, EmptyContext, ContextFor
<1>6. CASE Reload(p)
  <2>1. c' = ContextFor(Table(p)) /\ Known(p)' = 0
    BY <1>0, <1>6 DEF Reload, Goto, Known, ContextFor
  <2>2. Indexed(<< >>, 0, w) /\ 2 * 0 <= Len(w)
    BY <1>0, IndexedNone
  <2>3. Covers(c', w, Known(p)')
    BY <2>1, <2>2 DEF Covers, ContextFor
  <2> QED
    BY <1>3, <1>6, <2>3, SameFile DEF Reload, SameWords
<1>7. ASSUME c.table' = c.table, c.table # t, w' = w PROVE Sound(t)'
  BY <1>3, <1>7
<1>8. CASE BuildRow(p)
  <2>1. c.table = Table(p) /\ c.table' = c.table /\ w' = w /\ pc' = pc
    BY <1>0, <1>8, SameFile DEF BuildRow, At, Place, SameWords
  <2>2. CASE t = Table(p)
    <3>1. /\ pos[p] = 2 * c.count /\ 2 * c.count + 2 <= Len(w) /\ ~c.loaded
          /\ pc[p] = "build"
      BY <1>0, <1>8, <2>2 DEF BuildRow, At, Place, CanRead, RowSize
    <3>2. RowAt(t, pos[p])[1] = w[2 * c.count + 1]
      BY <1>0, <1>8, <2>2, <3>1, RowType DEF BuildRow, TypeInv
    <3>3. /\ w[2 * c.count + 1] \notin DOMAIN c.index
          /\ c' = [c EXCEPT !.index = Bind(@, w[2 * c.count + 1], 2 * c.count),
                            !.count = @ + 1]
      BY <1>0, <1>8, <2>2, <3>1, <3>2 DEF BuildRow
    <3>4. /\ c.index' = Bind(c.index, w[2 * c.count + 1], 2 * c.count)
          /\ c.count' = c.count + 1 /\ ~c.loaded' /\ Known(p)' = c.count + 1
      BY <1>0, <2>1, <3>1, <3>3 DEF Known
    <3>5. Indexed(c.index, c.count, w)
      BY <1>1, <2>1, <2>2 DEF Covers
    <3>6. Indexed(c.index', c.count', w)
      <4>1. PICK index : index = c.index
        OBVIOUS
      <4>2. PICK n \in Nat : n = c.count
        BY <1>0
      <4>3. Indexed(Bind(index, w[2 * n + 1], 2 * n), n + 1, w)
        <5>1. /\ Indexed(index, n, w) /\ 2 * n + 2 <= Len(w)
              /\ w[2 * n + 1] \notin DOMAIN index
          BY <3>1, <3>3, <3>5, <4>1, <4>2
        <5> QED
          BY <5>1, <1>0, IndexedNext
      <4> QED
        BY <3>4, <4>1, <4>2, <4>3
    <3>7. 2 * Known(p)' <= Len(w)
      BY <1>0, <3>1, <3>4
    <3> QED
      BY <1>3, <2>1, <3>4, <3>6, <3>7 DEF Covers
  <2> QED
    BY <1>7, <2>1, <2>2
<1>9. CASE BuildEnd(p)
  <2>1. /\ c.table = Table(p) /\ w' = w /\ pc[p] = "build" /\ pc[p]' = "execute"
        /\ c' = [c EXCEPT !.loaded = TRUE] /\ ~CanRead(Table(p), pos[p])
        /\ pos[p] = 2 * c.count
    BY <1>0, <1>9, SameFile DEF BuildEnd, BuildDone, At, Goto, Place, SameWords
  <2>2. /\ c.table' = c.table /\ c.index' = c.index /\ c.count' = c.count
        /\ Known(p)' = c.count
    BY <1>0, <2>1 DEF Known
  <2>3. CASE t = Table(p)
    <3>1. Indexed(c.index, c.count, w) /\ 2 * c.count <= Len(w)
      BY <1>0, <1>1, <2>1, <2>3 DEF Covers, Known
    <3>2. PICK n \in Nat : n = c.count
      BY <1>0
    <3>3. Len(w) = 2 * n
      <4>1. ~(2 * n + 2 <= Len(w)) /\ 2 * n <= Len(w) /\ Len(w) \in Nat
        <5>1. Len(w) \in Nat /\ Words(Table(p)) = w /\ pos[p] = 2 * n
          BY <1>0, <2>1, <2>3, <3>2
        <5>2. ~(2 * n + 2 <= Len(w))
          BY <2>1, <5>1 DEF CanRead, RowSize
        <5> QED
          BY <3>1, <3>2, <5>1, <5>2
      <4>2. Len(w) % 2 = 0
        BY <1>0
      <4>3. PICK l \in Nat : l = Len(w)
        BY <4>1
      <4> QED
        BY <4>1, <4>2, <4>3, EvenBetween
    <3>4. \A i \in Nat : ~(n < i /\ 2 * i <= Len(w))
      BY ONLY <3>3, n \in Nat
    <3>5. ~(2 * n < Len(w)) /\ 2 * n <= Len(w)
      BY <3>3
    <3>6. Covers(c', w, Known(p)')
      BY <2>2, <3>1, <3>2, <3>4, <3>5 DEF Covers
    <3> QED
      BY <1>3, <2>1, <3>6
  <2> QED
    BY <1>7, <2>1, <2>2, <2>3
<1>10. ASSUME c.table = Table(p), t # Table(p), ctx' = ctx \/ InsertNoMemory(p),
              file' = file \/ \E words : AppendWords(Table(p), words)
       PROVE  Sound(t)'
  <2>1. w' = w
    BY <1>10 DEF AppendWords, Words, TypeInv, FileInv
  <2>2. c.table' = c.table
    BY <1>0, <1>10 DEF InsertNoMemory
  <2> QED
    BY <1>7, <1>10, <2>1, <2>2
<1>11. CASE InsertWrite(p)
  <2>1. /\ c.table = Table(p) /\ c.loaded /\ ctx' = ctx /\ pc[p] = "write"
        /\ pc[p]' = "bind" /\ Table(p) \in Tables
    BY <1>0, <1>11, TableOf DEF InsertWrite, At, Goto, Place, TypeInv
  <2>2. CASE t = Table(p)
    <3> DEFINE x == stmt[p].arg
               v == w \o <<c.count + 1, x>>
    <3>1. x \in Int
      BY <2>1, PayloadsAssumption
         DEF TypeInv, ControlInv, ControlOK, Statements
    <3>2. Covers(c, w, c.count)
      BY <1>1, <2>1, <2>2 DEF Known
    <3>3. Covers(c, v, c.count + 1) /\ Numbered(v)
      <4>1. PICK d : d = c
        OBVIOUS
      <4>2. Covers(d, w, d.count) /\ d.count \in Nat /\ d.loaded
        BY <1>0, <2>1, <3>2, <4>1
      <4>3. /\ Covers(d, w \o <<d.count + 1, x>>, d.count + 1)
            /\ Numbered(w \o <<d.count + 1, x>>)
        <5> HIDE DEF x
        <5> QED
          BY <1>0, <3>1, <4>2, CoversWrite
      <4> QED
        BY <4>1, <4>3
    <3>4. w' = v
      <4>1. v \in Seq(Int)
        BY <1>0, <3>1
      <4>2. file' = [file EXCEPT ![t] = v]
        BY <1>11, <2>2 DEF InsertWrite, AppendWords, NewRow, NextId
      <4> HIDE DEF v
      <4>3. file'[t] = v /\ v # NoFile
        BY <4>1, <4>2, FilesAssumption DEF TypeInv, FileInv
      <4> QED
        BY <4>3 DEF Words
    <3>5. Known(p)' = c.count + 1 /\ c' = c
      BY <2>1 DEF Known
    <3> QED
      BY <1>2, <3>3, <3>4, <3>5
  <2> QED
    BY <1>10, <1>11, <2>1, <2>2 DEF InsertWrite
<1>12. CASE InsertBind(p)
  <2>1. /\ c.table = Table(p) /\ c.loaded /\ w' = w /\ pc[p] = "bind"
        /\ pc[p]' = "idle" /\ c.count + 1 \notin DOMAIN c.index
        /\ c' = [c EXCEPT !.index = Bind(@, c.count + 1, c.count * 2),
                          !.count = @ + 1]
    BY <1>0, <1>12, SameFile, FinishIdle
       DEF InsertBind, At, Place, SameWords, NextId, NextOffset, RowSize
  <2>2. /\ c.table' = c.table /\ c.index' = Bind(c.index, c.count + 1, 2 * c.count)
        /\ c.count' = c.count + 1 /\ Known(p)' = c.count'
    BY <1>0, <2>1 DEF Known
  <2>3. CASE t = Table(p)
    <3>1. Covers(c, w, c.count + 1)
      BY <1>1, <2>1, <2>3 DEF Known
    <3>2. PICK b : b = c
      OBVIOUS
    <3>3. PICK d : d = c'
      OBVIOUS
    <3>4. /\ b.count \in Nat /\ b.loaded /\ Covers(b, w, b.count + 1)
          /\ DOMAIN b = {"table", "index", "count", "loaded", "path"}
          /\ b.count + 1 \notin DOMAIN b.index
          /\ d.index = Bind(b.index, b.count + 1, 2 * b.count)
          /\ d.count = b.count + 1
      BY <1>0, <2>1, <2>2, <3>1, <3>2, <3>3
    <3>5. Covers(d, w, d.count)
      BY ONLY <3>4, <1>0, CoversBound
    <3> QED
      BY <1>3, <2>1, <2>2, <3>3, <3>5
  <2> QED
    BY <1>7, <2>1, <2>2, <2>3
<1>13. CASE InsertDuplicate(p)
  <2>1. /\ c.table = Table(p) /\ w' = w /\ pc[p] = "bind" /\ pc[p]' = "idle"
        /\ c.count + 1 \in DOMAIN c.index /\ c' = c
    BY <1>0, <1>13, SameFile, FinishIdle
       DEF InsertDuplicate, At, Fail, SameWords, NextId, Place
  <2>2. CASE t = Table(p)
    <3>1. Covers(c, w, c.count + 1)
      BY <1>1, <2>1, <2>2 DEF Known
    <3>2. PICK b : b = c
      OBVIOUS
    <3>3. Covers(b, w, b.count)
      BY <1>0, <2>1, <3>1, <3>2, CoversRefused
    <3>4. Known(p)' = c.count
      BY <2>1 DEF Known
    <3> QED
      BY <1>3, <2>1, <3>2, <3>3, <3>4
  <2> QED
    BY <1>7, <2>1, <2>2
<1>14. CASE InsertWriteCut(p) \/ InsertWriteFails(p) \/ InsertNoMemory(p)
  <2>1. t # Table(p)
    <3>1. faults' = faults + 1
      BY <1>14 DEF InsertWriteCut, InsertWriteFails, InsertNoMemory, Fault
    <3>2. faults' # faults
      BY <1>0, <3>1
    <3> QED
      BY <3>2
  <2>2. c.table = Table(p)
    BY <1>14 DEF InsertWriteCut, InsertWriteFails, InsertNoMemory, At, Place
  <2> QED
    BY <1>10, <1>14, <2>1, <2>2
       DEF InsertWriteCut, InsertWriteFails, InsertNoMemory, Fail
<1>15. CASE BuildOpenFails(p)
  <2>1. t # Table(p)
    BY <1>0, <1>15 DEF BuildOpenFails, Fault
  <2>2. c.table = Table(p) /\ w' = w
    BY <1>15, SameFile DEF BuildOpenFails, BuildDone, At, Place, SameWords
  <2>3. c.table' = c.table
    BY <1>0, <1>15 DEF BuildOpenFails, BuildDone
  <2> QED
    BY <1>7, <2>1, <2>2, <2>3
<1> QED
  BY <1>4, <1>5, <1>6, <1>8, <1>9, <1>11, <1>12, <1>13, <1>14, <1>15, StepKinds

LEMMA SuspectsStep ==
    ASSUME SingleAssumption, TypeInv, NEW p \in Procs, Place(p), Step(p)
    PROVE  \/ faults' = faults /\ Suspects' \subseteq Suspects
           \/ /\ faults' = faults + 1
              /\ Suspects' \subseteq Suspects \union {Table(p)}
<1>1. faults' = faults \/ faults' = faults + 1
  BY DEF Step, Begin, RefuseText, Execute, Restart, Prepare, Insert, Select,
         MetaMissing, MetaFails, Reuse, Reload, BuildRefused, BuildRow,
         BuildDuplicate, BuildError, BuildEnd, BuildDone, BuildOpenFails,
         PreloadEnd, InsertRefused, InsertOpen, InsertOpenFails, InsertWrite,
         InsertWriteCut, InsertWriteFails, InsertBind, InsertDuplicate,
         InsertNoMemory, SelectRefused, SelectByIdFails, SelectById, ScanOpen,
         ScanOpenFails, ScanError, ScanRow, ScanRefused, ScanEnd, ScanDone,
         Fault
<1>2. \A t \in Tables : (faults' = faults \/ t # Table(p)) /\ Sound(t) => Sound(t)'
  BY SoundStep
<1> QED
  BY <1>1, <1>2 DEF Suspects

(* An INSERT is acknowledged by InsertBind only.                           *)
LEMMA AcknowledgedStep ==
    ASSUME SingleAssumption, TypeInv, NEW p \in Procs, Place(p), Step(p),
           Acknowledged(p), DOMAIN answer = Procs, faults = 0 => Suspects = {}
    PROVE  Acknowledged(p)' /\ DOMAIN answer' = Procs
<1>0. /\ p \in DOMAIN ctx /\ p \in DOMAIN pc /\ p \in DOMAIN stmt
      /\ p \in DOMAIN answer /\ faults \in Nat
      /\ NoAnswer.stmt.kind = "none"
  BY BoundsAssumption DEF TypeInv, ContextInv, ControlInv, NoAnswer, NoStatement
<1>1. ASSUME answer[p]' = NoAnswer PROVE Acknowledged(p)'
  BY <1>0, <1>1 DEF Acknowledged
<1>2. ASSUME pc[p] # "idle", answer' = answer PROVE Acknowledged(p)'
  <2>1. answer[p] = NoAnswer
    BY <1>2 DEF Acknowledged
  <2> QED
    BY <1>1, <1>2, <2>1
<1>3. ASSUME pc[p]' = "idle", answer[p]'.stmt.kind # "insert" \/ ~answer[p]'.ok
      PROVE  Acknowledged(p)'
  BY <1>3 DEF Acknowledged
<1>4. ASSUME NEW ok, NEW rows, NEW path, Finish(p, ok, rows, path),
             stmt[p].kind # "insert" \/ ~ok
      PROVE  Acknowledged(p)'
  <2>1. answer[p]'.stmt = stmt[p] /\ answer[p]'.ok = ok
    BY <1>0, <1>4 DEF Finish
  <2> QED
    BY <1>3, <1>4, <2>1, FinishIdle
<1>5. ASSUME \E s \in Statements : Begin(p, s) PROVE Acknowledged(p)'
  BY <1>0, <1>1, <1>5 DEF Begin
<1>6. ASSUME Restart(p) PROVE Acknowledged(p)'
  BY <1>0, <1>1, <1>6 DEF Restart
<1>7. ASSUME RefuseText(p) PROVE Acknowledged(p)'
  <2>1. stmt[p].kind # "insert"
    BY <1>7 DEF RefuseText, At, TypeInv, ControlInv, ControlOK, NoStatement
  <2> QED
    BY <1>4, <1>7, <2>1 DEF RefuseText
<1>8. ASSUME \/ Reuse(p) \/ Reload(p) \/ BuildRow(p) \/ BuildEnd(p) \/ BuildOpenFails(p)
             \/ InsertOpen(p) \/ InsertWrite(p) \/ InsertWriteCut(p) \/ ScanRow(p)
      PROVE  Acknowledged(p)'
  BY <1>2, <1>8
     DEF Reuse, Reload, BuildRow, BuildEnd, BuildOpenFails, BuildDone,
         InsertOpen, InsertWrite, InsertWriteCut, ScanRow, At
<1>9. ASSUME \/ MetaMissing(p) \/ MetaFails(p) \/ ScanRefused(p) \/ InsertDuplicate(p)
             \/ InsertWriteFails(p)
      PROVE  Acknowledged(p)'
  BY <1>4, <1>9
     DEF MetaMissing, MetaFails, ScanRefused, InsertDuplicate,
         InsertWriteFails, Fail
<1>10. ASSUME \/ BuildRefused(p) \/ BuildDuplicate(p) \/ BuildError(p)
              \/ InsertRefused(p) \/ InsertOpenFails(p) \/ InsertNoMemory(p)
              \/ SelectRefused(p) \/ SelectByIdFails(p) \/ ScanOpenFails(p)
       PROVE  Acknowledged(p)'
  BY <1>4, <1>10
     DEF BuildRefused, BuildDuplicate, BuildError, BuildFails, InsertRefused,
         InsertOpenFails, InsertNoMemory, SelectRefused, SelectByIdFails,
         ScanOpenFails
<1>11. ASSUME PreloadEnd(p) \/ SelectById(p) PROVE Acknowledged(p)'
  BY <1>4, <1>11 DEF PreloadEnd, SelectById
<1>12. ASSUME ScanOpen(p) PROVE Acknowledged(p)'
  <2>1. CASE file[Table(p)] = NoFile
    BY <1>4, <1>12, <2>1 DEF ScanOpen
  <2>2. CASE file[Table(p)] # NoFile
    BY <1>2, <1>12, <2>2 DEF ScanOpen, At
  <2> QED
    BY <2>1, <2>2
<1>13. ASSUME ScanEnd(p) \/ ScanError(p) PROVE Acknowledged(p)'
  BY <1>4, <1>13 DEF ScanEnd, ScanError, ScanDone, At, Place
<1>14. ASSUME InsertBind(p) PROVE Acknowledged(p)'
  <2>1. PICK t \in Tables : t = Table(p)
    BY <1>14, TableOf DEF InsertBind, At, TypeInv
  <2>2. /\ pc[p]' = "idle" /\ answer[p]'.stmt = stmt[p] /\ faults' = faults
        /\ stmt[p].table = t /\ pc[p] = "bind" /\ Words(t)' = Words(t)
    BY <1>0, <1>14, <2>1, SameFile DEF InsertBind, Finish, Table, At, SameWords
  <2>3. ASSUME faults = 0 PROVE Distinct(Words(t))
    <3>1. ctx[p].table = t /\ ctx[p].loaded /\ Sound(t)
      BY <1>14, <2>1, <2>2, <2>3 DEF Place, Suspects
    <3>2. PICK c : c = ctx[p]
      OBVIOUS
    <3>3. /\ c.count \in Nat /\ c.loaded /\ Covers(c, Words(t), c.count + 1)
          /\ DOMAIN c = {"table", "index", "count", "loaded", "path"}
          /\ c.count + 1 \notin DOMAIN c.index
      BY <1>14, <2>2, <3>1, <3>2
         DEF InsertBind, NextId, Sound, Known, TypeInv, ContextInv, ContextOK
    <3>4. Words(t) \in Seq(Int) /\ Len(Words(t)) % 2 = 0
      BY <3>1, WordsType DEF TypeInv, Sound, Numbered, RowSize
    <3>5. PICK d : d.index = Bind(c.index, c.count + 1, 2 * c.count) /\ d.count = c.count + 1
      <4> WITNESS [index |-> Bind(c.index, c.count + 1, 2 * c.count), count |-> c.count + 1]
      <4> QED
        OBVIOUS
    <3> QED
      BY ONLY <3>3, <3>4, <3>5, CoversBound
  <2> QED
    BY <2>2, <2>3 DEF Acknowledged
<1>15. Acknowledged(p)'
  BY <1>5, <1>6, <1>7, <1>8, <1>9, <1>10, <1>11, <1>12, <1>13, <1>14
     DEF Step, Execute, Prepare, Insert, Select
<1>16. DOMAIN answer' = Procs
  BY DEF Step, Begin, RefuseText, Execute, Restart, Prepare, Insert, Select,
         MetaMissing, MetaFails, Reuse, Reload, BuildRefused, BuildRow,
         BuildDuplicate, BuildError, BuildFails, BuildEnd, BuildDone,
         BuildOpenFails, PreloadEnd, InsertRefused, InsertOpen,
         InsertOpenFails, InsertWrite, InsertWriteCut, InsertWriteFails,
         InsertBind, InsertDuplicate, InsertNoMemory, SelectRefused,
         SelectByIdFails, SelectById, ScanOpen, ScanOpenFails, ScanError,
         ScanRow, ScanRefused, ScanEnd, ScanDone, Fail, Finish
<1> QED
  BY <1>15, <1>16

-----------------------------------------------------------------------------
LEMMA FaultInit == SingleAssumption /\ Init => FaultInv
<1> SUFFICES ASSUME SingleAssumption, Init PROVE FaultInv
  OBVIOUS
<1>1. TypeInv
  BY TypeInit
<1>2. ASSUME NEW p \in Procs PROVE Place(p) /\ Acknowledged(p) /\ ctx[p].table = NoTable
  BY <1>2 DEF Init, Place, Acknowledged, EmptyContext, ContextFor, NoAnswer,
              NoStatement
<1>3. Numbered(<< >>)
  BY DEF Numbered, RowSize
<1>4. ASSUME NEW t \in Tables PROVE Sound(t)
  <2>1. Numbered(Words(t))
    BY <1>3 DEF Init, SingleAssumption, Words
  <2>2. \A p \in Procs : ctx[p].table # t
    BY <1>2, SchemasAssumption
  <2> QED
    BY <2>1, <2>2 DEF Sound
<1>5. Suspects = {}
  BY <1>4 DEF Suspects
<1>6. IsFiniteSet(Suspects) /\ Cardinality(Suspects) = 0
  BY <1>5, FS_EmptySet
<1> QED
  BY <1>1, <1>2, <1>6 DEF FaultInv, Init

LEMMA FaultStep ==
    SingleAssumption /\ FaultInv /\ [Next]_vars => FaultInv'
<1> SUFFICES ASSUME SingleAssumption, FaultInv, [Next]_vars PROVE FaultInv'
  OBVIOUS
<1>1. TypeInv /\ TypeInv' /\ faults \in Nat
  BY TypeStep, BoundsAssumption DEF FaultInv, TypeInv
<1>2. IsFiniteSet(Suspects) /\ Cardinality(Suspects) <= faults
      /\ Cardinality(Suspects) \in Nat
  BY FS_CardinalityType DEF FaultInv
<1>3. CASE UNCHANGED vars
  <2>1. /\ \A t : Words(t)' = Words(t)
        /\ \A p : Known(p)' = Known(p) /\ Table(p)' = Table(p)
    BY <1>3 DEF vars, Words, Known, Table
  <2>2. \A t \in Tables : Sound(t)' <=> Sound(t)
    BY <1>3, <2>1 DEF vars, Sound
  <2>3. Suspects' = Suspects
    BY <2>2 DEF Suspects
  <2>4. ASSUME NEW p \in Procs PROVE Place(p)' /\ Acknowledged(p)'
    <3>1. Place(p) /\ Acknowledged(p)
      BY DEF FaultInv
    <3> QED
      BY <1>3, <2>1, <3>1 DEF vars, Place, Acknowledged
  <2> QED
    BY <1>1, <1>2, <1>3, <2>3, <2>4 DEF FaultInv, vars
<1>4. ASSUME NEW p \in Procs, Step(p) PROVE FaultInv'
  <2>1. Place(p) /\ Acknowledged(p) /\ DOMAIN answer = Procs
    BY DEF FaultInv
  <2>2. faults = 0 => Suspects = {}
    BY <1>2, FS_EmptySet
  <2>3. Place(p)' /\ Acknowledged(p)' /\ DOMAIN answer' = Procs
    BY <1>1, <1>4, <2>1, <2>2, PlaceStep, AcknowledgedStep
  <2>4. \A q \in Procs : Place(q)' /\ Acknowledged(q)'
    BY <2>3 DEF SingleAssumption
  <2>5. IsFiniteSet(Suspects') /\ Cardinality(Suspects') <= faults'
    <3>1. \/ faults' = faults /\ Suspects' \subseteq Suspects
          \/ faults' = faults + 1 /\ Suspects' \subseteq Suspects \union {Table(p)}
      BY <1>1, <1>4, <2>1, SuspectsStep
    <3>2. CASE faults' = faults /\ Suspects' \subseteq Suspects
      <4>1. IsFiniteSet(Suspects') /\ Cardinality(Suspects') <= Cardinality(Suspects)
            /\ Cardinality(Suspects') \in Nat
        BY <1>2, <3>2, FS_Subset, FS_CardinalityType
      <4> QED
        BY <1>1, <1>2, <3>2, <4>1
    <3>3. CASE faults' = faults + 1 /\ Suspects' \subseteq Suspects \union {Table(p)}
      <4> DEFINE more == Suspects \union {Table(p)}
      <4>1. IsFiniteSet(more) /\ Cardinality(more) \in Nat
            /\ Cardinality(more) <= Cardinality(Suspects) + 1
        BY <1>2, FS_AddElement, FS_CardinalityType
      <4>2. IsFiniteSet(Suspects') /\ Cardinality(Suspects') <= Cardinality(more)
            /\ Cardinality(Suspects') \in Nat
        BY <3>3, <4>1, FS_Subset, FS_CardinalityType
      <4> QED
        BY <1>1, <1>2, <3>3, <4>1, <4>2
    <3> QED
      BY <3>1, <3>2, <3>3
  <2> QED
    BY <1>1, <2>3, <2>4, <2>5 DEF FaultInv
<1> QED
  BY <1>3, <1>4 DEF Next, Step

-----------------------------------------------------------------------------
LEMMA FaultNumbering == FaultInv => FaultsStayInTable
<1> SUFFICES ASSUME FaultInv PROVE FaultsStayInTable
  OBVIOUS
<1> DEFINE broken == {t \in Tables : ~Numbered(Words(t))}
<1>1. broken \subseteq Suspects
  BY DEF Suspects, Sound
<1>2. /\ Cardinality(broken) \in Nat /\ Cardinality(Suspects) \in Nat
      /\ Cardinality(broken) <= Cardinality(Suspects)
  BY <1>1, FS_Subset, FS_CardinalityType DEF FaultInv
<1>3. Cardinality(Suspects) <= faults /\ faults \in Nat
  BY BoundsAssumption DEF FaultInv, TypeInv
<1>4. Cardinality(broken) <= faults
  <2> HIDE DEF broken
  <2> QED
    BY <1>2, <1>3
<1> QED
  BY <1>4 DEF FaultsStayInTable

LEMMA FaultCovers == FaultInv => IndexCoversFile
<1> SUFFICES ASSUME FaultInv, NEW p \in Procs, faults = 0, ctx[p].loaded,
                    pc[p] = "idle"
             PROVE  LET rows == RowsOf(ctx[p].table)
                        n == ctx[p].count
                        index == ctx[p].index
                    IN  /\ n <= Len(rows)
                        /\ DOMAIN index = {rows[i][1] : i \in 1 .. n}
                        /\ \A i \in 1 .. n : index[rows[i][1]] = (i - 1) * RowSize
                        /\ \A i \in n + 1 .. Len(rows) :
                             rows[i][1] = n + 1 /\ n + 1 \in DOMAIN index
  BY DEF IndexCoversFile
<1>1. PICK c : c = ctx[p]
  OBVIOUS
<1>2. TypeInv /\ Suspects = {}
  BY FS_EmptySet, FS_CardinalityType DEF FaultInv
<1>3. PICK t \in Tables : t = c.table
  <2>1. c.table # NoTable
    BY SchemasAssumption, <1>1, <1>2 DEF FaultInv, Place
  <2> QED
    BY <1>1, <1>2, <2>1 DEF TypeInv, ContextInv, ContextOK
<1> DEFINE w == Words(t)
           n == c.count
           rows == RowsOf(t)
<1>4. n \in Nat /\ c.loaded /\ Covers(c, w, n)
  BY <1>1, <1>2, <1>3 DEF Suspects, Sound, Known, TypeInv, ContextInv, ContextOK
<1>5. /\ w \in Seq(Int) /\ Len(w) \in Nat /\ RowCount(t) \in Nat
      /\ Len(rows) = RowCount(t)
      /\ \A i \in Nat : i \in 1 .. RowCount(t) <=> 0 < i /\ 2 * i <= Len(w)
      /\ \A i \in 1 .. RowCount(t) : rows[i][1] = w[2 * i - 1]
  <2>1. Len(rows) = RowCount(t)
    BY <1>2, RowWords DEF RowsOf
  <2> QED
    BY <1>2, <2>1, RowWords
<1> HIDE DEF w, rows, n
<1>6. /\ 2 * n <= Len(w) /\ DOMAIN c.index = {w[2 * i - 1] : i \in 1 .. n}
      /\ \A i \in 1 .. n : c.index[w[2 * i - 1]] = 2 * (i - 1)
      /\ \A i \in Nat : (n < i /\ 2 * i <= Len(w)) => w[2 * i - 1] = n + 1
      /\ 2 * n < Len(w) => n + 1 \in DOMAIN c.index
  BY <1>4 DEF Covers, Indexed, n
<1>7. n \in Nat
  BY <1>4 DEF n
<1>8. n <= Len(rows) /\ \A i \in 1 .. n : rows[i][1] = w[2 * i - 1]
  <2>1. \A i \in 1 .. n : i \in 1 .. RowCount(t)
    BY <1>5, <1>6, <1>7
  <2>2. n = 0 \/ n \in 1 .. n
    BY <1>7
  <2> QED
    BY <1>5, <2>1, <2>2
<1>9. DOMAIN c.index = {rows[i][1] : i \in 1 .. n}
  <2>1. {rows[i][1] : i \in 1 .. n} = {w[2 * i - 1] : i \in 1 .. n}
    BY ONLY <1>8
  <2> QED
    BY <1>6, <2>1
<1>10. \A i \in 1 .. n : c.index[rows[i][1]] = (i - 1) * RowSize
  BY <1>6, <1>7, <1>8 DEF RowSize
<1>11. ASSUME NEW i \in n + 1 .. Len(rows)
       PROVE  rows[i][1] = n + 1 /\ n + 1 \in DOMAIN c.index
  <2>1. i \in Nat /\ n < i /\ i \in 1 .. RowCount(t)
    BY <1>5, <1>7
  <2>2. 2 * i <= Len(w) /\ 2 * n < Len(w)
    BY <1>5, <1>7, <2>1
  <2> QED
    BY <1>5, <1>6, <2>1, <2>2
<1> QED
  BY <1>1, <1>3, <1>8, <1>9, <1>10, <1>11 DEF n, rows

LEMMA FaultAcknowledges == FaultInv => AckedOnlyIfDistinct
<1> SUFFICES ASSUME FaultInv, NEW p \in Procs, faults = 0,
                    answer[p].stmt.kind = "insert", answer[p].ok
             PROVE  \A i, j \in 1 .. Len(RowsOf(answer[p].stmt.table)) :
                      i # j => RowsOf(answer[p].stmt.table)[i][1]
                                 # RowsOf(answer[p].stmt.table)[j][1]
  BY DEF AckedOnlyIfDistinct
<1>1. PICK t \in Tables : t = answer[p].stmt.table /\ Distinct(Words(t))
  BY DEF FaultInv, Acknowledged
<1> DEFINE w == Words(t)
           rows == RowsOf(t)
<1>2. /\ w \in Seq(Int) /\ Len(w) \in Nat /\ Len(rows) \in Nat
      /\ \A i \in Nat : i \in 1 .. Len(rows) <=> 0 < i /\ 2 * i <= Len(w)
      /\ \A i \in 1 .. Len(rows) : rows[i][1] = w[2 * i - 1]
  <2>1. TypeInv
    BY DEF FaultInv
  <2>2. Len(rows) = RowCount(t)
    BY <2>1, RowWords DEF RowsOf
  <2> QED
    BY <2>1, <2>2, RowWords
<1>3. Distinct(w)
  BY <1>1
<1> HIDE DEF w, rows
<1>4. ASSUME NEW i \in 1 .. Len(rows), NEW j \in 1 .. Len(rows), i < j
      PROVE  rows[i][1] # rows[j][1]
  <2>1. i \in Nat /\ j \in Nat /\ 0 < i /\ 2 * j <= Len(w)
    BY <1>2
  <2> QED
    BY <1>2, <1>3, <1>4, <2>1 DEF Distinct
<1>5. ASSUME NEW i \in 1 .. Len(rows), NEW j \in 1 .. Len(rows), i # j
      PROVE  rows[i][1] # rows[j][1]
  <2>1. i < j \/ j < i
    BY <1>2, <1>5
  <2> QED
    BY <1>4, <2>1
<1> QED
  BY <1>1, <1>5 DEF rows

(* A failed write, open or malloc, and what the process does with a        *)
(* context that is wrong since then, disturb the ids of one table at most: *)
(* the other files keep different ids and the rows refused behind them.    *)
THEOREM FaultsStayInOneTable ==
    ASSUME SingleAssumption PROVE Spec => []FaultsStayInTable
<1>1. Init => FaultInv
  BY SingleAssumption, FaultInit
<1>2. FaultInv /\ [Next]_vars => FaultInv'
  BY SingleAssumption, FaultStep
<1>3. FaultInv => FaultsStayInTable
  BY FaultNumbering
<1> QED
  BY <1>1, <1>2, <1>3, PTL DEF Spec

(* Until a fault, on files with any ids: between two statements the index  *)
(* of a loaded context has the first record_count rows of its file, and    *)
(* the rows behind them were refused because their id is among these.      *)
THEOREM IndexAlwaysCoversFile ==
    ASSUME SingleAssumption PROVE Spec => []IndexCoversFile
<1>1. Init => FaultInv
  BY SingleAssumption, FaultInit
<1>2. FaultInv /\ [Next]_vars => FaultInv'
  BY SingleAssumption, FaultStep
<1>3. FaultInv => IndexCoversFile
  BY FaultCovers
<1> QED
  BY <1>1, <1>2, <1>3, PTL DEF Spec

(* Until a fault, on files with any ids: an INSERT is acknowledged only if *)
(* the ids of its file are still different, the new one among them.        *)
THEOREM AcknowledgedOnlyIfDistinct ==
    ASSUME SingleAssumption PROVE Spec => []AckedOnlyIfDistinct
<1>1. Init => FaultInv
  BY SingleAssumption, FaultInit
<1>2. FaultInv /\ [Next]_vars => FaultInv'
  BY SingleAssumption, FaultStep
<1>3. FaultInv => AckedOnlyIfDistinct
  BY FaultAcknowledges
<1> QED
  BY <1>1, <1>2, <1>3, PTL DEF Spec

=============================================================================
