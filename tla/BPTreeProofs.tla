---------------------------- MODULE BPTreeProofs ----------------------------
(***************************************************************************)
(* The B+ tree of BPTree, proved: at every step of every call, and after   *)
(* any number of failures of malloc, the nodes form a search tree, no node *)
(* is used after it has been freed, and no array is overrun without a      *)
(* failed split.  The inductive invariant speaks of the tree through the   *)
(* routes of BPTreeShape, of which every step gives the next ones.         *)
(***************************************************************************)
EXTENDS BPTreeShape

-----------------------------------------------------------------------------
(* The inductive invariant.                                                *)

(* What the control state says about the variables of a call.              *)
Control ==
    /\ pc \in {"idle", "empty", "created", "search"} => path = << >>
    /\ pc \notin {"unwind", "overrun"} => ret = NoSplit
    /\ pc = "descend" \/ ret.split => status = ""
    /\ pc \in {"empty", "created", "descend", "unwind", "overrun"} =>
          key \in Keys /\ offset \in Offsets
    /\ pc = "search" => key \in Keys
    /\ pc \in {"created", "descend", "unwind", "overrun", "search", "free"} =>
          root # NULL
    /\ pc = "empty" => root = NULL

Sorted == \A a \in DOMAIN heap : Ascends(heap[a].keys, Len(heap[a].keys))

(* A node that a split made, or that has outgrown such a node.             *)
Filled(n) ==
    Len(n.keys) >= IF n.leaf THEN Order \div 2 ELSE (Order - 1) \div 2

Fill ==
    \A a \in DOMAIN heap :
        a # root \/ (ret.split /\ path = << >>) => Filled(heap[a])

Finite == IsFiniteSet(DOMAIN heap)

(* Between neighbours at the bottom there is a link, and no other link.    *)
Chained(g, h, at) ==
    \A k \in Int :
        /\ at[h][k + 1] # at[h][k] => g[at[h][k]].next = at[h][k + 1]
        /\ g[at[h][k]].next # NULL =>
              \E l \in Int : /\ at[h][l] = at[h][k]
                             /\ at[h][l + 1] = g[at[h][k]].next
                             /\ at[h][l + 1] # at[h][l]

Covers(g, h, at) ==
    \A a \in DOMAIN g : \E d \in 0 .. h : \E k \in Int : at[d][k] = a

(* The C stack holds the route of the key of the call.                     *)
OnPath(h, at) ==
    /\ Len(path) <= h
    /\ \A j \in 1 .. Len(path) :
         path[j] = <<at[j - 1][key], Turn(heap, at[j - 1][key], key)>>

TreeState(h, at) ==
    /\ IF ret.split
         THEN Parted(heap, root, h, at, Len(path), Returned, ret.promoted, ret.right)
         ELSE Whole(heap, root, h, at)
    /\ OnPath(h, at)
    /\ pc = "descend" => cur = at[Len(path)][key]
    /\ pc = "search" => \E d \in 0 .. h : cur = at[d][key]
    /\ failures = 0 => Covers(heap, h, at) /\ Chained(heap, h, at)

(* While the tree is freed: g is the tree that is being freed, w an id     *)
(* whose route the C stack holds.  Of a node on the stack the children in  *)
(* front of the current one are gone, with all that is below them.         *)
OnStack(st, g, at, w) ==
    \A j \in 1 .. Len(st) :
        /\ st[j][1] = at[j - 1][w]
        /\ j < Len(st) => st[j][2] = Turn(g, at[j - 1][w], w) + 1
        /\ st[j][2] \in 1 .. Len(g[st[j][1]].kids) + 1

FirstKept(st, j) == IF j = Len(st) THEN st[j][2] ELSE st[j][2] - 1

Gone(st, g, at, d, k) ==
    \/ st = << >>
    \/ \E j \in 1 .. Len(st) :
          /\ j <= d
          /\ at[j - 1][k] = st[j][1]
          /\ Turn(g, at[j - 1][k], k) < FirstKept(st, j)

FreeState(g, h, at, w) ==
    /\ Whole(g, root, h, at)
    /\ \A a \in DOMAIN g : Shaped(g[a])
    /\ DOMAIN heap \subseteq DOMAIN g
    /\ \A a \in DOMAIN heap : heap[a] = g[a]
    /\ w \in Int /\ Len(path) <= h + 1 /\ OnStack(path, g, at, w)
    /\ \A d \in 0 .. h : \A k \in Int :
          at[d][k] \in DOMAIN heap <=> ~Gone(path, g, at, d, k)
    /\ failures = 0 => Covers(g, h, at)

Inv ==
    /\ TypeOK /\ Control /\ Sorted /\ Fill /\ Finite /\ OverfullByFailure
    /\ root # NULL /\ pc # "free" => \E h, at : TreeState(h, at)
    /\ pc = "free" => \E g, h, at, w : FreeState(g, h, at, w)
    /\ root = NULL /\ failures = 0 => DOMAIN heap = {}

-----------------------------------------------------------------------------
LEMMA InitInv == Init => Inv
<1> SUFFICES ASSUME Init PROVE Inv
  OBVIOUS
<1>0. Len(<< >>) = 0 /\ DOMAIN << >> = {}
  OBVIOUS
<1>1. DOMAIN heap = {} /\ path = << >> /\ ret = NoSplit /\ root = NULL
  BY <1>0 DEF Init
<1>2. pc = "idle" /\ failures = 0 /\ status = ""
  BY DEF Init
<1>3. TypeOK
  <2>1. path \in Seq(Addr \X Nat) /\ failures \in 0 .. MaxFailures
    <3>1. << >> \in Seq(Addr \X Nat)
      OBVIOUS
    <3>2. 0 \in 0 .. MaxFailures
      BY MaxFailuresAssumption
    <3> QED
      BY <1>1, <1>2, <3>1, <3>2
  <2>2. key \in Keys \union {NULL} /\ offset \in Offsets \union {NULL}
        /\ cur \in Addr \union {NULL}
    BY DEF Init
  <2> QED
    BY <1>1, <1>2, <2>1, <2>2 DEF TypeOK
<1>4. Control
  BY <1>1, <1>2 DEF Control, NoSplit
<1>5. Sorted /\ Fill /\ Finite
  BY <1>1, FS_EmptySet DEF Sorted, Fill, Finite
<1>6. OverfullByFailure
  <2> DEFINE overfull == {n \in DOMAIN heap : Len(heap[n].keys) > MaxKeys}
  <2>1. overfull = {}
    BY <1>1
  <2> HIDE DEF overfull
  <2>2. Cardinality(overfull) <= failures
    <3>1. Cardinality({}) = 0
      BY FS_EmptySet
    <3>2. 0 <= 0
      OBVIOUS
    <3> QED
      BY ONLY <2>1, <1>2, <3>1, <3>2
  <2> QED
    BY <2>1, <2>2, <1>2 DEF OverfullByFailure, overfull
<1> QED
  BY <1>1, <1>2, <1>3, <1>4, <1>5, <1>6 DEF Inv

-----------------------------------------------------------------------------
(* Nodes.                                                                  *)

LEMMA NodeFacts ==
    ASSUME NEW n, Shaped(n)
    PROVE  /\ n.leaf \in BOOLEAN /\ n.keys \in Seq(Keys) /\ n.offs \in Seq(Offsets)
           /\ n.kids \in Seq(Addr) /\ n.next \in Addr \union {NULL}
           /\ Len(n.keys) \in 1 .. Order
           /\ n.leaf => Len(n.offs) = Len(n.keys) /\ Len(n.kids) = 0
           /\ ~n.leaf => Len(n.offs) = 0 /\ Len(n.kids) = Len(n.keys) + 1
BY DEF Shaped, Node

LEMMA BranchFacts ==
    ASSUME NEW n, Shaped(n), ~n.leaf, Ascends(n.keys, Len(n.keys))
    PROVE  Branch(n)
BY NodeFacts DEF Branch

-----------------------------------------------------------------------------
(* Steps that leave the nodes alone.                                       *)

LEMMA RetKind ==
    ASSUME TypeOK
    PROVE  /\ ret.split \in BOOLEAN
           /\ ~ret.split => ret = NoSplit
           /\ ret.split => ret.promoted \in Keys /\ ret.right \in Addr
<1>1. CASE ret = NoSplit
  <2>1. ret.split = FALSE
    BY <1>1 DEF NoSplit
  <2> QED
    BY <2>1, <1>1
<1>2. CASE \E k \in Keys, a \in Addr : ret = Split(k, a)
  <2>1. PICK k \in Keys, a \in Addr : ret = Split(k, a)
    BY <1>2
  <2>2. ret.split = TRUE /\ ret.promoted = k /\ ret.right = a
    BY <2>1 DEF Split
  <2> QED
    BY <2>2
<1> QED
  BY <1>1, <1>2 DEF TypeOK

LEMMA FailureCount ==
    ASSUME TypeOK
    PROVE  failures \in Nat
<1>1. failures \in 0 .. MaxFailures
  BY DEF TypeOK
<1> QED
  BY ONLY <1>1, MaxFailuresAssumption

LEMMA NoFailure ==
    ASSUME TypeOK, UNCHANGED failures
    PROVE  failures' \in 0 .. MaxFailures /\ failures' >= failures
<1>1. failures \in Nat /\ failures \in 0 .. MaxFailures
  BY FailureCount DEF TypeOK
<1> QED
  BY ONLY <1>1, UNCHANGED failures

LEMMA StackFacts ==
    ASSUME TypeOK
    PROVE  path \in Seq(Addr \X Nat) /\ Len(path) \in Nat
<1>1. path \in Seq(Addr \X Nat)
  BY DEF TypeOK
<1> QED
  BY ONLY <1>1

LEMMA EmptyStack == << >> \in Seq(Addr \X Nat) /\ Len(<< >>) = 0
OBVIOUS

LEMMA SameNodes ==
    ASSUME Inv, UNCHANGED <<heap, root>>, ret'.split => ret.split /\ path' = path
    PROVE  Sorted' /\ Fill' /\ Finite'
<1>1. Sorted' /\ Finite'
  BY DEF Inv, Sorted, Finite
<1>2. Fill'
  BY DEF Inv, Fill, Filled
<1> QED
  BY <1>1, <1>2

LEMMA SameOverfull ==
    ASSUME Inv, UNCHANGED heap, pc # "overrun", pc' # "overrun",
           failures' \in Nat, failures' >= failures
    PROVE  OverfullByFailure'
<1> DEFINE overfull == {n \in DOMAIN heap : Len(heap[n].keys) > MaxKeys}
<1>1. Cardinality(overfull) <= failures /\ \A n \in overfull : Len(heap[n].keys) = Order
  BY DEF Inv, OverfullByFailure
<1>2. Cardinality(overfull) \in Nat
  <2>1. overfull \subseteq DOMAIN heap
    OBVIOUS
  <2> HIDE DEF overfull
  <2> QED
    BY <2>1, FS_Subset, FS_CardinalityType DEF Inv, Finite
<1>3. overfull' = overfull
  BY DEF MaxKeys
<1>4. failures \in Nat
  BY FailureCount DEF Inv
<1>5. Cardinality(overfull)' <= failures'
  <2> HIDE DEF overfull
  <2> QED
    BY ONLY <1>1, <1>2, <1>3, <1>4, failures' \in Nat, failures' >= failures
<1> QED
  BY <1>1, <1>3, <1>5 DEF OverfullByFailure

(* A call returns, and has left a whole tree.                              *)
LEMMA Answering ==
    ASSUME Inv, NEW a, Answer(a), UNCHANGED <<heap, root>>,
           pc \notin {"overrun", "free"}, ~ret.split,
           status' \in {"", "dup", "oom"},
           failures' \in 0 .. MaxFailures, failures' >= failures
    PROVE  Inv'
<1>1. pc' = "idle" /\ path' = << >> /\ ret' = NoSplit
      /\ key' = NULL /\ offset' = NULL /\ cur' = NULL
  BY DEF Answer
<1>2. ~ret'.split
  BY <1>1 DEF NoSplit
<1>3. << >> \in Seq(Addr \X Nat) /\ Len(<< >>) = 0
  BY ONLY EmptyStack
<1>4. TypeOK'
  <2>1. TypeOK
    BY DEF Inv
  <2> QED
    BY <2>1, <1>1, <1>3 DEF TypeOK, Shaped
<1>5. Control'
  BY <1>1, <1>2 DEF Control
<1>6. Sorted' /\ Fill' /\ Finite' /\ OverfullByFailure'
  <2>1. failures' \in Nat
    BY ONLY failures' \in 0 .. MaxFailures, MaxFailuresAssumption
  <2> QED
    BY <1>1, <1>2, <2>1, SameNodes, SameOverfull
<1>7. failures' = 0 => failures = 0
  <2>1. failures \in Nat /\ failures' \in 0 .. MaxFailures
    BY FailureCount DEF Inv
  <2> QED
    BY ONLY <2>1, failures' >= failures, MaxFailuresAssumption
<1>8. ASSUME root' # NULL PROVE \E h, at : TreeState(h, at)'
  <2>1. PICK h, at : TreeState(h, at)
    BY <1>8 DEF Inv
  <2>2. Whole(heap, root, h, at)
    BY <2>1 DEF TreeState
  <2>5. h \in Nat
    BY <2>2 DEF Whole, Skeleton, Levels
  <2>6. Len(path') = 0
    BY <1>1, <1>3
  <2>3. OnPath(h, at)'
    BY ONLY <2>5, <2>6 DEF OnPath
  <2>4. TreeState(h, at)'
    BY <1>1, <1>2, <1>7, <2>1, <2>2, <2>3 DEF TreeState
  <2> QED
    BY <2>4
<1> QED
  BY <1>1, <1>4, <1>5, <1>6, <1>7, <1>8 DEF Inv

(* A step within a call that leaves the nodes alone.                       *)
LEMMA QuietStep ==
    ASSUME Inv, UNCHANGED <<heap, root, failures>>,
           pc \notin {"overrun", "free"}, pc' # "free",
           ret'.split => ret.split /\ path' = path,
           TypeOK', Control', pc' = "overrun" => failures > 0,
           \A h, at : root # NULL /\ TreeState(h, at) => TreeState(h, at)'
    PROVE  Inv'
<1>1. Sorted' /\ Fill' /\ Finite'
  BY SameNodes
<1>2. OverfullByFailure'
  <2>1. CASE pc' = "overrun"
    BY <2>1 DEF OverfullByFailure
  <2>2. CASE pc' # "overrun"
    <3>1. failures' \in Nat /\ failures' >= failures
      <4>1. failures \in Nat
        BY FailureCount DEF Inv
      <4> QED
        BY <4>1
    <3> QED
      BY <2>2, <3>1, SameOverfull
  <2> QED
    BY <2>1, <2>2
<1>3. root' # NULL => \E h, at : TreeState(h, at)'
  BY DEF Inv
<1>4. root' = NULL /\ failures' = 0 => DOMAIN heap' = {}
  BY DEF Inv
<1> QED
  BY <1>1, <1>2, <1>3, <1>4 DEF Inv

(* What the tree's state says when no right half is in flight.             *)
LEMMA StateFacts ==
    ASSUME NEW h, NEW at, TreeState(h, at), ~ret.split
    PROVE  /\ Whole(heap, root, h, at) /\ h \in Nat
           /\ \A d \in 0 .. h : \A k \in Int : at[d][k] \in DOMAIN heap
           /\ \A d \in 0 .. h : \A k \in Int : heap[at[d][k]].leaf <=> d = h
           /\ \A k \in Int : at[0][k] = root
           /\ \A d \in 0 .. h - 1 : \A k \in Int : at[d + 1][k] = Kid(heap, at[d][k], k)
<1>1. Whole(heap, root, h, at)
  BY DEF TreeState
<1>2. Levels(heap, h, at) /\ LeavesAtBottom(heap, h, at)
  BY <1>1 DEF Whole, Skeleton
<1> QED
  BY <1>1, <1>2 DEF Whole, Levels, LeavesAtBottom

LEMMA SameTree ==
    ASSUME NEW h, NEW at, TreeState(h, at), UNCHANGED <<heap, root, failures>>,
           ~ret.split, ~ret'.split, OnPath(h, at)',
           pc' = "descend" => cur' = at[Len(path')][key'],
           pc' = "search" => \E d \in 0 .. h : cur' = at[d][key']
    PROVE  TreeState(h, at)'
<1>1. Whole(heap, root, h, at) /\ (failures = 0 => Covers(heap, h, at) /\ Chained(heap, h, at))
  BY DEF TreeState
<1> QED
  BY <1>1 DEF TreeState

LEMMA InsertCallInv ==
    ASSUME Inv, NEW k \in Keys, NEW o \in Offsets, InsertCall(k, o)
    PROVE  Inv'
<1>1. /\ pc = "idle" /\ key' = k /\ offset' = o /\ cur' = root
      /\ UNCHANGED <<heap, root, path, ret, failures>>
      /\ root = NULL => pc' = "empty" /\ UNCHANGED status
      /\ root # NULL => pc' = "descend" /\ status' = ""
  BY DEF InsertCall
<1>2. path = << >> /\ ret = NoSplit /\ TypeOK
  BY <1>1 DEF Inv, Control
<1>3. ~ret.split
  BY <1>2 DEF NoSplit
<1>4. TypeOK'
  BY <1>1, <1>2 DEF TypeOK, Shaped
<1>5. Control'
  BY <1>1, <1>2, <1>3 DEF Control
<1>6. ASSUME NEW h, NEW at, root # NULL, TreeState(h, at) PROVE TreeState(h, at)'
  <2>1. h \in Nat /\ \A l \in Int : at[0][l] = root
    BY <1>3, <1>6, StateFacts
  <2>3. Len(path') = 0 /\ k \in Int
    BY <1>1, <1>2, EmptyStack, KeysAssumption
  <2>2. OnPath(h, at)'
    BY ONLY <2>1, <2>3 DEF OnPath
  <2>4. cur' = at[Len(path')][key']
    BY <1>1, <2>1, <2>3
  <2> QED
    BY <1>1, <1>3, <1>6, <2>2, <2>4, SameTree
<1> QED
  BY <1>1, <1>3, <1>4, <1>5, <1>6, QuietStep

LEMMA ReturnCreatedInv == ASSUME Inv, ReturnCreated PROVE Inv'
<1>1. pc = "created" /\ ret = NoSplit
  BY DEF ReturnCreated, Inv, Control
<1>2. status' = status /\ failures' = failures /\ status \in {"", "dup", "oom"}
  BY DEF ReturnCreated, Inv, TypeOK
<1>3. failures' \in 0 .. MaxFailures /\ failures' >= failures
  BY <1>2, NoFailure DEF Inv
<1> QED
  BY <1>1, <1>2, <1>3, Answering DEF ReturnCreated, NoSplit

LEMMA OneFailure ==
    ASSUME TypeOK, AllocFails
    PROVE  failures' \in 0 .. MaxFailures /\ failures' > failures /\ failures' = failures + 1
<1>1. failures \in Nat /\ failures < MaxFailures /\ failures' = failures + 1
  BY FailureCount DEF AllocFails
<1> QED
  BY ONLY <1>1, MaxFailuresAssumption

LEMMA CreateRootFailsInv == ASSUME Inv, CreateRootFails PROVE Inv'
<1>1. pc = "empty" /\ ret = NoSplit
  BY DEF CreateRootFails, Inv, Control
<1>2. status' = "oom" /\ AllocFails
  BY DEF CreateRootFails
<1>3. failures' \in 0 .. MaxFailures /\ failures' >= failures
  <2>1. failures' \in 0 .. MaxFailures /\ failures' = failures + 1 /\ failures \in Nat
    BY <1>2, OneFailure, FailureCount DEF Inv
  <2> QED
    BY <2>1
<1> QED
  BY <1>1, <1>2, <1>3, Answering DEF CreateRootFails, NoSplit

LEMMA ReturnFailureInv == ASSUME Inv, ReturnFailure PROVE Inv'
<1>1. pc = "unwind" /\ ~ret.split
  BY DEF ReturnFailure, Inv, Control
<1>2. status' = status /\ failures' = failures /\ status \in {"", "dup", "oom"}
  BY DEF ReturnFailure, Inv, TypeOK
<1>3. failures' \in 0 .. MaxFailures /\ failures' >= failures
  BY <1>2, NoFailure DEF Inv
<1> QED
  BY <1>1, <1>2, <1>3, Answering DEF ReturnFailure

LEMMA ReturnInsertedInv == ASSUME Inv, ReturnInserted PROVE Inv'
<1>1. pc = "unwind" /\ ~ret.split
  BY DEF ReturnInserted
<1>2. status' = status /\ failures' = failures /\ status \in {"", "dup", "oom"}
  BY DEF ReturnInserted, Inv, TypeOK
<1>3. failures' \in 0 .. MaxFailures /\ failures' >= failures
  BY <1>2, NoFailure DEF Inv
<1> QED
  BY <1>1, <1>2, <1>3, Answering DEF ReturnInserted

LEMMA SearchLeafInv == ASSUME Inv, SearchLeaf PROVE Inv'
<1>1. pc = "search" /\ ret = NoSplit
  BY DEF SearchLeaf, Inv, Control
<1>2. status' = status /\ failures' = failures /\ status \in {"", "dup", "oom"}
  BY DEF SearchLeaf, Inv, TypeOK
<1>3. failures' \in 0 .. MaxFailures /\ failures' >= failures
  BY <1>2, NoFailure DEF Inv
<1>4. PICK a : Answer(a)
  BY DEF SearchLeaf
<1> QED
  BY <1>1, <1>2, <1>3, <1>4, Answering DEF SearchLeaf, NoSplit

LEMMA SearchCallInv == ASSUME Inv, NEW k \in Keys, SearchCall(k) PROVE Inv'
<1>1. pc = "idle" /\ UNCHANGED <<heap, root, status, failures>>
  BY DEF SearchCall
<1>2. path = << >> /\ ret = NoSplit /\ TypeOK /\ status \in {"", "dup", "oom"}
  BY <1>1 DEF Inv, Control, TypeOK
<1>3. ~ret.split
  BY <1>2 DEF NoSplit
<1>4. CASE root = NULL
  <2>1. Answer(NotFound(k))
    BY <1>4 DEF SearchCall
  <2>2. failures' \in 0 .. MaxFailures /\ failures' >= failures
    BY <1>1, <1>2, NoFailure
  <2> QED
    BY <1>1, <1>2, <1>3, <2>1, <2>2, Answering
<1>5. CASE root # NULL
  <2>1. pc' = "search" /\ key' = k /\ cur' = root /\ UNCHANGED <<offset, path, ret>>
    BY <1>5 DEF SearchCall
  <2>2. TypeOK'
    BY <1>1, <1>2, <2>1 DEF TypeOK, Shaped
  <2>3. Control'
    BY <1>1, <1>2, <1>3, <1>5, <2>1 DEF Control
  <2>4. ASSUME NEW h, NEW at, TreeState(h, at) PROVE TreeState(h, at)'
    <3>1. h \in Nat /\ \A l \in Int : at[0][l] = root
      BY <1>3, <2>4, StateFacts
    <3>2. Len(path') = 0 /\ k \in Int
      BY <1>2, <2>1, EmptyStack, KeysAssumption
    <3>3. OnPath(h, at)'
      BY ONLY <3>1, <3>2 DEF OnPath
    <3>4. 0 \in 0 .. h /\ cur' = at[0][key']
      BY <2>1, <3>1, <3>2
    <3> QED
      BY <1>1, <1>3, <2>1, <2>4, <3>3, <3>4, SameTree
  <2> QED
    BY <1>1, <1>3, <2>1, <2>2, <2>3, <2>4, QuietStep
<1> QED
  BY <1>4, <1>5

(* An activation of insert_into_internal goes one level down the route.    *)
LEMMA DescendInv == ASSUME Inv, Descend PROVE Inv'
<1> DEFINE i == ChildIndex(heap[cur].keys, key)
<1>1. /\ pc = "descend" /\ ~heap[cur].leaf
      /\ path' = Append(path, <<cur, i>>) /\ cur' = heap[cur].kids[i]
      /\ UNCHANGED <<heap, root, pc, key, offset, ret, status, answer, failures>>
  BY DEF Descend
<1>2. TypeOK /\ ret = NoSplit /\ key \in Keys /\ root # NULL
  BY <1>1 DEF Inv, Control
<1>3. ~ret.split /\ key \in Int
  BY <1>2, KeysAssumption DEF NoSplit
<1>4. PICK h, at : TreeState(h, at)
  BY <1>1, <1>2 DEF Inv
<1>5. ASSUME NEW h2, NEW at2, TreeState(h2, at2)
      PROVE  /\ cur = at2[Len(path)][key] /\ Len(path) < h2
             /\ cur \in DOMAIN heap /\ h2 \in Nat
             /\ at2[Len(path) + 1][key] = heap[cur].kids[i]
  <2>1. cur = at2[Len(path)][key] /\ Len(path) <= h2
    BY <1>1, <1>5 DEF TreeState, OnPath
  <2>2. /\ h2 \in Nat
        /\ \A d \in 0 .. h2 : \A k \in Int : at2[d][k] \in DOMAIN heap
        /\ \A d \in 0 .. h2 : \A k \in Int : heap[at2[d][k]].leaf <=> d = h2
        /\ \A d \in 0 .. h2 - 1 : \A k \in Int : at2[d + 1][k] = Kid(heap, at2[d][k], k)
    BY <1>3, <1>5, StateFacts
  <2>3. Len(path) \in Nat
    BY <1>2, StackFacts
  <2>4. Len(path) \in 0 .. h2
    BY ONLY <2>1, <2>2, <2>3
  <2>5. Len(path) # h2 /\ cur \in DOMAIN heap
    BY <1>1, <1>3, <2>1, <2>2, <2>4
  <2>6. Len(path) \in 0 .. h2 - 1 /\ Len(path) < h2
    BY ONLY <2>4, <2>5, <2>2
  <2> QED
    BY <1>3, <2>1, <2>2, <2>5, <2>6 DEF Kid, Turn
<1>6. Shaped(heap[cur]) /\ cur \in Addr
  BY <1>2, <1>4, <1>5 DEF TypeOK
<1>7. heap[cur].keys \in Seq(Keys) /\ heap[cur].kids \in Seq(Addr)
      /\ Len(heap[cur].kids) = Len(heap[cur].keys) + 1
  BY <1>1, <1>6, NodeFacts
<1>8. i \in 1 .. Len(heap[cur].keys) + 1
  BY <1>3, <1>7, TurnSlot DEF Turn
<1> HIDE DEF i
<1>9. i \in Nat /\ heap[cur].kids[i] \in Addr
  <2>1. i \in 1 .. Len(heap[cur].kids)
    BY ONLY <1>7, <1>8
  <2> QED
    BY ONLY <2>1, <1>7
<1>10. /\ path' \in Seq(Addr \X Nat) /\ Len(path') = Len(path) + 1
       /\ path'[Len(path) + 1] = <<cur, i>>
       /\ \A j \in 1 .. Len(path) : path'[j] = path[j]
  <2>1. path \in Seq(Addr \X Nat)
    BY <1>2 DEF TypeOK
  <2>2. <<cur, i>> \in Addr \X Nat
    BY <1>6, <1>9
  <2> QED
    BY ONLY <1>1, <2>1, <2>2
<1>11. TypeOK'
  BY <1>1, <1>2, <1>9, <1>10 DEF TypeOK, Shaped
<1>12. Control'
  BY <1>1, <1>2 DEF Inv, Control
<1>13. ASSUME NEW h2, NEW at2, root # NULL, TreeState(h2, at2)
       PROVE  TreeState(h2, at2)'
  <2>1. /\ cur = at2[Len(path)][key] /\ Len(path) < h2 /\ h2 \in Nat
        /\ at2[Len(path) + 1][key] = heap[cur].kids[i]
    BY <1>5, <1>13 DEF i
  <2>2. Len(path) \in Nat
    BY <1>2, StackFacts
  <2>3. OnPath(h2, at2)'
    <3>1. Len(path') <= h2
      BY ONLY <1>10, <2>1, <2>2
    <3>2. ASSUME NEW j \in 1 .. Len(path')
          PROVE  path'[j] = <<at2[j - 1][key], Turn(heap, at2[j - 1][key], key)>>
      <4>1. CASE j = Len(path) + 1
        <5>1. j - 1 = Len(path)
          BY ONLY <4>1, <2>2
        <5> QED
          BY <1>10, <2>1, <4>1, <5>1 DEF i, Turn
      <4>2. CASE j # Len(path) + 1
        <5>1. j \in 1 .. Len(path)
          BY ONLY <4>2, <2>2, <1>10, j \in 1 .. Len(path')
        <5> QED
          BY <5>1, <1>10, <1>13 DEF TreeState, OnPath
      <4> QED
        BY <4>1, <4>2
    <3> QED
      BY <1>1, <3>1, <3>2 DEF OnPath, Turn
  <2>4. cur' = at2[Len(path')][key']
    BY <1>1, <1>10, <2>1
  <2> QED
    BY <1>1, <1>3, <1>13, <2>3, <2>4, SameTree
<1> QED
  BY <1>1, <1>3, <1>11, <1>12, <1>13, QuietStep

LEMMA SearchDescendInv == ASSUME Inv, SearchDescend PROVE Inv'
<1> DEFINE i == ChildIndex(heap[cur].keys, key)
<1>1. /\ pc = "search" /\ ~heap[cur].leaf /\ cur' = heap[cur].kids[i]
      /\ UNCHANGED <<heap, root, pc, key, offset, path, ret, status, answer, failures>>
  BY DEF SearchDescend
<1>2. TypeOK /\ ret = NoSplit /\ key \in Keys /\ root # NULL /\ path = << >>
  BY <1>1 DEF Inv, Control
<1>3. ~ret.split /\ key \in Int
  BY <1>2, KeysAssumption DEF NoSplit
<1>4. PICK h, at : TreeState(h, at)
  BY <1>1, <1>2 DEF Inv
<1>5. ASSUME NEW h2, NEW at2, TreeState(h2, at2)
      PROVE  /\ cur \in DOMAIN heap
             /\ \E d \in 0 .. h2 : cur' = at2[d][key]
  <2>1. PICK d \in 0 .. h2 : cur = at2[d][key]
    BY <1>1, <1>5 DEF TreeState
  <2>2. /\ h2 \in Nat
        /\ \A e \in 0 .. h2 : \A k \in Int : at2[e][k] \in DOMAIN heap
        /\ \A e \in 0 .. h2 : \A k \in Int : heap[at2[e][k]].leaf <=> e = h2
        /\ \A e \in 0 .. h2 - 1 : \A k \in Int : at2[e + 1][k] = Kid(heap, at2[e][k], k)
    BY <1>3, <1>5, StateFacts
  <2>3. d # h2 /\ cur \in DOMAIN heap
    BY <1>1, <1>3, <2>1, <2>2
  <2>4. d \in 0 .. h2 - 1 /\ d + 1 \in 0 .. h2
    BY ONLY <2>2, <2>3, d \in 0 .. h2
  <2>5. cur' = at2[d + 1][key]
    BY <1>1, <1>3, <2>1, <2>2, <2>4 DEF Kid, Turn
  <2> QED
    BY <2>3, <2>4, <2>5
<1>6. PICK d \in 0 .. h : cur' = at[d][key]
  BY <1>4, <1>5
<1>7. cur' \in DOMAIN heap
  BY <1>3, <1>4, <1>6, StateFacts
<1>8. TypeOK'
  BY <1>1, <1>2, <1>7 DEF TypeOK, Shaped
<1>9. Control'
  BY <1>1, <1>2 DEF Inv, Control
<1>10. ASSUME NEW h2, NEW at2, root # NULL, TreeState(h2, at2)
       PROVE  TreeState(h2, at2)'
  <2>1. \E e \in 0 .. h2 : cur' = at2[e][key']
    BY <1>1, <1>5, <1>10
  <2>2. OnPath(h2, at2)'
    BY <1>1, <1>10 DEF TreeState, OnPath
  <2> QED
    BY <1>1, <1>3, <1>10, <2>1, <2>2, SameTree
<1> QED
  BY <1>1, <1>3, <1>8, <1>9, <1>10, QuietStep

LEMMA LeafDuplicateInv == ASSUME Inv, LeafDuplicate PROVE Inv'
<1>1. /\ pc = "descend" /\ pc' = "unwind" /\ status' = "dup"
      /\ UNCHANGED <<heap, root, key, offset, cur, path, ret, answer, failures>>
  BY DEF LeafDuplicate, call
<1>2. TypeOK /\ ret = NoSplit /\ key \in Keys /\ offset \in Offsets /\ root # NULL
  BY <1>1 DEF Inv, Control
<1>3. ~ret.split /\ ~ret'.split
  BY <1>1, <1>2 DEF NoSplit
<1>4. TypeOK'
  BY <1>1, <1>2 DEF TypeOK, Shaped
<1>5. Control'
  BY <1>1, <1>2, <1>3 DEF Control
<1>6. ASSUME NEW h, NEW at, root # NULL, TreeState(h, at) PROVE TreeState(h, at)'
  <2>1. OnPath(h, at)'
    BY <1>1, <1>6 DEF TreeState, OnPath
  <2> QED
    BY <1>1, <1>3, <1>6, <2>1, SameTree
<1> QED
  BY <1>1, <1>3, <1>4, <1>5, <1>6, QuietStep

(* An activation of insert_into_internal returns without a split.          *)
LEMMA PassUpInv == ASSUME Inv, PassUp PROVE Inv'
<1>1. /\ pc = "unwind" /\ path # << >> /\ ret' = NoSplit /\ path' = Front(path)
      /\ UNCHANGED <<heap, root, pc, key, offset, cur, status, answer, failures>>
  BY DEF PassUp
<1>2. TypeOK /\ key \in Keys /\ offset \in Offsets /\ root # NULL /\ ~ret.split
  BY <1>1 DEF Inv, Control, PassUp
<1>3. ~ret'.split
  BY <1>1 DEF NoSplit
<1>4. /\ path' \in Seq(Addr \X Nat) /\ Len(path') = Len(path) - 1 /\ Len(path) \in Nat
      /\ \A j \in 1 .. Len(path) - 1 : path'[j] = path[j]
  BY <1>1, <1>2, StackFacts, FrontElements
<1>5. TypeOK'
  BY <1>1, <1>2, <1>4 DEF TypeOK, Shaped
<1>6. Control'
  BY <1>1, <1>2, <1>3 DEF Control
<1>7. ASSUME NEW h, NEW at, root # NULL, TreeState(h, at) PROVE TreeState(h, at)'
  <2>1. /\ Len(path) <= h
        /\ \A j \in 1 .. Len(path) :
             path[j] = <<at[j - 1][key], Turn(heap, at[j - 1][key], key)>>
    BY <1>7 DEF TreeState, OnPath
  <2>2. h \in Nat
    BY <1>2, <1>7, StateFacts
  <2>3. Len(path') <= h /\ 1 .. Len(path') \subseteq 1 .. Len(path)
    BY ONLY <2>1, <2>2, <1>4
  <2>4. OnPath(h, at)'
    BY <1>1, <1>4, <2>1, <2>3 DEF OnPath
  <2> QED
    BY <1>1, <1>2, <1>3, <1>7, <2>4, SameTree
<1> QED
  BY <1>1, <1>2, <1>3, <1>5, <1>6, <1>7, QuietStep

(* An array is overrun only at a node that an earlier failure overfilled.  *)
LEMMA OverfullNode ==
    ASSUME Inv, pc # "overrun", NEW n \in DOMAIN heap, Len(heap[n].keys) >= Order
    PROVE  failures > 0
<1> DEFINE overfull == {a \in DOMAIN heap : Len(heap[a].keys) > MaxKeys}
<1>1. Len(heap[n].keys) \in Nat
  <2>1. Len(heap[n].keys) \in 1 .. Order
    BY DEF Inv, TypeOK, Shaped
  <2> QED
    BY ONLY <2>1, OrderAssumption
<1>2. n \in overfull
  <2>1. Len(heap[n].keys) > MaxKeys
    BY ONLY <1>1, OrderAssumption, Len(heap[n].keys) >= Order DEF MaxKeys
  <2> QED
    BY <2>1
<1>3. Cardinality(overfull) <= failures
  BY DEF Inv, OverfullByFailure
<1>4. IsFiniteSet(overfull)
  <2>1. overfull \subseteq DOMAIN heap
    OBVIOUS
  <2> HIDE DEF overfull
  <2> QED
    BY <2>1, FS_Subset DEF Inv, Finite
<1>5. Cardinality(overfull) \in Nat /\ Cardinality(overfull) # 0
  <2> HIDE DEF overfull
  <2> QED
    BY ONLY <1>2, <1>4, FS_EmptySet, FS_CardinalityType
<1>6. failures \in Nat
  BY FailureCount DEF Inv
<1> QED
  BY ONLY <1>3, <1>5, <1>6

(* The node an insertion is at when it has reached a leaf.                 *)
LEMMA AtLeaf ==
    ASSUME Inv, pc = "descend", heap[cur].leaf,
           NEW h, NEW at, TreeState(h, at)
    PROVE  cur = at[h][key] /\ Len(path) = h /\ cur \in DOMAIN heap /\ h \in Nat
<1>1. TypeOK /\ ret = NoSplit /\ key \in Keys
  BY DEF Inv, Control
<1>2. ~ret.split /\ key \in Int
  BY <1>1, KeysAssumption DEF NoSplit
<1>3. cur = at[Len(path)][key] /\ Len(path) <= h
  BY DEF TreeState, OnPath
<1>4. /\ h \in Nat
      /\ \A d \in 0 .. h : \A k \in Int : at[d][k] \in DOMAIN heap
      /\ \A d \in 0 .. h : \A k \in Int : heap[at[d][k]].leaf <=> d = h
  BY <1>2, StateFacts
<1>5. Len(path) \in 0 .. h
  <2>1. Len(path) \in Nat
    BY <1>1, StackFacts
  <2> QED
    BY ONLY <1>3, <1>4, <2>1
<1> QED
  BY <1>2, <1>3, <1>4, <1>5

LEMMA LeafOverrunInv == ASSUME Inv, LeafOverrun PROVE Inv'
<1>1. /\ pc = "descend" /\ heap[cur].leaf /\ Len(heap[cur].keys) >= Order
      /\ pc' = "overrun"
      /\ UNCHANGED <<heap, root, key, offset, cur, path, ret, status, answer, failures>>
  BY DEF LeafOverrun, call
<1>2. TypeOK /\ ret = NoSplit /\ key \in Keys /\ offset \in Offsets /\ root # NULL
  BY <1>1 DEF Inv, Control
<1>3. ~ret.split /\ ~ret'.split
  BY <1>1, <1>2 DEF NoSplit
<1>4. TypeOK'
  BY <1>1, <1>2 DEF TypeOK, Shaped
<1>5. Control'
  BY <1>1, <1>2, <1>3 DEF Inv, Control
<1>6. ASSUME NEW h, NEW at, root # NULL, TreeState(h, at) PROVE TreeState(h, at)'
  <2>1. OnPath(h, at)'
    BY <1>1, <1>6 DEF TreeState, OnPath
  <2> QED
    BY <1>1, <1>3, <1>6, <2>1, SameTree
<1>7. failures > 0
  <2>1. PICK h, at : TreeState(h, at)
    BY <1>1, <1>2 DEF Inv
  <2>2. cur \in DOMAIN heap
    BY <1>1, <2>1, AtLeaf
  <2> QED
    BY <1>1, <2>2, OverfullNode
<1> QED
  BY <1>1, <1>3, <1>4, <1>5, <1>6, <1>7, QuietStep

(* The node a split child is linked to, and the place there.               *)
LEMMA LinkingFacts ==
    ASSUME Inv, Linking, NEW h, NEW at, TreeState(h, at),
           NEW d, d = Len(path) - 1
    PROVE  /\ h \in Nat /\ d \in 0 .. h - 1 /\ Len(path) = d + 1
           /\ ret.promoted \in Keys /\ ret.right \in Addr
           /\ Parted(heap, root, h, at, d + 1, Returned, ret.promoted, ret.right)
           /\ parent = at[d][key] /\ parent = at[d][ret.promoted]
           /\ parent = at[d][ret.promoted - 1]
           /\ slot = Turn(heap, parent, ret.promoted)
           /\ slot = Turn(heap, parent, ret.promoted - 1)
           /\ parent \in DOMAIN heap /\ ~heap[parent].leaf
<1>1. /\ pc = "unwind" /\ path # << >> /\ ret.split /\ TypeOK
      /\ key \in Keys
  BY DEF Linking, Inv, Control
<1>2. ret.promoted \in Keys /\ ret.right \in Addr /\ ret.promoted \in Int /\ key \in Int
  BY <1>1, RetKind, KeysAssumption
<1> DEFINE p == ret.promoted
<1>3. Parted(heap, root, h, at, Len(path), Returned, p, ret.right) /\ OnPath(h, at)
  BY <1>1 DEF TreeState
<1>4. Skeleton(heap, h, at)
  BY <1>3 DEF Parted
<1>5. h \in Nat /\ at \in [0 .. h -> [Int -> DOMAIN heap]]
  BY <1>4 DEF Skeleton, Levels
<1>6. Len(path) \in Nat /\ Len(path) # 0
  <2>1. path \in Seq(Addr \X Nat) /\ Len(path) \in Nat
    BY <1>1, StackFacts
  <2> QED
    BY ONLY <1>1, <2>1, EmptySeq
<1>7. d \in 0 .. h - 1 /\ Len(path) = d + 1 /\ d + 1 \in 0 .. h /\ d \in 0 .. h
      /\ Len(path) - 1 = d /\ Len(path) \in 1 .. Len(path)
  <2>1. Len(path) <= h
    BY <1>3 DEF OnPath
  <2> QED
    BY ONLY <1>5, <1>6, <2>1, d = Len(path) - 1
<1>8. parent = at[d][key] /\ slot = Turn(heap, at[d][key], key)
  <2>1. path[Len(path)] = <<at[Len(path) - 1][key], Turn(heap, at[Len(path) - 1][key], key)>>
    BY <1>3, <1>7 DEF OnPath
  <2> QED
    BY <1>7, <2>1 DEF parent, slot
<1>9. Returned = Kid(heap, at[d][key], key)
  BY <1>1, <1>8 DEF Returned, Kid
<1>10. at[d + 1][key] = IF key >= p THEN ret.right ELSE Returned
  <2>1. at[d + 1][key] = IF Len(path) = d + 1 /\ Kid(heap, at[d][key], key) = Returned /\ key >= p
                          THEN ret.right ELSE Kid(heap, at[d][key], key)
    BY <1>2, <1>3, <1>7 DEF Parted
  <2>2. Len(path) = d + 1
    BY <1>7
  <2> QED
    BY ONLY <1>9, <2>1, <2>2
<1>11. at[d + 1][p - 1] = Returned /\ at[d + 1][p] = ret.right /\ p \in Int /\ p - 1 \in Int
  <2>1. at[Len(path)][p - 1] = Returned /\ at[Len(path)][p] = ret.right
    BY ONLY <1>3 DEF Parted
  <2>2. p \in Int /\ p - 1 \in Int
    BY ONLY <1>2
  <2> QED
    BY ONLY <1>7, <2>1, <2>2
<1>12. /\ at[d][p] = at[d][p - 1]
       /\ Turn(heap, at[d][p], p) = Turn(heap, at[d][p], p - 1)
  BY <1>3, <1>7 DEF Parted
<1>13. Nested(heap, h, at)
  BY <1>4 DEF Skeleton
<1>14. at[d][key] = at[d][p] /\ Turn(heap, at[d][key], key) = Turn(heap, at[d][p], p)
  <2>1. CASE key >= p
    <3>1. at[d + 1][key] = at[d + 1][p]
      BY <1>10, <1>11, <2>1
    <3> QED
      BY <1>2, <1>7, <1>13, <3>1 DEF Nested
  <2>2. CASE ~(key >= p)
    <3>1. at[d + 1][key] = at[d + 1][p - 1]
      BY <1>10, <1>11, <2>2
    <3>2. /\ at[d][key] = at[d][p - 1]
          /\ Turn(heap, at[d][key], key) = Turn(heap, at[d][key], p - 1)
      BY <1>2, <1>7, <1>11, <1>13, <3>1 DEF Nested
    <3> QED
      BY <1>12, <3>2
  <2> QED
    BY <2>1, <2>2
<1>15. parent \in DOMAIN heap /\ ~heap[parent].leaf
  <2>1. LeavesAtBottom(heap, h, at)
    BY <1>4 DEF Skeleton
  <2>2. d # h
    BY ONLY <1>5, <1>7
  <2> QED
    BY <1>2, <1>5, <1>7, <1>8, <2>1, <2>2 DEF LeavesAtBottom
<1>16. Parted(heap, root, h, at, d + 1, Returned, p, ret.right)
  BY <1>3, <1>7
<1> QED
  BY <1>2, <1>5, <1>7, <1>8, <1>12, <1>14, <1>15, <1>16

LEMMA LinkOverrunInv == ASSUME Inv, LinkOverrun PROVE Inv'
<1>1. /\ Linking /\ pc = "unwind" /\ Len(heap[parent].keys) >= Order
      /\ pc' = "overrun"
      /\ UNCHANGED <<heap, root, key, offset, cur, path, ret, status, answer, failures>>
  BY DEF LinkOverrun, Linking, call
<1>2. TypeOK /\ key \in Keys /\ offset \in Offsets /\ root # NULL
  BY <1>1 DEF Inv, Control
<1>3. TypeOK'
  BY <1>1, <1>2 DEF TypeOK, Shaped
<1>4. Control'
  BY <1>1, <1>2 DEF Inv, Control
<1>5. ASSUME NEW h, NEW at, root # NULL, TreeState(h, at) PROVE TreeState(h, at)'
  BY <1>1, <1>5 DEF TreeState, OnPath, Returned, parent, slot
<1>6. failures > 0
  <2>1. PICK h, at : TreeState(h, at)
    BY <1>1, <1>2 DEF Inv
  <2>2. parent \in DOMAIN heap
    <3> DEFINE d == Len(path) - 1
    <3> QED
      BY <1>1, <2>1, LinkingFacts
  <2> QED
    BY <1>1, <2>2, OverfullNode
<1> QED
  BY <1>1, <1>3, <1>4, <1>5, <1>6, QuietStep

-----------------------------------------------------------------------------
(* Nodes that are too full.                                                *)

LEMMA OverfullKept ==
    ASSUME Inv, pc # "overrun", pc' # "overrun",
           failures' \in Nat, failures' >= failures,
           \A a \in DOMAIN heap' : Len(heap'[a].keys) > MaxKeys =>
               a \in DOMAIN heap /\ heap'[a].keys = heap[a].keys
    PROVE  OverfullByFailure'
<1> DEFINE overfull == {n \in DOMAIN heap : Len(heap[n].keys) > MaxKeys}
           after == {n \in DOMAIN heap' : Len(heap'[n].keys) > MaxKeys}
<1>1. Cardinality(overfull) <= failures /\ \A n \in overfull : Len(heap[n].keys) = Order
  BY DEF Inv, OverfullByFailure
<1>2. after \subseteq overfull /\ \A n \in after : Len(heap'[n].keys) = Order
  BY <1>1
<1>3. overfull \subseteq DOMAIN heap
  OBVIOUS
<1>4. overfull' = after
  BY DEF MaxKeys
<1>5. Cardinality(after) <= failures'
  <2> HIDE DEF overfull, after
  <2>1. IsFiniteSet(overfull)
    BY <1>3, FS_Subset DEF Inv, Finite
  <2>2. Cardinality(after) <= Cardinality(overfull) /\ IsFiniteSet(after)
    BY <1>2, <2>1, FS_Subset
  <2>3. Cardinality(overfull) \in Nat /\ Cardinality(after) \in Nat
    BY <2>1, <2>2, FS_CardinalityType
  <2>4. failures \in Nat
    BY FailureCount DEF Inv
  <2> QED
    BY ONLY <1>1, <2>2, <2>3, <2>4, failures' \in Nat, failures' >= failures
<1> QED
  BY <1>2, <1>5 DEF OverfullByFailure, MaxKeys

LEMMA OverfullOneMore ==
    ASSUME Inv, pc # "overrun", pc' # "overrun", failures' = failures + 1, NEW x,
           \A a \in DOMAIN heap' : Len(heap'[a].keys) > MaxKeys =>
               \/ a \in DOMAIN heap /\ heap'[a].keys = heap[a].keys
               \/ a = x /\ Len(heap'[a].keys) = Order
    PROVE  OverfullByFailure'
<1> DEFINE overfull == {n \in DOMAIN heap : Len(heap[n].keys) > MaxKeys}
           after == {n \in DOMAIN heap' : Len(heap'[n].keys) > MaxKeys}
<1>1. Cardinality(overfull) <= failures /\ \A n \in overfull : Len(heap[n].keys) = Order
  BY DEF Inv, OverfullByFailure
<1>2. after \subseteq overfull \union {x} /\ \A n \in after : Len(heap'[n].keys) = Order
  BY <1>1
<1>3. overfull \subseteq DOMAIN heap
  OBVIOUS
<1>4. Cardinality(after) <= failures'
  <2> HIDE DEF overfull, after
  <2>1. IsFiniteSet(overfull)
    BY <1>3, FS_Subset DEF Inv, Finite
  <2>2. /\ IsFiniteSet(overfull \union {x})
        /\ \/ Cardinality(overfull \union {x}) = Cardinality(overfull)
           \/ Cardinality(overfull \union {x}) = Cardinality(overfull) + 1
    BY <2>1, FS_AddElement
  <2>3. Cardinality(after) <= Cardinality(overfull \union {x}) /\ IsFiniteSet(after)
    BY <1>2, <2>2, FS_Subset
  <2>4. Cardinality(overfull) \in Nat /\ Cardinality(after) \in Nat
    BY <2>1, <2>3, FS_CardinalityType
  <2>5. failures \in Nat
    BY FailureCount DEF Inv
  <2> QED
    BY ONLY <1>1, <2>2, <2>3, <2>4, <2>5, failures' = failures + 1
<1> QED
  BY <1>2, <1>4 DEF OverfullByFailure, MaxKeys

(* One more key in a node.                                                 *)
LEMMA GrownNode ==
    ASSUME Inv, pc # "overrun", pc' # "overrun", NEW n \in DOMAIN heap,
           DOMAIN heap' = DOMAIN heap,
           \A a \in DOMAIN heap : a # n => heap'[a] = heap[a],
           heap'[n].leaf = heap[n].leaf,
           Ascends(heap'[n].keys, Len(heap'[n].keys)),
           Len(heap'[n].keys) = Len(heap[n].keys) + 1, Len(heap[n].keys) < Order,
           \/ Fits(heap'[n].keys) /\ failures' = failures
           \/ ~Fits(heap'[n].keys) /\ failures' = failures + 1,
           root' = root, ~ret'.split
    PROVE  Sorted' /\ Fill' /\ Finite' /\ OverfullByFailure'
<1>1. Sorted' /\ Finite'
  BY DEF Inv, Sorted, Finite
<1>2. Len(heap[n].keys) \in Nat
  <2>1. Len(heap[n].keys) \in 1 .. Order
    BY DEF Inv, TypeOK, Shaped
  <2> QED
    BY ONLY <2>1, OrderAssumption
<1>3. Fill'
  <2> SUFFICES ASSUME NEW a \in DOMAIN heap', a # root PROVE Filled(heap'[a])
    BY DEF Fill, Filled
  <2>1. Filled(heap[a])
    BY DEF Inv, Fill
  <2>2. CASE a = n
    <3> DEFINE bound == IF heap[n].leaf THEN Order \div 2 ELSE (Order - 1) \div 2
    <3>1. Len(heap[n].keys) >= bound /\ bound \in Int
      BY <2>1, <2>2, OrderAssumption DEF Filled
    <3> HIDE DEF bound
    <3>2. Len(heap'[n].keys) >= bound
      BY ONLY <1>2, <3>1, Len(heap'[n].keys) = Len(heap[n].keys) + 1
    <3> QED
      BY <2>2, <3>2 DEF Filled, bound
  <2>3. CASE a # n
    BY <2>1, <2>3
  <2> QED
    BY <2>2, <2>3
<1>4. OverfullByFailure'
  <2>1. \A a \in DOMAIN heap' : a # n => a \in DOMAIN heap /\ heap'[a].keys = heap[a].keys
    OBVIOUS
  <2>2. Len(heap'[n].keys) \in Nat /\ Len(heap'[n].keys) <= Order
    BY ONLY <1>2, OrderAssumption, Len(heap'[n].keys) = Len(heap[n].keys) + 1,
            Len(heap[n].keys) < Order
  <2>3. CASE Fits(heap'[n].keys) /\ failures' = failures
    <3>1. Len(heap'[n].keys) <= MaxKeys
      BY <2>3 DEF Fits
    <3>2. ~(Len(heap'[n].keys) > MaxKeys)
      BY ONLY <3>1, <2>2, OrderAssumption DEF MaxKeys
    <3>3. failures' \in Nat /\ failures' >= failures
      <4>1. failures \in Nat
        BY FailureCount DEF Inv
      <4> QED
        BY ONLY <4>1, <2>3
    <3> QED
      BY <2>1, <3>2, <3>3, OverfullKept
  <2>4. CASE ~Fits(heap'[n].keys) /\ failures' = failures + 1
    <3>1. ~(Len(heap'[n].keys) <= MaxKeys)
      BY <2>4 DEF Fits
    <3>2. Len(heap'[n].keys) = Order
      BY ONLY <3>1, <2>2, OrderAssumption DEF MaxKeys
    <3> QED
      BY <2>1, <2>4, <3>2, OverfullOneMore
  <2> QED
    BY <2>3, <2>4
<1> QED
  BY <1>1, <1>3, <1>4

(* A node and a new one that share its keys.                               *)
LEMMA SplitNodes ==
    ASSUME Inv, pc # "overrun", pc' # "overrun", NEW n \in DOMAIN heap,
           NEW r, r \notin DOMAIN heap, DOMAIN heap' = DOMAIN heap \union {r},
           \A a \in DOMAIN heap : a # n => heap'[a] = heap[a],
           \A a \in {n, r} : /\ Ascends(heap'[a].keys, Len(heap'[a].keys))
                             /\ Filled(heap'[a]) /\ Len(heap'[a].keys) \in 1 .. MaxKeys,
           failures' = failures, root' = root, path' = << >> => n = root
    PROVE  Sorted' /\ Fill' /\ Finite' /\ OverfullByFailure'
<1>1. \A a \in DOMAIN heap' : a \in {n, r} \/ (a \in DOMAIN heap /\ heap'[a] = heap[a])
  OBVIOUS
<1>2. Sorted'
  BY <1>1 DEF Inv, Sorted
<1>3. Finite'
  BY FS_AddElement DEF Inv, Finite
<1>4. Fill'
  <2> SUFFICES ASSUME NEW a \in DOMAIN heap', a # root \/ path' = << >>
               PROVE  Filled(heap'[a])
    BY DEF Fill, Filled
  <2>1. CASE a \in {n, r}
    BY <2>1
  <2>2. CASE a \notin {n, r}
    BY <1>1, <2>2 DEF Inv, Fill
  <2> QED
    BY <2>1, <2>2
<1>5. OverfullByFailure'
  <2>1. MaxKeys \in Int
    BY OrderAssumption DEF MaxKeys
  <2>2. \A a \in {n, r} : ~(Len(heap'[a].keys) > MaxKeys)
    BY <2>1
  <2>3. failures' \in Nat /\ failures' >= failures
    <3>1. failures \in Nat
      BY FailureCount DEF Inv
    <3> QED
      BY ONLY <3>1, failures' = failures
  <2> QED
    BY <1>1, <2>2, <2>3, OverfullKept
<1> QED
  BY <1>2, <1>3, <1>4, <1>5

-----------------------------------------------------------------------------
(* Linking a split child.                                                  *)

LEMMA SameNext ==
    ASSUME NEW g, NEW g2, NEW h, NEW at, Levels(g, h, at), DOMAIN g2 = DOMAIN g,
           \A a \in DOMAIN g : g2[a].next = g[a].next,
           Covers(g, h, at), Chained(g, h, at)
    PROVE  Covers(g2, h, at) /\ Chained(g2, h, at)
<1>1. Covers(g2, h, at)
  BY DEF Covers
<1>2. \A k \in Int : g2[at[h][k]].next = g[at[h][k]].next
  BY DEF Levels
<1>3. Chained(g2, h, at)
  BY <1>2 DEF Chained
<1> QED
  BY <1>1, <1>3

(* The heap in which the right half is linked to its parent.               *)
LinkedHeap(g) ==
    g = [heap EXCEPT ![parent].keys = LinkedKeys, ![parent].kids = LinkedKids]

LEMMA LinkedNode ==
    ASSUME Inv, LinkReady, NEW g, LinkedHeap(g), parent \in DOMAIN heap,
           ~heap[parent].leaf, ret.promoted \in Keys, ret.right \in Addr,
           slot = Turn(heap, parent, ret.promoted),
           slot = Turn(heap, parent, ret.promoted - 1)
    PROVE  /\ DOMAIN g = DOMAIN heap
           /\ \A a \in DOMAIN heap : a # parent => g[a] = heap[a]
           /\ g[parent].keys = LinkedKeys /\ g[parent].kids = LinkedKids
           /\ ~g[parent].leaf /\ g[parent].next = heap[parent].next
           /\ g[parent].offs = heap[parent].offs /\ Len(g[parent].offs) = 0
           /\ g[parent] \in Node
           /\ Branch(g[parent]) /\ Branch(heap[parent])
           /\ Len(g[parent].keys) = Len(heap[parent].keys) + 1
           /\ WayOpened(heap, g, parent, slot, ret.promoted, ret.right)
           /\ \A x \in Int : OwnKey(g, parent, x) => OwnKey(heap, parent, x) \/ x = ret.promoted
<1>1. DOMAIN g = DOMAIN heap /\ \A a \in DOMAIN heap : a # parent => g[a] = heap[a]
  BY DEF LinkedHeap
<1>2. Shaped(heap[parent]) /\ Ascends(heap[parent].keys, Len(heap[parent].keys))
  BY DEF Inv, TypeOK, Sorted
<1>3. heap[parent] \in Node
  BY <1>2 DEF Shaped
<1>4. g[parent] = [heap[parent] EXCEPT !.keys = LinkedKeys, !.kids = LinkedKids]
  BY DEF LinkedHeap
<1>5. /\ g[parent].keys = LinkedKeys /\ g[parent].kids = LinkedKids
      /\ g[parent].leaf = heap[parent].leaf /\ g[parent].next = heap[parent].next
      /\ g[parent].offs = heap[parent].offs
  BY <1>3, <1>4 DEF Node
<1>6. Len(heap[parent].offs) = 0
  BY <1>2, NodeFacts
<1>7. Branch(heap[parent])
  BY <1>2, BranchFacts
<1>8. /\ g[parent].keys = InsertAt(heap[parent].keys, slot, ret.promoted)
      /\ g[parent].kids = InsertAt(heap[parent].kids, slot + 1, ret.right)
  BY <1>5 DEF LinkedKeys, LinkedKids
<1>9. /\ Branch(g[parent])
      /\ Len(g[parent].keys) = Len(heap[parent].keys) + 1
      /\ WayOpened(heap, g, parent, slot, ret.promoted, ret.right)
      /\ \A x \in Int : OwnKey(g, parent, x) => OwnKey(heap, parent, x) \/ x = ret.promoted
  BY ONLY <1>7, <1>8, LinkOpensWay, ret.promoted \in Keys, ret.right \in Addr,
          slot = Turn(heap, parent, ret.promoted),
          slot = Turn(heap, parent, ret.promoted - 1)
<1>10. g[parent] \in Node
  <2>1. LinkedKeys \in Seq(Keys) /\ LinkedKids \in Seq(Addr)
    BY <1>5, <1>9 DEF Branch
  <2> QED
    BY ONLY <1>3, <1>4, <2>1 DEF Node
<1> QED
  BY <1>1, <1>5, <1>6, <1>7, <1>9, <1>10

LEMMA LinkedTree ==
    ASSUME Inv, LinkReady, NEW h, NEW at, TreeState(h, at), NEW g, LinkedHeap(g)
    PROVE  /\ Whole(g, root, h, at) /\ h \in Nat /\ Len(path) <= h
           /\ \A j \in 1 .. Len(path) - 1 :
                path[j] = <<at[j - 1][key], Turn(g, at[j - 1][key], key)>>
           /\ failures = 0 => Covers(g, h, at) /\ Chained(g, h, at)
<1> DEFINE d == Len(path) - 1
           p == ret.promoted
<1>1. Linking /\ ret.split /\ key \in Int
  BY KeysAssumption DEF LinkReady, Linking, Inv, Control
<1>2. /\ h \in Nat /\ d \in 0 .. h - 1 /\ Len(path) = d + 1
      /\ p \in Keys /\ ret.right \in Addr
      /\ Parted(heap, root, h, at, d + 1, Returned, p, ret.right)
      /\ parent = at[d][key] /\ parent = at[d][p]
      /\ parent = at[d][p - 1]
      /\ slot = Turn(heap, parent, p)
      /\ slot = Turn(heap, parent, p - 1)
      /\ parent \in DOMAIN heap /\ ~heap[parent].leaf
  BY <1>1, LinkingFacts
<1> HIDE DEF d
<1>3. /\ DOMAIN g = DOMAIN heap
      /\ \A a \in DOMAIN heap : a # parent => g[a] = heap[a]
      /\ g[parent].keys = LinkedKeys
      /\ ~g[parent].leaf /\ g[parent].next = heap[parent].next
      /\ WayOpened(heap, g, parent, slot, p, ret.right)
      /\ \A x \in Int : OwnKey(g, parent, x) => OwnKey(heap, parent, x) \/ x = p
  BY <1>2, LinkedNode
<1>4. Whole(g, root, h, at)
  <2>1. /\ parent = at[d][p] /\ g[parent].leaf <=> heap[parent].leaf
        /\ WayOpened(heap, g, parent, Turn(heap, parent, p), p, ret.right)
    BY <1>2, <1>3
  <2> HIDE DEF p
  <2> QED
    BY ONLY <1>2, <1>3, <2>1, LinkTree
<1>5. Skeleton(heap, h, at)
  BY <1>2 DEF Parted
<1>6. \A j \in 1 .. Len(path) - 1 :
         path[j] = <<at[j - 1][key], Turn(g, at[j - 1][key], key)>>
  <2> SUFFICES ASSUME NEW j \in 1 .. Len(path) - 1
               PROVE  path[j] = <<at[j - 1][key], Turn(g, at[j - 1][key], key)>>
    OBVIOUS
  <2>1. j \in 1 .. Len(path) /\ j - 1 \in 0 .. h /\ d \in 0 .. h /\ j - 1 # d
    BY ONLY <1>2, j \in 1 .. Len(path) - 1
  <2>2. path[j] = <<at[j - 1][key], Turn(heap, at[j - 1][key], key)>>
    <3>1. OnPath(h, at)
      BY DEF TreeState
    <3>2. \A i \in 1 .. Len(path) :
             path[i] = <<at[i - 1][key], Turn(heap, at[i - 1][key], key)>>
      BY ONLY <3>1 DEF OnPath
    <3> QED
      BY ONLY <2>1, <3>2
  <2>3. at[j - 1][key] # parent
    <3>1. OneLevel(h, at)
      BY ONLY <1>5 DEF Skeleton
    <3>2. at[j - 1][key] = at[d][key] => j - 1 = d
      BY ONLY <1>1, <2>1, <3>1 DEF OneLevel
    <3> QED
      BY ONLY <1>2, <2>1, <3>2
  <2>4. at[j - 1][key] \in DOMAIN heap
    BY <1>1, <1>5, <2>1 DEF Skeleton, Levels
  <2> QED
    BY <1>3, <2>2, <2>3, <2>4 DEF Turn
<1>7. Len(path) <= h
  BY ONLY <1>2
<1>8. ASSUME failures = 0 PROVE Covers(g, h, at) /\ Chained(g, h, at)
  <2>1. \A a \in DOMAIN heap : g[a].next = heap[a].next
    BY <1>3
  <2>2. Covers(heap, h, at) /\ Chained(heap, h, at) /\ Levels(heap, h, at)
    BY <1>5, <1>8 DEF TreeState, Skeleton
  <2> QED
    BY ONLY <1>3, <2>1, <2>2, SameNext
<1> QED
  BY <1>2, <1>4, <1>6, <1>7, <1>8

(* Linking without a second split, whether or not one was needed.          *)
LEMMA LinkedInv ==
    ASSUME Inv, LinkReady, LinkedHeap(heap'), ret' = NoSplit, path' = Front(path),
           UNCHANGED <<root, pc, key, offset, cur, answer>>,
           status' \in {"", "dup", "oom"},
           \/ Fits(LinkedKeys) /\ failures' = failures
           \/ ~Fits(LinkedKeys) /\ failures' = failures + 1 /\ failures < MaxFailures
    PROVE  Inv'
<1>1. /\ pc = "unwind" /\ path # << >> /\ ret.split /\ Linking
      /\ TypeOK /\ key \in Keys /\ offset \in Offsets /\ root # NULL
      /\ Len(heap[parent].keys) < Order
  BY DEF LinkReady, Linking, Inv, Control
<1>2. PICK h, at : TreeState(h, at)
  BY <1>1 DEF Inv
<1>3. /\ ret.promoted \in Keys /\ ret.right \in Addr
      /\ slot = Turn(heap, parent, ret.promoted)
      /\ slot = Turn(heap, parent, ret.promoted - 1)
      /\ parent \in DOMAIN heap /\ ~heap[parent].leaf
  <2> DEFINE d == Len(path) - 1
  <2> QED
    BY <1>1, <1>2, LinkingFacts
<1>4. /\ DOMAIN heap' = DOMAIN heap
      /\ \A a \in DOMAIN heap : a # parent => heap'[a] = heap[a]
      /\ heap'[parent].keys = LinkedKeys /\ ~heap'[parent].leaf
      /\ Len(heap'[parent].offs) = 0
      /\ heap'[parent] \in Node /\ Branch(heap'[parent])
      /\ Len(heap'[parent].keys) = Len(heap[parent].keys) + 1
  BY <1>3, LinkedNode
<1>5. /\ Whole(heap', root, h, at) /\ h \in Nat /\ Len(path) <= h
      /\ \A j \in 1 .. Len(path) - 1 :
           path[j] = <<at[j - 1][key], Turn(heap', at[j - 1][key], key)>>
      /\ failures = 0 => Covers(heap', h, at) /\ Chained(heap', h, at)
  BY <1>2, LinkedTree
<1>6. /\ path' \in Seq(Addr \X Nat) /\ Len(path') = Len(path) - 1 /\ Len(path) \in Nat
      /\ \A j \in 1 .. Len(path) - 1 : path'[j] = path[j]
  BY <1>1, StackFacts, FrontElements
<1>7. Len(heap[parent].keys) \in Nat /\ Len(heap[parent].keys) >= 1
      /\ Len(heap'[parent].keys) \in 1 .. Order
  <2>1. Len(heap[parent].keys) \in 1 .. Order
    BY <1>1, <1>3 DEF TypeOK, Shaped
  <2> QED
    BY ONLY <1>1, <1>4, <2>1, OrderAssumption
<1>8. failures \in Nat /\ failures' \in Nat /\ failures' >= failures /\ failures' \in 0 .. MaxFailures
      /\ (failures' = 0 => failures = 0)
  <2>1. failures \in Nat /\ failures \in 0 .. MaxFailures
    BY <1>1, FailureCount DEF TypeOK
  <2>2. failures' = failures \/ (failures' = failures + 1 /\ failures < MaxFailures)
    OBVIOUS
  <2> QED
    BY ONLY <2>1, <2>2, MaxFailuresAssumption
<1>9. ~ret'.split
  BY DEF NoSplit
<1>10. \A a \in DOMAIN heap' : Shaped(heap'[a])
  <2>1. Shaped(heap'[parent])
    BY <1>4, <1>7 DEF Shaped, Branch
  <2> QED
    BY <1>1, <1>4, <2>1 DEF TypeOK
<1>11. TypeOK'
  BY <1>1, <1>4, <1>6, <1>8, <1>10 DEF TypeOK, Shaped
<1>12. Control'
  BY <1>1, <1>9 DEF Inv, Control
<1>13. Sorted' /\ Fill' /\ Finite' /\ OverfullByFailure'
  <2>1. /\ Ascends(heap'[parent].keys, Len(heap'[parent].keys))
        /\ heap'[parent].leaf = heap[parent].leaf
        /\ pc # "overrun" /\ pc' # "overrun"
    BY <1>1, <1>3, <1>4, <1>10 DEF Branch, TypeOK, Shaped, Node
  <2>2. \/ Fits(heap'[parent].keys) /\ failures' = failures
        \/ ~Fits(heap'[parent].keys) /\ failures' = failures + 1
    BY <1>4
  <2> QED
    BY <1>1, <1>3, <1>4, <1>9, <2>1, <2>2, GrownNode
<1>17. TreeState(h, at)'
  <2>1. OnPath(h, at)'
    <3>1. Len(path') <= h /\ \A j \in 1 .. Len(path') : j \in 1 .. Len(path) - 1
      BY ONLY <1>5, <1>6
    <3> QED
      BY ONLY <1>5, <1>6, <3>1, UNCHANGED <<root, pc, key, offset, cur, answer>> DEF OnPath, Turn
  <2> QED
    BY <1>1, <1>5, <1>8, <1>9, <2>1 DEF TreeState
<1>18. root' # NULL /\ pc' # "free"
  BY <1>1
<1> QED
  BY <1>11, <1>12, <1>13, <1>17, <1>18 DEF Inv

LEMMA LinkInv == ASSUME Inv, Link PROVE Inv'
<1>1. /\ LinkReady /\ LinkedHeap(heap') /\ ret' = NoSplit /\ path' = Front(path)
      /\ UNCHANGED <<root, pc, key, offset, cur, answer>>
      /\ Fits(LinkedKeys) /\ failures' = failures /\ status' = status
  BY DEF Link, LinkedHeap
<1>2. status' \in {"", "dup", "oom"}
  BY <1>1 DEF Inv, TypeOK
<1> QED
  BY <1>1, <1>2, LinkedInv

LEMMA LinkSplitFailsInv == ASSUME Inv, LinkSplitFails PROVE Inv'
<1>1. /\ LinkReady /\ LinkedHeap(heap') /\ ret' = NoSplit /\ path' = Front(path)
      /\ UNCHANGED <<root, pc, key, offset, cur, answer>>
      /\ ~Fits(LinkedKeys) /\ AllocFails /\ status' = "oom"
  BY DEF LinkSplitFails, LinkedHeap
<1>2. failures' = failures + 1 /\ failures < MaxFailures
  BY <1>1 DEF AllocFails
<1> QED
  BY <1>1, <1>2, LinkedInv

-----------------------------------------------------------------------------
(* Splitting a node.                                                       *)

(* The node n of g is divided, with the ids from p on in the new node r.   *)
NodeDivided(g, g2, n, r, p) ==
    /\ r \notin DOMAIN g /\ DOMAIN g2 = DOMAIN g \union {r}
    /\ \A a \in DOMAIN g : a # n => g2[a] = g[a]
    /\ (g2[n].leaf <=> g[n].leaf) /\ (g2[r].leaf <=> g[n].leaf)
    /\ KeysDivided(g, g2, n, r, p)
    /\ ~g[n].leaf => \E c \in Nat : WaysDivided(g, g2, n, r, p, c)

LEMMA DivideNode ==
    ASSUME NEW g, NEW g2, NEW rt, NEW h, NEW at, Whole(g, rt, h, at),
           NEW n, NEW r, NEW p, NodeDivided(g, g2, n, r, p),
           NEW d \in 0 .. h, NEW k \in Int, at[d][k] = n
    PROVE  /\ Parted(g2, rt, h, Redirected(h, at, d, n, p, r), d, n, p, r)
           /\ p \in Int /\ at[d][p - 1] = n /\ at[d][p] = n
<1>1. /\ OwnKeys(g, h, at) /\ Convex(h, at) /\ p \in Int
      /\ KeysDivided(g, g2, n, r, p)
  BY DEF Whole, Skeleton, KeysDivided, NodeDivided
<1>2. PICK x \in Int : OwnKey(g, n, x) /\ x < p
  BY <1>1 DEF KeysDivided
<1>3. at[d][x] = n /\ at[d][p] = n
  BY <1>1, <1>2 DEF OwnKeys, KeysDivided
<1>4. x <= p - 1 /\ p - 1 <= p /\ p - 1 \in Int
  BY ONLY <1>1, <1>2
<1>5. at[d][p - 1] = n
  BY <1>1, <1>3, <1>4 DEF Convex
<1>6. /\ \A y \in Int : OwnKey(g2, n, y) => OwnKey(g, n, y) /\ y < p
      /\ \A y \in Int : OwnKey(g2, r, y) => OwnKey(g, n, y) /\ y >= p
  BY <1>1 DEF KeysDivided
<1> DEFINE at2 == Redirected(h, at, d, n, p, r)
<1>7. at2 = Redirected(h, at, d, n, p, r)
  OBVIOUS
<1> HIDE DEF at2
<1>8. Parted(g2, rt, h, at2, d, n, p, r)
  <2>1. /\ Whole(g, rt, h, at) /\ r \notin DOMAIN g /\ DOMAIN g2 = DOMAIN g \union {r}
        /\ \A a \in DOMAIN g : a # n => g2[a] = g[a]
        /\ d \in 0 .. h
    BY DEF NodeDivided
  <2>2. (g2[n].leaf <=> g[n].leaf) /\ (g2[r].leaf <=> g[n].leaf)
    BY DEF NodeDivided
  <2>3. PICK c \in Nat : ~g[n].leaf => WaysDivided(g, g2, n, r, p, c)
    <3>1. 0 \in Nat
      OBVIOUS
    <3> QED
      BY <3>1 DEF NodeDivided
  <2> QED
    BY ONLY <1>1, <1>3, <1>5, <1>6, <1>7, <2>1, <2>2, <2>3, DivideTree
<1> QED
  BY <1>1, <1>3, <1>5, <1>8 DEF at2

(* The new leaf stands between the old one and its successor.              *)
LEMMA DivideChain ==
    ASSUME NEW g, NEW g2, NEW h \in Nat, NEW at, Levels(g, h, at), Convex(h, at),
           Chained(g, h, at), NEW n, NEW r, r \notin DOMAIN g, r # NULL,
           \A a \in DOMAIN g : a # n => g2[a] = g[a],
           g2[n].next = r, g2[r].next = g[n].next,
           NEW p \in Int, at[h][p - 1] = n, at[h][p] = n
    PROVE  Chained(g2, h, Redirected(h, at, h, n, p, r))
<1> DEFINE at2 == Redirected(h, at, h, n, p, r)
<1>1. h \in 0 .. h /\ \A k \in Int : at[h][k] \in DOMAIN g /\ at[h][k] # r
  BY DEF Levels
<1>2. \A k \in Int : at2[h][k] = IF at[h][k] = n /\ k >= p THEN r ELSE at[h][k]
  BY <1>1 DEF Redirected
<1> HIDE DEF at2
<1>3. \A j, k, l \in Int : j <= k /\ k <= l /\ at[h][j] = at[h][l] => at[h][k] = at[h][j]
  BY <1>1 DEF Convex
<1>4. \A k \in Int : at[h][k] = n /\ k < p => at[h][k + 1] = n
  <2> SUFFICES ASSUME NEW k \in Int, at[h][k] = n, k < p PROVE at[h][k + 1] = n
    OBVIOUS
  <2>1. k <= k + 1 /\ k + 1 <= p /\ k + 1 \in Int
    OBVIOUS
  <2> QED
    BY <1>3, <2>1
<1>5. \A k \in Int : at[h][k + 1] = n /\ k + 1 >= p => at[h][k] = n
  <2> SUFFICES ASSUME NEW k \in Int, at[h][k + 1] = n, k + 1 >= p PROVE at[h][k] = n
    OBVIOUS
  <2>1. p - 1 <= k /\ k <= k + 1 /\ k + 1 \in Int /\ p - 1 \in Int
    OBVIOUS
  <2> QED
    BY <1>3, <2>1
<1>6. \A k \in Int : /\ at[h][k + 1] # at[h][k] => g[at[h][k]].next = at[h][k + 1]
                     /\ g[at[h][k]].next # NULL =>
                          \E l \in Int : /\ at[h][l] = at[h][k]
                                         /\ at[h][l + 1] = g[at[h][k]].next
                                         /\ at[h][l + 1] # at[h][l]
  BY DEF Chained
<1>7. ASSUME NEW k \in Int, at2[h][k + 1] # at2[h][k]
      PROVE  g2[at2[h][k]].next = at2[h][k + 1]
  <2>0. k + 1 \in Int
    OBVIOUS
  <2>1. CASE at[h][k] = n /\ k >= p
    <3>1. at2[h][k] = r /\ k + 1 >= p
      BY <1>2, <2>1
    <3>2. at[h][k + 1] # n /\ at2[h][k + 1] = at[h][k + 1]
      BY <1>2, <1>7, <2>0, <3>1
    <3> QED
      BY <1>6, <2>1, <3>1, <3>2
  <2>2. CASE at[h][k] = n /\ ~(k >= p)
    <3>1. at2[h][k] = n /\ at[h][k + 1] = n
      BY <1>2, <1>4, <2>2
    <3>2. at2[h][k + 1] = r
      BY <1>2, <1>7, <2>0, <3>1
    <3> QED
      BY <3>1, <3>2
  <2>3. CASE at[h][k] # n
    <3>1. at2[h][k] = at[h][k] /\ g2[at[h][k]] = g[at[h][k]]
      BY <1>1, <1>2, <2>3
    <3>2. at2[h][k + 1] = at[h][k + 1]
      BY <1>2, <1>5, <2>0, <2>3
    <3> QED
      BY <1>6, <1>7, <3>1, <3>2
  <2> QED
    BY <2>1, <2>2, <2>3
<1>8. ASSUME NEW k \in Int, g2[at2[h][k]].next # NULL
      PROVE  \E l \in Int : /\ at2[h][l] = at2[h][k]
                            /\ at2[h][l + 1] = g2[at2[h][k]].next
                            /\ at2[h][l + 1] # at2[h][l]
  <2>1. CASE at[h][k] = n /\ k >= p
    <3>1. at2[h][k] = r
      BY <1>2, <2>1
    <3>2. PICK l \in Int : /\ at[h][l] = n /\ at[h][l + 1] = g[n].next
                           /\ at[h][l + 1] # n
      BY <1>6, <1>8, <2>1, <3>1
    <3>3. ~(l < p) /\ l + 1 \in Int
      BY <1>4, <3>2
    <3>4. at2[h][l] = r /\ at2[h][l + 1] = at[h][l + 1] /\ at[h][l + 1] # r
      BY <1>1, <1>2, <3>2, <3>3
    <3> QED
      BY <3>1, <3>2, <3>4
  <2>2. CASE at[h][k] = n /\ ~(k >= p)
    <3>1. at2[h][k] = n
      BY <1>2, <2>2
    <3>2. p - 1 \in Int /\ ~(p - 1 >= p) /\ p >= p /\ (p - 1) + 1 = p
      OBVIOUS
    <3>3. at2[h][p - 1] = n /\ at2[h][p] = r /\ n # r
      BY <1>1, <1>2, <3>2
    <3> QED
      BY <3>1, <3>2, <3>3
  <2>3. CASE at[h][k] # n
    <3>1. at2[h][k] = at[h][k] /\ g2[at[h][k]] = g[at[h][k]]
      BY <1>1, <1>2, <2>3
    <3>2. PICK l \in Int : /\ at[h][l] = at[h][k] /\ at[h][l + 1] = g[at[h][k]].next
                           /\ at[h][l + 1] # at[h][l]
      BY <1>6, <1>8, <3>1
    <3>3. at2[h][l] = at[h][l] /\ at2[h][l + 1] = at[h][l + 1] /\ l + 1 \in Int
      BY <1>2, <1>5, <2>3, <3>2
    <3> QED
      BY <3>1, <3>2, <3>3
  <2> QED
    BY <2>1, <2>2, <2>3
<1>9. Chained(g2, h, at2)
  BY <1>7, <1>8 DEF Chained
<1> QED
  BY <1>9 DEF at2

(* The split of a node of g, the tree in which the new key is in place.    *)
Splitting(g, h, at, d, n, p, r) ==
    /\ Whole(g, root, h, at) /\ d \in 0 .. h
    /\ at[d][key'] = n /\ key' \in Int
    /\ r # NULL /\ NodeDivided(g, heap', n, r, p)
    /\ g[n].leaf => heap'[n].next = r /\ heap'[r].next = g[n].next
    /\ path' \in Seq(Addr \X Nat) /\ Len(path') = d
    /\ \A j \in 1 .. d :
          path'[j] = <<at[j - 1][key'], Turn(g, at[j - 1][key'], key')>>
    /\ root' = root /\ ret' = Split(p, r) /\ pc' = "unwind"
    /\ failures' = 0 => Covers(g, h, at) /\ Chained(g, h, at)

LEMMA SplitState ==
    ASSUME NEW g, NEW h, NEW at, NEW d, NEW n, NEW p, NEW r,
           Splitting(g, h, at, d, n, p, r)
    PROVE  TreeState(h, Redirected(h, at, d, n, p, r))'
<1> SUFFICES ASSUME Whole(g, root, h, at), d \in 0 .. h,
                    at[d][key'] = n, key' \in Int,
                    r # NULL, NodeDivided(g, heap', n, r, p),
                    g[n].leaf => heap'[n].next = r /\ heap'[r].next = g[n].next,
                    path' \in Seq(Addr \X Nat), Len(path') = d,
                    \A j \in 1 .. d :
                        path'[j] = <<at[j - 1][key'], Turn(g, at[j - 1][key'], key')>>,
                    root' = root, ret' = Split(p, r), pc' = "unwind",
                    failures' = 0 => Covers(g, h, at) /\ Chained(g, h, at)
             PROVE  TreeState(h, Redirected(h, at, d, n, p, r))'
  BY DEF Splitting
<1> DEFINE at2 == Redirected(h, at, d, n, p, r)
<1>1. /\ Levels(g, h, at) /\ LeavesAtBottom(g, h, at) /\ OneLevel(h, at) /\ Convex(h, at)
      /\ \A k \in Int : at[0][k] = root
      /\ \A e \in 0 .. h - 1 : \A k \in Int : at[e + 1][k] = Kid(g, at[e][k], k)
  BY DEF Whole, Skeleton
<1>2. h \in Nat /\ d \in Nat /\ \A e \in 0 .. h : \A k \in Int : at[e][k] \in DOMAIN g
  <2>1. h \in Nat /\ \A e \in 0 .. h : \A k \in Int : at[e][k] \in DOMAIN g
    BY ONLY <1>1 DEF Levels
  <2> QED
    BY ONLY <2>1, d \in 0 .. h
<1>12. /\ r \notin DOMAIN g /\ DOMAIN heap' = DOMAIN g \union {r}
       /\ \A a \in DOMAIN g : a # n => heap'[a] = g[a]
  BY DEF NodeDivided
<1>3. /\ Parted(heap', root, h, at2, d, n, p, r)
      /\ p \in Int /\ at[d][p - 1] = n /\ at[d][p] = n
  <2>1. key' \in Int /\ at[d][key'] = n
    OBVIOUS
  <2> HIDE DEF at2
  <2>2. at2 = Redirected(h, at, d, n, p, r)
    BY DEF at2
  <2>3. Parted(heap', root, h, Redirected(h, at, d, n, p, r), d, n, p, r)
    BY ONLY Whole(g, root, h, at), NodeDivided(g, heap', n, r, p), d \in 0 .. h,
            key' \in Int, at[d][key'] = n, DivideNode
  <2>4. p \in Int /\ at[d][p - 1] = n /\ at[d][p] = n
    <3>1. PICK k \in Int : at[d][k] = n
      BY <2>1
    <3>2. PICK rt : rt = root
      OBVIOUS
    <3>3. Whole(g, rt, h, at)
      BY ONLY Whole(g, root, h, at), <3>2
    <3> QED
      BY ONLY <3>1, <3>3, NodeDivided(g, heap', n, r, p), d \in 0 .. h, DivideNode
  <2> QED
    BY ONLY <2>2, <2>3, <2>4
<1>4. \A e \in 0 .. h : \A k \in Int :
         at2[e][k] = IF e = d /\ at[d][k] = n /\ k >= p THEN r ELSE at[e][k]
  BY DEF Redirected
<1> HIDE DEF at2
<1>5. ret'.split /\ ret'.promoted = p /\ ret'.right = r
  BY DEF Split
<1>6. \A j \in 1 .. d : /\ path'[j] = <<at2[j - 1][key'], Turn(heap', at2[j - 1][key'], key')>>
                       /\ Kid(heap', at2[j - 1][key'], key') = Kid(g, at[j - 1][key'], key')
                       /\ j - 1 \in 0 .. h - 1 /\ (j - 1) + 1 = j
  <2> SUFFICES ASSUME NEW j \in 1 .. d
               PROVE  /\ path'[j] = <<at2[j - 1][key'], Turn(heap', at2[j - 1][key'], key')>>
                      /\ Kid(heap', at2[j - 1][key'], key') = Kid(g, at[j - 1][key'], key')
                      /\ j - 1 \in 0 .. h - 1 /\ (j - 1) + 1 = j
    OBVIOUS
  <2>1. j - 1 \in 0 .. h /\ j - 1 # d /\ j - 1 \in 0 .. h - 1 /\ (j - 1) + 1 = j
    BY ONLY <1>2, d \in 0 .. h, j \in 1 .. d
  <2>2. at2[j - 1][key'] = at[j - 1][key']
    BY ONLY <1>4, <2>1, key' \in Int
  <2>3. at[j - 1][key'] # n
    <3>1. at[j - 1][key'] = at[d][key'] => j - 1 = d
      BY ONLY <1>1, <2>1, d \in 0 .. h, key' \in Int DEF OneLevel
    <3> QED
      BY <2>1, <3>1
  <2>4. heap'[at[j - 1][key']] = g[at[j - 1][key']]
    BY <1>2, <1>12, <2>1, <2>3
  <2>5. path'[j] = <<at[j - 1][key'], Turn(g, at[j - 1][key'], key')>>
    OBVIOUS
  <2>6. /\ Turn(heap', at[j - 1][key'], key') = Turn(g, at[j - 1][key'], key')
        /\ Kid(heap', at[j - 1][key'], key') = Kid(g, at[j - 1][key'], key')
    BY ONLY <2>4 DEF Turn, Kid
  <2> QED
    BY ONLY <2>1, <2>2, <2>5, <2>6
<1>7. OnPath(h, at2)'
  <2>1. Len(path') <= h
    BY ONLY <1>2, d \in 0 .. h, Len(path') = d
  <2> QED
    BY ONLY <1>6, <2>1, Len(path') = d DEF OnPath, Turn
<1>8. Returned' = n
  <2>1. CASE path' = << >>
    <3>1. d = 0
      BY <2>1, EmptyStack
    <3> QED
      BY <1>1, <2>1, <3>1 DEF Returned
  <2>2. CASE path' # << >>
    <3>1. d \in 1 .. d
      <4>1. Len(path') # 0
        BY ONLY <2>2, EmptySeq, path' \in Seq(Addr \X Nat)
      <4> QED
        BY ONLY <1>2, <4>1, Len(path') = d
    <3>2. /\ path'[d] = <<at2[d - 1][key'], Turn(heap', at2[d - 1][key'], key')>>
          /\ Kid(heap', at2[d - 1][key'], key') = at[d][key']
      BY <1>1, <1>6, <3>1
    <3>3. Returned' = heap'[path'[d][1]].kids[path'[d][2]]
      BY <2>2 DEF Returned, parent, slot
    <3>4. Returned' = Kid(heap', at2[d - 1][key'], key')
      BY ONLY <3>2, <3>3 DEF Kid
    <3> QED
      BY <3>2, <3>4
  <2> QED
    BY <2>1, <2>2
<1>9. ASSUME failures' = 0 PROVE Covers(heap', h, at2) /\ Chained(heap', h, at2)
  <2>1. Covers(g, h, at) /\ Chained(g, h, at)
    BY <1>9
  <2>2. Covers(heap', h, at2)
    <3> SUFFICES ASSUME NEW a \in DOMAIN g \union {r}
                 PROVE  \E e \in 0 .. h : \E k \in Int : at2[e][k] = a
      BY <1>12 DEF Covers
    <3>0. p - 1 \in Int /\ ~(p - 1 >= p) /\ p >= p
      BY ONLY <1>3
    <3>1. CASE a = n
      BY <1>3, <1>4, <3>0, <3>1
    <3>2. CASE a = r
      BY <1>3, <1>4, <3>0, <3>2
    <3>3. CASE a \in DOMAIN g /\ a # n
      <4>1. PICK e \in 0 .. h, k \in Int : at[e][k] = a
        BY <2>1, <3>3 DEF Covers
      <4>2. at2[e][k] = a
        BY <1>4, <3>3, <4>1
      <4> QED
        BY <4>2
    <3> QED
      BY <3>1, <3>2, <3>3
  <2>3. Chained(heap', h, at2)
    <3>1. CASE d = h
      <4>1. g[n].leaf
        BY <1>1, <3>1 DEF LeavesAtBottom
      <4>2. at2 = Redirected(h, at, h, n, p, r)
        BY <3>1 DEF at2
      <4>3. at[h][p - 1] = n /\ at[h][p] = n /\ p \in Int
        BY <1>3, <3>1
      <4>4. Chained(heap', h, Redirected(h, at, h, n, p, r))
        BY <1>1, <1>2, <1>12, <2>1, <4>1, <4>3, DivideChain
      <4> QED
        BY <4>2, <4>4
    <3>2. CASE d # h
      <4>0. h \in 0 .. h
        BY <1>2
      <4>1. \A k \in Int : at2[h][k] = at[h][k]
        BY <1>4, <3>2, <4>0
      <4>2. \A k \in Int : at[h][k] # n
        BY <1>1, <3>2, <4>0 DEF OneLevel
      <4>3. \A k \in Int : heap'[at[h][k]] = g[at[h][k]]
        BY <1>2, <1>12, <4>0, <4>2
      <4>4. \A k \in Int : k + 1 \in Int
        OBVIOUS
      <4>5. Chained(g, h, at)
        BY <2>1
      <4> HIDE DEF at2
      <4> QED
        BY ONLY <4>1, <4>3, <4>4, <4>5 DEF Chained
    <3> QED
      BY <3>1, <3>2
  <2> QED
    BY <2>2, <2>3
<1>10. Parted(heap', root', h, at2, Len(path'), Returned', ret'.promoted, ret'.right)
  BY <1>3, <1>5, <1>8
<1>11. TreeState(h, at2)'
  BY <1>5, <1>7, <1>9, <1>10 DEF TreeState
<1> QED
  BY <1>11 DEF at2

LEMMA FreshNode ==
    ASSUME CanAllocate
    PROVE  Fresh \in Addr /\ Fresh \notin DOMAIN heap
BY DEF CanAllocate, Fresh

(* What a split of Order keys leaves on both sides.                        *)
LEMMA HalfOrder ==
    ASSUME NEW m, m = Order \div 2
    PROVE  /\ m \in Nat /\ 1 <= m /\ m + 1 <= Order /\ m <= MaxKeys
           /\ m >= (Order - 1) \div 2
           /\ Order - m \in Nat /\ Order - m >= m /\ 1 <= Order - m /\ Order - m <= MaxKeys
           /\ Order - m - 1 \in Nat /\ Order - m - 1 >= (Order - 1) \div 2
           /\ 1 <= Order - m - 1 /\ Order - m - 1 <= MaxKeys
BY OrderAssumption DEF MaxKeys

(* The middle key of a full internal node goes up.                         *)
Middled(g, g2, n, r, m, p) ==
    /\ Branch(g[n]) /\ Len(g[n].keys) = Order /\ m = Order \div 2
    /\ g2[n].keys = SubSeq(g[n].keys, 1, m)
    /\ g2[n].kids = SubSeq(g[n].kids, 1, m + 1)
    /\ g2[r].keys = SubSeq(g[n].keys, m + 2, Len(g[n].keys))
    /\ g2[r].kids = SubSeq(g[n].kids, m + 2, Len(g[n].kids))
    /\ p = g[n].keys[m + 1]

LEMMA InternalHalves ==
    ASSUME NEW g, NEW g2, NEW n, NEW r, NEW m, NEW p, Middled(g, g2, n, r, m, p)
    PROVE  /\ KeysDivided(g, g2, n, r, p)
           /\ \E c \in Nat : WaysDivided(g, g2, n, r, p, c)
           /\ Branch(g2[n]) /\ Branch(g2[r]) /\ p \in Keys
           /\ Len(g2[n].keys) = m /\ Len(g2[r].keys) = Order - m - 1
<1> USE DEF Middled
<1>1. /\ m \in Nat /\ 1 <= m /\ m + 1 <= Order
      /\ Order - m - 1 \in Nat /\ Order \in Nat
  BY HalfOrder, OrderAssumption
<1>2. PICK t \in Nat : t = Order
  BY <1>1
<1>3. PICK c \in Nat : c = Order - m - 1
  BY <1>1
<1>4. PICK b \in Nat : b = m + 1
  BY <1>1
<1>5. PICK u \in Nat : u = c + 1
  BY <1>3
<1>6. g[n].keys \in Seq(Keys) /\ Ascends(g[n].keys, Order)
  BY DEF Branch
<1>7. g[n].kids \in Seq(Addr) /\ Len(g[n].kids) = Order + 1
  BY DEF Branch
<1>8. /\ 0 + 1 = 1 /\ 0 + m = m /\ 0 + b = m + 1 /\ b + 1 = m + 2
      /\ b + c = Order /\ b + u = Order + 1
  BY ONLY <1>1, <1>3, <1>4, <1>5
<1>9. Slice(g2[n].kids, g[n].kids, 0, b) /\ Slice(g2[r].kids, g[n].kids, b, u)
  BY <1>7, <1>8 DEF Slice
<1>10. Halves(g[n].keys, t, m, b, c, g2[n].keys, g2[r].keys, p)
  <2>1. Slice(g2[n].keys, g[n].keys, 0, m) /\ Slice(g2[r].keys, g[n].keys, b, c)
    BY <1>8 DEF Slice
  <2>2. t \in Nat /\ b \in Nat /\ c \in Nat
    BY <1>2, <1>3, <1>4
  <2>3. t = Len(g[n].keys) /\ Ascends(g[n].keys, t)
    BY ONLY <1>2, <1>6, Len(g[n].keys) = Order
  <2>4. m + 1 <= t /\ t = b + c /\ m <= b /\ b <= m + 1
    BY ONLY <1>1, <1>2, <1>3, <1>4
  <2> QED
    BY ONLY <1>1, <1>6, <2>1, <2>2, <2>3, <2>4, p = g[n].keys[m + 1] DEF Halves
<1>11. g2[n].keys \in Seq(Keys) /\ Len(g2[n].keys) = m
  BY ONLY <1>10, HalvesOfKeys
<1>12. g2[r].keys \in Seq(Keys) /\ Len(g2[r].keys) = c
  BY ONLY <1>10, HalvesOfKeys
<1>13. Ascends(g2[n].keys, m) /\ Ascends(g2[r].keys, c)
  BY ONLY <1>10, HalvesOfKeys
<1>14. g2[n].kids \in Seq(Addr) /\ Len(g2[n].kids) = b
  <2>1. g[n].kids \in Seq(Addr)
    BY ONLY <1>7
  <2>2. 0 + b <= Len(g[n].kids)
    BY ONLY <1>1, <1>4, <1>7
  <2>3. b \in Nat
    BY <1>4
  <2>4. 0 \in Nat
    OBVIOUS
  <2> QED
    BY ONLY <1>9, <2>1, <2>2, <2>3, <2>4, KidsBehind
<1>15. g2[r].kids \in Seq(Addr) /\ Len(g2[r].kids) = u
  <2>1. g[n].kids \in Seq(Addr)
    BY ONLY <1>7
  <2>2. b + u <= Len(g[n].kids)
    BY ONLY <1>1, <1>3, <1>4, <1>5, <1>7
  <2>3. b \in Nat
    BY <1>4
  <2>4. u \in Nat
    BY <1>5
  <2> QED
    BY ONLY <1>9, <2>1, <2>2, <2>3, <2>4, KidsBehind
<1>16. Branch(g2[n]) /\ Branch(g2[r])
  BY <1>4, <1>5, <1>11, <1>12, <1>13, <1>14, <1>15 DEF Branch
<1>17. KeysDivided(g, g2, n, r, p)
  BY ONLY <1>10, HalvesDivideKeys
<1>18. WaysDivided(g, g2, n, r, p, m + 1)
  BY ONLY <1>4, <1>5, <1>9, <1>10, <1>16, HalvesDivideWays, Branch(g[n])
<1>19. p \in Keys
  <2>1. m + 1 \in 1 .. Len(g[n].keys)
    BY ONLY <1>1, Len(g[n].keys) = Order
  <2> QED
    BY <1>6, <2>1, KeyNumbers
<1>20. m + 1 \in Nat /\ c = Order - m - 1
  BY ONLY <1>1, <1>3
<1> QED
  BY <1>11, <1>12, <1>16, <1>17, <1>18, <1>19, <1>20

LEMMA LinkSplitInv == ASSUME Inv, LinkSplit PROVE Inv'
<1> DEFINE m == Order \div 2
           p == LinkedKeys[m + 1]
           r == Fresh
           d == Len(path) - 1
<1>1. /\ pc = "unwind" /\ path # << >> /\ ret.split /\ status = "" /\ Linking /\ LinkReady
      /\ TypeOK /\ key \in Keys /\ offset \in Offsets /\ root # NULL
      /\ Len(heap[parent].keys) < Order /\ ~Fits(LinkedKeys) /\ CanAllocate
      /\ path' = Front(path)
      /\ UNCHANGED <<root, pc, key, offset, cur, status, answer, failures>>
  BY DEF LinkSplit, LinkReady, Linking, Inv, Control
<1>2. PICK h, at : TreeState(h, at)
  BY <1>1 DEF Inv
<1>3. /\ h \in Nat /\ d \in 0 .. h - 1 /\ Len(path) = d + 1
      /\ ret.promoted \in Keys /\ ret.right \in Addr
      /\ parent = at[d][key]
      /\ slot = Turn(heap, parent, ret.promoted)
      /\ slot = Turn(heap, parent, ret.promoted - 1)
      /\ parent \in DOMAIN heap /\ ~heap[parent].leaf
  BY <1>1, <1>2, LinkingFacts
<1> HIDE DEF d
<1>4. PICK g : LinkedHeap(g)
  BY DEF LinkedHeap
<1>5. /\ DOMAIN g = DOMAIN heap
      /\ \A a \in DOMAIN heap : a # parent => g[a] = heap[a]
      /\ g[parent].keys = LinkedKeys /\ g[parent].kids = LinkedKids
      /\ ~g[parent].leaf /\ g[parent].offs = heap[parent].offs /\ Len(g[parent].offs) = 0
      /\ g[parent] \in Node /\ Branch(g[parent])
      /\ Len(g[parent].keys) = Len(heap[parent].keys) + 1
  BY <1>1, <1>3, <1>4, LinkedNode
<1>6. /\ Whole(g, root, h, at) /\ Len(path) <= h
      /\ \A j \in 1 .. Len(path) - 1 :
           path[j] = <<at[j - 1][key], Turn(g, at[j - 1][key], key)>>
      /\ failures = 0 => Covers(g, h, at) /\ Chained(g, h, at)
  BY <1>1, <1>2, <1>4, LinkedTree
<1>7. Len(LinkedKeys) = Order
  <2>1. Len(heap[parent].keys) \in 1 .. Order
    BY <1>1, <1>3 DEF TypeOK, Shaped
  <2>2. ~(Len(LinkedKeys) <= MaxKeys) /\ Len(LinkedKeys) = Len(heap[parent].keys) + 1
    BY <1>1, <1>5 DEF Fits
  <2>3. Len(heap[parent].keys) < Order
    BY <1>1
  <2>4. Order \in Nat /\ MaxKeys = Order - 1
    BY OrderAssumption DEF MaxKeys
  <2> QED
    BY ONLY <2>1, <2>2, <2>3, <2>4
<1>8. r \in Addr /\ r \notin DOMAIN heap /\ r # parent /\ r # NULL
  BY <1>1, <1>3, FreshNode, NullAssumption
<1>9. Half(LinkedKeys) = m
  BY <1>7 DEF Half
<1>10. /\ heap' = [a \in DOMAIN heap \union {r} |->
              IF a = r
                THEN [leaf |-> FALSE, keys |-> SubSeq(LinkedKeys, m + 2, Len(LinkedKeys)),
                      offs |-> << >>, kids |-> RightKids(m), next |-> NULL]
              ELSE IF a = parent
                THEN [heap[parent] EXCEPT !.keys = SubSeq(LinkedKeys, 1, m),
                                          !.kids = SubSeq(LinkedKids, 1, m + 1)]
              ELSE heap[a]]
       /\ ret' = Split(p, r)
  BY <1>9 DEF LinkSplit
<1> HIDE DEF r, p
<1>11. /\ DOMAIN heap' = DOMAIN heap \union {r}
       /\ \A a \in DOMAIN heap : a # parent => heap'[a] = heap[a]
       /\ heap'[parent] = [heap[parent] EXCEPT !.keys = SubSeq(LinkedKeys, 1, m),
                                              !.kids = SubSeq(LinkedKids, 1, m + 1)]
       /\ heap'[r] = [leaf |-> FALSE, keys |-> SubSeq(LinkedKeys, m + 2, Len(LinkedKeys)),
                      offs |-> << >>, kids |-> RightKids(m), next |-> NULL]
  BY <1>3, <1>8, <1>10
<1>12. Shaped(heap[parent]) /\ heap[parent] \in Node
  BY <1>1, <1>3 DEF TypeOK, Shaped
<1>13. /\ heap'[parent].keys = SubSeq(LinkedKeys, 1, m)
       /\ heap'[parent].kids = SubSeq(LinkedKids, 1, m + 1)
       /\ ~heap'[parent].leaf /\ heap'[parent].offs = heap[parent].offs
       /\ heap'[parent].next = heap[parent].next
       /\ heap'[r].keys = SubSeq(LinkedKeys, m + 2, Len(LinkedKeys))
       /\ heap'[r].kids = SubSeq(LinkedKids, m + 2, Len(LinkedKids))
       /\ ~heap'[r].leaf /\ heap'[r].offs = << >> /\ heap'[r].next = NULL
  <2>1. /\ heap'[parent].keys = SubSeq(LinkedKeys, 1, m)
        /\ heap'[parent].kids = SubSeq(LinkedKids, 1, m + 1)
        /\ heap'[parent].leaf = heap[parent].leaf /\ heap'[parent].offs = heap[parent].offs
        /\ heap'[parent].next = heap[parent].next
    <3> HIDE DEF m, parent
    <3>1. heap[parent] \in Node
      BY ONLY <1>12
    <3>2. heap'[parent] = [heap[parent] EXCEPT !.keys = SubSeq(LinkedKeys, 1, m),
                                              !.kids = SubSeq(LinkedKids, 1, m + 1)]
      BY ONLY <1>11
    <3> QED
      BY ONLY <3>1, <3>2 DEF Node
  <2>2. /\ heap'[r].keys = SubSeq(LinkedKeys, m + 2, Len(LinkedKeys))
        /\ heap'[r].kids = RightKids(m)
        /\ heap'[r].leaf = FALSE /\ heap'[r].offs = << >> /\ heap'[r].next = NULL
    <3>1. PICK ks, cs : ks = SubSeq(LinkedKeys, m + 2, Len(LinkedKeys)) /\ cs = RightKids(m)
      OBVIOUS
    <3>2. heap'[r] = [leaf |-> FALSE, keys |-> ks, offs |-> << >>, kids |-> cs, next |-> NULL]
      BY ONLY <1>11, <3>1
    <3>3. /\ heap'[r].keys = ks /\ heap'[r].kids = cs
          /\ heap'[r].leaf = FALSE /\ heap'[r].offs = << >> /\ heap'[r].next = NULL
      BY ONLY <3>2
    <3> QED
      BY ONLY <3>1, <3>3
  <2> QED
    BY <1>3, <2>1, <2>2 DEF RightKids
<1>14. /\ KeysDivided(g, heap', parent, r, p)
       /\ \E c \in Nat : WaysDivided(g, heap', parent, r, p, c)
       /\ Branch(heap'[parent]) /\ Branch(heap'[r]) /\ p \in Keys
       /\ Len(heap'[parent].keys) = m /\ Len(heap'[r].keys) = Order - m - 1
  <2>1. Middled(g, heap', parent, r, m, p)
    BY <1>5, <1>7, <1>13 DEF Middled, p
  <2> HIDE DEF m
  <2> QED
    BY ONLY <2>1, InternalHalves
<1>15. /\ m \in Nat /\ 1 <= m /\ m <= MaxKeys /\ m >= (Order - 1) \div 2
       /\ Order - m - 1 \in Nat /\ Order - m - 1 >= (Order - 1) \div 2
       /\ 1 <= Order - m - 1 /\ Order - m - 1 <= MaxKeys
  BY HalfOrder
<1> HIDE DEF m
<1>16. NodeDivided(g, heap', parent, r, p)
  <2>1. /\ r \notin DOMAIN g /\ DOMAIN heap' = DOMAIN g \union {r}
        /\ \A a \in DOMAIN g : a # parent => heap'[a] = g[a]
    BY ONLY <1>5, <1>8, <1>11
  <2>2. (heap'[parent].leaf <=> g[parent].leaf) /\ (heap'[r].leaf <=> g[parent].leaf)
    BY ONLY <1>5, <1>13
  <2> QED
    BY ONLY <2>1, <2>2, <1>14 DEF NodeDivided
<1>17. /\ path' \in Seq(Addr \X Nat) /\ Len(path') = Len(path) - 1 /\ Len(path) \in Nat
       /\ \A j \in 1 .. Len(path) - 1 : path'[j] = path[j]
  BY <1>1, StackFacts, FrontElements
<1>18. Len(path') = d /\ d \in 0 .. h
  BY ONLY <1>3, <1>17
<1>19. \E e, at2 : TreeState(e, at2)'
  <2>1. \A j \in 1 .. d : path'[j] = <<at[j - 1][key'], Turn(g, at[j - 1][key'], key')>>
    <3>1. key' = key
      BY ONLY <1>1
    <3>2. Len(path) - 1 = d
      BY ONLY <1>17, <1>18
    <3> QED
      BY ONLY <1>6, <1>17, <3>1, <3>2
  <2>2. key' \in Int
    BY <1>1, KeysAssumption
  <2>3. at[d][key'] = parent
    BY <1>1, <1>3
  <2>4. failures' = 0 => Covers(g, h, at) /\ Chained(g, h, at)
    BY <1>1, <1>6
  <2>5. Whole(g, root, h, at)
    BY <1>6
  <2>6. path' \in Seq(Addr \X Nat)
    BY <1>17
  <2>7. root' = root
    BY <1>1
  <2>8. pc' = "unwind"
    BY <1>1
  <2>9. ret' = Split(p, r)
    BY <1>10
  <2>10. d \in 0 .. h
    BY <1>18
  <2>11. Len(path') = d
    BY <1>18
  <2>12. r # NULL
    BY <1>8
  <2>13. g[parent].leaf => heap'[parent].next = r /\ heap'[r].next = g[parent].next
    BY <1>5
  <2>14. Splitting(g, h, at, d, parent, p, r)
    BY ONLY <1>16, <2>1, <2>2, <2>3, <2>4, <2>5, <2>6, <2>7, <2>8, <2>9, <2>10, <2>11,
            <2>12, <2>13 DEF Splitting
  <2>15. PICK d0, n0, p0, r0 : d0 = d /\ n0 = parent /\ p0 = p /\ r0 = r
    OBVIOUS
  <2>16. Splitting(g, h, at, d0, n0, p0, r0)
    BY ONLY <2>14, <2>15
  <2> QED
    BY ONLY <2>16, SplitState
<1>20. \A a \in DOMAIN heap' : Shaped(heap'[a])
  <2>1. Shaped(heap'[parent])
    <3>1. heap'[parent] \in Node
      BY <1>11, <1>12, <1>13, <1>14 DEF Node, Branch
    <3>2. m \in 1 .. Order
      BY ONLY <1>15, OrderAssumption DEF MaxKeys
    <3>3. Len(heap'[parent].keys) \in 1 .. Order
      BY ONLY <1>14, <3>2
    <3>4. Len(heap'[parent].offs) = 0
      BY ONLY <1>5, <1>13
    <3>5. Len(heap'[parent].kids) = Len(heap'[parent].keys) + 1
      BY ONLY <1>14 DEF Branch
    <3>6. ~heap'[parent].leaf
      BY ONLY <1>13
    <3> QED
      BY ONLY <3>1, <3>3, <3>4, <3>5, <3>6 DEF Shaped
  <2>2. Shaped(heap'[r])
    <3>1. heap'[r] \in Node
      <4>1. << >> \in Seq(Offsets)
        OBVIOUS
      <4> QED
        BY <1>11, <1>13, <1>14, <4>1 DEF Node, Branch
    <3>2. Order - m - 1 \in 1 .. Order
      BY ONLY <1>15, OrderAssumption DEF MaxKeys
    <3>3. Len(heap'[r].keys) \in 1 .. Order
      BY ONLY <1>14, <3>2
    <3>4. Len(heap'[r].offs) = 0
      BY ONLY <1>13, EmptyStack
    <3>5. Len(heap'[r].kids) = Len(heap'[r].keys) + 1
      BY ONLY <1>14 DEF Branch
    <3>6. ~heap'[r].leaf
      BY ONLY <1>13
    <3> QED
      BY ONLY <3>1, <3>3, <3>4, <3>5, <3>6 DEF Shaped
  <2> QED
    BY <1>1, <1>11, <2>1, <2>2 DEF TypeOK
<1>21. TypeOK'
  <2>1. \E k \in Keys, a \in Addr : ret' = Split(k, a)
    BY <1>8, <1>10, <1>14
  <2> QED
    BY <1>1, <1>8, <1>11, <1>17, <1>20, <2>1 DEF TypeOK, Shaped
<1>22. Control'
  BY <1>1 DEF Control
<1>23. Sorted' /\ Fill' /\ Finite' /\ OverfullByFailure'
  <2>1. path' = << >> => parent = root
    <3> SUFFICES ASSUME path' = << >> PROVE parent = root
      OBVIOUS
    <3>1. d = 0
      BY <1>18, EmptyStack
    <3>2. \A k \in Int : at[0][k] = root
      BY <1>6 DEF Whole
    <3> QED
      BY <1>1, <1>3, <3>1, <3>2, KeysAssumption
  <2>2. \A a \in {parent, r} : /\ Ascends(heap'[a].keys, Len(heap'[a].keys))
                              /\ Filled(heap'[a]) /\ Len(heap'[a].keys) \in 1 .. MaxKeys
    <3>1. m \in 1 .. MaxKeys /\ Order - m - 1 \in 1 .. MaxKeys
      BY ONLY <1>15, OrderAssumption DEF MaxKeys
    <3>2. Ascends(heap'[parent].keys, Len(heap'[parent].keys)) /\ Ascends(heap'[r].keys, Len(heap'[r].keys))
      BY <1>14 DEF Branch
    <3>3. Filled(heap'[parent]) /\ Filled(heap'[r])
      BY <1>13, <1>14, <1>15 DEF Filled
    <3> QED
      BY <1>14, <3>1, <3>2, <3>3
  <2>3. pc # "overrun" /\ pc' # "overrun"
    BY <1>1
  <2> QED
    BY <1>1, <1>3, <1>8, <1>11, <2>1, <2>2, <2>3, SplitNodes
<1>24. root' # NULL /\ pc' # "free"
  BY <1>1
<1> QED
  BY <1>19, <1>21, <1>22, <1>23, <1>24 DEF Inv

-----------------------------------------------------------------------------
(* A key is added to a leaf.                                               *)

(* The heap in which the new key is in place in its leaf.                  *)
LeafHeap(g) == g = [heap EXCEPT ![cur].keys = NewKeys, ![cur].offs = NewOffs]

(* The new key is not there yet, and the leaf stays in order with it.      *)
LEMMA NewKeysAscend ==
    ASSUME Inv, LeafReady, cur \in DOMAIN heap
    PROVE  /\ NewKeys \in Seq(Keys) /\ NewOffs \in Seq(Offsets)
           /\ Len(NewKeys) = Len(heap[cur].keys) + 1
           /\ Len(NewOffs) = Len(NewKeys)
           /\ Ascends(NewKeys, Len(NewKeys))
           /\ \A i \in 1 .. Len(NewKeys) :
                 \/ NewKeys[i] = key
                 \/ \E j \in 1 .. Len(heap[cur].keys) : NewKeys[i] = heap[cur].keys[j]
<1>1. /\ pc = "descend" /\ heap[cur].leaf /\ ~Duplicate
      /\ key \in Keys /\ offset \in Offsets /\ key \in Int
  BY KeysAssumption DEF LeafReady, Inv, Control
<1>2. Shaped(heap[cur]) /\ Ascends(heap[cur].keys, Len(heap[cur].keys))
  BY DEF Inv, TypeOK, Sorted
<1>3. PICK ks, os : ks = heap[cur].keys /\ os = heap[cur].offs
  OBVIOUS
<1>4. PICK k \in Keys : k = key
  BY <1>1
<1>5. PICK o \in Offsets : o = offset
  BY <1>1
<1>6. PICK n \in Nat : n = Len(ks)
  BY <1>2, <1>3, NodeFacts
<1>7. ks \in Seq(Keys) /\ os \in Seq(Offsets) /\ Len(os) = n /\ Ascends(ks, n)
  BY <1>1, <1>2, <1>3, <1>6, NodeFacts
<1>8. PICK i : i = KeyAt
  OBVIOUS
<1>9. Place(ks, n, k, i)
  <2>1. i = InsertIndex(ks, k) /\ k \in Int
    BY <1>1, <1>3, <1>4, <1>8 DEF KeyAt
  <2>2. Place(ks, Len(ks), k, InsertIndex(ks, k))
    BY ONLY <1>7, <2>1, InsertIndexPlace
  <2> QED
    BY ONLY <1>6, <2>1, <2>2
<1>10. i \in 1 .. n + 1
  BY ONLY <1>9 DEF Place
<1>11. \A j \in 1 .. n : ks[j] \in Int
  BY ONLY <1>6, <1>7, KeyNumbers
<1>12. k \in Int
  BY <1>1, <1>4
<1>13. \A j \in 1 .. i - 1 : ks[j] < k
  BY ONLY <1>9 DEF Place
<1>14. i <= n => k < ks[i]
  <2> SUFFICES ASSUME i <= n PROVE k < ks[i]
    OBVIOUS
  <2>1. ks[i] # k
    BY <1>1, <1>3, <1>4, <1>6, <1>8 DEF Duplicate
  <2>2. k <= ks[i] /\ i \in 1 .. n
    BY ONLY <1>9, <1>10, i <= n, n \in Nat DEF Place
  <2> QED
    BY ONLY <1>11, <1>12, <2>1, <2>2
<1>15. PICK ns, nos : ns = InsertAt(ks, i, k) /\ nos = InsertAt(os, i, o)
  OBVIOUS
<1>16. ns = NewKeys /\ nos = NewOffs
  BY <1>3, <1>4, <1>5, <1>8, <1>15 DEF NewKeys, NewOffs
<1>17. ns \in Seq(Keys) /\ Len(ns) = n + 1 /\ Opened(ks, ns, n, i, k)
  <2>1. i \in 1 .. Len(ks) + 1
    BY ONLY <1>6, <1>10
  <2> QED
    BY ONLY <1>6, <1>7, <1>15, <2>1, OpenedByInsert, k \in Keys
<1>18. nos \in Seq(Offsets) /\ Len(nos) = n + 1
  <2>1. i \in 1 .. Len(os) + 1
    BY ONLY <1>7, <1>10
  <2>2. /\ InsertAt(os, i, o) \in Seq(Offsets)
        /\ Len(InsertAt(os, i, o)) = Len(os) + 1
        /\ Opened(os, InsertAt(os, i, o), Len(os), i, o)
    <3>1. os \in Seq(Offsets)
      BY ONLY <1>7
    <3> QED
      BY ONLY <3>1, <2>1, OpenedByInsert, o \in Offsets
  <2> QED
    BY ONLY <1>7, <1>15, <2>2
<1>19. Ascends(ns, n + 1)
  BY ONLY <1>7, <1>10, <1>11, <1>12, <1>13, <1>14, <1>17, OpenedAscends, n \in Nat
<1>20. \A a \in 1 .. n + 1 : ns[a] = k \/ \E j \in 1 .. n : ns[a] = ks[j]
  <2> SUFFICES ASSUME NEW a \in 1 .. n + 1, a # i PROVE \E j \in 1 .. n : ns[a] = ks[j]
    BY <1>17 DEF Opened
  <2>1. CASE a < i
    <3>1. a \in 1 .. i - 1 /\ a \in 1 .. n
      BY ONLY <1>10, <2>1, n \in Nat, a \in 1 .. n + 1
    <3> QED
      BY ONLY <1>17, <3>1 DEF Opened
  <2>2. CASE a > i
    <3>1. PICK b \in i .. n : a = b + 1
      <4>1. a - 1 \in i .. n /\ a = (a - 1) + 1
        BY ONLY <1>10, <2>2, n \in Nat, a \in 1 .. n + 1
      <4> QED
        BY ONLY <4>1
    <3>2. b \in 1 .. n
      BY ONLY <1>10, <3>1, n \in Nat
    <3> QED
      BY ONLY <1>17, <3>1, <3>2 DEF Opened
  <2> QED
    BY ONLY <1>10, <2>1, <2>2, a # i, a \in 1 .. n + 1, n \in Nat
<1> QED
  BY <1>3, <1>4, <1>6, <1>16, <1>17, <1>18, <1>19, <1>20

LEMMA LeafNode ==
    ASSUME Inv, LeafReady, cur \in DOMAIN heap, NEW g, LeafHeap(g)
    PROVE  /\ DOMAIN g = DOMAIN heap
           /\ \A a \in DOMAIN heap : a # cur => g[a] = heap[a]
           /\ g[cur].keys = NewKeys /\ g[cur].offs = NewOffs
           /\ g[cur].leaf = TRUE /\ g[cur].next = heap[cur].next
           /\ g[cur].kids = heap[cur].kids /\ Len(g[cur].kids) = 0
           /\ g[cur] \in Node
           /\ \A x \in Int : OwnKey(g, cur, x) => OwnKey(heap, cur, x) \/ x = key
<1>1. DOMAIN g = DOMAIN heap /\ \A a \in DOMAIN heap : a # cur => g[a] = heap[a]
  BY DEF LeafHeap
<1>2. Shaped(heap[cur]) /\ heap[cur].leaf
  BY DEF Inv, TypeOK, LeafReady
<1>3. heap[cur] \in Node
  BY <1>2 DEF Shaped
<1>4. g[cur] = [heap[cur] EXCEPT !.keys = NewKeys, !.offs = NewOffs]
  BY DEF LeafHeap
<1>5. /\ g[cur].keys = NewKeys /\ g[cur].offs = NewOffs
      /\ g[cur].leaf = heap[cur].leaf /\ g[cur].next = heap[cur].next
      /\ g[cur].kids = heap[cur].kids
  BY ONLY <1>3, <1>4 DEF Node
<1>6. Len(heap[cur].kids) = 0
  BY <1>2, NodeFacts
<1>7. g[cur] \in Node
  <2>1. NewKeys \in Seq(Keys) /\ NewOffs \in Seq(Offsets)
    BY NewKeysAscend
  <2> QED
    BY ONLY <1>3, <1>4, <2>1 DEF Node
<1>8. \A x \in Int : OwnKey(g, cur, x) => OwnKey(heap, cur, x) \/ x = key
  <2>1. \A i \in 1 .. Len(NewKeys) :
           \/ NewKeys[i] = key
           \/ \E j \in 1 .. Len(heap[cur].keys) : NewKeys[i] = heap[cur].keys[j]
    BY NewKeysAscend
  <2> QED
    BY ONLY <1>5, <2>1 DEF OwnKey
<1>9. heap[cur].leaf = TRUE
  BY <1>2, <1>3 DEF Node
<1> QED
  BY <1>1, <1>5, <1>6, <1>7, <1>8, <1>9

LEMMA LeafGrown ==
    ASSUME Inv, LeafReady, NEW h, NEW at, TreeState(h, at), NEW g, LeafHeap(g)
    PROVE  /\ Whole(g, root, h, at) /\ h \in Nat /\ Len(path) = h
           /\ cur = at[h][key] /\ cur \in DOMAIN heap
           /\ \A j \in 1 .. h :
                path[j] = <<at[j - 1][key], Turn(g, at[j - 1][key], key)>>
           /\ failures = 0 => Covers(g, h, at) /\ Chained(g, h, at)
<1>1. /\ pc = "descend" /\ heap[cur].leaf /\ ret = NoSplit /\ key \in Int
  BY KeysAssumption DEF LeafReady, Inv, Control
<1>2. cur = at[h][key] /\ Len(path) = h /\ cur \in DOMAIN heap /\ h \in Nat
  BY <1>1, AtLeaf
<1>3. /\ DOMAIN g = DOMAIN heap
      /\ \A a \in DOMAIN heap : a # cur => g[a] = heap[a]
      /\ g[cur].leaf /\ g[cur].next = heap[cur].next
      /\ \A x \in Int : OwnKey(g, cur, x) => OwnKey(heap, cur, x) \/ x = key
  BY <1>2, LeafNode
<1>4. Whole(heap, root, h, at)
  BY <1>1 DEF TreeState, NoSplit
<1>5. /\ Levels(heap, h, at) /\ LeavesAtBottom(heap, h, at) /\ OwnKeys(heap, h, at)
  BY <1>4 DEF Whole, Skeleton
<1>6. \A k, x \in Int : at[h][k] = cur /\ OwnKey(g, cur, x) => at[h][x] = cur
  <2>1. h \in 0 .. h
    BY ONLY <1>2
  <2>2. \A x \in Int : OwnKey(heap, at[h][key], x) => at[h][x] = at[h][key]
    BY ONLY <1>1, <1>5, <2>1 DEF OwnKeys
  <2> QED
    BY ONLY <1>2, <1>3, <2>2
<1>7. Whole(g, root, h, at)
  BY ONLY <1>1, <1>3, <1>4, <1>6, LeafKeysTree
<1>8. \A j \in 1 .. h : path[j] = <<at[j - 1][key], Turn(g, at[j - 1][key], key)>>
  <2> SUFFICES ASSUME NEW j \in 1 .. h
               PROVE  path[j] = <<at[j - 1][key], Turn(g, at[j - 1][key], key)>>
    OBVIOUS
  <2>1. j \in 1 .. Len(path) /\ j - 1 \in 0 .. h /\ j - 1 # h
    BY ONLY <1>2, j \in 1 .. h
  <2>2. path[j] = <<at[j - 1][key], Turn(heap, at[j - 1][key], key)>>
    <3>1. OnPath(h, at)
      BY DEF TreeState
    <3>2. \A i \in 1 .. Len(path) :
             path[i] = <<at[i - 1][key], Turn(heap, at[i - 1][key], key)>>
      BY ONLY <3>1 DEF OnPath
    <3> QED
      BY ONLY <2>1, <3>2
  <2>3. at[j - 1][key] \in DOMAIN heap /\ ~heap[at[j - 1][key]].leaf
    BY ONLY <1>1, <1>5, <2>1 DEF Levels, LeavesAtBottom
  <2> QED
    BY <1>1, <1>3, <2>2, <2>3 DEF Turn
<1>9. ASSUME failures = 0 PROVE Covers(g, h, at) /\ Chained(g, h, at)
  <2>1. \A a \in DOMAIN heap : g[a].next = heap[a].next
    BY <1>3
  <2>2. Covers(heap, h, at) /\ Chained(heap, h, at)
    BY <1>9 DEF TreeState
  <2> QED
    BY ONLY <1>3, <1>5, <2>1, <2>2, SameNext
<1> QED
  BY <1>2, <1>7, <1>8, <1>9

(* A key is added without a split, whether or not one was needed.          *)
LEMMA LeafGrownInv ==
    ASSUME Inv, LeafReady, LeafHeap(heap'), pc' = "unwind",
           UNCHANGED <<root, call, answer>>,
           status' \in {"", "dup", "oom"},
           \/ Fits(NewKeys) /\ failures' = failures
           \/ ~Fits(NewKeys) /\ failures' = failures + 1 /\ failures < MaxFailures
    PROVE  Inv'
<1>1. /\ pc = "descend" /\ heap[cur].leaf /\ ret = NoSplit
      /\ TypeOK /\ key \in Keys /\ offset \in Offsets /\ root # NULL
      /\ Len(heap[cur].keys) < Order
      /\ UNCHANGED <<key, offset, cur, path, ret>>
  BY DEF LeafReady, Inv, Control, call
<1>2. PICK h, at : TreeState(h, at)
  BY <1>1 DEF Inv
<1>3. /\ Whole(heap', root, h, at) /\ h \in Nat /\ Len(path) = h
      /\ cur \in DOMAIN heap
      /\ \A j \in 1 .. h :
            path[j] = <<at[j - 1][key], Turn(heap', at[j - 1][key], key)>>
      /\ failures = 0 => Covers(heap', h, at) /\ Chained(heap', h, at)
  BY <1>2, LeafGrown
<1>4. /\ DOMAIN heap' = DOMAIN heap
      /\ \A a \in DOMAIN heap : a # cur => heap'[a] = heap[a]
      /\ heap'[cur].keys = NewKeys /\ heap'[cur].offs = NewOffs
      /\ heap'[cur].leaf = TRUE
      /\ Len(heap'[cur].kids) = 0
      /\ heap'[cur] \in Node
  BY <1>3, LeafNode
<1>5. /\ Len(NewKeys) = Len(heap[cur].keys) + 1 /\ Len(NewOffs) = Len(NewKeys)
      /\ Ascends(NewKeys, Len(NewKeys))
  BY <1>3, NewKeysAscend
<1>6. Len(NewKeys) \in 1 .. Order
  <2>1. Len(heap[cur].keys) \in 1 .. Order
    BY <1>1, <1>3 DEF TypeOK, Shaped
  <2>2. Len(heap[cur].keys) < Order
    BY <1>1
  <2>3. Order \in Nat
    BY OrderAssumption
  <2> QED
    BY ONLY <1>5, <2>1, <2>2, <2>3
<1>7. failures \in Nat /\ failures' \in Nat /\ failures' >= failures /\ failures' \in 0 .. MaxFailures
      /\ (failures' = 0 => failures = 0)
  <2>1. failures \in Nat /\ failures \in 0 .. MaxFailures
    BY <1>1, FailureCount DEF TypeOK
  <2>2. failures' = failures \/ (failures' = failures + 1 /\ failures < MaxFailures)
    OBVIOUS
  <2> QED
    BY ONLY <2>1, <2>2, MaxFailuresAssumption
<1>8. ~ret'.split /\ ~ret.split
  BY <1>1 DEF NoSplit
<1>9. \A a \in DOMAIN heap' : Shaped(heap'[a])
  <2>1. Shaped(heap'[cur])
    BY ONLY <1>4, <1>5, <1>6 DEF Shaped
  <2> QED
    BY <1>1, <1>4, <2>1 DEF TypeOK
<1>10. TypeOK'
  BY <1>1, <1>4, <1>7, <1>9 DEF TypeOK, Shaped
<1>11. Control'
  BY <1>1, <1>8 DEF Inv, Control
<1>12. Sorted' /\ Fill' /\ Finite' /\ OverfullByFailure'
  <2>1. pc # "overrun" /\ pc' # "overrun"
    BY <1>1
  <2>2. heap'[cur].leaf = heap[cur].leaf
    BY <1>1, <1>3, <1>4 DEF TypeOK, Shaped, Node
  <2>3. Ascends(heap'[cur].keys, Len(heap'[cur].keys))
        /\ Len(heap'[cur].keys) = Len(heap[cur].keys) + 1
    BY <1>4, <1>5
  <2>4. \/ Fits(heap'[cur].keys) /\ failures' = failures
        \/ ~Fits(heap'[cur].keys) /\ failures' = failures + 1
    BY <1>4
  <2> QED
    BY <1>1, <1>3, <1>4, <1>8, <2>1, <2>2, <2>3, <2>4, GrownNode
<1>13. TreeState(h, at)'
  <2>1. OnPath(h, at)'
    BY ONLY <1>1, <1>3 DEF OnPath, Turn
  <2> QED
    BY <1>1, <1>3, <1>7, <1>8, <2>1 DEF TreeState
<1>14. root' # NULL /\ pc' # "free"
  BY <1>1
<1> QED
  BY <1>10, <1>11, <1>12, <1>13, <1>14 DEF Inv

LEMMA LeafInsertInv == ASSUME Inv, LeafInsert PROVE Inv'
<1>1. /\ LeafReady /\ LeafHeap(heap') /\ pc' = "unwind"
      /\ UNCHANGED <<root, call, answer>>
      /\ Fits(NewKeys) /\ failures' = failures /\ status' = status
  BY DEF LeafInsert, LeafHeap
<1>2. status' \in {"", "dup", "oom"}
  BY <1>1 DEF Inv, TypeOK
<1> QED
  BY <1>1, <1>2, LeafGrownInv

LEMMA LeafSplitFailsInv == ASSUME Inv, LeafSplitFails PROVE Inv'
<1>1. /\ LeafReady /\ LeafHeap(heap') /\ pc' = "unwind"
      /\ UNCHANGED <<root, call, answer>>
      /\ ~Fits(NewKeys) /\ AllocFails /\ status' = "oom"
  BY DEF LeafSplitFails, LeafHeap
<1>2. failures' = failures + 1 /\ failures < MaxFailures
  BY <1>1 DEF AllocFails
<1> QED
  BY <1>1, <1>2, LeafGrownInv

-----------------------------------------------------------------------------
(* The split of a leaf: the upper half of the keys moves, with the first   *)
(* of them as the separator.                                               *)
Halved(g, g2, n, r, m, p) ==
    /\ g[n].keys \in Seq(Keys) /\ Len(g[n].keys) = Order
    /\ Ascends(g[n].keys, Order) /\ m = Order \div 2
    /\ g2[n].keys = SubSeq(g[n].keys, 1, m)
    /\ g2[r].keys = SubSeq(g[n].keys, m + 1, Len(g[n].keys))
    /\ p = g[n].keys[m + 1]

LEMMA LeafHalves ==
    ASSUME NEW g, NEW g2, NEW n, NEW r, NEW m, NEW p, Halved(g, g2, n, r, m, p)
    PROVE  /\ KeysDivided(g, g2, n, r, p) /\ p \in Keys
           /\ g2[n].keys \in Seq(Keys) /\ Len(g2[n].keys) = m
           /\ Ascends(g2[n].keys, m)
           /\ g2[r].keys \in Seq(Keys) /\ Len(g2[r].keys) = Order - m
           /\ Ascends(g2[r].keys, Order - m)
           /\ g2[r].keys[1] = p
<1> USE DEF Halved
<1>1. /\ m \in Nat /\ 1 <= m /\ m + 1 <= Order
      /\ Order - m \in Nat /\ 1 <= Order - m /\ Order \in Nat
  BY HalfOrder, OrderAssumption
<1>2. PICK t \in Nat : t = Order
  BY <1>1
<1>3. PICK c \in Nat : c = Order - m
  BY <1>1
<1>4. g[n].keys \in Seq(Keys) /\ Ascends(g[n].keys, Order)
  OBVIOUS
<1>5. 0 + 1 = 1 /\ 0 + m = m /\ m + c = Order /\ t = m + c
  BY ONLY <1>1, <1>2, <1>3
<1>6. Halves(g[n].keys, t, m, m, c, g2[n].keys, g2[r].keys, p)
  <2>1. Slice(g2[n].keys, g[n].keys, 0, m) /\ Slice(g2[r].keys, g[n].keys, m, c)
    BY <1>5 DEF Slice
  <2>2. t = Len(g[n].keys) /\ Ascends(g[n].keys, t)
    BY ONLY <1>2, <1>4, Len(g[n].keys) = Order
  <2>3. m + 1 <= t /\ t = m + c /\ m <= m /\ m <= m + 1
    BY ONLY <1>1, <1>2, <1>3
  <2> QED
    BY ONLY <1>1, <1>2, <1>3, <1>4, <2>1, <2>2, <2>3, p = g[n].keys[m + 1] DEF Halves
<1>7. g2[n].keys \in Seq(Keys) /\ Len(g2[n].keys) = m
  BY ONLY <1>6, HalvesOfKeys
<1>8. g2[r].keys \in Seq(Keys) /\ Len(g2[r].keys) = c
  BY ONLY <1>6, HalvesOfKeys
<1>9. Ascends(g2[n].keys, m) /\ Ascends(g2[r].keys, c)
  BY ONLY <1>6, HalvesOfKeys
<1>10. KeysDivided(g, g2, n, r, p)
  BY ONLY <1>6, HalvesDivideKeys
<1>11. p \in Keys
  <2>1. m + 1 \in 1 .. Len(g[n].keys)
    BY ONLY <1>1, Len(g[n].keys) = Order
  <2> QED
    BY <1>4, <2>1, KeyNumbers
<1>12. g2[r].keys[1] = p
  <2>1. \A i \in 1 .. c : g2[r].keys[i] = g[n].keys[m + i] /\ g2[r].keys[i] >= p
    BY ONLY <1>6, HalvesOfKeys
  <2>2. 1 \in 1 .. c
    BY ONLY <1>1, <1>3
  <2> QED
    BY ONLY <2>1, <2>2, p = g[n].keys[m + 1]
<1> QED
  BY ONLY <1>3, <1>7, <1>8, <1>9, <1>10, <1>11, <1>12

LEMMA LeafSplitInv == ASSUME Inv, LeafSplit PROVE Inv'
<1>1. /\ LeafReady /\ pc = "descend" /\ heap[cur].leaf /\ ret = NoSplit /\ status = ""
      /\ TypeOK /\ key \in Keys /\ offset \in Offsets /\ root # NULL
      /\ Len(heap[cur].keys) < Order /\ ~Fits(NewKeys) /\ CanAllocate
      /\ pc' = "unwind"
      /\ UNCHANGED <<root, key, offset, cur, path, status, answer, failures>>
  BY DEF LeafSplit, LeafReady, Inv, Control
<1>2. PICK h, at : TreeState(h, at)
  BY <1>1 DEF Inv
<1>3. PICK g : LeafHeap(g)
  BY DEF LeafHeap
<1>4. /\ Whole(g, root, h, at) /\ h \in Nat /\ Len(path) = h
      /\ cur = at[h][key] /\ cur \in DOMAIN heap
      /\ \A j \in 1 .. h :
            path[j] = <<at[j - 1][key], Turn(g, at[j - 1][key], key)>>
      /\ failures = 0 => Covers(g, h, at) /\ Chained(g, h, at)
  BY <1>1, <1>2, <1>3, LeafGrown
<1>5. /\ DOMAIN g = DOMAIN heap
      /\ \A a \in DOMAIN heap : a # cur => g[a] = heap[a]
      /\ g[cur].keys = NewKeys /\ g[cur].offs = NewOffs
      /\ g[cur].leaf = TRUE /\ g[cur].next = heap[cur].next
      /\ g[cur].kids = heap[cur].kids /\ Len(g[cur].kids) = 0
  BY <1>1, <1>3, <1>4, LeafNode
<1>6. /\ NewKeys \in Seq(Keys) /\ NewOffs \in Seq(Offsets)
      /\ Len(NewKeys) = Len(heap[cur].keys) + 1
      /\ Len(NewOffs) = Len(NewKeys)
      /\ Ascends(NewKeys, Len(NewKeys))
  BY <1>1, <1>4, NewKeysAscend
<1>7. Len(NewKeys) = Order
  <2>1. Len(heap[cur].keys) \in 1 .. Order
    BY <1>1, <1>4 DEF TypeOK, Shaped
  <2>2. ~(Len(NewKeys) <= MaxKeys)
    BY <1>1 DEF Fits
  <2>3. Len(heap[cur].keys) < Order
    BY <1>1
  <2>4. Order \in Nat /\ MaxKeys = Order - 1
    BY OrderAssumption DEF MaxKeys
  <2>5. Len(NewKeys) = Len(heap[cur].keys) + 1
    BY <1>6
  <2> QED
    BY ONLY <2>1, <2>2, <2>3, <2>4, <2>5
<1>8. PICK r : r = Fresh
  OBVIOUS
<1>9. r \in Addr /\ r \notin DOMAIN heap /\ r # cur /\ r # NULL
  BY <1>1, <1>4, <1>8, FreshNode, NullAssumption
<1>10. PICK m : m = Order \div 2
  OBVIOUS
<1>11. /\ m \in Nat /\ 1 <= m /\ m + 1 <= Order /\ m <= MaxKeys
       /\ Order - m \in Nat /\ Order - m >= m /\ 1 <= Order - m /\ Order - m <= MaxKeys
  BY ONLY <1>10, HalfOrder
<1>12. PICK lo, hi, los, his :
          /\ lo = SubSeq(NewKeys, 1, m) /\ hi = SubSeq(NewKeys, m + 1, Len(NewKeys))
          /\ los = SubSeq(NewOffs, 1, m) /\ his = SubSeq(NewOffs, m + 1, Len(NewKeys))
  OBVIOUS
<1>13. Half(NewKeys) = m
  BY <1>7, <1>10 DEF Half
<1>14. PICK p : p = hi[1]
  OBVIOUS
<1>15. /\ heap' = [a \in DOMAIN heap \union {r} |->
              IF a = r
                THEN [leaf |-> TRUE, keys |-> hi, offs |-> his,
                      kids |-> << >>, next |-> heap[cur].next]
              ELSE IF a = cur
                THEN [heap[cur] EXCEPT !.keys = lo, !.offs = los, !.next = r]
              ELSE heap[a]]
       /\ ret' = Split(p, r)
  <2>1. SubSeq(NewKeys, Half(NewKeys) + 1, Len(NewKeys)) = hi
    BY <1>12, <1>13
  <2> QED
    BY <1>8, <1>12, <1>13, <1>14, <2>1 DEF LeafSplit, RightNext
<1>16. /\ DOMAIN heap' = DOMAIN heap \union {r}
       /\ \A a \in DOMAIN heap : a # cur => heap'[a] = heap[a]
       /\ heap'[cur] = [heap[cur] EXCEPT !.keys = lo, !.offs = los, !.next = r]
       /\ heap'[r] = [leaf |-> TRUE, keys |-> hi, offs |-> his,
                      kids |-> << >>, next |-> heap[cur].next]
  BY ONLY <1>4, <1>9, <1>15
<1>17. Shaped(heap[cur]) /\ heap[cur] \in Node
  BY <1>1, <1>4 DEF TypeOK, Shaped
<1>18. /\ heap'[cur].keys = lo /\ heap'[cur].offs = los /\ heap'[cur].next = r
       /\ heap'[cur].leaf = heap[cur].leaf /\ heap'[cur].kids = heap[cur].kids
  BY ONLY <1>16, <1>17 DEF Node
<1>19. /\ heap'[r].keys = hi /\ heap'[r].offs = his /\ heap'[r].next = heap[cur].next
       /\ heap'[r].leaf = TRUE /\ heap'[r].kids = << >>
  BY ONLY <1>16
<1>20. Halved(g, heap', cur, r, m, NewKeys[m + 1])
  BY <1>5, <1>6, <1>7, <1>10, <1>12, <1>18, <1>19 DEF Halved
<1>21. /\ KeysDivided(g, heap', cur, r, NewKeys[m + 1]) /\ NewKeys[m + 1] \in Keys
       /\ heap'[cur].keys \in Seq(Keys) /\ Len(heap'[cur].keys) = m
       /\ Ascends(heap'[cur].keys, m)
       /\ heap'[r].keys \in Seq(Keys) /\ Len(heap'[r].keys) = Order - m
       /\ Ascends(heap'[r].keys, Order - m)
       /\ heap'[r].keys[1] = NewKeys[m + 1]
  BY ONLY <1>20, LeafHalves
<1>22. p = NewKeys[m + 1]
  BY ONLY <1>14, <1>19, <1>21
<1>23. NodeDivided(g, heap', cur, r, p)
  <2>1. r \notin DOMAIN g /\ DOMAIN heap' = DOMAIN g \union {r}
    BY ONLY <1>5, <1>9, <1>16
  <2>2. \A a \in DOMAIN g : a # cur => heap'[a] = g[a]
    BY ONLY <1>5, <1>16
  <2>3. g[cur].leaf /\ heap'[cur].leaf /\ heap'[r].leaf
    BY ONLY <1>1, <1>5, <1>18, <1>19
  <2>4. KeysDivided(g, heap', cur, r, p)
    BY ONLY <1>21, <1>22
  <2> QED
    BY ONLY <2>1, <2>2, <2>3, <2>4 DEF NodeDivided
<1>24. /\ los \in Seq(Offsets) /\ Len(los) = m /\ his \in Seq(Offsets) /\ Len(his) = Order - m
  <2>1. NewOffs \in Seq(Offsets) /\ Len(NewOffs) = Order /\ Len(NewKeys) = Order
    BY <1>6, <1>7
  <2>2. Order \in Nat
    BY OrderAssumption
  <2>3. 1 \in 1 .. Len(NewOffs) + 1 /\ m \in 1 - 1 .. Len(NewOffs)
        /\ m + 1 \in 1 .. Len(NewOffs) + 1 /\ Len(NewOffs) \in (m + 1) - 1 .. Len(NewOffs)
    BY ONLY <1>11, <2>1, <2>2
  <2>4. SubSeq(NewOffs, 1, m) \in Seq(Offsets) /\ Len(SubSeq(NewOffs, 1, m)) = m - 1 + 1
    BY ONLY <2>1, <2>3, SliceElements
  <2>5. /\ SubSeq(NewOffs, m + 1, Len(NewOffs)) \in Seq(Offsets)
        /\ Len(SubSeq(NewOffs, m + 1, Len(NewOffs))) = Len(NewOffs) - (m + 1) + 1
    BY ONLY <2>1, <2>3, SliceElements
  <2>6. his = SubSeq(NewOffs, m + 1, Len(NewOffs)) /\ los = SubSeq(NewOffs, 1, m)
    BY ONLY <1>12, <2>1
  <2>7. m - 1 + 1 = m /\ Order - (m + 1) + 1 = Order - m
    BY ONLY <1>11, <2>2
  <2> QED
    BY ONLY <2>1, <2>4, <2>5, <2>6, <2>7
<1>25. \E e, at2 : TreeState(e, at2)'
  <2>1. \A j \in 1 .. h : path'[j] = <<at[j - 1][key'], Turn(g, at[j - 1][key'], key')>>
    BY ONLY <1>1, <1>4
  <2>2. key' \in Int
    BY <1>1, KeysAssumption
  <2>3. at[h][key'] = cur
    BY <1>1, <1>4
  <2>4. failures' = 0 => Covers(g, h, at) /\ Chained(g, h, at)
    BY <1>1, <1>4
  <2>5. Whole(g, root, h, at)
    BY <1>4
  <2>6. path' \in Seq(Addr \X Nat) /\ Len(path') = h
    BY <1>1, <1>4 DEF TypeOK
  <2>7. root' = root /\ pc' = "unwind"
    BY <1>1
  <2>8. ret' = Split(p, r) /\ r # NULL
    BY <1>9, <1>15
  <2>9. h \in 0 .. h
    BY ONLY <1>4
  <2>10. g[cur].leaf => heap'[cur].next = r /\ heap'[r].next = g[cur].next
    BY ONLY <1>5, <1>18, <1>19
  <2>11. Splitting(g, h, at, h, cur, p, r)
    BY ONLY <1>23, <2>1, <2>2, <2>3, <2>4, <2>5, <2>6, <2>7, <2>8, <2>9, <2>10
       DEF Splitting
  <2>12. PICK n0 : n0 = cur
    OBVIOUS
  <2>13. Splitting(g, h, at, h, n0, p, r)
    BY ONLY <2>11, <2>12
  <2> QED
    BY ONLY <2>13, SplitState
<1>26. \A a \in DOMAIN heap' : Shaped(heap'[a])
  <2>0. m \in 1 .. Order /\ Order - m \in 1 .. Order
    <3>1. Order \in Nat
      BY OrderAssumption
    <3> QED
      BY ONLY <1>11, <3>1
  <2>1. Shaped(heap'[cur])
    <3>1. heap'[cur] \in Node
      <4>1. lo \in Seq(Keys) /\ los \in Seq(Offsets) /\ r \in Addr \union {NULL}
        BY <1>9, <1>18, <1>21, <1>24
      <4> QED
        BY ONLY <1>16, <1>17, <4>1 DEF Node
    <3>2. heap'[cur].leaf /\ Len(heap'[cur].kids) = 0
      BY ONLY <1>1, <1>5, <1>18
    <3>3. Len(heap'[cur].offs) = Len(heap'[cur].keys) /\ Len(heap'[cur].keys) \in 1 .. Order
      BY ONLY <1>18, <1>21, <1>24, <2>0
    <3> QED
      BY ONLY <3>1, <3>2, <3>3 DEF Shaped
  <2>2. Shaped(heap'[r])
    <3>1. heap'[r] \in Node
      <4>1. hi \in Seq(Keys) /\ his \in Seq(Offsets) /\ heap[cur].next \in Addr \union {NULL}
        BY <1>17, <1>19, <1>21, <1>24 DEF Node
      <4>2. << >> \in Seq(Addr)
        OBVIOUS
      <4> QED
        BY ONLY <1>16, <4>1, <4>2 DEF Node
    <3>2. heap'[r].leaf /\ Len(heap'[r].kids) = 0
      BY ONLY <1>19, EmptyStack
    <3>3. Len(heap'[r].offs) = Len(heap'[r].keys) /\ Len(heap'[r].keys) \in 1 .. Order
      BY ONLY <1>19, <1>21, <1>24, <2>0
    <3> QED
      BY ONLY <3>1, <3>2, <3>3 DEF Shaped
  <2> QED
    BY <1>1, <1>16, <2>1, <2>2 DEF TypeOK
<1>27. TypeOK'
  <2>1. \E k \in Keys, a \in Addr : ret' = Split(k, a)
    BY <1>9, <1>15, <1>21, <1>22
  <2> QED
    BY <1>1, <1>9, <1>16, <1>26, <2>1 DEF TypeOK, Shaped
<1>28. Control'
  BY <1>1 DEF Control
<1>29. Sorted' /\ Fill' /\ Finite' /\ OverfullByFailure'
  <2>1. path' = << >> => cur = root
    <3> SUFFICES ASSUME path' = << >> PROVE cur = root
      OBVIOUS
    <3>1. h = 0
      BY ONLY <1>1, <1>4, path' = << >>, EmptyStack
    <3>2. \A k \in Int : at[0][k] = root
      BY <1>4 DEF Whole
    <3> QED
      BY <1>1, <1>4, <3>1, <3>2, KeysAssumption
  <2>2. \A a \in {cur, r} : /\ Ascends(heap'[a].keys, Len(heap'[a].keys))
                             /\ Filled(heap'[a]) /\ Len(heap'[a].keys) \in 1 .. MaxKeys
    <3>0. MaxKeys \in Nat
      BY OrderAssumption DEF MaxKeys
    <3>1. m \in 1 .. MaxKeys /\ Order - m \in 1 .. MaxKeys
      BY ONLY <1>11, <3>0
    <3>2. Ascends(heap'[cur].keys, Len(heap'[cur].keys)) /\ Ascends(heap'[r].keys, Len(heap'[r].keys))
      BY <1>21
    <3>3. Filled(heap'[cur]) /\ Filled(heap'[r])
      <4>1. m >= m /\ Order - m >= m
        BY ONLY <1>11
      <4> QED
        BY ONLY <1>1, <1>10, <1>18, <1>19, <1>21, <4>1 DEF Filled
    <3> QED
      BY ONLY <1>21, <3>1, <3>2, <3>3
  <2>3. pc # "overrun" /\ pc' # "overrun"
    BY <1>1
  <2> QED
    BY <1>1, <1>4, <1>9, <1>16, <2>1, <2>2, <2>3, SplitNodes
<1>30. root' # NULL /\ pc' # "free"
  BY <1>1
<1> QED
  BY <1>25, <1>27, <1>28, <1>29, <1>30 DEF Inv

-----------------------------------------------------------------------------
(* A new root.                                                             *)

LEMMA CreateRootInv == ASSUME Inv, CreateRoot PROVE Inv'
<1>1. /\ pc = "empty" /\ CanAllocate /\ pc' = "created" /\ root' = Fresh
      /\ TypeOK /\ key \in Keys /\ offset \in Offsets /\ root = NULL
      /\ path = << >> /\ ret = NoSplit
      /\ UNCHANGED <<key, offset, cur, path, ret, status, answer, failures>>
  BY DEF CreateRoot, call, Inv, Control
<1>2. PICK f : f = Fresh
  OBVIOUS
<1>3. f \in Addr /\ f \notin DOMAIN heap /\ f # NULL
  BY <1>1, <1>2, FreshNode, NullAssumption
<1>4. PICK ks, os : ks = <<key>> /\ os = <<offset>>
  OBVIOUS
<1>5. /\ ks \in Seq(Keys) /\ Len(ks) = 1 /\ os \in Seq(Offsets) /\ Len(os) = 1
      /\ Ascends(ks, 1)
  BY <1>1, <1>4 DEF Ascends
<1>6. heap' = [a \in DOMAIN heap \union {f} |->
                IF a = f THEN [leaf |-> TRUE, keys |-> ks, offs |-> os,
                               kids |-> << >>, next |-> NULL]
                ELSE heap[a]]
  BY <1>2, <1>4 DEF CreateRoot
<1>7. /\ DOMAIN heap' = DOMAIN heap \union {f}
      /\ \A a \in DOMAIN heap : heap'[a] = heap[a]
      /\ heap'[f] = [leaf |-> TRUE, keys |-> ks, offs |-> os,
                     kids |-> << >>, next |-> NULL]
  BY ONLY <1>3, <1>6
<1>8. /\ heap'[f].leaf = TRUE /\ heap'[f].keys = ks /\ heap'[f].offs = os
      /\ heap'[f].kids = << >> /\ heap'[f].next = NULL
  BY ONLY <1>7
<1>9. \A a \in DOMAIN heap' : Shaped(heap'[a])
  <2>1. Shaped(heap'[f])
    <3>1. heap'[f] \in Node
      <4>1. << >> \in Seq(Addr)
        OBVIOUS
      <4> QED
        BY ONLY <1>5, <1>7, <4>1 DEF Node
    <3>2. Len(heap'[f].keys) \in 1 .. Order
      <4>1. 1 \in 1 .. Order
        BY OrderAssumption
      <4> QED
        BY ONLY <1>5, <1>8, <4>1
    <3>3. Len(heap'[f].offs) = Len(heap'[f].keys) /\ Len(heap'[f].kids) = 0 /\ heap'[f].leaf
      BY ONLY <1>5, <1>8, EmptyStack
    <3> QED
      BY ONLY <3>1, <3>2, <3>3 DEF Shaped
  <2> QED
    BY <1>1, <1>7, <2>1 DEF TypeOK
<1>10. TypeOK'
  BY <1>1, <1>2, <1>3, <1>7, <1>9 DEF TypeOK, Shaped
<1>11. ~ret'.split
  BY <1>1 DEF NoSplit
<1>12. Control'
  BY <1>1, <1>2, <1>3, <1>11 DEF Control
<1>13. Sorted' /\ Finite'
  <2>1. Ascends(heap'[f].keys, Len(heap'[f].keys))
    BY ONLY <1>5, <1>8
  <2>2. Sorted'
    BY <1>7, <2>1 DEF Inv, Sorted
  <2>3. IsFiniteSet(DOMAIN heap \union {f})
    BY FS_AddElement DEF Inv, Finite
  <2> QED
    BY <1>7, <2>2, <2>3 DEF Finite
<1>14. Fill'
  <2> SUFFICES ASSUME NEW a \in DOMAIN heap', a # f PROVE Filled(heap'[a])
    BY <1>1, <1>2, <1>11 DEF Fill, Filled
  <2>1. a \in DOMAIN heap /\ a # root
    BY <1>1, <1>7, NullAssumption DEF TypeOK
  <2> QED
    BY <1>7, <2>1 DEF Inv, Fill
<1>15. OverfullByFailure'
  <2>1. \A a \in DOMAIN heap' : Len(heap'[a].keys) > MaxKeys =>
           a \in DOMAIN heap /\ heap'[a].keys = heap[a].keys
    <3>1. ~(Len(heap'[f].keys) > MaxKeys)
      <4>1. ~(1 > MaxKeys)
        BY OrderAssumption DEF MaxKeys
      <4> QED
        BY ONLY <1>5, <1>8, <4>1
    <3> QED
      BY ONLY <1>7, <3>1
  <2>2. failures' \in Nat /\ failures' >= failures
    <3>1. failures \in Nat
      BY <1>1, FailureCount
    <3> QED
      BY <1>1, <3>1
  <2> QED
    BY <1>1, <2>1, <2>2, OverfullKept
<1>16. PICK at : at = [d \in 0 .. 0 |-> [k \in Int |-> f]]
  OBVIOUS
<1>17. \A d \in 0 .. 0 : \A k \in Int : at[d][k] = f
  BY ONLY <1>16
<1>18. Whole(heap', f, 0, at)
  <2>1. f \in DOMAIN heap' /\ heap'[f].leaf
    BY <1>7, <1>8
  <2> QED
    BY ONLY <1>16, <2>1, LeafTree
<1>19. TreeState(0, at)'
  <2>1. OnPath(0, at)'
    <3>1. Len(path') = 0 /\ \A j \in 1 .. Len(path') : FALSE
      BY ONLY <1>1, EmptyStack
    <3> QED
      BY ONLY <3>1 DEF OnPath
  <2>2. ASSUME failures' = 0 PROVE Covers(heap', 0, at) /\ Chained(heap', 0, at)
    <3>1. DOMAIN heap' = {f}
      BY <1>1, <1>7, <2>2 DEF Inv
    <3>2. 0 \in 0 .. 0 /\ 0 \in Int /\ \A k \in Int : k + 1 \in Int
      OBVIOUS
    <3>3. Covers(heap', 0, at)
      BY ONLY <1>17, <3>1, <3>2 DEF Covers
    <3>4. Chained(heap', 0, at)
      BY ONLY <1>8, <1>17, <3>2 DEF Chained
    <3> QED
      BY <3>3, <3>4
  <2>3. Whole(heap', root', 0, at)
    BY <1>1, <1>2, <1>18
  <2> QED
    BY <1>1, <1>11, <2>1, <2>2, <2>3 DEF TreeState
<1>20. root' # NULL /\ pc' # "free"
  BY <1>1, <1>2, <1>3
<1> QED
  BY <1>10, <1>12, <1>13, <1>14, <1>15, <1>19, <1>20 DEF Inv

(* At the end of an insertion that has split the root.                     *)
LEMMA PartedRoot ==
    ASSUME Inv, GrowReady
    PROVE  /\ TypeOK /\ pc = "unwind" /\ path = << >> /\ ret.split /\ root # NULL
           /\ root \in DOMAIN heap /\ ret.right \in DOMAIN heap
           /\ ret.promoted \in Keys /\ ret.promoted \in Int /\ status = ""
           /\ \E h, at : /\ TreeState(h, at) /\ h \in Nat
                         /\ Parted(heap, root, h, at, 0, root, ret.promoted, ret.right)
<1>1. /\ TypeOK /\ pc = "unwind" /\ path = << >> /\ ret.split /\ root # NULL
      /\ status = ""
  BY DEF GrowReady, Inv, Control
<1>2. ret.promoted \in Keys /\ ret.promoted \in Int
  BY <1>1, RetKind, KeysAssumption
<1>3. PICK h, at : TreeState(h, at)
  BY <1>1 DEF Inv
<1>4. Len(path) = 0 /\ Returned = root
  BY <1>1, EmptyStack DEF Returned
<1>5. Parted(heap, root, h, at, 0, root, ret.promoted, ret.right)
  BY <1>1, <1>3, <1>4 DEF TreeState
<1>6. Levels(heap, h, at) /\ at[0][ret.promoted - 1] = root /\ at[0][ret.promoted] = ret.right
  BY ONLY <1>5 DEF Parted, Skeleton
<1>7. h \in Nat /\ root \in DOMAIN heap /\ ret.right \in DOMAIN heap
  <2>1. h \in Nat /\ at \in [0 .. h -> [Int -> DOMAIN heap]]
    BY ONLY <1>6 DEF Levels
  <2>2. 0 \in 0 .. h /\ ret.promoted \in Int /\ ret.promoted - 1 \in Int
    BY ONLY <1>2, <2>1
  <2> QED
    BY ONLY <1>6, <2>1, <2>2
<1> QED
  BY <1>1, <1>2, <1>3, <1>5, <1>7

LEMMA GrowRootFailsInv == ASSUME Inv, GrowRootFails PROVE Inv'
<1>1. /\ TypeOK /\ pc = "unwind" /\ path = << >> /\ ret.split /\ root # NULL
  BY PartedRoot DEF GrowRootFails
<1>2. /\ UNCHANGED <<heap, root>> /\ status' = "oom" /\ failures < MaxFailures
      /\ failures' = failures + 1 /\ pc' = "idle" /\ path' = << >> /\ ret' = NoSplit
      /\ key' = NULL /\ offset' = NULL /\ cur' = NULL
  BY DEF GrowRootFails, Answer, AllocFails
<1>3. ~ret'.split
  BY <1>2 DEF NoSplit
<1>4. failures' \in 0 .. MaxFailures /\ failures' \in Nat /\ failures' >= failures /\ failures' # 0
  <2>1. failures \in Nat
    BY <1>1, FailureCount
  <2> QED
    BY ONLY <1>2, <2>1, MaxFailuresAssumption
<1>5. TypeOK'
  BY <1>1, <1>2, <1>4, EmptyStack DEF TypeOK, Shaped
<1>6. Control'
  BY <1>2, <1>3 DEF Control
<1>7. Sorted' /\ Fill' /\ Finite' /\ OverfullByFailure'
  BY <1>1, <1>2, <1>3, <1>4, SameNodes, SameOverfull
<1>8. PICK h, at : h \in Nat /\ Parted(heap, root, h, at, 0, root, ret.promoted, ret.right)
  BY PartedRoot DEF GrowRootFails
<1>9. PICK at2 : at2 = Lowered(h, at, ret.promoted)
  OBVIOUS
<1>10. Whole(heap, root, h, at2)
  <2>1. \A a \in DOMAIN heap : heap[a].keys \in Seq(Keys)
    BY <1>1, NodeFacts DEF TypeOK
  <2> QED
    BY ONLY <1>8, <1>9, <2>1, LoseTree
<1>11. TreeState(h, at2)'
  <2>1. OnPath(h, at2)'
    <3>1. Len(path') = 0 /\ (\A j \in 1 .. Len(path') : FALSE) /\ Len(path') <= h
      BY ONLY <1>2, <1>8, EmptyStack
    <3> QED
      BY ONLY <3>1 DEF OnPath
  <2> QED
    BY <1>2, <1>3, <1>4, <1>10, <2>1 DEF TreeState
<1>12. root' # NULL /\ pc' # "free"
  BY <1>1, <1>2
<1> QED
  BY <1>5, <1>6, <1>7, <1>11, <1>12 DEF Inv

LEMMA GrowRootInv == ASSUME Inv, GrowRoot PROVE Inv'
<1>1. /\ TypeOK /\ pc = "unwind" /\ path = << >> /\ ret.split /\ root # NULL
      /\ root \in DOMAIN heap /\ ret.right \in DOMAIN heap
      /\ ret.promoted \in Keys /\ ret.promoted \in Int /\ status = ""
  BY PartedRoot DEF GrowRoot
<1>2. PICK h, at :
         /\ TreeState(h, at) /\ h \in Nat
         /\ Parted(heap, root, h, at, 0, root, ret.promoted, ret.right)
  BY PartedRoot DEF GrowRoot
<1>3. /\ CanAllocate /\ root' = Fresh /\ pc' = "idle" /\ path' = << >> /\ ret' = NoSplit
      /\ key' = NULL /\ offset' = NULL /\ cur' = NULL
      /\ UNCHANGED <<status, failures>>
  BY DEF GrowRoot, Answer
<1>4. PICK f : f = Fresh
  OBVIOUS
<1>5. f \in Addr /\ f \notin DOMAIN heap /\ f # NULL
  BY <1>3, <1>4, FreshNode, NullAssumption
<1>6. PICK p, r, rt : p = ret.promoted /\ r = ret.right /\ rt = root
  OBVIOUS
<1>7. PICK ks, cs : ks = <<p>> /\ cs = <<rt, r>>
  OBVIOUS
<1>8. /\ p \in Keys /\ p \in Int /\ rt \in DOMAIN heap /\ r \in DOMAIN heap
      /\ rt \in Addr /\ r \in Addr
  BY <1>1, <1>6 DEF TypeOK
<1>9. /\ ks \in Seq(Keys) /\ Len(ks) = 1 /\ Ascends(ks, 1) /\ ks[1] = p
      /\ cs \in Seq(Addr) /\ Len(cs) = 2 /\ cs[1] = rt /\ cs[2] = r
  <2>1. ks \in Seq(Keys) /\ Len(ks) = 1 /\ ks[1] = p
    BY <1>7, <1>8
  <2>2. cs \in Seq(Addr) /\ Len(cs) = 2 /\ cs[1] = rt /\ cs[2] = r
    BY <1>7, <1>8
  <2> QED
    BY <2>1, <2>2 DEF Ascends
<1>10. heap' = [a \in DOMAIN heap \union {f} |->
                 IF a = f THEN [leaf |-> FALSE, keys |-> ks, offs |-> << >>,
                                kids |-> cs, next |-> NULL]
                 ELSE heap[a]]
  BY <1>4, <1>6, <1>7 DEF GrowRoot, RootKids
<1>11. /\ DOMAIN heap' = DOMAIN heap \union {f}
       /\ \A a \in DOMAIN heap : heap'[a] = heap[a]
       /\ heap'[f] = [leaf |-> FALSE, keys |-> ks, offs |-> << >>,
                      kids |-> cs, next |-> NULL]
  BY ONLY <1>5, <1>10
<1>12. /\ heap'[f].leaf = FALSE /\ heap'[f].keys = ks /\ heap'[f].offs = << >>
       /\ heap'[f].kids = cs /\ heap'[f].next = NULL
  BY ONLY <1>11
<1>13. \A a \in DOMAIN heap' : Shaped(heap'[a])
  <2>1. Shaped(heap'[f])
    <3>1. heap'[f] \in Node
      <4>1. << >> \in Seq(Offsets)
        OBVIOUS
      <4> QED
        BY ONLY <1>9, <1>11, <4>1 DEF Node
    <3>2. Len(heap'[f].keys) \in 1 .. Order
      <4>1. 1 \in 1 .. Order
        BY OrderAssumption
      <4> QED
        BY ONLY <1>9, <1>12, <4>1
    <3>3. Len(heap'[f].kids) = Len(heap'[f].keys) + 1 /\ Len(heap'[f].offs) = 0
          /\ ~heap'[f].leaf
      <4>1. Len(cs) = 2 /\ Len(ks) = 1
        BY <1>9
      <4>2. Len(heap'[f].offs) = 0
        BY ONLY <1>12, EmptyStack
      <4>3. heap'[f].kids = cs /\ heap'[f].keys = ks /\ heap'[f].leaf = FALSE
        BY <1>12
      <4>4. Len(heap'[f].kids) = Len(heap'[f].keys) + 1
        <5>1. Len(heap'[f].kids) = 2 /\ Len(heap'[f].keys) = 1
          BY ONLY <4>1, <4>3
        <5>2. 2 = 1 + 1
          OBVIOUS
        <5> QED
          BY ONLY <5>1, <5>2
      <4>5. ~heap'[f].leaf
        BY ONLY <4>3
      <4> QED
        BY ONLY <4>2, <4>4, <4>5
    <3> QED
      BY ONLY <3>1, <3>2, <3>3 DEF Shaped
  <2> QED
    BY <1>1, <1>11, <2>1 DEF TypeOK
<1>14. TypeOK'
  BY <1>1, <1>3, <1>4, <1>5, <1>11, <1>13, EmptyStack DEF TypeOK, Shaped
<1>15. ~ret'.split
  BY <1>3 DEF NoSplit
<1>16. Control'
  BY <1>3, <1>15 DEF Control
<1>17. Sorted' /\ Finite'
  <2>1. Ascends(heap'[f].keys, Len(heap'[f].keys))
    BY ONLY <1>9, <1>12
  <2>2. Sorted'
    BY <1>11, <2>1 DEF Inv, Sorted
  <2>3. IsFiniteSet(DOMAIN heap \union {f})
    BY FS_AddElement DEF Inv, Finite
  <2> QED
    BY <1>11, <2>2, <2>3 DEF Finite
<1>18. Fill'
  <2> SUFFICES ASSUME NEW a \in DOMAIN heap', a # f PROVE Filled(heap'[a])
    BY <1>3, <1>4, <1>15 DEF Fill, Filled
  <2>1. a \in DOMAIN heap
    BY <1>11
  <2> QED
    BY <1>1, <1>11, <2>1 DEF Inv, Fill
<1>19. OverfullByFailure'
  <2>1. \A a \in DOMAIN heap' : Len(heap'[a].keys) > MaxKeys =>
           a \in DOMAIN heap /\ heap'[a].keys = heap[a].keys
    <3>1. ~(Len(heap'[f].keys) > MaxKeys)
      <4>1. ~(1 > MaxKeys)
        BY OrderAssumption DEF MaxKeys
      <4> QED
        BY ONLY <1>9, <1>12, <4>1
    <3> QED
      BY ONLY <1>11, <3>1
  <2>2. failures' \in Nat /\ failures' >= failures
    <3>1. failures \in Nat
      BY <1>1, FailureCount
    <3> QED
      BY <1>3, <3>1
  <2> QED
    BY <1>1, <1>3, <2>1, <2>2, OverfullKept
<1>20. PICK at2 : at2 = Raised(h, at, f)
  OBVIOUS
<1>21. Whole(heap', f, h + 1, at2)
  <2>1. \A k \in Int : k < p => Turn(heap', f, k) = 1 /\ Kid(heap', f, k) = rt
    <3> SUFFICES ASSUME NEW k \in Int, k < p
                 PROVE  Turn(heap', f, k) = 1 /\ Kid(heap', f, k) = rt
      OBVIOUS
    <3>1. Slot(ks, Len(ks), k, 1)
      BY ONLY <1>8, <1>9, k < p, k \in Int DEF Slot
    <3>2. Turn(heap', f, k) = 1
      BY ONLY <1>9, <1>12, <3>1, SlotIsTurn, k \in Int
    <3> QED
      BY ONLY <1>9, <1>12, <3>2 DEF Kid
  <2>2. \A k \in Int : k >= p => Turn(heap', f, k) = 2 /\ Kid(heap', f, k) = r
    <3> SUFFICES ASSUME NEW k \in Int, k >= p
                 PROVE  Turn(heap', f, k) = 2 /\ Kid(heap', f, k) = r
      OBVIOUS
    <3>1. Slot(ks, Len(ks), k, 2)
      BY ONLY <1>8, <1>9, k >= p, k \in Int DEF Slot
    <3>2. Turn(heap', f, k) = 2
      BY ONLY <1>9, <1>12, <3>1, SlotIsTurn, k \in Int
    <3> QED
      BY ONLY <1>9, <1>12, <3>2 DEF Kid
  <2>3. Parted(heap, rt, h, at, 0, rt, p, r)
    BY ONLY <1>2, <1>6
  <2>4. f \notin DOMAIN heap
    BY <1>5
  <2>5. ~heap'[f].leaf
    BY <1>12
  <2>6. Len(heap'[f].kids) = 2
    BY <1>9, <1>12
  <2>7. DOMAIN heap' = DOMAIN heap \union {f}
    BY <1>11
  <2>8. \A a \in DOMAIN heap : heap'[a] = heap[a]
    BY <1>11
  <2> QED
    BY ONLY <1>20, <2>1, <2>2, <2>3, <2>4, <2>5, <2>6, <2>7, <2>8, GrowTree
<1>22. /\ \A k \in Int : at2[0][k] = f
       /\ \A d \in 0 .. h : d + 1 \in 0 .. h + 1 /\ at2[d + 1] = at[d]
       /\ 0 \in 0 .. h + 1
  <2>1. at2 = [d \in 0 .. h + 1 |-> IF d = 0 THEN [k \in Int |-> f] ELSE at[d - 1]]
    BY <1>20 DEF Raised
  <2>2. \A d \in 0 .. h : d + 1 \in 0 .. h + 1 /\ d + 1 # 0 /\ (d + 1) - 1 = d
    BY ONLY <1>2
  <2>3. 0 \in 0 .. h + 1
    BY ONLY <1>2
  <2> QED
    BY ONLY <2>1, <2>2, <2>3
<1>23. TreeState(h + 1, at2)'
  <2>1. OnPath(h + 1, at2)'
    <3>1. Len(path') = 0 /\ (\A j \in 1 .. Len(path') : FALSE) /\ Len(path') <= h + 1
      BY ONLY <1>2, <1>3, EmptyStack
    <3> QED
      BY ONLY <3>1 DEF OnPath
  <2>2. ASSUME failures' = 0 PROVE Covers(heap', h + 1, at2) /\ Chained(heap', h + 1, at2)
    <3>1. Covers(heap, h, at) /\ Chained(heap, h, at)
      BY <1>2, <1>3, <2>2 DEF TreeState
    <3>2. Covers(heap', h + 1, at2)
      <4> SUFFICES ASSUME NEW a \in DOMAIN heap'
                   PROVE  \E d \in 0 .. h + 1 : \E k \in Int : at2[d][k] = a
        BY DEF Covers
      <4>1. CASE a = f
        <5>1. 0 \in Int
          OBVIOUS
        <5> QED
          BY ONLY <1>22, <4>1, <5>1
      <4>2. CASE a # f
        <5>1. PICK d \in 0 .. h : \E k \in Int : at[d][k] = a
          BY <1>11, <3>1, <4>2 DEF Covers
        <5> QED
          BY ONLY <1>22, <5>1
      <4> QED
        BY <4>1, <4>2
    <3>3. Chained(heap', h + 1, at2)
      <4>1. at2[h + 1] = at[h]
        <5>1. h \in 0 .. h
          BY ONLY <1>2
        <5> QED
          BY ONLY <1>22, <5>1
      <4>2. \A k \in Int : at[h][k] \in DOMAIN heap
        <5>1. Levels(heap, h, at)
          BY <1>2 DEF Parted, Skeleton
        <5>2. h \in 0 .. h
          BY ONLY <1>2
        <5> QED
          BY ONLY <5>1, <5>2 DEF Levels
      <4> QED
        BY ONLY <1>11, <3>1, <4>1, <4>2 DEF Chained
    <3> QED
      BY <3>2, <3>3
  <2>3. Whole(heap', root', h + 1, at2)
    BY <1>3, <1>4, <1>21
  <2> QED
    BY <1>3, <1>15, <2>1, <2>2, <2>3 DEF TreeState
<1>24. root' # NULL /\ pc' # "free"
  BY <1>3, <1>4, <1>5
<1> QED
  BY <1>14, <1>16, <1>17, <1>18, <1>19, <1>23, <1>24 DEF Inv
=============================================================================
