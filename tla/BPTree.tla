------------------------------- MODULE BPTree -------------------------------
(***************************************************************************)
(* The B+ tree of bptree.c: an index from id to row offset kept in nodes   *)
(* that malloc hands out.  bptree_insert and free_bptree_node recurse in   *)
(* the code; here the C stack is the variable path and one step is the     *)
(* work of one activation between two calls, so that the states between a  *)
(* split and the linking of its right half are visible.  malloc may fail   *)
(* at every call, MaxFailures times in all.                                *)
(*                                                                         *)
(* A node's C arrays keys/offsets/children with key_count are sequences of *)
(* the elements in use; indices are one higher than in the code.  A write  *)
(* past the end of an array is undefined behaviour: the step that would    *)
(* make it enters the state "overrun", after which nothing is modelled.    *)
(***************************************************************************)
EXTENDS Integers, Sequences, SequencesExt

CONSTANTS
    Keys,           \* the ids (int)
    Offsets,        \* the row offsets (long)
    Requests,       \* the (id, offset) pairs that are ever inserted
    Addr,           \* the addresses malloc can return
    NULL,           \* the null pointer, and an unset parameter
    Order,          \* BPTREE_ORDER: the length of keys[] and offsets[]
    MaxFailures     \* how many malloc calls may fail

ASSUME KeysAssumption == Keys \subseteq Int
ASSUME RequestsAssumption == Requests \subseteq Keys \X Offsets
ASSUME NullAssumption == NULL \notin Addr
ASSUME OrderAssumption == Order \in Nat /\ Order >= 3
ASSUME MaxFailuresAssumption == MaxFailures \in Nat

(* A defect for comparison: no spare slot for the overflow before a split. *)
MaxKeysNoSpare == Order

(* BPTREE_MAX_KEYS: one slot is left for the overflow before a split.      *)
MaxKeys == Order - 1

VARIABLES
    heap,       \* the allocated nodes: a function from addresses to nodes
    root,       \* tree->root
    pc,         \* what the code is doing
    key,        \* the parameter key of the call in progress
    offset,     \* the parameter offset of an insertion in progress
    cur,        \* the node the innermost activation works on
    path,       \* the C stack: <<node, child index>>, outermost first
    ret,        \* BPTreeInsertResult of the activation that just returned
    status,     \* status->message: "", "dup" or "oom"; the caller owns it
    answer,     \* what the last call returned
    failures    \* how many malloc calls have failed

vars == <<heap, root, pc, key, offset, cur, path, ret, status, answer,
          failures>>

call == <<key, offset, cur, path, ret>>

-----------------------------------------------------------------------------
(* Nodes and the helpers of bptree.c.                                      *)

Node == [leaf : BOOLEAN, keys : Seq(Keys), offs : Seq(Offsets),
         kids : Seq(Addr), next : Addr \union {NULL}]

(* The first position whose key is not smaller, found by a linear scan.    *)
InsertIndex(ks, k) ==
    CHOOSE i \in 1 .. Len(ks) + 1 :
        /\ \A j \in 1 .. i - 1 : ks[j] < k
        /\ i <= Len(ks) => ks[i] >= k

(* A defect for comparison: a key equal to a separator goes left.          *)
ChildIndexEqualLeft(ks, k) ==
    CHOOSE i \in 1 .. Len(ks) + 1 :
        /\ \A j \in 1 .. i - 1 : k > ks[j]
        /\ i <= Len(ks) => k <= ks[i]

(* The first position whose separator is larger: equal keys go right.      *)
ChildIndex(ks, k) ==
    CHOOSE i \in 1 .. Len(ks) + 1 :
        /\ \A j \in 1 .. i - 1 : k >= ks[j]
        /\ i <= Len(ks) => k < ks[i]

(* A defect for comparison: the extra slot counts as capacity.             *)
FitsOrder(ks) == Len(ks) <= Order

(* key_count <= BPTREE_MAX_KEYS: no split is needed.                       *)
Fits(ks) == Len(ks) <= MaxKeys

(* A defect for comparison: only the last key moves to the right half.     *)
HalfLast(ks) == Len(ks) - 1

(* split_index and mid_index: what the left half keeps.                    *)
Half(ks) == Len(ks) \div 2

NoSplit == [split |-> FALSE, promoted |-> NULL, right |-> NULL]
Split(k, r) == [split |-> TRUE, promoted |-> k, right |-> r]

(* create_bptree_node: a fresh address, or NULL.                           *)
CanAllocate == Addr \ DOMAIN heap # {}
Fresh == CHOOSE a \in Addr : a \notin DOMAIN heap

AllocFails ==
    /\ failures < MaxFailures
    /\ failures' = failures + 1

NoAnswer == [op |-> "none"]
InsertAnswer(k, result) == [op |-> "insert", key |-> k, result |-> result]
Found(k, o) == [op |-> "search", key |-> k, offset |-> o]
NotFound(k) == [op |-> "miss", key |-> k]

(* The call ends with an answer and its C stack is gone.                   *)
Answer(a) ==
    /\ pc' = "idle"
    /\ answer' = a
    /\ key' = NULL /\ offset' = NULL /\ cur' = NULL
    /\ path' = << >> /\ ret' = NoSplit

-----------------------------------------------------------------------------
Init ==
    /\ heap = << >>
    /\ root = NULL
    /\ pc = "idle"
    /\ key = NULL /\ offset = NULL /\ cur = NULL
    /\ path = << >> /\ ret = NoSplit
    /\ status = ""
    /\ answer = NoAnswer
    /\ failures = 0

(* bptree_insert: the message is cleared unless the tree is empty.         *)
InsertCall(k, o) ==
    /\ pc = "idle"
    /\ <<k, o>> \in Requests
    /\ key' = k /\ offset' = o
    /\ answer' = NoAnswer
    /\ IF root = NULL
         THEN pc' = "empty" /\ UNCHANGED status
         ELSE pc' = "descend" /\ status' = ""
    /\ cur' = root
    /\ UNCHANGED <<heap, root, path, ret, failures>>

(* The first key makes a leaf root.                                        *)
CreateRoot ==
    /\ pc = "empty"
    /\ CanAllocate
    /\ heap' = [a \in DOMAIN heap \union {Fresh} |->
                  IF a = Fresh
                    THEN [leaf |-> TRUE, keys |-> <<key>>, offs |-> <<offset>>,
                          kids |-> << >>, next |-> NULL]
                    ELSE heap[a]]
    /\ root' = Fresh
    /\ pc' = "created"
    /\ UNCHANGED <<call, status, answer, failures>>

(* return 1 after the first key: the caller's message is left as it was.   *)
ReturnCreated ==
    /\ pc = "created"
    /\ Answer(InsertAnswer(key, "ok"))
    /\ UNCHANGED <<heap, root, status, failures>>

CreateRootFails ==
    /\ pc = "empty"
    /\ AllocFails
    /\ status' = "oom"
    /\ Answer(InsertAnswer(key, "oom"))
    /\ UNCHANGED <<heap, root>>

(* insert_into_internal calls itself, or insert_into_leaf, on the child.   *)
Descend ==
    /\ pc = "descend"
    /\ ~heap[cur].leaf
    /\ LET i == ChildIndex(heap[cur].keys, key)
       IN  /\ path' = Append(path, <<cur, i>>)
           /\ cur' = heap[cur].kids[i]
    /\ UNCHANGED <<heap, root, pc, key, offset, ret, status, answer, failures>>

-----------------------------------------------------------------------------
(* insert_into_leaf.                                                       *)

KeyAt == InsertIndex(heap[cur].keys, key)
Duplicate == KeyAt <= Len(heap[cur].keys) /\ heap[cur].keys[KeyAt] = key

LeafDuplicate ==
    /\ pc = "descend"
    /\ heap[cur].leaf
    /\ Duplicate
    /\ status' = "dup"
    /\ pc' = "unwind"
    /\ UNCHANGED <<heap, root, call, answer, failures>>

(* keys[key_count] is written before any check of the capacity.            *)
LeafOverrun ==
    /\ pc = "descend"
    /\ heap[cur].leaf
    /\ ~Duplicate
    /\ Len(heap[cur].keys) >= Order
    /\ pc' = "overrun"
    /\ UNCHANGED <<heap, root, call, status, answer, failures>>

LeafReady ==
    /\ pc = "descend"
    /\ heap[cur].leaf
    /\ ~Duplicate
    /\ Len(heap[cur].keys) < Order

NewKeys == InsertAt(heap[cur].keys, KeyAt, key)

(* A defect for comparison: the offsets are not shifted with the keys.     *)
NewOffsUnshifted == Append(heap[cur].offs, offset)
NewOffs == InsertAt(heap[cur].offs, KeyAt, offset)

(* A defect for comparison: node->next is overwritten before it is copied. *)
RightNextSelf == Fresh
RightNext == heap[cur].next

LeafInsert ==
    /\ LeafReady
    /\ Fits(NewKeys)
    /\ heap' = [heap EXCEPT ![cur].keys = NewKeys, ![cur].offs = NewOffs]
    /\ pc' = "unwind"
    /\ UNCHANGED <<root, call, status, answer, failures>>

LeafSplit ==
    /\ LeafReady
    /\ ~Fits(NewKeys)
    /\ CanAllocate
    /\ LET total == Len(NewKeys)
           half  == Half(NewKeys)
           left  == [heap[cur] EXCEPT
                       !.keys = SubSeq(NewKeys, 1, half),
                       !.offs = SubSeq(NewOffs, 1, half),
                       !.next = Fresh]
           right == [leaf |-> TRUE,
                     keys |-> SubSeq(NewKeys, half + 1, total),
                     offs |-> SubSeq(NewOffs, half + 1, total),
                     kids |-> << >>,
                     next |-> RightNext]
       IN  /\ heap' = [a \in DOMAIN heap \union {Fresh} |->
                         IF a = Fresh THEN right
                         ELSE IF a = cur THEN left ELSE heap[a]]
           /\ ret' = Split(right.keys[1], Fresh)
    /\ pc' = "unwind"
    /\ UNCHANGED <<root, key, offset, cur, path, status, answer, failures>>

(* The new key stays in the leaf, which now holds one key too many.        *)
LeafSplitFails ==
    /\ LeafReady
    /\ ~Fits(NewKeys)
    /\ AllocFails
    /\ heap' = [heap EXCEPT ![cur].keys = NewKeys, ![cur].offs = NewOffs]
    /\ status' = "oom"
    /\ pc' = "unwind"
    /\ UNCHANGED <<root, call, answer>>

-----------------------------------------------------------------------------
(* insert_into_internal after the child has returned.                      *)

parent == path[Len(path)][1]
slot == path[Len(path)][2]

(* An error or no split in the child: this activation returns no split.    *)
PassUp ==
    /\ pc = "unwind"
    /\ path # << >>
    /\ status # "" \/ ~ret.split
    /\ ret' = NoSplit
    /\ path' = Front(path)
    /\ UNCHANGED <<heap, root, pc, key, offset, cur, status, answer, failures>>

Linking ==
    /\ pc = "unwind"
    /\ path # << >>
    /\ status = ""
    /\ ret.split

LinkedKeys == InsertAt(heap[parent].keys, slot, ret.promoted)

(* A defect for comparison: the right half also replaces the left one.     *)
LinkedKidsTwice ==
    InsertAt(ReplaceAt(heap[parent].kids, slot, ret.right), slot + 1, ret.right)
LinkedKids == InsertAt(heap[parent].kids, slot + 1, ret.right)

(* A defect for comparison: the copying loop stops one child too early.    *)
RightKidsShort(mid) == SubSeq(LinkedKids, mid + 2, Len(LinkedKids) - 1)
RightKids(mid) == SubSeq(LinkedKids, mid + 2, Len(LinkedKids))

(* The separators are shifted into keys[] before the capacity is checked.  *)
LinkOverrun ==
    /\ Linking
    /\ Len(heap[parent].keys) >= Order
    /\ pc' = "overrun"
    /\ UNCHANGED <<heap, root, call, status, answer, failures>>

LinkReady == Linking /\ Len(heap[parent].keys) < Order

Link ==
    /\ LinkReady
    /\ Fits(LinkedKeys)
    /\ heap' = [heap EXCEPT ![parent].keys = LinkedKeys,
                            ![parent].kids = LinkedKids]
    /\ ret' = NoSplit
    /\ path' = Front(path)
    /\ UNCHANGED <<root, pc, key, offset, cur, status, answer, failures>>

LinkSplit ==
    /\ LinkReady
    /\ ~Fits(LinkedKeys)
    /\ CanAllocate
    /\ LET total == Len(LinkedKeys)
           mid   == Half(LinkedKeys)
           left  == [heap[parent] EXCEPT
                       !.keys = SubSeq(LinkedKeys, 1, mid),
                       !.kids = SubSeq(LinkedKids, 1, mid + 1)]
           right == [leaf |-> FALSE,
                     keys |-> SubSeq(LinkedKeys, mid + 2, total),
                     offs |-> << >>,
                     kids |-> RightKids(mid),
                     next |-> NULL]
       IN  /\ heap' = [a \in DOMAIN heap \union {Fresh} |->
                         IF a = Fresh THEN right
                         ELSE IF a = parent THEN left ELSE heap[a]]
           /\ ret' = Split(LinkedKeys[mid + 1], Fresh)
    /\ path' = Front(path)
    /\ UNCHANGED <<root, pc, key, offset, cur, status, answer, failures>>

(* The child is linked, and the internal node holds one key too many.      *)
LinkSplitFails ==
    /\ LinkReady
    /\ ~Fits(LinkedKeys)
    /\ AllocFails
    /\ heap' = [heap EXCEPT ![parent].keys = LinkedKeys,
                            ![parent].kids = LinkedKids]
    /\ status' = "oom"
    /\ ret' = NoSplit
    /\ path' = Front(path)
    /\ UNCHANGED <<root, pc, key, offset, cur, answer>>

-----------------------------------------------------------------------------
(* bptree_insert after the root's activation has returned.                 *)

ReturnFailure ==
    /\ pc = "unwind"
    /\ path = << >>
    /\ status # ""
    /\ Answer(InsertAnswer(key, status))
    /\ UNCHANGED <<heap, root, status, failures>>

ReturnInserted ==
    /\ pc = "unwind"
    /\ path = << >>
    /\ status = ""
    /\ ~ret.split
    /\ Answer(InsertAnswer(key, "ok"))
    /\ UNCHANGED <<heap, root, status, failures>>

GrowReady ==
    /\ pc = "unwind"
    /\ path = << >>
    /\ status = ""
    /\ ret.split

(* A defect for comparison: tree->root is replaced before it is linked.    *)
RootKidsSelf == <<Fresh, ret.right>>
RootKids == <<root, ret.right>>

GrowRoot ==
    /\ GrowReady
    /\ CanAllocate
    /\ heap' = [a \in DOMAIN heap \union {Fresh} |->
                  IF a = Fresh
                    THEN [leaf |-> FALSE, keys |-> <<ret.promoted>>,
                          offs |-> << >>, kids |-> RootKids,
                          next |-> NULL]
                    ELSE heap[a]]
    /\ root' = Fresh
    /\ Answer(InsertAnswer(key, "ok"))
    /\ UNCHANGED <<status, failures>>

(* The right half of the old root is not linked anywhere any more.         *)
GrowRootFails ==
    /\ GrowReady
    /\ AllocFails
    /\ status' = "oom"
    /\ Answer(InsertAnswer(key, "oom"))
    /\ UNCHANGED <<heap, root>>

-----------------------------------------------------------------------------
(* bptree_search.                                                          *)

SearchCall(k) ==
    /\ pc = "idle"
    /\ IF root = NULL
         THEN Answer(NotFound(k))
         ELSE /\ pc' = "search"
              /\ key' = k
              /\ cur' = root
              /\ answer' = NoAnswer
              /\ UNCHANGED <<offset, path, ret>>
    /\ UNCHANGED <<heap, root, status, failures>>

SearchDescend ==
    /\ pc = "search"
    /\ ~heap[cur].leaf
    /\ cur' = heap[cur].kids[ChildIndex(heap[cur].keys, key)]
    /\ UNCHANGED <<heap, root, pc, key, offset, path, ret, status, answer,
                   failures>>

(* The leaf is scanned from the left for an equal key.                     *)
SearchLeaf ==
    /\ pc = "search"
    /\ heap[cur].leaf
    /\ LET hits == {i \in 1 .. Len(heap[cur].keys) : heap[cur].keys[i] = key}
       IN  \/ /\ hits = {}
              /\ Answer(NotFound(key))
           \/ \E i \in hits :
                /\ \A j \in hits : i <= j
                /\ Answer(Found(key, heap[cur].offs[i]))
    /\ UNCHANGED <<heap, root, status, failures>>

-----------------------------------------------------------------------------
(* bptree_free: every child is freed before its parent.                    *)

FreeCall ==
    /\ pc = "idle"
    /\ answer' = NoAnswer
    /\ IF root = NULL
         THEN UNCHANGED <<pc, path>>
         ELSE pc' = "free" /\ path' = <<<<root, 1>>>>
    /\ UNCHANGED <<heap, root, key, offset, cur, ret, status, failures>>

(* A defect for comparison: i < key_count leaves the last child out.       *)
MoreKidsShort == slot <= Len(heap[parent].keys)
MoreKids == slot <= Len(heap[parent].keys) + 1

FreeChild ==
    /\ pc = "free"
    /\ path # << >>
    /\ ~heap[parent].leaf
    /\ MoreKids
    /\ path' = Append(ReplaceAt(path, Len(path), <<parent, slot + 1>>),
                      <<heap[parent].kids[slot], 1>>)
    /\ UNCHANGED <<heap, root, pc, key, offset, cur, ret, status, answer,
                   failures>>

FreeNode ==
    /\ pc = "free"
    /\ path # << >>
    /\ heap[parent].leaf \/ ~MoreKids
    /\ heap' = [a \in DOMAIN heap \ {parent} |-> heap[a]]
    /\ path' = Front(path)
    /\ UNCHANGED <<root, pc, key, offset, cur, ret, status, answer, failures>>

FreeReturn ==
    /\ pc = "free"
    /\ path = << >>
    /\ root' = NULL
    /\ pc' = "idle"
    /\ UNCHANGED <<heap, call, status, answer, failures>>

-----------------------------------------------------------------------------
Insert ==
    \/ CreateRoot \/ ReturnCreated \/ CreateRootFails
    \/ Descend
    \/ LeafDuplicate \/ LeafOverrun \/ LeafInsert \/ LeafSplit
    \/ LeafSplitFails
    \/ PassUp \/ LinkOverrun \/ Link \/ LinkSplit \/ LinkSplitFails
    \/ ReturnFailure \/ ReturnInserted \/ GrowRoot \/ GrowRootFails

Search == SearchDescend \/ SearchLeaf

Free == FreeChild \/ FreeNode \/ FreeReturn

Step == Insert \/ Search \/ Free

Calls ==
    \/ \E k \in Keys, o \in Offsets : InsertCall(k, o)
    \/ \E k \in Keys : SearchCall(k)
    \/ FreeCall

Next == Step \/ Calls

Spec == Init /\ [][Next]_vars

(* A call that has started runs on to its return.                          *)
FairSpec == Spec /\ WF_vars(Step)
=============================================================================
