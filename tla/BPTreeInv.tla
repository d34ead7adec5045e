----------------------------- MODULE BPTreeInv ------------------------------
(***************************************************************************)
(* What makes the B+ tree of BPTree correct: the search-tree order that    *)
(* routes a key from the root to the one leaf that may hold it, the        *)
(* capacity and the fill of the nodes, the chain of leaves, the lifetime   *)
(* of the nodes, and the promise of IdIndex.                               *)
(***************************************************************************)
EXTENDS BPTree, FiniteSets

(* The child the activation on top of the C stack has returned from.       *)
Returned == IF path = << >> THEN root ELSE heap[parent].kids[slot]

InFlight == pc = "unwind" /\ ret.split

-----------------------------------------------------------------------------
(* The nodes in use, and the route of a key from the root.                 *)

Children(n) == {heap[n].kids[i] : i \in 1 .. Len(heap[n].kids)}

(* The nodes reached from the root, or from a right half not linked yet.   *)
Live ==
    LET reach[S \in SUBSET DOMAIN heap] ==
            LET more == S \union ((UNION {Children(n) : n \in S}) \cap DOMAIN heap)
            IN  IF more = S THEN S ELSE reach[more]
    IN  reach[{root, ret.right} \cap DOMAIN heap]

(* While a right half is in flight, it serves the keys from ret.promoted.  *)
Redirect(n, k) ==
    IF InFlight /\ n = Returned /\ k >= ret.promoted THEN ret.right ELSE n

(* The node that k reaches d levels down, its leaf from there on.          *)
Route(k) ==
    LET at[d \in 0 .. Cardinality(DOMAIN heap)] ==
            IF d = 0 THEN Redirect(root, k)
            ELSE LET n == at[d - 1]
                 IN  IF heap[n].leaf THEN n
                     ELSE Redirect(heap[n].kids[ChildIndex(heap[n].keys, k)], k)
    IN  at

OnRoute(n, k) == \E d \in 0 .. Cardinality(DOMAIN heap) : Route(k)[d] = n
ReachesLeaf(k, d) == heap[Route(k)[d]].leaf

HasTree == root # NULL /\ pc \notin {"free", "overrun"}

-----------------------------------------------------------------------------
(* A leaf has one offset per key, an internal node one child more than     *)
(* keys; no node outgrows its arrays.                                      *)
Shaped(n) ==
    /\ n \in Node
    /\ Len(n.keys) \in 1 .. Order
    /\ Len(n.offs) = IF n.leaf THEN Len(n.keys) ELSE 0
    /\ Len(n.kids) = IF n.leaf THEN 0 ELSE Len(n.keys) + 1

(* The types of the variables and the shape of every node, at every step   *)
(* of every call and after every failure of malloc.                        *)
TypeOK ==
    /\ DOMAIN heap \subseteq Addr
    /\ \A a \in DOMAIN heap : Shaped(heap[a])
    /\ root \in Addr \union {NULL}
    /\ pc \in {"idle", "empty", "created", "descend", "unwind", "overrun",
               "search", "free"}
    /\ key \in Keys \union {NULL} /\ offset \in Offsets \union {NULL}
    /\ cur \in Addr \union {NULL}
    /\ path \in Seq(Addr \X Nat)
    /\ \/ ret = NoSplit
       \/ \E k \in Keys, a \in Addr : ret = Split(k, a)
    /\ status \in {"", "dup", "oom"}
    /\ failures \in 0 .. MaxFailures

(* Every key and every separator in use is strictly ordered in its node    *)
(* and lies on its own route from the root (find_child_index and the       *)
(* splits agree on where a key belongs), and all the leaves are equally    *)
(* deep, also between a split and the linking of its right half, and also  *)
(* after failures of malloc.                                               *)
SearchTree ==
    HasTree =>
      /\ \A n \in Live : \A i \in 1 .. Len(heap[n].keys) :
           /\ OnRoute(n, heap[n].keys[i])
           /\ i > 1 => heap[n].keys[i - 1] < heap[n].keys[i]
      /\ \A d \in 0 .. Cardinality(DOMAIN heap) :
           \/ \A k \in Keys : ReachesLeaf(k, d)
           \/ \A k \in Keys : ~ReachesLeaf(k, d)

(* Without a failure of malloc: at rest no node holds more keys than       *)
(* BPTREE_MAX_KEYS, every leaf but a root is at least half full, and every *)
(* separator node has as many keys as the smaller half of a split leaves   *)
(* it: the bound on the height.                                            *)
Balanced ==
    (pc = "idle" /\ root # NULL /\ failures = 0) =>
      \A n \in Live :
        /\ Len(heap[n].keys) <= MaxKeys
        /\ n # root => Len(heap[n].keys) >=
                         IF heap[n].leaf THEN Order \div 2
                         ELSE (Order - 1) \div 2

(* Without a failure of malloc: the next pointer of a leaf leads to the    *)
(* leaf that holds the smallest larger id, and so the chain visits every   *)
(* id once, in order, at every step.                                       *)
LeafChain ==
    (HasTree /\ failures = 0) =>
      LET leaves == {n \in Live : heap[n].leaf}
          low(n) == heap[n].keys[1]
          up(n)  == {m \in leaves : low(m) > low(n)}
      IN  \A n \in leaves :
            IF up(n) = {}
              THEN heap[n].next = NULL
              ELSE /\ heap[n].next \in up(n)
                   /\ \A m \in up(n) : low(heap[n].next) <= low(m)

(* Without a failure of malloc every allocated node is in the tree, and    *)
(* bptree_free leaves none behind; no activation ever reads or frees a     *)
(* node that has been freed, and no two activations of free_bptree_node    *)
(* hold the same node.                                                     *)
NodesOwnedOnce ==
    /\ (failures = 0 /\ pc # "free") => DOMAIN heap = Live
    /\ (failures = 0 /\ pc = "free" /\ path = << >>) => DOMAIN heap = {}
    /\ pc \in {"descend", "search"} => cur \in DOMAIN heap
    /\ \A i \in 1 .. Len(path) :
         /\ path[i][1] \in DOMAIN heap
         /\ \A j \in 1 .. i - 1 : path[i][1] # path[j][1]

(* A split that found no memory leaves at most one node too full for each  *)
(* failure, and by one key only, until an insertion overruns it; without a *)
(* failure the extra slot of keys[] is enough and no array is overrun.     *)
OverfullByFailure ==
    LET overfull == {n \in DOMAIN heap : Len(heap[n].keys) > MaxKeys}
    IN  IF pc = "overrun" THEN failures > 0
        ELSE /\ Cardinality(overfull) <= failures
             /\ \A n \in overfull : Len(heap[n].keys) = Order

(* A call that has been made returns (the array overrun apart).            *)
CallsReturn == pc # "idle" ~> pc \in {"idle", "overrun"}

-----------------------------------------------------------------------------
(* The refinement mapping.  A binding is in the index once it is in a leaf *)
(* in use; freeing empties the index at once.                              *)

Leaves == {n \in Live : heap[n].leaf}
Entries(n) == {<<heap[n].keys[i], heap[n].offs[i]>> : i \in 1 .. Len(heap[n].keys)}

Bindings == UNION {Entries(n) : n \in Leaves}

Held == [k \in {b[1] : b \in Bindings} |-> (CHOOSE b \in Bindings : b[1] = k)[2]]

Index == IF pc = "free" \/ root = NULL THEN << >> ELSE Held

(* Whether an insertion in progress has put its binding in a leaf.         *)
Unbound ==
    \/ pc \in {"empty", "descend"}
    \/ pc = "unwind" /\ status = "dup"
    \/ pc = "overrun" /\ ~ret.split

Stage ==
    IF Unbound THEN "called"
    ELSE IF pc \in {"created", "unwind", "overrun"} THEN "bound" ELSE "idle"

Pending == IF Stage = "idle" THEN << >> ELSE <<key, offset>>

Idx == INSTANCE IdIndex WITH
         index <- Index, stage <- Stage, pending <- Pending, answer <- answer

(* The tree implements the partial map: a new id is bound once, a bound id *)
(* is refused and keeps its offset, a search answers from the map; only a  *)
(* reported failure of malloc may bind or lose ids.                        *)
IsIdIndex == Idx!Spec
=============================================================================
