------------------------------ MODULE MCBPTree ------------------------------
(* Small instances of BPTree: every order in which the ids can arrive.     *)
EXTENDS BPTreeInv

CONSTANTS MaxId,        \* ids are 1 .. MaxId
          FirstIds,     \* ids that arrive first, in any order
          RepeatedId,   \* an id that may come again
          MaxNodes      \* addresses malloc can return

MCKeys == 1 .. MaxId

(* Each id has a row offset of its own, and the repeated id can also come  *)
(* with the offset of another row.                                         *)
MCRequests == {<<k, 10 * k>> : k \in MCKeys} \union {<<RepeatedId, 99>>}
MCOffsets == {r[2] : r \in MCRequests}
MCAddr == 1 .. MaxNodes

(* A call begins, and what it may be.                                       *)
CallBegins == pc = "idle" /\ pc' # "idle"
Present(k) == \E n \in DOMAIN heap : heap[n].leaf /\ k \in Range(heap[n].keys)

(* The ids FirstIds come in any order, then the others upwards; RepeatedId  *)
(* may come again at any time.                                             *)
InsertsAscend ==
    (CallBegins /\ pc' \in {"empty", "descend"}) =>
        /\ Present(key') => key' = RepeatedId
        /\ key' \notin FirstIds =>
             \A k \in FirstIds \union {j \in Keys : j < key'} : Present(k)

(* A search changes nothing but the answer: what can follow it can as well *)
(* follow the state before it.                                             *)
SearchesLast == CallBegins => answer.op \notin {"search", "miss"}

=============================================================================
