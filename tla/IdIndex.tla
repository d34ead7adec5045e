------------------------------ MODULE IdIndex ------------------------------
(***************************************************************************)
(* What the id index promises to storage.c: a partial map from id to the   *)
(* offset of its row.  bptree_insert adds a binding for a new id and       *)
(* refuses an id that is bound; bptree_search returns the binding.  An     *)
(* insertion that runs out of memory is reported as a failure, whatever    *)
(* it already did: the binding may be there or not, and a failed split of  *)
(* the root forgets every id from some key on.                             *)
(***************************************************************************)
EXTENDS Integers, Functions

CONSTANTS
    Keys,       \* the ids
    Offsets,    \* the row offsets
    Requests    \* the (id, offset) pairs the caller may insert

VARIABLES
    index,      \* the bindings: a function from a subset of Keys to Offsets
    stage,      \* "idle", "called" (insert entered), "bound" (binding made)
    pending,    \* the pair being inserted, << >> when none
    answer      \* the outcome of the last operation

vars == <<stage, pending, answer, index>>

Bound(k) == k \in DOMAIN index

NoAnswer == [op |-> "none"]
InsertAnswer(k, result) == [op |-> "insert", key |-> k, result |-> result]
Found(k, o) == [op |-> "search", key |-> k, offset |-> o]
NotFound(k) == [op |-> "miss", key |-> k]

Init ==
    /\ index = << >>
    /\ stage = "idle"
    /\ pending = << >>
    /\ answer = NoAnswer

Call(k, o) ==
    /\ stage = "idle"
    /\ <<k, o>> \in Requests
    /\ stage' = "called"
    /\ pending' = <<k, o>>
    /\ answer' = NoAnswer
    /\ UNCHANGED index

(* The binding is made once, and only for an id that has none.             *)
Bind ==
    /\ stage = "called"
    /\ stage' = "bound"
    /\ ~Bound(pending[1])
    /\ index' = [k \in DOMAIN index \union {pending[1]} |->
                   IF k = pending[1] THEN pending[2] ELSE index[k]]
    /\ UNCHANGED <<pending, answer>>

Return(result) ==
    /\ answer' = InsertAnswer(pending[1], result)
    /\ stage' = "idle"
    /\ pending' = << >>

ReturnInserted == stage = "bound" /\ Return("ok") /\ UNCHANGED index

ReturnDuplicate ==
    stage = "called" /\ Bound(pending[1]) /\ Return("dup") /\ UNCHANGED index

(* Out of memory before the binding was made, or after it.                 *)
ReturnNoMemory ==
    stage \in {"called", "bound"} /\ Return("oom") /\ UNCHANGED index

(* Out of memory while the root was being split: the upper ids are lost.   *)
ReturnRootLost(p) ==
    /\ stage = "bound"
    /\ Return("oom")
    /\ index' = Restrict(index, {k \in DOMAIN index : k < p})

Search(k) ==
    /\ stage = "idle"
    /\ \/ answer' = NotFound(k) /\ ~Bound(k)
       \/ \E o \in Offsets : answer' = Found(k, o) /\ Bound(k) /\ index[k] = o
    /\ UNCHANGED <<stage, pending, index>>

(* bptree_free, and a new operation that forgets the last answer.          *)
Clear ==
    /\ stage = "idle"
    /\ answer' = NoAnswer
    /\ UNCHANGED <<stage, pending>>
    /\ index' = << >>

Forget ==
    /\ stage = "idle"
    /\ answer' = NoAnswer
    /\ UNCHANGED <<stage, pending, index>>

Next ==
    \/ \E k \in Keys, o \in Offsets : Call(k, o)
    \/ Bind
    \/ ReturnInserted
    \/ ReturnDuplicate
    \/ ReturnNoMemory
    \/ \E p \in Keys : ReturnRootLost(p)
    \/ \E k \in Keys : Search(k)
    \/ Clear
    \/ Forget

Spec == Init /\ [][Next]_vars
=============================================================================
