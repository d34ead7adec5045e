--------------------------- MODULE BPTreeTheorems ----------------------------
(***************************************************************************)
(* bptree_free, proved to keep the invariant of BPTreeProofs: the C stack  *)
(* of free_bptree_node holds a route of the tree that is being freed, and  *)
(* a node is gone exactly when one of its ancestors on the stack has gone  *)
(* past it.  With it the invariant holds at every step, and the properties *)
(* of BPTreeInv follow from it.                                            *)
(***************************************************************************)
EXTENDS BPTreeProofs

(* Ids that pass one node passed one node, and one place, at every level   *)
(* above.                                                                  *)
SameRoute(g, h, at, e, k, l) ==
    /\ h \in Nat /\ Nested(g, h, at) /\ k \in Int /\ l \in Int
    /\ e \in 0 .. h /\ at[e][k] = at[e][l]

LEMMA SameAbove ==
    ASSUME NEW g, NEW h, NEW at, NEW e, NEW k, NEW l, SameRoute(g, h, at, e, k, l)
    PROVE  \A d \in 0 .. e :
             /\ at[d][k] = at[d][l]
             /\ d < e => Turn(g, at[d][k], k) = Turn(g, at[d][k], l)
<1> USE DEF SameRoute
<1> SUFFICES ASSUME NEW d \in 0 .. e
             PROVE  /\ at[d][k] = at[d][l]
                    /\ d < e => Turn(g, at[d][k], k) = Turn(g, at[d][k], l)
  OBVIOUS
<1> DEFINE S == {n \in Nat : n <= e => at[e - n][k] = at[e - n][l]}
<1>1. 0 \in S
  OBVIOUS
<1>2. ASSUME NEW n \in Nat, n \in S PROVE n + 1 \in S
  <2> SUFFICES ASSUME n + 1 <= e PROVE at[e - (n + 1)][k] = at[e - (n + 1)][l]
    OBVIOUS
  <2>1. e - (n + 1) \in 0 .. h - 1 /\ (e - (n + 1)) + 1 = e - n /\ n <= e
    OBVIOUS
  <2>2. at[e - n][k] = at[e - n][l]
    BY <1>2, <2>1
  <2> QED
    BY <2>1, <2>2 DEF Nested
<1>3. Nat \subseteq S
  <2> HIDE DEF S
  <2> QED
    BY ONLY <1>1, <1>2, ByInduction
<1>4. \A n \in 0 .. e : at[n][k] = at[n][l]
  <2> SUFFICES ASSUME NEW n \in 0 .. e PROVE at[n][k] = at[n][l]
    OBVIOUS
  <2>1. e - n \in Nat /\ e - n <= e /\ e - (e - n) = n
    OBVIOUS
  <2>2. e - n \in S
    BY <1>3, <2>1
  <2> QED
    BY <2>1, <2>2
<1>5. ASSUME d < e PROVE Turn(g, at[d][k], k) = Turn(g, at[d][k], l)
  <2>1. d \in 0 .. h - 1 /\ d + 1 \in 0 .. e
    BY <1>5
  <2>2. at[d + 1][k] = at[d + 1][l]
    BY <1>4, <2>1
  <2> QED
    BY <2>1, <2>2 DEF Nested
<1> QED
  BY <1>4, <1>5

(* What a step of bptree_free finds.                                       *)
LEMMA FreeFacts ==
    ASSUME Inv, pc = "free"
    PROVE  /\ TypeOK /\ Sorted /\ Finite /\ OverfullByFailure /\ Fill
           /\ ret = NoSplit /\ ~ret.split /\ root # NULL
           /\ path \in Seq(Addr \X Nat) /\ Len(path) \in Nat
           /\ \E g, h, at, w : FreeState(g, h, at, w)
<1>1. ret = NoSplit /\ root # NULL /\ TypeOK
  BY DEF Inv, Control
<1> QED
  BY <1>1, StackFacts DEF Inv, NoSplit

LEMMA TreeFacts ==
    ASSUME NEW g, NEW h, NEW at, NEW w, FreeState(g, h, at, w)
    PROVE  /\ h \in Nat /\ w \in Int
           /\ \A d \in 0 .. h : \A k \in Int : at[d][k] \in DOMAIN g
           /\ \A d \in 0 .. h : \A k \in Int : g[at[d][k]].leaf <=> d = h
           /\ \A k \in Int : at[0][k] = root
           /\ \A d \in 0 .. h - 1 : \A k \in Int : at[d + 1][k] = Kid(g, at[d][k], k)
           /\ OneLevel(h, at) /\ Nested(g, h, at) /\ Served(g, h, at)
           /\ \A a \in DOMAIN g : Shaped(g[a])
<1>1. Whole(g, root, h, at) /\ w \in Int /\ \A a \in DOMAIN g : Shaped(g[a])
  BY DEF FreeState
<1>2. /\ Levels(g, h, at) /\ LeavesAtBottom(g, h, at)
      /\ OneLevel(h, at) /\ Nested(g, h, at) /\ Served(g, h, at)
  BY <1>1 DEF Whole, Skeleton
<1> QED
  BY <1>1, <1>2 DEF Whole, Levels, LeavesAtBottom

LEMMA FreeCallInv == ASSUME Inv, FreeCall PROVE Inv'
<1>1. /\ pc = "idle" /\ UNCHANGED <<heap, root, key, offset, cur, ret, status, failures>>
      /\ root = NULL => UNCHANGED <<pc, path>>
      /\ root # NULL => pc' = "free" /\ path' = <<<<root, 1>>>>
  BY DEF FreeCall
<1>2. path = << >> /\ ret = NoSplit /\ TypeOK
  BY <1>1 DEF Inv, Control
<1>3. ~ret.split
  BY <1>2 DEF NoSplit
<1>4. CASE root = NULL
  <2>1. TypeOK'
    BY <1>1, <1>2, <1>4 DEF TypeOK, Shaped
  <2>2. Control'
    BY <1>1, <1>2, <1>3, <1>4 DEF Inv, Control
  <2>3. pc' # "overrun" /\ pc' # "free" /\ pc # "overrun" /\ pc # "free"
    BY <1>1, <1>4
  <2>4. \A h, at : root # NULL /\ TreeState(h, at) => TreeState(h, at)'
    BY <1>4
  <2> QED
    BY <1>1, <1>3, <2>1, <2>2, <2>3, <2>4, QuietStep
<1>5. CASE root # NULL
  <2>1. pc' = "free" /\ path' = <<<<root, 1>>>>
    BY <1>1, <1>5
  <2>2. PICK h, at : TreeState(h, at)
    BY <1>1, <1>5 DEF Inv
  <2>3. /\ Whole(heap, root, h, at) /\ h \in Nat
        /\ \A d \in 0 .. h : \A k \in Int : at[d][k] \in DOMAIN heap
        /\ \A k \in Int : at[0][k] = root
    BY <1>3, <2>2, StateFacts
  <2>4. PICK rt : rt = root
    OBVIOUS
  <2>5. rt \in Addr /\ rt \in DOMAIN heap
    <3>1. 0 \in 0 .. h /\ 0 \in Int
      BY ONLY <2>3
    <3> QED
      BY <1>2, <2>3, <2>4, <3>1 DEF TypeOK
  <2>6. PICK st : st = <<<<rt, 1>>>>
    OBVIOUS
  <2>7. st \in Seq(Addr \X Nat) /\ Len(st) = 1 /\ st[1][1] = rt /\ st[1][2] = 1
    BY ONLY <2>5, <2>6
  <2>8. path' = st /\ path' # << >>
    BY <2>1, <2>4, <2>6
  <2>9. TypeOK'
    BY <1>1, <1>2, <2>1, <2>7, <2>8 DEF TypeOK, Shaped
  <2>10. Control'
    BY <1>1, <1>2, <1>3, <1>5, <2>1 DEF Control
  <2>11. Sorted' /\ Fill' /\ Finite' /\ OverfullByFailure'
    <3>1. failures' \in Nat /\ failures' >= failures
      <4>1. failures \in Nat
        BY <1>2, FailureCount
      <4> QED
        BY <1>1, <4>1
    <3> QED
      BY <1>1, <1>3, <2>1, <3>1, SameNodes, SameOverfull
  <2>12. PICK g : g = heap
    OBVIOUS
  <2>13. FreeState(g, h, at, 0)'
    <3>1. OnStack(st, g, at, 0)
      <4>1. \A j \in 1 .. Len(st) : j = 1 /\ j - 1 = 0 /\ ~(j < Len(st))
        BY ONLY <2>7
      <4>2. st[1][2] \in 1 .. Len(g[rt].kids) + 1
        <5>1. Shaped(g[rt])
          BY <1>2, <2>5, <2>12 DEF TypeOK
        <5>2. Len(g[rt].kids) \in Nat
          BY <5>1, NodeFacts
        <5> QED
          BY ONLY <2>7, <5>2
      <4>3. st[1][1] = at[0][0]
        BY <2>3, <2>4, <2>7
      <4> QED
        BY ONLY <2>7, <4>1, <4>2, <4>3 DEF OnStack
    <3>2. Len(st) <= h + 1
      BY ONLY <2>3, <2>7
    <3>3. ASSUME NEW d \in 0 .. h, NEW k \in Int PROVE ~Gone(st, g, at, d, k)
      <4>1. at[0][k] = st[1][1] => Turn(g, at[0][k], k) \in Nat /\ Turn(g, at[0][k], k) >= 1
        <5>1. Shaped(g[rt]) /\ at[0][k] = rt
          BY <1>2, <2>3, <2>4, <2>5, <2>12 DEF TypeOK
        <5>2. g[at[0][k]].keys \in Seq(Keys)
          BY <5>1, NodeFacts
        <5>3. Turn(g, at[0][k], k) \in 1 .. Len(g[at[0][k]].keys) + 1
          BY <5>2, TurnSlot
        <5> QED
          BY <5>3
      <4>2. \A j \in 1 .. Len(st) : j = 1 /\ j - 1 = 0 /\ FirstKept(st, j) = 1
        BY ONLY <2>7 DEF FirstKept
      <4>3. st # << >>
        BY <2>8
      <4> QED
        BY ONLY <4>1, <4>2, <4>3 DEF Gone
    <3>4. \A a \in DOMAIN g : Shaped(g[a])
      BY <1>2, <2>12 DEF TypeOK
    <3>5. failures' = 0 => Covers(g, h, at)
      BY <1>1, <2>2, <2>12 DEF TreeState
    <3>6. Whole(g, root', h, at)
      BY <1>1, <2>3, <2>12
    <3>7. \A d \in 0 .. h : \A k \in Int : at[d][k] \in DOMAIN heap' <=> ~Gone(path', g, at, d, k)
      BY <1>1, <2>3, <2>8, <3>3
    <3>8. DOMAIN heap' \subseteq DOMAIN g /\ \A a \in DOMAIN heap' : heap'[a] = g[a]
      BY <1>1, <2>12
    <3>9. Len(path') <= h + 1 /\ OnStack(path', g, at, 0)
      BY ONLY <2>8, <3>1, <3>2
    <3> QED
      BY <3>4, <3>5, <3>6, <3>7, <3>8, <3>9 DEF FreeState, Shaped
  <2> QED
    BY <1>1, <1>5, <2>1, <2>9, <2>10, <2>11, <2>13 DEF Inv
<1> QED
  BY <1>4, <1>5

-----------------------------------------------------------------------------
(* The innermost activation of free_bptree_node, and the node it works on. *)
LEMMA StackTop ==
    ASSUME Inv, pc = "free", path # << >>,
           NEW g, NEW h, NEW at, NEW w, FreeState(g, h, at, w),
           NEW n, n = Len(path)
    PROVE  /\ n \in Nat /\ n >= 1 /\ n - 1 \in 0 .. h /\ n \in 1 .. Len(path)
           /\ parent = at[n - 1][w] /\ parent \in DOMAIN heap /\ parent \in DOMAIN g
           /\ heap[parent] = g[parent] /\ Shaped(g[parent])
           /\ slot \in 1 .. Len(g[parent].kids) + 1
           /\ parent = path[n][1] /\ slot = path[n][2]
<1>1. path \in Seq(Addr \X Nat) /\ Len(path) \in Nat
  BY FreeFacts
<1>2. n \in Nat /\ n >= 1
  <2>1. Len(path) # 0
    BY <1>1, EmptySeq
  <2> QED
    BY ONLY <1>1, <2>1, n = Len(path)
<1>3. h \in Nat /\ Len(path) <= h + 1 /\ OnStack(path, g, at, w)
  <2>1. h \in Nat
    BY TreeFacts
  <2>2. Len(path) <= h + 1 /\ OnStack(path, g, at, w)
    BY ONLY FreeState(g, h, at, w) DEF FreeState
  <2> QED
    BY ONLY <2>1, <2>2
<1>4. n - 1 \in 0 .. h /\ n \in 1 .. Len(path)
  BY ONLY <1>1, <1>2, <1>3, n = Len(path)
<1>5. parent = path[n][1] /\ slot = path[n][2]
  BY DEF parent, slot
<1>6. /\ parent = at[n - 1][w]
      /\ slot \in 1 .. Len(g[parent].kids) + 1
  BY ONLY <1>3, <1>4, <1>5 DEF OnStack
<1>7. parent \in DOMAIN g /\ Shaped(g[parent])
  BY <1>4, <1>6, TreeFacts
<1>8. parent \in DOMAIN heap
  <2>1. w \in Int
    BY TreeFacts
  <2>2. ~Gone(path, g, at, n - 1, w)
    <3> SUFFICES ASSUME NEW j \in 1 .. Len(path), j <= n - 1,
                        Turn(g, at[j - 1][w], w) < FirstKept(path, j)
                 PROVE  FALSE
      BY DEF Gone
    <3>1. j < Len(path) /\ j # Len(path) /\ j - 1 \in 0 .. h
      BY ONLY <1>1, <1>2, <1>3, n = Len(path), j <= n - 1, j \in 1 .. Len(path)
    <3>2. path[j][2] = Turn(g, at[j - 1][w], w) + 1
      <4>1. OnStack(path, g, at, w)
        BY <1>3
      <4> QED
        BY ONLY <4>1, <3>1, j \in 1 .. Len(path) DEF OnStack
    <3>3. FirstKept(path, j) = path[j][2] - 1
      BY ONLY <3>1 DEF FirstKept
    <3>4. Turn(g, at[j - 1][w], w) \in Int
      <4>1. at[j - 1][w] \in DOMAIN g /\ Shaped(g[at[j - 1][w]])
        BY <2>1, <3>1, TreeFacts
      <4>2. g[at[j - 1][w]].keys \in Seq(Keys)
        BY <4>1, NodeFacts
      <4>3. Turn(g, at[j - 1][w], w) \in 1 .. Len(g[at[j - 1][w]].keys) + 1
        BY <2>1, <4>2, TurnSlot
      <4> QED
        BY ONLY <4>3
    <3> QED
      BY ONLY <3>2, <3>3, <3>4, Turn(g, at[j - 1][w], w) < FirstKept(path, j)
  <2> QED
    BY <1>4, <1>6, <2>1, <2>2 DEF FreeState
<1>9. heap[parent] = g[parent]
  BY <1>8 DEF FreeState
<1> QED
  BY <1>2, <1>4, <1>5, <1>6, <1>7, <1>8, <1>9

(* The turns at the nodes of the tree being freed.                         *)
LEMMA TurnRange ==
    ASSUME NEW g, NEW h, NEW at, NEW w, FreeState(g, h, at, w),
           NEW d \in 0 .. h, NEW k \in Int
    PROVE  /\ Turn(g, at[d][k], k) \in Nat /\ Turn(g, at[d][k], k) >= 1
           /\ d < h => Turn(g, at[d][k], k) <= Len(g[at[d][k]].kids)
           /\ Len(g[at[d][k]].kids) \in Nat /\ Len(g[at[d][k]].keys) \in Nat
<1>1. Shaped(g[at[d][k]]) /\ (g[at[d][k]].leaf <=> d = h) /\ h \in Nat
  BY TreeFacts
<1>2. g[at[d][k]].keys \in Seq(Keys) /\ g[at[d][k]].kids \in Seq(Addr)
  BY <1>1, NodeFacts
<1>3. Turn(g, at[d][k], k) \in 1 .. Len(g[at[d][k]].keys) + 1
  <2>1. PICK a : a = at[d][k]
    OBVIOUS
  <2>2. g[a].keys \in Seq(Keys)
    BY ONLY <1>2, <2>1
  <2>3. Turn(g, a, k) \in 1 .. Len(g[a].keys) + 1
    BY ONLY <2>2, k \in Int, TurnSlot
  <2>4. Turn(g, at[d][k], k) = Turn(g, a, k) /\ Len(g[at[d][k]].keys) = Len(g[a].keys)
    BY ONLY <2>1
  <2> QED
    BY ONLY <2>3, <2>4
<1>4. Len(g[at[d][k]].keys) \in Nat /\ Len(g[at[d][k]].kids) \in Nat
  <2>1. PICK n : n = g[at[d][k]]
    OBVIOUS
  <2>2. n.keys \in Seq(Keys) /\ n.kids \in Seq(Addr)
    BY ONLY <1>2, <2>1
  <2>3. Len(n.keys) \in Nat /\ Len(n.kids) \in Nat
    BY ONLY <2>2
  <2> QED
    BY ONLY <2>1, <2>3
<1>5. d < h => Len(g[at[d][k]].kids) = Len(g[at[d][k]].keys) + 1
  BY <1>1, NodeFacts
<1> QED
  BY ONLY <1>3, <1>4, <1>5

(* The activation of a child: the stack grows by the child's route.        *)
Deeper(st, n, a, s, c, st2) ==
    /\ st \in Seq(Addr \X Nat) /\ n \in Nat /\ n = Len(st) /\ n >= 1
    /\ a \in Addr /\ s \in Nat /\ c \in Addr
    /\ st2 = Append(ReplaceAt(st, Len(st), <<a, s>>), <<c, 1>>)

LEMMA DeeperStack ==
    ASSUME NEW st, NEW n, NEW a, NEW s, NEW c, NEW st2, Deeper(st, n, a, s, c, st2)
    PROVE  /\ st2 \in Seq(Addr \X Nat) /\ Len(st2) = n + 1 /\ st2 # << >>
           /\ \A j \in 1 .. n - 1 : st2[j] = st[j]
           /\ st2[n] = <<a, s>> /\ st2[n + 1] = <<c, 1>>
<1> USE DEF Deeper
<1> DEFINE mid == ReplaceAt(st, Len(st), <<a, s>>)
<1>1. <<a, s>> \in Addr \X Nat /\ <<c, 1>> \in Addr \X Nat
  OBVIOUS
<1>2. /\ mid \in Seq(Addr \X Nat) /\ Len(mid) = n
      /\ mid[n] = <<a, s>> /\ \A j \in 1 .. n - 1 : mid[j] = st[j]
  <2>1. mid = [st EXCEPT ![n] = <<a, s>>]
    BY DEF ReplaceAt
  <2>2. n \in 1 .. Len(st)
    OBVIOUS
  <2> HIDE DEF mid
  <2> QED
    BY <1>1, <2>1, <2>2
<1> HIDE DEF mid
<1>3. st2 = Append(mid, <<c, 1>>)
  BY DEF mid
<1>4. /\ st2 \in Seq(Addr \X Nat) /\ Len(st2) = n + 1
      /\ \A j \in 1 .. n : st2[j] = mid[j]
      /\ st2[n + 1] = <<c, 1>>
  <2>1. mid \in Seq(Addr \X Nat) /\ Len(mid) = n
    BY <1>2
  <2>2. PICK e \in Addr \X Nat : e = <<c, 1>>
    BY <1>1
  <2>3. st2 = Append(mid, e)
    BY <1>3, <2>2
  <2> QED
    <3>1. n \in Nat
      OBVIOUS
    <3> QED
      BY ONLY <2>1, <2>2, <2>3, <3>1
<1>5. st2 # << >>
  <2>1. n + 1 # 0
    OBVIOUS
  <2> QED
    BY ONLY <1>4, <2>1, EmptyStack
<1>6. n \in 1 .. n /\ \A j \in 1 .. n - 1 : j \in 1 .. n
  OBVIOUS
<1> QED
  BY ONLY <1>2, <1>4, <1>5, <1>6

LEMMA FreeChildInv == ASSUME Inv, FreeChild PROVE Inv'
<1>1. /\ pc = "free" /\ path # << >> /\ ~heap[parent].leaf
      /\ slot <= Len(heap[parent].keys) + 1
      /\ path' = Append(ReplaceAt(path, Len(path), <<parent, slot + 1>>),
                        <<heap[parent].kids[slot], 1>>)
      /\ UNCHANGED <<heap, root, pc, key, offset, cur, ret, status, answer, failures>>
  BY DEF FreeChild, MoreKids
<1>2. /\ TypeOK /\ ret = NoSplit /\ ~ret.split /\ root # NULL
      /\ path \in Seq(Addr \X Nat) /\ Len(path) \in Nat
  BY <1>1, FreeFacts
<1>3. PICK g, h, at, w : FreeState(g, h, at, w)
  BY <1>1, FreeFacts
<1>4. PICK n : n = Len(path)
  OBVIOUS
<1>5. /\ n \in Nat /\ n >= 1 /\ n - 1 \in 0 .. h /\ n \in 1 .. Len(path)
      /\ parent = at[n - 1][w] /\ parent \in DOMAIN heap /\ parent \in DOMAIN g
      /\ heap[parent] = g[parent] /\ Shaped(g[parent])
      /\ slot \in 1 .. Len(g[parent].kids) + 1
      /\ parent = path[n][1] /\ slot = path[n][2]
  BY <1>1, <1>3, <1>4, StackTop
<1>6. PICK q, s : q = parent /\ s = slot
  OBVIOUS
<1>7. PICK st, st2 : st = path /\ st2 = path'
  OBVIOUS
<1>8. /\ h \in Nat /\ w \in Int
      /\ \A d \in 0 .. h : \A k \in Int : at[d][k] \in DOMAIN g
      /\ \A d \in 0 .. h : \A k \in Int : g[at[d][k]].leaf <=> d = h
      /\ \A d \in 0 .. h - 1 : \A k \in Int : at[d + 1][k] = Kid(g, at[d][k], k)
      /\ Nested(g, h, at) /\ Served(g, h, at)
  BY <1>3, TreeFacts
<1>9. q = at[n - 1][w] /\ q \in DOMAIN g /\ Shaped(g[q]) /\ ~g[q].leaf
  BY <1>1, <1>5, <1>6
<1>10. n - 1 \in 0 .. h - 1 /\ n \in 0 .. h /\ (n - 1) + 1 = n
  <2>1. n - 1 # h
    BY ONLY <1>5, <1>8, <1>9
  <2> QED
    BY ONLY <1>5, <1>8, <2>1
<1>11. s \in 1 .. Len(g[q].kids) /\ s \in Nat
  <2>1. Len(g[q].kids) = Len(g[q].keys) + 1 /\ Len(g[q].keys) \in Nat
    <3>1. g[q].keys \in Seq(Keys) /\ Len(g[q].kids) = Len(g[q].keys) + 1
      BY <1>9, NodeFacts
    <3> QED
      BY ONLY <3>1
  <2>2. s <= Len(g[q].keys) + 1
    BY <1>1, <1>5, <1>6
  <2>3. s \in 1 .. Len(g[q].kids) + 1
    BY <1>5, <1>6
  <2> QED
    BY ONLY <2>1, <2>2, <2>3
<1>12. PICK v \in Int : at[n - 1][v] = q /\ Turn(g, q, v) = s
  <2>1. Served(g, h, at)
    BY <1>8
  <2>2. n - 1 \in 0 .. h - 1
    BY <1>10
  <2>3. w \in Int
    BY <1>8
  <2>4. s \in 1 .. Len(g[at[n - 1][w]].kids)
    BY ONLY <1>9, <1>11
  <2>5. \E v \in Int : at[n - 1][v] = at[n - 1][w] /\ Turn(g, at[n - 1][w], v) = s
    BY ONLY <2>1, <2>2, <2>3, <2>4 DEF Served
  <2> QED
    BY ONLY <1>9, <2>5
<1>13. PICK c : c = g[q].kids[s]
  OBVIOUS
<1>14. c = at[n][v] /\ c \in Addr /\ c \in DOMAIN g
  <2>1. at[n][v] = Kid(g, at[n - 1][v], v)
    BY ONLY <1>8, <1>10
  <2>2. c = at[n][v]
    BY ONLY <1>12, <1>13, <2>1 DEF Kid
  <2>3. g[q].kids \in Seq(Addr)
    BY <1>9, NodeFacts
  <2>4. c \in Addr
    BY ONLY <1>11, <1>13, <2>3
  <2> QED
    BY ONLY <1>8, <1>10, <2>2, <2>4
<1>15. /\ st2 \in Seq(Addr \X Nat) /\ Len(st2) = n + 1 /\ st2 # << >>
       /\ \A j \in 1 .. n - 1 : st2[j] = st[j]
       /\ st2[n] = <<q, s + 1>> /\ st2[n + 1] = <<c, 1>>
  <2>1. st2 = Append(ReplaceAt(st, Len(st), <<q, s + 1>>), <<c, 1>>)
    BY <1>1, <1>5, <1>6, <1>7, <1>13
  <2>2. st \in Seq(Addr \X Nat)
    BY <1>2, <1>7
  <2>3. n \in Nat
    BY <1>5
  <2>4. n = Len(st)
    BY <1>4, <1>7
  <2>5. n >= 1
    BY <1>5
  <2>6. q \in Addr
    BY <1>2, <1>5, <1>6 DEF TypeOK
  <2>7. s + 1 \in Nat
    BY <1>11
  <2>8. c \in Addr
    BY <1>14
  <2> QED
    <3>1. Deeper(st, n, q, s + 1, c, st2)
      BY ONLY <2>1, <2>2, <2>3, <2>4, <2>5, <2>6, <2>7, <2>8 DEF Deeper
    <3> QED
      BY ONLY <3>1, DeeperStack
<1>16. OnStack(st, g, at, w) /\ n = Len(st) /\ st[n][1] = q /\ st[n][2] = s /\ st # << >>
  BY <1>1, <1>3, <1>4, <1>5, <1>6, <1>7 DEF FreeState
<1>e. PICK e : e = n - 1
  OBVIOUS
<1>f. \A d \in 0 .. e : /\ at[d][v] = at[d][w]
                        /\ d < e => Turn(g, at[d][v], v) = Turn(g, at[d][v], w)
  <2>1. at[e][v] = at[e][w]
    BY <1>e, <1>9, <1>12
  <2>2. e \in 0 .. h
    BY <1>e, <1>5
  <2>3. h \in Nat
    BY <1>8
  <2>4. w \in Int
    BY <1>8
  <2>5. Nested(g, h, at)
    BY <1>8
  <2>6. SameRoute(g, h, at, e, v, w)
    BY ONLY <2>1, <2>2, <2>3, <2>4, <2>5, v \in Int DEF SameRoute
  <2> QED
    BY ONLY <2>6, SameAbove
<1>17. \A d \in 0 .. n - 1 : at[d][v] = at[d][w]
  BY ONLY <1>e, <1>f
<1>18. \A d \in 0 .. n - 1 : d < n - 1 => Turn(g, at[d][v], v) = Turn(g, at[d][w], w)
  BY ONLY <1>e, <1>f
<1>19. OnStack(st2, g, at, v)
  <2> SUFFICES ASSUME NEW j \in 1 .. Len(st2)
               PROVE  /\ st2[j][1] = at[j - 1][v]
                      /\ j < Len(st2) => st2[j][2] = Turn(g, at[j - 1][v], v) + 1
                      /\ st2[j][2] \in 1 .. Len(g[st2[j][1]].kids) + 1
    BY DEF OnStack
  <2>0. j \in 1 .. n + 1 /\ Len(st2) = n + 1
    BY ONLY <1>15, j \in 1 .. Len(st2)
  <2>1. CASE j <= n - 1
    <3>1. j \in 1 .. n - 1 /\ j \in 1 .. Len(st) /\ j < Len(st) /\ j - 1 \in 0 .. n - 1 /\ j - 1 < n - 1
      BY ONLY <1>5, <1>16, <2>0, <2>1
    <3>2. /\ st[j][1] = at[j - 1][w]
          /\ st[j][2] = Turn(g, at[j - 1][w], w) + 1
          /\ st[j][2] \in 1 .. Len(g[st[j][1]].kids) + 1
      BY ONLY <1>16, <3>1 DEF OnStack
    <3> QED
      BY ONLY <1>15, <1>17, <1>18, <3>1, <3>2
  <2>2. CASE j = n
    <3>1. st2[j][1] = q /\ st2[j][2] = s + 1
      BY ONLY <1>15, <2>2
    <3>2. s + 1 \in 1 .. Len(g[q].kids) + 1
      <4>1. Shaped(g[q])
        BY <1>9
      <4>2. Len(g[q].kids) \in Nat
        BY <4>1, NodeFacts
      <4> QED
        BY ONLY <1>11, <4>2
    <3> QED
      BY ONLY <1>12, <2>2, <3>1, <3>2
  <2>3. CASE j = n + 1
    <3>1. st2[j][1] = c /\ st2[j][2] = 1 /\ j - 1 = n /\ ~(j < Len(st2))
      BY ONLY <1>5, <1>15, <2>3
    <3>2. 1 \in 1 .. Len(g[c].kids) + 1
      <4>1. Shaped(g[c])
        BY <1>3, <1>14, TreeFacts
      <4>2. Len(g[c].kids) \in Nat
        BY <4>1, NodeFacts
      <4> QED
        BY ONLY <4>2
    <3> QED
      BY ONLY <1>14, <3>1, <3>2
  <2>4. j <= n - 1 \/ j = n \/ j = n + 1
    BY ONLY <1>5, <2>0
  <2> QED
    BY ONLY <2>1, <2>2, <2>3, <2>4
<1>20. /\ \A j \in 1 .. n : FirstKept(st2, j) = FirstKept(st, j) /\ st2[j][1] = st[j][1]
       /\ FirstKept(st2, n + 1) = 1
  <2>1. \A j \in 1 .. n - 1 : FirstKept(st2, j) = FirstKept(st, j) /\ st2[j][1] = st[j][1]
    <3>1. \A j \in 1 .. n - 1 : j # n /\ j # n + 1
      BY ONLY <1>5
    <3> QED
      BY ONLY <1>15, <1>16, <3>1 DEF FirstKept
  <2>2. FirstKept(st2, n) = FirstKept(st, n) /\ st2[n][1] = st[n][1]
    <3>1. FirstKept(st, n) = s
      BY ONLY <1>16 DEF FirstKept
    <3>2. n # n + 1
      BY ONLY <1>5
    <3>3. FirstKept(st2, n) = st2[n][2] - 1
      BY ONLY <1>15, <3>2 DEF FirstKept
    <3>4. st2[n][2] = s + 1 /\ st2[n][1] = q
      BY ONLY <1>15
    <3>5. st2[n][2] - 1 = s
      BY ONLY <1>11, <3>4
    <3>6. st[n][1] = q
      BY <1>16
    <3> QED
      BY ONLY <3>1, <3>3, <3>4, <3>5, <3>6
  <2>3. FirstKept(st2, n + 1) = 1
    BY ONLY <1>15 DEF FirstKept
  <2>4. \A j \in 1 .. n : j \in 1 .. n - 1 \/ j = n
    BY ONLY <1>5
  <2> QED
    BY ONLY <2>1, <2>2, <2>3, <2>4
<1>21. ASSUME NEW d \in 0 .. h, NEW k \in Int
       PROVE  Gone(st2, g, at, d, k) <=> Gone(st, g, at, d, k)
  <2>1. ASSUME NEW j \in 1 .. n + 1, j <= d, at[j - 1][k] = st2[j][1],
               Turn(g, at[j - 1][k], k) < FirstKept(st2, j)
        PROVE  j \in 1 .. n
    <3>1. CASE j = n + 1
      <4>1. j - 1 = n
        BY ONLY <1>5, <3>1
      <4>2. Turn(g, at[n][k], k) \in Nat /\ Turn(g, at[n][k], k) >= 1
        BY <1>3, <1>10, TurnRange
      <4> QED
        BY ONLY <1>20, <2>1, <3>1, <4>1, <4>2
    <3> QED
      BY ONLY <1>5, <3>1, j \in 1 .. n + 1
  <2>2. \A j \in 1 .. n : j \in 1 .. n + 1
    BY ONLY <1>5
  <2> QED
    BY ONLY <1>15, <1>16, <1>20, <2>1, <2>2 DEF Gone
<1>22. FreeState(g, h, at, v)'
  <2>1. /\ Whole(g, root', h, at) /\ \A a \in DOMAIN g : Shaped(g[a])
        /\ DOMAIN heap' \subseteq DOMAIN g /\ \A a \in DOMAIN heap' : heap'[a] = g[a]
        /\ failures' = 0 => Covers(g, h, at)
    BY <1>1, <1>3 DEF FreeState
  <2>2. Len(path') <= h + 1
    <3>1. Len(path') = n + 1
      BY ONLY <1>7, <1>15
    <3>2. h \in Nat /\ n \in 0 .. h
      BY <1>8, <1>10
    <3> QED
      BY ONLY <3>1, <3>2
  <2>3. OnStack(path', g, at, v)
    BY ONLY <1>7, <1>19
  <2>4. \A d \in 0 .. h : \A k \in Int : at[d][k] \in DOMAIN heap' <=> ~Gone(path', g, at, d, k)
    <3>1. \A d \in 0 .. h : \A k \in Int : at[d][k] \in DOMAIN heap <=> ~Gone(st, g, at, d, k)
      BY <1>3, <1>7 DEF FreeState
    <3> QED
      BY ONLY <1>1, <1>7, <1>21, <3>1
  <2> QED
    BY <2>1, <2>2, <2>3, <2>4 DEF FreeState, Shaped
<1>23. TypeOK'
  BY <1>1, <1>2, <1>7, <1>15 DEF TypeOK, Shaped
<1>24. Control'
  BY <1>1, <1>2 DEF Control
<1>25. Sorted' /\ Fill' /\ Finite' /\ OverfullByFailure'
  <2>1. failures' \in Nat /\ failures' >= failures
    <3>1. failures \in Nat
      BY <1>2, FailureCount
    <3> QED
      BY <1>1, <3>1
  <2> QED
    BY <1>1, <1>2, <2>1, SameNodes, SameOverfull
<1> QED
  BY <1>1, <1>2, <1>22, <1>23, <1>24, <1>25 DEF Inv

LEMMA FreeNodeInv == ASSUME Inv, FreeNode PROVE Inv'
<1>1. /\ pc = "free" /\ path # << >>
      /\ heap[parent].leaf \/ ~(slot <= Len(heap[parent].keys) + 1)
      /\ heap' = [a \in DOMAIN heap \ {parent} |-> heap[a]]
      /\ path' = Front(path)
      /\ UNCHANGED <<root, pc, key, offset, cur, ret, status, answer, failures>>
  BY DEF FreeNode, MoreKids
<1>2. /\ TypeOK /\ ret = NoSplit /\ ~ret.split /\ root # NULL
      /\ path \in Seq(Addr \X Nat) /\ Len(path) \in Nat
  BY <1>1, FreeFacts
<1>3. PICK g, h, at, w : FreeState(g, h, at, w)
  BY <1>1, FreeFacts
<1>4. PICK n : n = Len(path)
  OBVIOUS
<1>5. /\ n \in Nat /\ n >= 1 /\ n - 1 \in 0 .. h /\ n \in 1 .. Len(path)
      /\ parent = at[n - 1][w] /\ parent \in DOMAIN heap /\ parent \in DOMAIN g
      /\ heap[parent] = g[parent] /\ Shaped(g[parent])
      /\ slot \in 1 .. Len(g[parent].kids) + 1
      /\ parent = path[n][1] /\ slot = path[n][2]
  BY <1>1, <1>3, <1>4, StackTop
<1>6. PICK q, s : q = parent /\ s = slot
  OBVIOUS
<1>7. PICK st, st2 : st = path /\ st2 = path'
  OBVIOUS
<1>8. /\ h \in Nat /\ w \in Int
      /\ \A d \in 0 .. h : \A k \in Int : at[d][k] \in DOMAIN g
      /\ \A d \in 0 .. h : \A k \in Int : g[at[d][k]].leaf <=> d = h
      /\ \A k \in Int : at[0][k] = root
      /\ OneLevel(h, at) /\ Nested(g, h, at)
  BY <1>3, TreeFacts
<1>9. q = at[n - 1][w] /\ q \in DOMAIN g /\ Shaped(g[q])
  BY <1>5, <1>6
<1>10. /\ DOMAIN heap' = DOMAIN heap \ {q}
       /\ \A a \in DOMAIN heap' : a \in DOMAIN heap /\ a # q /\ heap'[a] = heap[a]
  BY <1>1, <1>6
<1>11. st2 \in Seq(Addr \X Nat) /\ Len(st2) = n - 1 /\ \A j \in 1 .. n - 1 : st2[j] = st[j]
  <2>1. /\ Front(path) \in Seq(Addr \X Nat) /\ Len(Front(path)) = Len(path) - 1
        /\ \A j \in 1 .. Len(path) - 1 : Front(path)[j] = path[j]
    BY <1>1, <1>2, FrontElements
  <2> QED
    BY ONLY <1>1, <1>4, <1>7, <2>1
<1>12. /\ OnStack(st, g, at, w) /\ n = Len(st) /\ st[n][1] = q /\ st[n][2] = s /\ st # << >>
       /\ \A d \in 0 .. h : \A k \in Int : at[d][k] \in DOMAIN heap <=> ~Gone(st, g, at, d, k)
  BY <1>1, <1>3, <1>4, <1>5, <1>6, <1>7 DEF FreeState
<1>13. OnStack(st2, g, at, w)
  <2> SUFFICES ASSUME NEW j \in 1 .. Len(st2)
               PROVE  /\ st2[j][1] = at[j - 1][w]
                      /\ j < Len(st2) => st2[j][2] = Turn(g, at[j - 1][w], w) + 1
                      /\ st2[j][2] \in 1 .. Len(g[st2[j][1]].kids) + 1
    BY DEF OnStack
  <2>0. n \in Nat /\ Len(st2) = n - 1 /\ Len(st) = n
    BY <1>5, <1>11, <1>12
  <2>3. j \in 1 .. n - 1
    BY ONLY <2>0, j \in 1 .. Len(st2)
  <2>1. j \in 1 .. Len(st) /\ j < Len(st) /\ st2[j] = st[j]
    BY ONLY <1>11, <2>0, <2>3
  <2>2. OnStack(st, g, at, w)
    BY <1>12
  <2> QED
    BY ONLY <2>1, <2>2 DEF OnStack
(* The children of the freed node are all gone.                            *)
<1>14. ASSUME NEW d \in 0 .. h, NEW k \in Int, n <= d, at[n - 1][k] = q
       PROVE  Turn(g, at[n - 1][k], k) < s
  <2>1. n - 1 \in 0 .. h /\ n - 1 < h
    BY ONLY <1>5, <1>8, <1>14
  <2>2. /\ Turn(g, at[n - 1][k], k) \in Nat
        /\ Turn(g, at[n - 1][k], k) <= Len(g[at[n - 1][k]].kids)
        /\ Len(g[at[n - 1][k]].kids) \in Nat
    <3>1. PICK e \in 0 .. h : e = n - 1
      BY <2>1
    <3>2. e < h
      BY <2>1, <3>1
    <3>3. /\ Turn(g, at[e][k], k) \in Nat
          /\ e < h => Turn(g, at[e][k], k) <= Len(g[at[e][k]].kids)
          /\ Len(g[at[e][k]].kids) \in Nat
      BY <1>3, TurnRange
    <3> QED
      BY ONLY <3>1, <3>2, <3>3
  <2>3. ~g[q].leaf
    BY ONLY <1>8, <1>14, <2>1
  <2>4. ~heap[parent].leaf
    BY <1>5, <1>6, <2>3
  <2>5. ~(s <= Len(g[q].keys) + 1) /\ Len(g[q].kids) = Len(g[q].keys) + 1
    BY <1>1, <1>5, <1>6, <1>9, <2>3, <2>4, NodeFacts
  <2>6. s \in 1 .. Len(g[q].kids) + 1
    BY <1>5, <1>6
  <2> QED
    BY ONLY <1>14, <2>2, <2>5, <2>6
<1>15. ASSUME NEW d \in 0 .. h, NEW k \in Int
       PROVE  Gone(st2, g, at, d, k) <=> Gone(st, g, at, d, k) \/ at[d][k] = q
  <2>1. CASE n = 1
    <3>1. st2 = << >>
      <4>1. Len(st2) = 0
        BY ONLY <1>11, <2>1
      <4>2. st2 \in Seq(Addr \X Nat)
        BY <1>11
      <4> QED
        BY ONLY <4>1, <4>2, EmptySeq
    <3>2. at[0][k] = q
      BY ONLY <1>8, <1>9, <2>1
    <3>3. CASE d = 0
      BY ONLY <3>1, <3>2, <3>3 DEF Gone
    <3>4. CASE d # 0
      <4>1. n <= d /\ at[n - 1][k] = q
        BY ONLY <2>1, <3>2, <3>4, <1>8, d \in 0 .. h
      <4>2. Turn(g, at[n - 1][k], k) < s
        BY <1>14, <4>1
      <4>3. FirstKept(st, n) = s
        BY ONLY <1>12 DEF FirstKept
      <4>4. n \in 1 .. Len(st)
        BY <1>5, <1>7
      <4>5. at[n - 1][k] = st[n][1]
        BY ONLY <1>12, <4>1
      <4>6. Gone(st, g, at, d, k)
        BY ONLY <4>1, <4>2, <4>3, <4>4, <4>5 DEF Gone
      <4> QED
        BY ONLY <3>1, <4>6 DEF Gone
    <3> QED
      BY <3>3, <3>4
  <2>2. CASE n # 1
    <3>0. /\ n - 1 \in 1 .. Len(st2) /\ n - 1 \in 1 .. Len(st) /\ n \in 1 .. Len(st)
          /\ n - 1 = Len(st2) /\ n - 1 # Len(st) /\ n - 1 < Len(st)
          /\ (n - 1) - 1 = n - 2 /\ n - 2 \in 0 .. h - 1 /\ (n - 2) + 1 = n - 1
          /\ n - 2 \in 0 .. h
      BY ONLY <1>5, <1>8, <1>11, <1>12, <2>2
    <3>1. st2 # << >>
      BY ONLY <3>0, EmptyStack
    <3>2. FirstKept(st, n) = s /\ FirstKept(st2, n - 1) = st[n - 1][2]
      BY ONLY <1>11, <1>12, <3>0 DEF FirstKept
    <3>3. PICK t : t = Turn(g, at[n - 2][w], w)
      OBVIOUS
    <3>4. st[n - 1][1] = at[n - 2][w] /\ st[n - 1][2] = t + 1
      <4>1. OnStack(st, g, at, w)
        BY <1>12
      <4> QED
        BY ONLY <3>0, <3>3, <4>1 DEF OnStack
    <3>5. t \in Nat /\ Turn(g, at[n - 2][k], k) \in Nat
      <4>1. PICK e \in 0 .. h : e = n - 2
        BY <3>0
      <4>2. Turn(g, at[e][w], w) \in Nat
        BY <1>3, <1>8, TurnRange
      <4>3. Turn(g, at[e][k], k) \in Nat
        BY <1>3, TurnRange
      <4> QED
        BY ONLY <3>3, <4>1, <4>2, <4>3
    <3>6. FirstKept(st, n - 1) = t /\ FirstKept(st2, n - 1) = t + 1
      <4>1. FirstKept(st, n - 1) = st[n - 1][2] - 1
        BY ONLY <3>0, <1>12 DEF FirstKept
      <4> QED
        BY ONLY <3>2, <3>4, <3>5, <4>1
    <3>7. \A j \in 1 .. n - 2 : /\ FirstKept(st2, j) = FirstKept(st, j) /\ st2[j][1] = st[j][1]
                               /\ j \in 1 .. Len(st) /\ j \in 1 .. Len(st2)
      <4>1. \A j \in 1 .. n - 2 : /\ j # n - 1 /\ j # n /\ j \in 1 .. n - 1
                                 /\ j \in 1 .. Len(st) /\ j \in 1 .. Len(st2)
        <5>1. n \in Nat /\ Len(st) = n /\ Len(st2) = n - 1
          BY ONLY <1>5, <1>11, <1>12
        <5> QED
          BY ONLY <5>1
      <4> QED
        BY ONLY <1>11, <1>12, <4>1 DEF FirstKept
    <3>8. /\ \A j \in 1 .. Len(st2) : j \in 1 .. n - 2 \/ j = n - 1
          /\ \A j \in 1 .. Len(st) : j \in 1 .. n - 2 \/ j = n - 1 \/ j = n
      <4>1. n \in Nat /\ Len(st) = n /\ Len(st2) = n - 1
        BY ONLY <1>5, <1>11, <1>12
      <4> QED
        BY ONLY <4>1
    (* The ids of the freed node are those that turn to it in its parent.  *)
    <3>9. at[n - 1][k] = q <=> at[n - 2][k] = at[n - 2][w] /\ Turn(g, at[n - 2][k], k) = t
      <4>1. ASSUME at[n - 1][k] = q
            PROVE  at[n - 2][k] = at[n - 2][w] /\ Turn(g, at[n - 2][k], k) = t
        <5>1. at[(n - 2) + 1][k] = at[(n - 2) + 1][w]
          BY ONLY <1>9, <3>0, <4>1
        <5>2. /\ at[n - 2][k] = at[n - 2][w]
              /\ Turn(g, at[n - 2][k], k) = Turn(g, at[n - 2][k], w)
          <6>1. Nested(g, h, at)
            BY <1>8
          <6>2. w \in Int
            BY <1>8
          <6>3. n - 2 \in 0 .. h - 1
            BY <3>0
          <6> QED
            BY ONLY <5>1, <6>1, <6>2, <6>3, k \in Int DEF Nested
        <5> QED
          BY ONLY <3>3, <5>2
      <4>2. ASSUME at[n - 2][k] = at[n - 2][w], Turn(g, at[n - 2][k], k) = t
            PROVE  at[n - 1][k] = q
        <5>1. \A d0 \in 0 .. h - 1 : \A l \in Int : at[d0 + 1][l] = Kid(g, at[d0][l], l)
          BY <1>3, TreeFacts
        <5>2. at[n - 1][k] = Kid(g, at[n - 2][k], k)
          BY ONLY <3>0, <5>1, k \in Int
        <5>3. at[n - 1][w] = Kid(g, at[n - 2][w], w)
          <6>1. w \in Int
            BY <1>8
          <6> QED
            BY ONLY <3>0, <5>1, <6>1
        <5> QED
          BY ONLY <1>9, <3>3, <4>2, <5>2, <5>3 DEF Kid
      <4> QED
        BY <4>1, <4>2
    <3>10. at[d][k] = q => d = n - 1
      <4>1. OneLevel(h, at)
        BY <1>8
      <4>2. w \in Int
        BY <1>8
      <4>3. n - 1 \in 0 .. h
        BY <1>5
      <4> QED
        BY ONLY <1>9, <4>1, <4>2, <4>3, d \in 0 .. h, k \in Int DEF OneLevel
    <3>11. ASSUME Gone(st2, g, at, d, k)
           PROVE  Gone(st, g, at, d, k) \/ at[d][k] = q
      <4>1. PICK j \in 1 .. Len(st2) : /\ j <= d /\ at[j - 1][k] = st2[j][1]
                                       /\ Turn(g, at[j - 1][k], k) < FirstKept(st2, j)
        BY ONLY <3>1, <3>11 DEF Gone
      <4>2. CASE j \in 1 .. n - 2
        BY ONLY <3>7, <4>1, <4>2 DEF Gone
      <4>3. CASE j = n - 1
        <5>1. at[n - 2][k] = at[n - 2][w] /\ n - 1 <= d
          BY ONLY <1>11, <3>0, <3>4, <4>1, <4>3
        <5>2. Turn(g, at[n - 2][k], k) < t + 1
          BY ONLY <3>0, <3>6, <4>1, <4>3
        <5>3. CASE Turn(g, at[n - 2][k], k) < t
          <6>1. n - 1 <= d /\ at[(n - 1) - 1][k] = st[n - 1][1]
                /\ Turn(g, at[(n - 1) - 1][k], k) < FirstKept(st, n - 1)
            BY ONLY <3>0, <3>4, <3>6, <5>1, <5>3
          <6>2. n - 1 \in 1 .. Len(st)
            BY <3>0
          <6> QED
            BY ONLY <6>1, <6>2 DEF Gone
        <5>4. CASE Turn(g, at[n - 2][k], k) = t
          <6>1. at[n - 1][k] = q
            BY <3>9, <5>1, <5>4
          <6>2. CASE d = n - 1
            BY <6>1, <6>2
          <6>3. CASE d # n - 1
            <7>1. n <= d
              BY ONLY <1>5, <1>8, <5>1, <6>3, d \in 0 .. h
            <7>2. Turn(g, at[n - 1][k], k) < s
              BY <1>14, <6>1, <7>1
            <7>3. at[n - 1][k] = st[n][1]
              BY ONLY <1>12, <6>1
            <7>4. n \in 1 .. Len(st) /\ FirstKept(st, n) = s
              BY <3>0, <3>2
            <7> QED
              BY ONLY <7>1, <7>2, <7>3, <7>4 DEF Gone
          <6> QED
            BY <6>2, <6>3
        <5> QED
          BY ONLY <3>5, <5>2, <5>3, <5>4
      <4> QED
        BY <3>8, <4>2, <4>3
    <3>12. ASSUME Gone(st, g, at, d, k) \/ at[d][k] = q
           PROVE  Gone(st2, g, at, d, k)
      (* The id has been routed to the freed node, or below it.            *)
      <4>1. ASSUME n - 1 <= d, at[n - 1][k] = q PROVE Gone(st2, g, at, d, k)
        <5>1. at[n - 2][k] = at[n - 2][w] /\ Turn(g, at[n - 2][k], k) = t
          BY <3>9, <4>1
        <5>2. Turn(g, at[n - 2][k], k) < t + 1
          BY ONLY <3>5, <5>1
        <5>3. n - 1 \in 1 .. Len(st2)
          BY <3>0
        <5>4. at[(n - 1) - 1][k] = st2[n - 1][1]
              /\ Turn(g, at[(n - 1) - 1][k], k) < FirstKept(st2, n - 1)
          <6>1. st2[n - 1] = st[n - 1]
            BY ONLY <1>11, <3>0
          <6> QED
            BY ONLY <3>0, <3>4, <3>6, <5>1, <5>2, <6>1
        <5>5. n - 1 <= d
          BY <4>1
        <5> QED
          BY ONLY <5>3, <5>4, <5>5 DEF Gone
      <4>2. CASE at[d][k] = q
        <5>1. d = n - 1
          BY <3>10, <4>2
        <5>2. n - 1 <= d
          BY ONLY <5>1, <1>5
        <5> QED
          BY <4>1, <4>2, <5>1, <5>2
      <4>3. CASE Gone(st, g, at, d, k)
        <5>1. PICK j \in 1 .. Len(st) : /\ j <= d /\ at[j - 1][k] = st[j][1]
                                        /\ Turn(g, at[j - 1][k], k) < FirstKept(st, j)
          <6>1. st # << >>
            BY <1>12
          <6> QED
            BY ONLY <4>3, <6>1 DEF Gone
        <5>2. CASE j \in 1 .. n - 2
          BY ONLY <3>7, <5>1, <5>2 DEF Gone
        <5>3. CASE j = n - 1
          <6>1. Turn(g, at[(n - 1) - 1][k], k) < FirstKept(st2, n - 1)
            BY ONLY <3>0, <3>5, <3>6, <5>1, <5>3
          <6>2. at[(n - 1) - 1][k] = st2[n - 1][1] /\ n - 1 <= d
            BY ONLY <1>11, <3>0, <5>1, <5>3
          <6>3. n - 1 \in 1 .. Len(st2)
            BY <3>0
          <6> QED
            BY ONLY <6>1, <6>2, <6>3 DEF Gone
        <5>4. CASE j = n
          <6>1. at[n - 1][k] = q
            BY ONLY <1>12, <5>1, <5>4
          <6>2. n - 1 <= d
            BY ONLY <1>5, <1>8, <5>1, <5>4, d \in 0 .. h
          <6> QED
            BY <4>1, <6>1, <6>2
        <5> QED
          BY <3>8, <5>2, <5>3, <5>4
      <4> QED
        BY <3>12, <4>2, <4>3
    <3> QED
      BY <3>11, <3>12
  <2> QED
    BY <2>1, <2>2
<1>16. FreeState(g, h, at, w)'
  <2>1. /\ Whole(g, root', h, at) /\ \A a \in DOMAIN g : Shaped(g[a])
        /\ DOMAIN heap' \subseteq DOMAIN g /\ \A a \in DOMAIN heap' : heap'[a] = g[a]
        /\ failures' = 0 => Covers(g, h, at)
    BY <1>1, <1>3, <1>10 DEF FreeState
  <2>2. Len(path') <= h + 1
    <3>1. Len(path') = n - 1 /\ n - 1 \in 0 .. h /\ h \in Nat
      BY <1>5, <1>7, <1>8, <1>11
    <3> QED
      BY ONLY <3>1
  <2>3. OnStack(path', g, at, w)
    BY ONLY <1>7, <1>13
  <2>4. \A d \in 0 .. h : \A k \in Int : at[d][k] \in DOMAIN heap' <=> ~Gone(path', g, at, d, k)
    BY ONLY <1>7, <1>10, <1>12, <1>15
  <2>5. w \in Int
    BY <1>8
  <2> QED
    BY <2>1, <2>2, <2>3, <2>4, <2>5 DEF FreeState, Shaped
<1>17. TypeOK'
  <2>1. \A a \in DOMAIN heap' : Shaped(heap'[a])
    BY <1>2, <1>10 DEF TypeOK
  <2> QED
    BY <1>1, <1>2, <1>7, <1>10, <1>11, <2>1 DEF TypeOK, Shaped
<1>18. Control'
  BY <1>1, <1>2 DEF Control
<1>19. Sorted' /\ Finite'
  <2>1. DOMAIN heap' \subseteq DOMAIN heap
    BY <1>10
  <2>2. Finite'
    BY <1>1, <2>1, FreeFacts, FS_Subset DEF Finite
  <2>3. Sorted'
    BY <1>1, <1>10, FreeFacts DEF Sorted
  <2> QED
    BY <2>2, <2>3
<1>20. Fill'
  BY <1>1, <1>2, <1>10, FreeFacts DEF Fill, Filled
<1>21. OverfullByFailure'
  <2>1. failures' \in Nat /\ failures' >= failures
    <3>1. failures \in Nat
      BY <1>2, FailureCount
    <3> QED
      BY <1>1, <3>1
  <2>2. \A a \in DOMAIN heap' : a \in DOMAIN heap /\ heap'[a].keys = heap[a].keys
    BY ONLY <1>10
  <2>3. pc # "overrun" /\ pc' # "overrun"
    BY <1>1
  <2> QED
    BY <2>1, <2>2, <2>3, OverfullKept
<1> QED
  BY <1>1, <1>2, <1>16, <1>17, <1>18, <1>19, <1>20, <1>21 DEF Inv

LEMMA FreeReturnInv == ASSUME Inv, FreeReturn PROVE Inv'
<1>1. /\ pc = "free" /\ path = << >> /\ root' = NULL /\ pc' = "idle"
      /\ UNCHANGED <<heap, key, offset, cur, path, ret, status, answer, failures>>
  BY DEF FreeReturn, call
<1>2. TypeOK /\ ret = NoSplit /\ ~ret.split /\ root # NULL
  BY <1>1, FreeFacts
<1>3. PICK g, h, at, w : FreeState(g, h, at, w)
  BY <1>1, FreeFacts
<1>4. \A d \in 0 .. h : \A k \in Int : at[d][k] \notin DOMAIN heap
  BY <1>1, <1>3 DEF FreeState, Gone
<1>5. root \notin DOMAIN heap
  <2>1. h \in Nat /\ \A k \in Int : at[0][k] = root
    BY <1>3, TreeFacts
  <2>2. 0 \in 0 .. h /\ 0 \in Int
    BY ONLY <2>1
  <2> QED
    BY ONLY <1>4, <2>1, <2>2
<1>6. failures = 0 => DOMAIN heap = {}
  <2> SUFFICES ASSUME failures = 0, NEW a \in DOMAIN heap PROVE FALSE
    OBVIOUS
  <2>1. a \in DOMAIN g /\ Covers(g, h, at)
    BY <1>3 DEF FreeState
  <2>2. PICK d \in 0 .. h : \E k \in Int : at[d][k] = a
    BY <2>1 DEF Covers
  <2> QED
    BY <1>4, <2>2
<1>7. TypeOK'
  BY <1>1, <1>2 DEF TypeOK, Shaped
<1>8. Control'
  BY <1>1, <1>2 DEF Control
<1>9. Sorted' /\ Finite' /\ OverfullByFailure'
  <2>1. failures' \in Nat /\ failures' >= failures
    <3>1. failures \in Nat
      BY <1>2, FailureCount
    <3> QED
      BY <1>1, <3>1
  <2>2. Sorted' /\ Finite'
    BY <1>1, FreeFacts DEF Sorted, Finite
  <2>3. OverfullByFailure'
    BY <1>1, <2>1, SameOverfull
  <2> QED
    BY <2>2, <2>3
<1>10. Fill'
  <2>1. Fill
    BY <1>1, FreeFacts
  <2>2. \A a \in DOMAIN heap : Filled(heap[a])
    BY <1>5, <2>1 DEF Fill
  <2> QED
    BY <1>1, <2>2 DEF Fill, Filled
<1> QED
  BY <1>1, <1>6, <1>7, <1>8, <1>9, <1>10 DEF Inv

-----------------------------------------------------------------------------
(* Every step.                                                             *)

LEMMA StutterInv == ASSUME Inv, UNCHANGED vars PROVE Inv'
<1>1. UNCHANGED <<heap, root, pc, key, offset, cur, path, ret, status, answer, failures>>
  BY DEF vars
<1>2. TypeOK'
  BY <1>1 DEF Inv, TypeOK, Shaped
<1>3. Control'
  BY <1>1 DEF Inv, Control
<1>4. Sorted' /\ Fill' /\ Finite'
  BY <1>1 DEF Inv, Sorted, Fill, Filled, Finite
<1>5. OverfullByFailure'
  BY <1>1 DEF Inv, OverfullByFailure, MaxKeys
<1>6. ASSUME NEW h, NEW at, TreeState(h, at) PROVE TreeState(h, at)'
  <2>1. OnPath(h, at)'
    BY <1>1, <1>6 DEF TreeState, OnPath
  <2>2. Returned' = Returned
    BY <1>1 DEF Returned, parent, slot
  <2> QED
    BY <1>1, <1>6, <2>1, <2>2 DEF TreeState
<1>7. ASSUME NEW g, NEW h, NEW at, NEW w, FreeState(g, h, at, w)
      PROVE  FreeState(g, h, at, w)'
  BY <1>1, <1>7 DEF FreeState, Shaped
<1> QED
  BY <1>1, <1>2, <1>3, <1>4, <1>5, <1>6, <1>7 DEF Inv

LEMMA NextInv == ASSUME Inv, [Next]_vars PROVE Inv'
<1>1. ASSUME Insert PROVE Inv'
  BY <1>1, CreateRootInv, ReturnCreatedInv, CreateRootFailsInv, DescendInv,
     LeafDuplicateInv, LeafOverrunInv, LeafInsertInv, LeafSplitInv, LeafSplitFailsInv,
     PassUpInv, LinkOverrunInv, LinkInv, LinkSplitInv, LinkSplitFailsInv,
     ReturnFailureInv, ReturnInsertedInv, GrowRootInv, GrowRootFailsInv DEF Insert
<1>2. ASSUME Search PROVE Inv'
  BY <1>2, SearchDescendInv, SearchLeafInv DEF Search
<1>3. ASSUME Free PROVE Inv'
  BY <1>3, FreeChildInv, FreeNodeInv, FreeReturnInv DEF Free
<1>4. ASSUME Calls PROVE Inv'
  BY <1>4, InsertCallInv, SearchCallInv, FreeCallInv DEF Calls
<1>5. ASSUME UNCHANGED vars PROVE Inv'
  BY <1>5, StutterInv
<1> QED
  BY <1>1, <1>2, <1>3, <1>4, <1>5 DEF Next, Step

(* The inductive invariant holds at every step of every call, whatever     *)
(* malloc does: the nodes form a search tree on the route of every id.     *)
THEOREM TreeInvariant == Spec => []Inv
<1>1. Init => Inv
  BY InitInv
<1>2. Inv /\ [Next]_vars => Inv'
  BY NextInv
<1> QED
  BY <1>1, <1>2, PTL DEF Spec

(* The types of the variables, and the shape of every node: offsets and    *)
(* children match the keys in number, and no array is overrun unseen.      *)
THEOREM TypeCorrect == Spec => []TypeOK
<1>1. Inv => TypeOK
  BY DEF Inv
<1> QED
  BY <1>1, TreeInvariant, PTL

(* A split that found no memory leaves at most one node too full for each  *)
(* failure, by one key only; an array is overrun only after a failure.     *)
THEOREM OverfullOnlyByFailure == Spec => []OverfullByFailure
<1>1. Inv => OverfullByFailure
  BY DEF Inv
<1> QED
  BY <1>1, TreeInvariant, PTL

-----------------------------------------------------------------------------
(* The nodes in use, as BPTreeInv computes them: a closure by recursion.   *)

Spreads(D, M) ==
    /\ M \in [SUBSET D -> SUBSET D]
    /\ \A S \in SUBSET D : S \subseteq M[S]
    /\ \A S, C \in SUBSET D : S \subseteq C => M[S] \subseteq M[C]

Saturates(D, M, f) ==
    f = [S \in SUBSET D |-> IF M[S] = S THEN S ELSE f[M[S]]]

LEMMA ClosureExists ==
    ASSUME NEW D, NEW M, Spreads(D, M)
    PROVE  \E f : Saturates(D, M, f)
<1> DEFINE Closed(S, C) == S \subseteq C /\ M[C] = C
           F == [S \in SUBSET D |->
                   {x \in D : \A C \in SUBSET D : Closed(S, C) => x \in C}]
<1>1. ASSUME NEW S \in SUBSET D
      PROVE  F[S] = IF M[S] = S THEN S ELSE F[M[S]]
  <2>1. M[S] \in SUBSET D /\ S \subseteq M[S]
    BY DEF Spreads
  <2>2. ASSUME M[S] = S PROVE F[S] = S
    <3>1. Closed(S, S)
      BY <2>2
    <3>2. \A x \in F[S] : x \in S
      BY <3>1
    <3>3. \A x \in S : x \in F[S]
      OBVIOUS
    <3> QED
      BY ONLY <3>2, <3>3
  <2>3. \A C \in SUBSET D : Closed(S, C) <=> Closed(M[S], C)
    <3> SUFFICES ASSUME NEW C \in SUBSET D PROVE Closed(S, C) <=> Closed(M[S], C)
      OBVIOUS
    <3>1. Closed(S, C) => Closed(M[S], C)
      BY DEF Spreads
    <3>2. Closed(M[S], C) => Closed(S, C)
      BY <2>1
    <3> QED
      BY <3>1, <3>2
  <2>4. F[S] = F[M[S]]
    <3> HIDE DEF Closed
    <3>1. F[S] = {x \in D : \A C \in SUBSET D : Closed(S, C) => x \in C}
      OBVIOUS
    <3>2. F[M[S]] = {x \in D : \A C \in SUBSET D : Closed(M[S], C) => x \in C}
      BY <2>1
    <3> QED
      BY ONLY <2>3, <3>1, <3>2
  <2> QED
    BY <2>2, <2>4
<1>2. Saturates(D, M, F)
  <2>1. F = [S \in SUBSET D |-> F[S]]
    OBVIOUS
  <2> HIDE DEF F
  <2> QED
    BY ONLY <1>1, <2>1 DEF Saturates
<1> QED
  BY <1>2

LEMMA ClosureReached ==
    ASSUME NEW D, IsFiniteSet(D), NEW M, Spreads(D, M), NEW f, Saturates(D, M, f),
           NEW S0 \in SUBSET D
    PROVE  /\ S0 \subseteq f[S0] /\ f[S0] \subseteq D /\ M[f[S0]] = f[S0]
           /\ \A C \in SUBSET D : S0 \subseteq C /\ M[C] = C => f[S0] \subseteq C
<1> DEFINE Least(S) == /\ S \subseteq f[S] /\ f[S] \subseteq D /\ M[f[S]] = f[S]
                       /\ \A C \in SUBSET D : S \subseteq C /\ M[C] = C => f[S] \subseteq C
           N == {n \in Nat : \A S \in SUBSET D : Cardinality(D \ S) <= n => Least(S)}
<1>0. \A S \in SUBSET D : f[S] = IF M[S] = S THEN S ELSE f[M[S]]
  <2>1. f = [S \in SUBSET D |-> IF M[S] = S THEN S ELSE f[M[S]]]
    BY DEF Saturates
  <2> QED
    BY ONLY <2>1
<1>1. \A S \in SUBSET D : /\ M[S] \in SUBSET D /\ S \subseteq M[S]
                          /\ \A C \in SUBSET D : S \subseteq C => M[S] \subseteq M[C]
  BY DEF Spreads
<1>2. \A S \in SUBSET D : Cardinality(D \ S) \in Nat
  <2> SUFFICES ASSUME NEW S \in SUBSET D PROVE Cardinality(D \ S) \in Nat
    OBVIOUS
  <2>1. D \ S \in SUBSET D
    OBVIOUS
  <2> QED
    BY <2>1, FS_Subset, FS_CardinalityType
<1>3. ASSUME NEW S \in SUBSET D, M[S] = S PROVE Least(S)
  <2>1. f[S] = S
    BY <1>0, <1>3
  <2> QED
    BY <2>1, <1>3
<1>4. ASSUME NEW S \in SUBSET D, M[S] # S
      PROVE  Cardinality(D \ M[S]) < Cardinality(D \ S)
  <2>1. IsFiniteSet(D \ S)
    <3>1. D \ S \in SUBSET D
      OBVIOUS
    <3> QED
      BY <3>1, FS_Subset
  <2>2. D \ M[S] \in SUBSET (D \ S) /\ D \ M[S] # D \ S
    BY <1>1, <1>4
  <2>3. Cardinality(D \ M[S]) <= Cardinality(D \ S)
        /\ Cardinality(D \ S) # Cardinality(D \ M[S])
    BY ONLY <2>1, <2>2, FS_Subset
  <2>4. Cardinality(D \ M[S]) \in Nat /\ Cardinality(D \ S) \in Nat
    BY <1>1, <1>2
  <2> QED
    BY ONLY <2>3, <2>4
<1>5. ASSUME NEW S \in SUBSET D, M[S] # S, Least(M[S]) PROVE Least(S)
  <2>1. f[S] = f[M[S]] /\ S \subseteq M[S]
    BY <1>0, <1>1, <1>5
  <2>2. \A C \in SUBSET D : S \subseteq C /\ M[C] = C => M[S] \subseteq C
    BY <1>1
  <2> QED
    BY <1>5, <2>1, <2>2
<1>6. 0 \in N
  <2> SUFFICES ASSUME NEW S \in SUBSET D, Cardinality(D \ S) <= 0 PROVE Least(S)
    OBVIOUS
  <2>1. M[S] = S
    <3> SUFFICES ASSUME M[S] # S PROVE FALSE
      OBVIOUS
    <3>1. Cardinality(D \ M[S]) < Cardinality(D \ S)
      BY <1>4
    <3>2. Cardinality(D \ M[S]) \in Nat /\ Cardinality(D \ S) \in Nat
      BY <1>1, <1>2
    <3> QED
      BY ONLY <3>1, <3>2, Cardinality(D \ S) <= 0
  <2> QED
    BY <1>3, <2>1
<1>7. ASSUME NEW n \in Nat, n \in N PROVE n + 1 \in N
  <2> HIDE DEF Least
  <2> SUFFICES ASSUME NEW S \in SUBSET D, Cardinality(D \ S) <= n + 1 PROVE Least(S)
    OBVIOUS
  <2>1. CASE M[S] = S
    BY <1>3, <2>1
  <2>2. CASE M[S] # S
    <3>1. M[S] \in SUBSET D
      BY <1>1
    <3>2. Cardinality(D \ M[S]) < Cardinality(D \ S)
      BY <1>4, <2>2
    <3>3. Cardinality(D \ M[S]) \in Nat /\ Cardinality(D \ S) \in Nat
      BY <1>2, <3>1
    <3>4. Cardinality(D \ M[S]) <= n
      BY ONLY <3>2, <3>3, n \in Nat, Cardinality(D \ S) <= n + 1
    <3>5. Least(M[S])
      BY <1>7, <3>1, <3>4
    <3> QED
      BY <1>5, <2>2, <3>5
  <2> QED
    BY <2>1, <2>2
<1>8. Nat \subseteq N
  <2> HIDE DEF N
  <2> QED
    BY ONLY <1>6, <1>7, ByInduction
<1>9. Cardinality(D \ S0) \in Nat /\ Cardinality(D \ S0) <= Cardinality(D \ S0)
  <2>1. Cardinality(D \ S0) \in Nat
    BY <1>2
  <2> QED
    BY ONLY <2>1
<1>10. Least(S0)
  <2>1. Cardinality(D \ S0) \in N
    BY <1>8, <1>9
  <2> QED
    BY <1>9, <2>1
<1> QED
  BY <1>10

More(S) == S \union ((UNION {Children(n) : n \in S}) \cap DOMAIN heap)

Roots == {root, ret.right} \cap DOMAIN heap

LEMMA LiveReached ==
    Live = (CHOOSE f : f = [S \in SUBSET DOMAIN heap |->
                              IF More(S) = S THEN S ELSE f[More(S)]])
               [{root, ret.right} \cap DOMAIN heap]
BY DEF Live, More

(* Live holds the root and a right half in flight, is closed under         *)
(* children, and is the least such set.                                    *)
LEMMA LiveLeast ==
    ASSUME IsFiniteSet(DOMAIN heap)
    PROVE  /\ Roots \subseteq Live /\ Live \subseteq DOMAIN heap
           /\ \A n \in Live : Children(n) \cap DOMAIN heap \subseteq Live
           /\ \A C \in SUBSET DOMAIN heap :
                Roots \subseteq C /\ (\A n \in C : Children(n) \cap DOMAIN heap \subseteq C)
                  => Live \subseteq C
<1> DEFINE D == DOMAIN heap
           M == [S \in SUBSET D |-> More(S)]
           f == CHOOSE b : b = [S \in SUBSET D |-> IF More(S) = S THEN S ELSE b[More(S)]]
<1>1. Live = f[Roots]
  BY LiveReached DEF Roots
<1>2. \A S \in SUBSET D : More(S) \in SUBSET D /\ S \subseteq More(S)
  BY DEF More
<1>3. Spreads(D, M)
  <2>1. \A S, C \in SUBSET D : S \subseteq C => More(S) \subseteq More(C)
    BY DEF More
  <2> HIDE DEF D
  <2> QED
    BY <1>2, <2>1 DEF Spreads
<1>4. ASSUME NEW g PROVE Saturates(D, M, g) <=>
             g = [S \in SUBSET D |-> IF More(S) = S THEN S ELSE g[More(S)]]
  BY DEF Saturates
<1>5. Saturates(D, M, f)
  <2> HIDE DEF M, D
  <2>1. \E g : Saturates(D, M, g)
    BY ONLY <1>3, ClosureExists
  <2>2. \E g : g = [S \in SUBSET D |-> IF More(S) = S THEN S ELSE g[More(S)]]
    BY ONLY <1>4, <2>1
  <2>3. f = [S \in SUBSET D |-> IF More(S) = S THEN S ELSE f[More(S)]]
    BY ONLY <2>2
  <2> HIDE DEF f
  <2> QED
    BY ONLY <1>4, <2>3
<1>6. Roots \in SUBSET D
  BY DEF Roots
<1>7. /\ Roots \subseteq f[Roots] /\ f[Roots] \subseteq D /\ M[f[Roots]] = f[Roots]
      /\ \A C \in SUBSET D : Roots \subseteq C /\ M[C] = C => f[Roots] \subseteq C
  <2>1. IsFiniteSet(D)
    OBVIOUS
  <2> HIDE DEF D, M, f
  <2>2. PICK b : b = f
    OBVIOUS
  <2>3. PICK r : r = Roots
    OBVIOUS
  <2>4. PICK mm : mm = M
    OBVIOUS
  <2>5. PICK dd : dd = D
    OBVIOUS
  <2>6. /\ IsFiniteSet(dd) /\ Spreads(dd, mm) /\ Saturates(dd, mm, b) /\ r \in SUBSET dd
    BY ONLY <1>3, <1>5, <1>6, <2>1, <2>2, <2>3, <2>4, <2>5
  <2>7. /\ r \subseteq b[r] /\ b[r] \subseteq dd /\ mm[b[r]] = b[r]
        /\ \A C \in SUBSET dd : r \subseteq C /\ mm[C] = C => b[r] \subseteq C
    BY ONLY <2>6, ClosureReached
  <2> QED
    BY ONLY <2>2, <2>3, <2>4, <2>5, <2>7
<1>8. Live \subseteq D /\ More(Live) = Live /\ Roots \subseteq Live
  <2> HIDE DEF f
  <2>1. Live \in SUBSET D
    BY ONLY <1>1, <1>7
  <2>2. M[Live] = More(Live)
    BY <2>1
  <2> HIDE DEF M
  <2> QED
    BY ONLY <1>1, <1>7, <2>2
<1>9. \A n \in Live : Children(n) \cap D \subseteq Live
  <2> HIDE DEF D
  <2> SUFFICES ASSUME NEW n \in Live, NEW x \in Children(n) \cap D PROVE x \in Live
    OBVIOUS
  <2>1. x \in UNION {Children(a) : a \in Live}
    OBVIOUS
  <2>2. x \in More(Live)
    BY <2>1 DEF More, D
  <2> QED
    BY ONLY <1>8, <2>2
<1>10. ASSUME NEW C \in SUBSET D, Roots \subseteq C,
              \A n \in C : Children(n) \cap D \subseteq C
       PROVE  Live \subseteq C
  <2>1. More(C) = C
    <3>1. C \subseteq More(C)
      BY <1>2
    <3>2. ASSUME NEW x \in UNION {Children(a) : a \in C}, x \in DOMAIN heap
          PROVE  x \in C
      <4>1. PICK a \in C : x \in Children(a)
        BY <3>2
      <4> QED
        BY <1>10, <3>2, <4>1
    <3>3. (UNION {Children(a) : a \in C}) \cap DOMAIN heap \subseteq C
      BY ONLY <3>2
    <3> QED
      BY ONLY <3>1, <3>3 DEF More
  <2>2. M[C] = C
    BY <2>1
  <2> HIDE DEF M, f, D
  <2> QED
    BY ONLY <1>1, <1>7, <1>10, <2>2
<1> QED
  BY <1>8, <1>9, <1>10

-----------------------------------------------------------------------------
(* The routes of BPTreeInv are the routes of the invariant.                *)

(* The state of a tree that a call may be reading or changing.             *)
InTree(h, at) == Inv /\ HasTree /\ TreeState(h, at)

LEMMA InTreeExists == ASSUME Inv, HasTree PROVE \E h, at : InTree(h, at)
BY DEF Inv, HasTree, InTree

LEMMA SkeletonFacts ==
    ASSUME NEW h, NEW at, InTree(h, at)
    PROVE  /\ Skeleton(heap, h, at) /\ h \in Nat
           /\ \A d \in 0 .. h : \A k \in Int : at[d][k] \in DOMAIN heap
           /\ \A d \in 0 .. h : \A k \in Int : heap[at[d][k]].leaf <=> d = h
           /\ OneLevel(h, at) /\ Convex(h, at) /\ OwnKeys(heap, h, at)
           /\ Served(heap, h, at)
           /\ Finite /\ Sorted /\ TypeOK
<1>1. TreeState(h, at) /\ Inv
  BY DEF InTree
<1>2. Skeleton(heap, h, at)
  BY <1>1 DEF TreeState, Whole, Parted
<1>3. /\ Levels(heap, h, at) /\ LeavesAtBottom(heap, h, at)
      /\ OneLevel(h, at) /\ Convex(h, at) /\ OwnKeys(heap, h, at) /\ Served(heap, h, at)
  BY ONLY <1>2 DEF Skeleton
<1>4. h \in Nat
  BY ONLY <1>3 DEF Levels
<1>5. \A d \in 0 .. h : \A k \in Int : at[d][k] \in DOMAIN heap
  BY ONLY <1>3 DEF Levels
<1>6. \A d \in 0 .. h : \A k \in Int : heap[at[d][k]].leaf <=> d = h
  BY ONLY <1>3 DEF LeavesAtBottom
<1>7. Finite /\ Sorted /\ TypeOK
  BY ONLY <1>1 DEF Inv
<1> QED
  BY ONLY <1>2, <1>3, <1>4, <1>5, <1>6, <1>7

(* A path of the tree passes no node twice: its length is bounded.         *)
LEMMA DepthBound ==
    ASSUME NEW h, NEW at, InTree(h, at)
    PROVE  Cardinality(DOMAIN heap) \in Nat /\ h <= Cardinality(DOMAIN heap)
<1>1. /\ h \in Nat /\ OneLevel(h, at) /\ Finite
      /\ \A d \in 0 .. h : \A k \in Int : at[d][k] \in DOMAIN heap
  BY SkeletonFacts
<1> DEFINE f == [d \in 0 .. h |-> at[d][0]]
<1>2. f \in Injection(0 .. h, DOMAIN heap)
  <2>1. f \in [0 .. h -> DOMAIN heap]
    BY <1>1
  <2>2. \A d, e \in 0 .. h : f[d] = f[e] => d = e
    BY <1>1 DEF OneLevel
  <2> QED
    BY ONLY <2>1, <2>2 DEF Injection, IsInjective
<1>3. Cardinality(0 .. h) <= Cardinality(DOMAIN heap)
  <2> HIDE DEF f
  <2> QED
    BY ONLY <1>1, <1>2, FS_Injection DEF Finite
<1>4. Cardinality(0 .. h) = h + 1
  <2>1. 0 \in Int /\ h \in Int /\ ~(0 > h) /\ h - 0 + 1 = h + 1
    BY <1>1
  <2> QED
    BY ONLY <2>1, FS_Interval
<1>5. Cardinality(DOMAIN heap) \in Nat
  BY ONLY <1>1, FS_CardinalityType DEF Finite
<1> QED
  BY ONLY <1>1, <1>3, <1>4, <1>5

(* find_child_index and a right half in flight lead from level to level.   *)
LEMMA RouteSteps ==
    ASSUME NEW h, NEW at, InTree(h, at), NEW k \in Int
    PROVE  /\ Redirect(root, k) = at[0][k]
           /\ \A d \in 0 .. h - 1 :
                Redirect(Kid(heap, at[d][k], k), k) = at[d + 1][k]
<1>1. TreeState(h, at) /\ Inv /\ HasTree
  BY DEF InTree
<1>2. InFlight <=> ret.split
  <2>1. Control
    BY <1>1 DEF Inv
  <2>2. ret.split => pc \in {"unwind", "overrun"}
    <3>1. NoSplit.split = FALSE
      BY DEF NoSplit
    <3> QED
      BY <2>1, <3>1 DEF Control
  <2> QED
    BY <1>1, <2>2 DEF InFlight, HasTree
<1>3. CASE ~ret.split
  <2>1. Whole(heap, root, h, at)
    BY <1>1, <1>3 DEF TreeState
  <2>2. \A n : Redirect(n, k) = n
    BY <1>2, <1>3 DEF Redirect
  <2> QED
    BY <2>1, <2>2 DEF Whole
<1>4. CASE ret.split
  <2>1. PICK m, p, left, right : m = Len(path) /\ p = ret.promoted /\ left = Returned
                                 /\ right = ret.right
    OBVIOUS
  <2>2. Parted(heap, root, h, at, m, left, p, right)
    BY <1>1, <1>4, <2>1 DEF TreeState
  <2>3. \A n : Redirect(n, k) = IF n = left /\ k >= p THEN right ELSE n
    BY <1>2, <1>4, <2>1 DEF Redirect
  <2>4. OneLevel(h, at) /\ h \in Nat
    BY SkeletonFacts
  <2>5. /\ m \in 0 .. h /\ p \in Int /\ at[m][p - 1] = left
        /\ \A l \in Int : at[0][l] = IF m = 0 /\ l >= p THEN right ELSE root
        /\ \A d \in 0 .. h - 1 : \A l \in Int :
             at[d + 1][l] = IF m = d + 1 /\ Kid(heap, at[d][l], l) = left /\ l >= p
                              THEN right ELSE Kid(heap, at[d][l], l)
    BY ONLY <2>2 DEF Parted
  <2>6. p - 1 \in Int
    BY ONLY <2>5
  <2>7. Redirect(root, k) = at[0][k]
    <3>0. 0 \in 0 .. h
      BY ONLY <2>4
    <3>1. CASE m = 0
      <4>1. at[0][p - 1] = root
        BY ONLY <2>5, <2>6
      <4>2. root = left
        BY ONLY <4>1, <3>1, <2>5
      <4> QED
        BY ONLY <4>2, <3>1, <2>3, <2>5, k \in Int
    <3>2. CASE m # 0
      <4>1. at[0][k] = root
        BY ONLY <2>5, <3>2, k \in Int
      <4>2. root # left
        BY ONLY <4>1, <3>0, <3>2, <2>4, <2>5, <2>6, k \in Int DEF OneLevel
      <4> QED
        BY ONLY <4>1, <4>2, <2>3
    <3> QED
      BY ONLY <3>1, <3>2
  <2>8. ASSUME NEW d \in 0 .. h - 1
        PROVE  Redirect(Kid(heap, at[d][k], k), k) = at[d + 1][k]
    <3>0. d + 1 \in 0 .. h
      BY ONLY <2>4, d \in 0 .. h - 1
    <3>1. at[d + 1][k] = IF m = d + 1 /\ Kid(heap, at[d][k], k) = left /\ k >= p
                           THEN right ELSE Kid(heap, at[d][k], k)
      BY ONLY <2>5, <2>8, k \in Int
    <3>2. ASSUME Kid(heap, at[d][k], k) = left, m # d + 1 PROVE FALSE
      <4>1. at[d + 1][k] = at[m][p - 1]
        BY ONLY <3>1, <3>2, <2>5
      <4> QED
        BY ONLY <4>1, <3>0, <3>2, <2>4, <2>5, <2>6, k \in Int DEF OneLevel
    <3> QED
      BY ONLY <3>1, <3>2, <2>3
  <2> QED
    BY <2>7, <2>8
<1> QED
  BY <1>3, <1>4

(* Route follows the route of the invariant, and stays at its leaf.        *)
Follows(f, N, h, at, k) ==
    f = [d \in 0 .. N |-> IF d <= h THEN at[d][k] ELSE at[h][k]]

LEMMA RouteReached ==
    ASSUME NEW k
    PROVE  Route(k) = CHOOSE f : f =
             [d \in 0 .. Cardinality(DOMAIN heap) |->
                IF d = 0 THEN Redirect(root, k)
                ELSE IF heap[f[d - 1]].leaf THEN f[d - 1]
                ELSE Redirect(heap[f[d - 1]].kids[ChildIndex(heap[f[d - 1]].keys, k)], k)]
BY DEF Route

LEMMA RouteFollows ==
    ASSUME NEW h, NEW at, InTree(h, at), NEW k \in Int
    PROVE  Follows(Route(k), Cardinality(DOMAIN heap), h, at, k)
<1> DEFINE N == Cardinality(DOMAIN heap)
           Way(f, d) == IF d = 0 THEN Redirect(root, k)
                        ELSE IF heap[f[d - 1]].leaf THEN f[d - 1]
                        ELSE Redirect(Kid(heap, f[d - 1], k), k)
           F == [d \in 0 .. N |-> IF d <= h THEN at[d][k] ELSE at[h][k]]
           Taken(f) == f = [d \in 0 .. N |-> Way(f, d)]
<1>1. /\ h \in Nat /\ N \in Nat /\ h <= N
      /\ \A d \in 0 .. h : heap[at[d][k]].leaf <=> d = h
  BY SkeletonFacts, DepthBound
<1>2. /\ Redirect(root, k) = at[0][k]
      /\ \A d \in 0 .. h - 1 : Redirect(Kid(heap, at[d][k], k), k) = at[d + 1][k]
  BY RouteSteps
<1>3. Route(k) = CHOOSE f : Taken(f)
  BY RouteReached DEF Kid, Turn
<1> HIDE DEF N
<1>4. ASSUME NEW f, NEW d \in 0 .. N, d # 0 => f[d - 1] = F[d - 1]
      PROVE  Way(f, d) = F[d]
  <2>1. CASE d = 0
    BY <1>1, <1>2, <2>1
  <2>2. CASE d # 0 /\ d <= h
    <3>1. d - 1 \in 0 .. N /\ d - 1 <= h /\ d - 1 \in 0 .. h - 1 /\ d - 1 \in 0 .. h
          /\ (d - 1) + 1 = d /\ d - 1 # h
      BY ONLY <1>1, <2>2, d \in 0 .. N
    <3>2. f[d - 1] = at[d - 1][k]
      BY <1>4, <2>2, <3>1
    <3>3. ~heap[at[d - 1][k]].leaf
      BY ONLY <1>1, <3>1
    <3>4. Redirect(Kid(heap, at[d - 1][k], k), k) = at[d][k]
      BY ONLY <1>2, <3>1
    <3>5. F[d] = at[d][k]
      BY <2>2
    <3> HIDE DEF F
    <3> QED
      BY ONLY <2>2, <3>2, <3>3, <3>4, <3>5
  <2>3. CASE d > h
    <3>1. d - 1 \in 0 .. N /\ d # 0 /\ ~(d <= h) /\ h \in 0 .. h
          /\ (d - 1 <= h => d - 1 = h)
      BY ONLY <1>1, <2>3, d \in 0 .. N
    <3>2. F[d - 1] = at[h][k]
      BY ONLY <3>1
    <3>3. F[d] = at[h][k]
      BY ONLY <3>1, d \in 0 .. N
    <3>4. heap[at[h][k]].leaf
      BY ONLY <1>1, <3>1
    <3> HIDE DEF F
    <3>5. f[d - 1] = at[h][k]
      BY ONLY <1>4, <3>1, <3>2
    <3> QED
      BY ONLY <3>1, <3>3, <3>4, <3>5
  <2>4. d = 0 \/ (d # 0 /\ d <= h) \/ d > h
    BY ONLY <1>1, d \in 0 .. N
  <2> QED
    BY ONLY <2>1, <2>2, <2>3, <2>4
<1>5. Taken(F)
  <2>1. \A d \in 0 .. N : Way(F, d) = F[d]
    <3> HIDE DEF F, Way
    <3> QED
      BY ONLY <1>4
  <2>2. F = [d \in 0 .. N |-> F[d]]
    OBVIOUS
  <2> HIDE DEF F, Way
  <2> QED
    BY ONLY <2>1, <2>2
<1>6. ASSUME NEW f, Taken(f) PROVE f = F
  <2> DEFINE S == {d \in Nat : d <= N => f[d] = F[d]}
  <2>0. f = [d \in 0 .. N |-> Way(f, d)]
    BY <1>6
  <2> HIDE DEF Taken, F, Way
  <2>1. ASSUME NEW d \in 0 .. N, d # 0 => f[d - 1] = F[d - 1] PROVE f[d] = F[d]
    <3>1. f[d] = Way(f, d)
      BY ONLY <2>0, d \in 0 .. N
    <3>2. Way(f, d) = F[d]
      BY ONLY <1>4, <2>1
    <3> QED
      BY ONLY <3>1, <3>2
  <2>2. 0 \in S
    BY <1>1, <2>1
  <2>3. ASSUME NEW d \in Nat, d \in S PROVE d + 1 \in S
    <3> SUFFICES ASSUME d + 1 <= N PROVE f[d + 1] = F[d + 1]
      OBVIOUS
    <3>1. d + 1 \in 0 .. N /\ d <= N /\ (d + 1) - 1 = d
      BY ONLY <1>1, d \in Nat, d + 1 <= N
    <3>2. f[d] = F[d]
      BY <2>3, <3>1
    <3> QED
      BY ONLY <2>1, <3>1, <3>2
  <2>4. Nat \subseteq S
    <3> HIDE DEF S
    <3> QED
      BY ONLY <2>2, <2>3, ByInduction
  <2>5. \A d \in 0 .. N : f[d] = F[d]
    BY <1>1, <2>4
  <2>6. f = [d \in 0 .. N |-> f[d]]
    BY ONLY <2>0
  <2>7. F = [d \in 0 .. N |-> F[d]]
    BY DEF F
  <2> QED
    BY ONLY <2>5, <2>6, <2>7
<1>7. Route(k) = F
  <2> HIDE DEF F, Taken
  <2> QED
    BY ONLY <1>3, <1>5, <1>6
<1> QED
  BY ONLY <1>7 DEF Follows, N

-----------------------------------------------------------------------------
(* The nodes in use are the nodes on the routes.                           *)

OnTree(h, at, n) == \E d \in 0 .. h : \E k \in Int : at[d][k] = n

(* What is in flight is a node of the tree, and so is the root.            *)
LEMMA RootsOnTree ==
    ASSUME NEW h, NEW at, InTree(h, at), NEW n \in Roots
    PROVE  OnTree(h, at, n)
<1>1. TreeState(h, at) /\ Inv /\ h \in Nat /\ TypeOK
  BY SkeletonFacts DEF InTree
<1>2. n \in {root, ret.right} /\ n \in DOMAIN heap
  BY DEF Roots
<1>3. CASE ~ret.split
  <2>1. n # ret.right
    <3>1. ret = NoSplit
      BY <1>1, <1>3, RetKind
    <3>2. ret.right = NULL
      BY <3>1 DEF NoSplit
    <3>3. NULL \notin DOMAIN heap
      BY <1>1, NullAssumption DEF TypeOK
    <3> QED
      BY <1>2, <3>2, <3>3
  <2>2. \A k \in Int : at[0][k] = root
    BY <1>1, <1>3 DEF TreeState, Whole
  <2>3. 0 \in 0 .. h /\ 0 \in Int
    BY ONLY <1>1
  <2> QED
    BY ONLY <1>2, <2>1, <2>2, <2>3 DEF OnTree
<1>4. CASE ret.split
  <2>1. PICK m, p, left, right : m = Len(path) /\ p = ret.promoted /\ left = Returned
                                 /\ right = ret.right
    OBVIOUS
  <2>2. Parted(heap, root, h, at, m, left, p, right)
    BY <1>1, <1>4, <2>1 DEF TreeState
  <2>3. /\ m \in 0 .. h /\ p \in Int /\ at[m][p] = right
        /\ \A k \in Int : at[0][k] = IF m = 0 /\ k >= p THEN right ELSE root
    BY ONLY <2>2 DEF Parted
  <2>4. 0 \in 0 .. h /\ p - 1 \in Int /\ ~(p - 1 >= p)
    BY ONLY <1>1, <2>3
  <2>5. at[0][p - 1] = root
    BY ONLY <2>3, <2>4
  <2> QED
    BY ONLY <1>2, <2>1, <2>3, <2>4, <2>5 DEF OnTree
<1> QED
  BY <1>3, <1>4

LEMMA KidsOnTree ==
    ASSUME NEW h, NEW at, InTree(h, at), NEW n, OnTree(h, at, n),
           NEW c \in Children(n)
    PROVE  OnTree(h, at, c)
<1>1. PICK d \in 0 .. h, k \in Int : at[d][k] = n
  BY DEF OnTree
<1>2. PICK i \in 1 .. Len(heap[n].kids) : c = heap[n].kids[i]
  BY DEF Children
<1>3. /\ h \in Nat /\ Served(heap, h, at) /\ TypeOK
      /\ at[d][k] \in DOMAIN heap /\ (heap[at[d][k]].leaf <=> d = h)
  BY SkeletonFacts
<1>4. d \in 0 .. h - 1
  <2>1. Shaped(heap[n])
    BY <1>1, <1>3 DEF TypeOK
  <2>2. d # h
    <3> SUFFICES ASSUME d = h PROVE FALSE
      OBVIOUS
    <3>1. heap[n].leaf
      BY <1>1, <1>3
    <3>2. Len(heap[n].kids) = 0
      BY <2>1, <3>1, NodeFacts
    <3> QED
      BY ONLY <1>2, <3>2
  <2> QED
    BY ONLY <1>3, <2>2, d \in 0 .. h
<1>5. PICK l \in Int : at[d][l] = at[d][k] /\ Turn(heap, at[d][k], l) = i
  <2>1. i \in 1 .. Len(heap[at[d][k]].kids)
    BY ONLY <1>1, <1>2
  <2>2. Served(heap, h, at)
    BY <1>3
  <2> QED
    BY ONLY <1>4, <2>1, <2>2, k \in Int DEF Served
<1>6. Kid(heap, at[d][l], l) = c
  BY <1>1, <1>2, <1>5 DEF Kid
<1>7. TreeState(h, at)
  BY DEF InTree
<1>8. d + 1 \in 0 .. h
  BY ONLY <1>3, <1>4
<1>9. CASE ~ret.split
  <2>1. at[d + 1][l] = c
    BY <1>4, <1>6, <1>7, <1>9 DEF TreeState, Whole
  <2> QED
    BY ONLY <1>8, <2>1, l \in Int DEF OnTree
<1>10. CASE ret.split
  <2>1. PICK m, p, left, right : m = Len(path) /\ p = ret.promoted /\ left = Returned
                                 /\ right = ret.right
    OBVIOUS
  <2>2. Parted(heap, root, h, at, m, left, p, right)
    BY <1>7, <1>10, <2>1 DEF TreeState
  <2>3. /\ m \in 0 .. h /\ p \in Int /\ at[m][p - 1] = left
        /\ \A e \in 0 .. h - 1 : \A x \in Int :
             at[e + 1][x] = IF m = e + 1 /\ Kid(heap, at[e][x], x) = left /\ x >= p
                              THEN right ELSE Kid(heap, at[e][x], x)
    BY ONLY <2>2 DEF Parted
  <2>4. p - 1 \in Int
    BY ONLY <2>3
  <2>5. at[d + 1][l] = c \/ c = left
    BY ONLY <1>4, <1>6, <2>3, l \in Int
  <2> QED
    BY ONLY <1>8, <2>3, <2>4, <2>5, l \in Int DEF OnTree
<1> QED
  BY <1>9, <1>10

LEMMA LiveIsTree ==
    ASSUME NEW h, NEW at, InTree(h, at), NEW n
    PROVE  n \in Live <=> OnTree(h, at, n)
<1>1. /\ Finite /\ TypeOK /\ h \in Nat
      /\ \A d \in 0 .. h : \A k \in Int : at[d][k] \in DOMAIN heap
      /\ \A d \in 0 .. h : \A k \in Int : heap[at[d][k]].leaf <=> d = h
  BY SkeletonFacts
<1>2. /\ Roots \subseteq Live
      /\ \A a \in Live : Children(a) \cap DOMAIN heap \subseteq Live
      /\ \A C \in SUBSET DOMAIN heap :
           Roots \subseteq C /\ (\A a \in C : Children(a) \cap DOMAIN heap \subseteq C)
             => Live \subseteq C
  BY <1>1, LiveLeast DEF Finite
<1>3. ASSUME n \in Live PROVE OnTree(h, at, n)
  <2> DEFINE C == {a \in DOMAIN heap : OnTree(h, at, a)}
  <2>1. Roots \subseteq C
    BY RootsOnTree DEF Roots
  <2>2. \A a \in C : Children(a) \cap DOMAIN heap \subseteq C
    BY KidsOnTree
  <2>3. Live \subseteq C
    BY <1>2, <2>1, <2>2
  <2> QED
    BY <1>3, <2>3
<1>4. ASSUME NEW a, NEW k \in Int, Redirect(a, k) \in DOMAIN heap,
             a \in DOMAIN heap => a \in Live
      PROVE  Redirect(a, k) \in Live
  <2>1. Redirect(a, k) = a \/ Redirect(a, k) = ret.right
    BY DEF Redirect
  <2> QED
    BY <1>2, <1>4, <2>1 DEF Roots
<1>5. \A k \in Int : at[0][k] \in Live
  <2> SUFFICES ASSUME NEW k \in Int PROVE at[0][k] \in Live
    OBVIOUS
  <2>1. Redirect(root, k) = at[0][k]
    BY RouteSteps
  <2>2. at[0][k] \in DOMAIN heap
    <3>1. 0 \in 0 .. h
      BY ONLY <1>1
    <3> QED
      BY <1>1, <3>1
  <2>3. root \in DOMAIN heap => root \in Live
    BY <1>2 DEF Roots
  <2> QED
    BY <1>4, <2>1, <2>2, <2>3
<1>6. ASSUME NEW d \in 0 .. h - 1, NEW k \in Int, at[d][k] \in Live
      PROVE  at[d + 1][k] \in Live
  <2>1. d \in 0 .. h /\ d + 1 \in 0 .. h /\ d # h
    BY ONLY <1>1, d \in 0 .. h - 1
  <2>2. Redirect(Kid(heap, at[d][k], k), k) = at[d + 1][k]
    BY RouteSteps
  <2>3. PICK a : a = at[d][k]
    OBVIOUS
  <2>4. a \in DOMAIN heap /\ Shaped(heap[a]) /\ ~heap[a].leaf
    BY <1>1, <2>1, <2>3 DEF TypeOK
  <2>5. heap[a].keys \in Seq(Keys) /\ Len(heap[a].kids) = Len(heap[a].keys) + 1
    BY <2>4, NodeFacts
  <2>6. Turn(heap, a, k) \in 1 .. Len(heap[a].kids)
    <3>1. PICK g : g = heap
      OBVIOUS
    <3>2. g[a].keys \in Seq(Keys)
      BY ONLY <2>5, <3>1
    <3>3. Turn(g, a, k) \in 1 .. Len(g[a].keys) + 1
      BY ONLY <3>2, k \in Int, TurnSlot
    <3> QED
      BY ONLY <2>5, <3>1, <3>3
  <2>7. Kid(heap, a, k) \in Children(a)
    BY ONLY <2>6 DEF Kid, Children
  <2>8. a \in Live
    BY <1>6, <2>3
  <2>9. Kid(heap, a, k) \in DOMAIN heap => Kid(heap, a, k) \in Live
    BY ONLY <1>2, <2>7, <2>8
  <2>10. at[d + 1][k] \in DOMAIN heap
    BY ONLY <1>1, <2>1, k \in Int
  <2>11. Redirect(Kid(heap, a, k), k) = at[d + 1][k]
    BY ONLY <2>2, <2>3
  <2> QED
    BY ONLY <1>4, <2>9, <2>10, <2>11, k \in Int
<1>7. ASSUME OnTree(h, at, n) PROVE n \in Live
  <2>1. PICK d \in 0 .. h, k \in Int : at[d][k] = n
    BY <1>7 DEF OnTree
  <2> DEFINE S == {e \in Nat : e <= h => at[e][k] \in Live}
  <2>2. 0 \in S
    BY <1>5
  <2>3. ASSUME NEW e \in Nat, e \in S PROVE e + 1 \in S
    <3> SUFFICES ASSUME e + 1 <= h PROVE at[e + 1][k] \in Live
      OBVIOUS
    <3>1. e \in 0 .. h - 1 /\ e <= h
      BY ONLY <1>1, e \in Nat, e + 1 <= h
    <3>2. at[e][k] \in Live
      BY <2>3, <3>1
    <3> QED
      BY <1>6, <3>1, <3>2
  <2>4. Nat \subseteq S
    <3> HIDE DEF S
    <3> QED
      BY ONLY <2>2, <2>3, ByInduction
  <2>5. d \in Nat /\ d <= h
    BY ONLY <1>1, <2>1
  <2> QED
    BY <2>1, <2>4, <2>5
<1> QED
  BY <1>3, <1>7

-----------------------------------------------------------------------------
(* The properties of BPTreeInv.                                            *)

LEMMA InvSearchTree == ASSUME Inv PROVE SearchTree
<1> SUFFICES ASSUME HasTree
             PROVE  /\ \A n \in Live : \A i \in 1 .. Len(heap[n].keys) :
                         /\ OnRoute(n, heap[n].keys[i])
                         /\ i > 1 => heap[n].keys[i - 1] < heap[n].keys[i]
                    /\ \A d \in 0 .. Cardinality(DOMAIN heap) :
                         \/ \A k \in Keys : ReachesLeaf(k, d)
                         \/ \A k \in Keys : ~ReachesLeaf(k, d)
  BY DEF SearchTree
<1>1. PICK h, at : InTree(h, at)
  BY InTreeExists
<1> DEFINE N == Cardinality(DOMAIN heap)
<1>2. /\ OwnKeys(heap, h, at) /\ Sorted /\ TypeOK /\ h \in Nat
      /\ \A d \in 0 .. h : \A k \in Int : at[d][k] \in DOMAIN heap
      /\ \A d \in 0 .. h : \A k \in Int : heap[at[d][k]].leaf <=> d = h
  BY <1>1, SkeletonFacts
<1>3. N \in Nat /\ h <= N
  BY <1>1, DepthBound
<1>4. \A k \in Int : \A d \in 0 .. N :
        Route(k)[d] = IF d <= h THEN at[d][k] ELSE at[h][k]
  <2> SUFFICES ASSUME NEW k \in Int
               PROVE  \A d \in 0 .. N :
                        Route(k)[d] = IF d <= h THEN at[d][k] ELSE at[h][k]
    OBVIOUS
  <2>1. Follows(Route(k), N, h, at, k)
    BY <1>1, RouteFollows
  <2> HIDE DEF N
  <2> QED
    BY ONLY <2>1 DEF Follows
<1>5. ASSUME NEW n \in Live, NEW i \in 1 .. Len(heap[n].keys)
      PROVE  /\ OnRoute(n, heap[n].keys[i])
             /\ i > 1 => heap[n].keys[i - 1] < heap[n].keys[i]
  <2>1. PICK d \in 0 .. h, k \in Int : at[d][k] = n
    BY <1>1, LiveIsTree DEF OnTree
  <2>2. n \in DOMAIN heap /\ Shaped(heap[n])
    BY <1>2, <2>1 DEF TypeOK
  <2>3. heap[n].keys \in Seq(Keys)
    <3>1. PICK a : a = heap[n]
      OBVIOUS
    <3>2. Shaped(a)
      BY ONLY <2>2, <3>1
    <3>3. a.keys \in Seq(Keys)
      BY ONLY <3>2, NodeFacts
    <3> QED
      BY ONLY <3>1, <3>3
  <2>4. heap[n].keys[i] \in Int
    <3>1. PICK ks : ks = heap[n].keys
      OBVIOUS
    <3>2. ks \in Seq(Keys) /\ i \in 1 .. Len(ks)
      BY ONLY <2>3, <3>1, i \in 1 .. Len(heap[n].keys)
    <3>3. ks[i] \in Keys
      BY ONLY <3>2
    <3> QED
      BY ONLY <3>1, <3>3, KeysAssumption
  <2>5. OwnKey(heap, n, heap[n].keys[i])
    BY ONLY i \in 1 .. Len(heap[n].keys) DEF OwnKey
  <2>6. at[d][heap[n].keys[i]] = n
    BY ONLY <1>2, <2>1, <2>4, <2>5 DEF OwnKeys
  <2>7. d \in 0 .. N /\ d <= h
    BY ONLY <1>2, <1>3, <2>1
  <2>8. Route(heap[n].keys[i])[d] = n
    BY ONLY <1>4, <2>4, <2>6, <2>7
  <2>9. OnRoute(n, heap[n].keys[i])
    BY ONLY <2>7, <2>8 DEF OnRoute
  <2>10. ASSUME i > 1 PROVE heap[n].keys[i - 1] < heap[n].keys[i]
    <3>1. i - 1 \in 1 .. Len(heap[n].keys) /\ i - 1 < i
      BY ONLY <2>3, <2>10, i \in 1 .. Len(heap[n].keys)
    <3>2. Ascends(heap[n].keys, Len(heap[n].keys))
      BY ONLY <1>2, <2>2 DEF Sorted
    <3> QED
      BY ONLY <3>1, <3>2, i \in 1 .. Len(heap[n].keys) DEF Ascends
  <2> QED
    BY ONLY <2>9, <2>10
<1>6. ASSUME NEW d \in 0 .. N, NEW k \in Keys, NEW l \in Keys, ReachesLeaf(k, d)
      PROVE  ReachesLeaf(l, d)
  <2>1. k \in Int /\ l \in Int
    BY KeysAssumption
  <2>2. PICK e : e = IF d <= h THEN d ELSE h
    OBVIOUS
  <2>3. e \in 0 .. h
    BY ONLY <1>2, <1>3, <2>2, d \in 0 .. N
  <2>4. Route(k)[d] = at[e][k] /\ Route(l)[d] = at[e][l]
    BY ONLY <1>4, <2>1, <2>2, d \in 0 .. N
  <2>5. heap[at[e][k]].leaf
    BY ONLY <1>6, <2>4 DEF ReachesLeaf
  <2>6. heap[at[e][l]].leaf
    BY ONLY <1>2, <2>1, <2>3, <2>5
  <2> QED
    BY ONLY <2>4, <2>6 DEF ReachesLeaf
<1>7. ASSUME NEW d \in 0 .. N
      PROVE  \/ \A k \in Keys : ReachesLeaf(k, d)
             \/ \A k \in Keys : ~ReachesLeaf(k, d)
  <2> SUFFICES ASSUME NEW k \in Keys, ReachesLeaf(k, d)
               PROVE  \A l \in Keys : ReachesLeaf(l, d)
    OBVIOUS
  <2> QED
    BY <1>6
<1> QED
  BY <1>5, <1>7

(* The nodes form a search tree at every step of every call, and after     *)
(* every failure of malloc.                                                *)
THEOREM SearchTreeAlways == Spec => []SearchTree
<1>1. Inv => SearchTree
  BY InvSearchTree
<1> QED
  BY <1>1, TreeInvariant, PTL

(* The call that is under way works on nodes of its own.                   *)
LEMMA PathInTree ==
    ASSUME NEW h, NEW at, InTree(h, at), path # << >> \/ pc = "descend"
    PROVE  /\ Len(path) \in 0 .. h /\ key \in Int
           /\ \A j \in 1 .. Len(path) : path[j][1] = at[j - 1][key]
<1>1. TreeState(h, at) /\ Inv /\ h \in Nat /\ TypeOK /\ Control /\ pc \notin {"free", "overrun"}
  BY SkeletonFacts DEF InTree, Inv, HasTree
<1>2. pc \in {"descend", "unwind"}
  BY <1>1 DEF Control, TypeOK
<1>3. key \in Int
  BY <1>1, <1>2, KeysAssumption DEF Control
<1>4. OnPath(h, at) /\ Len(path) \in Nat
  BY <1>1, StackFacts DEF TreeState
<1>5. \A j \in 1 .. Len(path) : path[j][1] = at[j - 1][key]
  BY <1>4 DEF OnPath
<1>6. Len(path) \in 0 .. h
  <2>1. Len(path) <= h
    BY ONLY <1>4 DEF OnPath
  <2> QED
    BY ONLY <1>1, <1>4, <2>1
<1> QED
  BY ONLY <1>3, <1>5, <1>6

(* The nodes on the C stack of bptree_free are still there.                *)
LEMMA FreedPath ==
    ASSUME NEW g, NEW h, NEW at, NEW w, FreeState(g, h, at, w), TypeOK
    PROVE  \A i \in 1 .. Len(path) :
             /\ path[i][1] \in DOMAIN heap
             /\ \A j \in 1 .. i - 1 : path[i][1] # path[j][1]
<1>1. /\ h \in Nat /\ w \in Int /\ OneLevel(h, at)
      /\ \A d \in 0 .. h : \A k \in Int : at[d][k] \in DOMAIN g
      /\ \A a \in DOMAIN g : Shaped(g[a])
  BY TreeFacts
<1>2. /\ Len(path) <= h + 1 /\ OnStack(path, g, at, w)
      /\ \A d \in 0 .. h : \A k \in Int :
           at[d][k] \in DOMAIN heap <=> ~Gone(path, g, at, d, k)
  BY DEF FreeState
<1>3. Len(path) \in Nat
  BY StackFacts
<1> SUFFICES ASSUME NEW i \in 1 .. Len(path)
             PROVE  /\ path[i][1] \in DOMAIN heap
                    /\ \A j \in 1 .. i - 1 : path[i][1] # path[j][1]
  OBVIOUS
<1>4. i - 1 \in 0 .. h /\ i \in Nat
  BY ONLY <1>1, <1>2, <1>3, i \in 1 .. Len(path)
<1>5. \A j \in 1 .. Len(path) :
        /\ path[j][1] = at[j - 1][w]
        /\ j < Len(path) => path[j][2] = Turn(g, at[j - 1][w], w) + 1
  BY ONLY <1>2 DEF OnStack
<1>6. ~Gone(path, g, at, i - 1, w)
  <2> SUFFICES ASSUME NEW j \in 1 .. Len(path), j <= i - 1,
                      Turn(g, at[j - 1][w], w) < FirstKept(path, j)
               PROVE  FALSE
    <3>1. path # << >>
      <4>1. Len(<< >>) = 0
        BY ONLY EmptyStack
      <4> QED
        BY ONLY <4>1, i \in 1 .. Len(path)
    <3> QED
      BY <3>1 DEF Gone
  <2>1. j < Len(path) /\ j # Len(path) /\ j - 1 \in 0 .. h
    BY ONLY <1>1, <1>2, <1>3, i \in 1 .. Len(path), j \in 1 .. Len(path), j <= i - 1
  <2>2. path[j][2] = Turn(g, at[j - 1][w], w) + 1
    BY ONLY <1>5, <2>1, j \in 1 .. Len(path)
  <2>3. FirstKept(path, j) = path[j][2] - 1
    BY ONLY <2>1 DEF FirstKept
  <2>4. Turn(g, at[j - 1][w], w) \in Nat
    <3>1. PICK e : e = j - 1
      OBVIOUS
    <3>2. e \in 0 .. h
      BY ONLY <2>1, <3>1
    <3>3. Turn(g, at[e][w], w) \in Nat
      BY <1>1, <3>2, TurnRange
    <3> QED
      BY ONLY <3>1, <3>3
  <2> QED
    BY ONLY <2>2, <2>3, <2>4, Turn(g, at[j - 1][w], w) < FirstKept(path, j)
<1>7. path[i][1] \in DOMAIN heap
  <2>1. at[i - 1][w] \in DOMAIN heap <=> ~Gone(path, g, at, i - 1, w)
    BY ONLY <1>1, <1>2, <1>4
  <2>2. path[i][1] = at[i - 1][w]
    BY ONLY <1>5, i \in 1 .. Len(path)
  <2>3. at[i - 1][w] \in DOMAIN heap
    BY ONLY <1>6, <2>1
  <2> QED
    BY ONLY <2>2, <2>3
<1>8. ASSUME NEW j \in 1 .. i - 1 PROVE path[i][1] # path[j][1]
  <2>1. j \in 1 .. Len(path) /\ j - 1 \in 0 .. h /\ j - 1 # i - 1
    BY ONLY <1>1, <1>3, <1>4, i \in 1 .. Len(path), j \in 1 .. i - 1
  <2> QED
    BY ONLY <1>1, <1>4, <1>5, <2>1, i \in 1 .. Len(path) DEF OneLevel
<1> QED
  BY ONLY <1>7, <1>8

LEMMA InvNodesOwnedOnce == ASSUME Inv PROVE NodesOwnedOnce
<1>0. TypeOK /\ Control /\ Finite /\ OverfullByFailure
  BY DEF Inv
<1>1. ASSUME failures = 0, pc # "free" PROVE DOMAIN heap = Live
  <2>1. Live \subseteq DOMAIN heap
    BY <1>0, LiveLeast DEF Finite
  <2>2. CASE root = NULL
    <3>1. DOMAIN heap = {}
      BY <1>1, <2>2 DEF Inv
    <3> QED
      BY ONLY <2>1, <3>1
  <2>3. CASE root # NULL
    <3>1. pc # "overrun"
      <4>1. pc = "overrun" => failures > 0
        BY <1>0 DEF OverfullByFailure
      <4> QED
        BY ONLY <4>1, <1>1
    <3>2. HasTree
      BY <1>1, <2>3, <3>1 DEF HasTree
    <3>3. PICK h, at : InTree(h, at)
      BY <3>2, InTreeExists
    <3>4. Covers(heap, h, at)
      BY <1>1, <3>3 DEF InTree, TreeState
    <3>5. \A a \in DOMAIN heap : OnTree(h, at, a)
      BY <3>4 DEF Covers, OnTree
    <3>6. \A a \in DOMAIN heap : a \in Live
      BY <3>3, <3>5, LiveIsTree
    <3> QED
      BY ONLY <2>1, <3>6
  <2> QED
    BY <2>2, <2>3
<1>2. ASSUME failures = 0, pc = "free", path = << >> PROVE DOMAIN heap = {}
  <2>1. PICK g, h, at, w : FreeState(g, h, at, w)
    BY <1>2 DEF Inv
  <2>2. \A d \in 0 .. h : \A k \in Int : at[d][k] \notin DOMAIN heap
    BY <1>2, <2>1 DEF FreeState, Gone
  <2> SUFFICES ASSUME NEW a \in DOMAIN heap PROVE FALSE
    OBVIOUS
  <2>3. a \in DOMAIN g /\ Covers(g, h, at)
    BY <1>2, <2>1 DEF FreeState
  <2>4. PICK d \in 0 .. h : \E k \in Int : at[d][k] = a
    BY <2>3 DEF Covers
  <2> QED
    BY <2>2, <2>4
<1>3. ASSUME pc \in {"descend", "search"} PROVE cur \in DOMAIN heap
  <2>1. HasTree
    BY <1>0, <1>3 DEF Control, HasTree
  <2>2. PICK h, at : InTree(h, at)
    BY <2>1, InTreeExists
  <2>3. TreeState(h, at) /\ \A d \in 0 .. h : \A k \in Int : at[d][k] \in DOMAIN heap
    BY <2>2, SkeletonFacts DEF InTree
  <2>4. CASE pc = "descend"
    <3>1. Len(path) \in 0 .. h /\ key \in Int
      BY <2>2, <2>4, PathInTree
    <3>2. cur = at[Len(path)][key]
      BY <2>3, <2>4 DEF TreeState
    <3> QED
      BY ONLY <2>3, <3>1, <3>2
  <2>5. CASE pc = "search"
    <3>1. key \in Int
      BY <1>0, <2>5, KeysAssumption DEF Control
    <3>2. \E d \in 0 .. h : cur = at[d][key]
      BY <2>3, <2>5 DEF TreeState
    <3> QED
      BY ONLY <2>3, <3>1, <3>2
  <2> QED
    BY ONLY <1>3, <2>4, <2>5
<1>4. \A i \in 1 .. Len(path) :
        /\ path[i][1] \in DOMAIN heap
        /\ \A j \in 1 .. i - 1 : path[i][1] # path[j][1]
  <2>1. CASE pc = "free"
    <3>1. PICK g, h, at, w : FreeState(g, h, at, w)
      BY <2>1 DEF Inv
    <3> QED
      BY <1>0, <3>1, FreedPath
  <2>2. CASE pc # "free"
    <3> SUFFICES ASSUME NEW i \in 1 .. Len(path)
                 PROVE  /\ path[i][1] \in DOMAIN heap
                        /\ \A j \in 1 .. i - 1 : path[i][1] # path[j][1]
      OBVIOUS
    <3>1. path # << >>
      <4>1. Len(<< >>) = 0
        BY ONLY EmptyStack
      <4> QED
        BY ONLY <4>1, i \in 1 .. Len(path)
    <3>2. root # NULL /\ key \in Int
      BY <1>0, <2>2, <3>1, KeysAssumption DEF Control, TypeOK
    <3>3. PICK h, at : TreeState(h, at)
      BY <2>2, <3>2 DEF Inv
    <3>4. Skeleton(heap, h, at) /\ OnPath(h, at)
      BY <3>3 DEF TreeState, Whole, Parted
    <3>5. /\ OneLevel(h, at) /\ h \in Nat
          /\ \A d \in 0 .. h : \A k \in Int : at[d][k] \in DOMAIN heap
      BY ONLY <3>4 DEF Skeleton, Levels
    <3>6. Len(path) \in Nat
      BY <1>0, StackFacts
    <3>7. Len(path) <= h /\ \A j \in 1 .. Len(path) : path[j][1] = at[j - 1][key]
      BY <3>4 DEF OnPath
    <3>8. i - 1 \in 0 .. h
      BY ONLY <3>5, <3>6, <3>7, i \in 1 .. Len(path)
    <3>9. path[i][1] \in DOMAIN heap
      BY ONLY <3>2, <3>5, <3>7, <3>8, i \in 1 .. Len(path)
    <3>10. ASSUME NEW j \in 1 .. i - 1 PROVE path[i][1] # path[j][1]
      <4>1. j \in 1 .. Len(path) /\ j - 1 \in 0 .. h /\ j - 1 # i - 1
        BY ONLY <3>5, <3>6, <3>7, i \in 1 .. Len(path), j \in 1 .. i - 1
      <4> QED
        BY ONLY <3>2, <3>5, <3>7, <3>8, <4>1, i \in 1 .. Len(path) DEF OneLevel
    <3> QED
      BY ONLY <3>9, <3>10
  <2> QED
    BY <2>1, <2>2
<1> QED
  BY <1>1, <1>2, <1>3, <1>4 DEF NodesOwnedOnce

(* Without a failure of malloc no node is leaked and bptree_free leaves    *)
(* none behind; no call reads a node that has been freed, and no two       *)
(* activations of free_bptree_node hold the same node.                     *)
THEOREM NodesAlwaysOwned == Spec => []NodesOwnedOnce
<1>1. Inv => NodesOwnedOnce
  BY InvNodesOwnedOnce
<1> QED
  BY <1>1, TreeInvariant, PTL

LEMMA InvBalanced == ASSUME Inv PROVE Balanced
<1> SUFFICES ASSUME pc = "idle", root # NULL, failures = 0, NEW n \in Live
             PROVE  /\ Len(heap[n].keys) <= MaxKeys
                    /\ n # root => Len(heap[n].keys) >=
                                     IF heap[n].leaf THEN Order \div 2
                                     ELSE (Order - 1) \div 2
  BY DEF Balanced
<1>1. TypeOK /\ Fill /\ Finite /\ OverfullByFailure
  BY DEF Inv
<1>2. n \in DOMAIN heap
  BY <1>1, LiveLeast DEF Finite
<1>3. ASSUME n # root PROVE Filled(heap[n])
  BY <1>1, <1>2, <1>3 DEF Fill
<1>4. Len(heap[n].keys) <= MaxKeys
  <2> DEFINE overfull == {a \in DOMAIN heap : Len(heap[a].keys) > MaxKeys}
  <2>1. Cardinality(overfull) <= 0
    BY <1>1 DEF OverfullByFailure
  <2>2. overfull = {}
    <3>1. overfull \in SUBSET DOMAIN heap
      OBVIOUS
    <3> HIDE DEF overfull
    <3>2. IsFiniteSet(overfull)
      BY ONLY <1>1, <3>1, FS_Subset DEF Finite
    <3>3. Cardinality(overfull) \in Nat
      BY ONLY <3>2, FS_CardinalityType
    <3>4. Cardinality(overfull) = 0
      BY ONLY <2>1, <3>3
    <3> QED
      BY ONLY <3>2, <3>4, FS_EmptySet
  <2>3. ~(Len(heap[n].keys) > MaxKeys)
    BY <1>2, <2>2
  <2>4. Len(heap[n].keys) \in Nat /\ MaxKeys \in Int
    <3>1. Len(heap[n].keys) \in 1 .. Order
      BY <1>1, <1>2 DEF TypeOK, Shaped
    <3> QED
      BY ONLY <3>1, OrderAssumption DEF MaxKeys
  <2> QED
    BY ONLY <2>3, <2>4
<1> QED
  BY <1>3, <1>4 DEF Filled

(* At rest, and as long as malloc has not failed, every node but the root  *)
(* is filled as a split leaves it, and none holds more than                *)
(* BPTREE_MAX_KEYS keys.                                                   *)
THEOREM BalancedWithoutFailure == Spec => []Balanced
<1>1. Inv => Balanced
  BY InvBalanced
<1> QED
  BY <1>1, TreeInvariant, PTL

-----------------------------------------------------------------------------
(* The chain of leaves.                                                    *)

(* The leaf of k and the leaf that its next pointer leads to.              *)
LEMMA NextLeaf ==
    ASSUME NEW h, NEW at, InTree(h, at), failures = 0, NEW l \in Int,
           at[h][l + 1] # at[h][l], NEW x \in Int, at[h][x] = at[h][l]
    PROVE  /\ heap[at[h][l]].next = at[h][l + 1] /\ x <= l
           /\ \A y \in Int : at[h][y] = at[h][l + 1] => y > l
<1>1. Chained(heap, h, at) /\ Convex(h, at) /\ h \in 0 .. h
  <2>1. h \in Nat /\ Convex(h, at)
    BY SkeletonFacts
  <2>2. h \in 0 .. h
    BY ONLY <2>1
  <2> QED
    BY <2>1, <2>2 DEF InTree, TreeState
<1>2. heap[at[h][l]].next = at[h][l + 1]
  BY ONLY <1>1, l \in Int, at[h][l + 1] # at[h][l] DEF Chained
<1>3. x <= l
  <2> SUFFICES ASSUME ~(x <= l) PROVE FALSE
    OBVIOUS
  <2>1. l <= l + 1 /\ l + 1 <= x /\ l + 1 \in Int
    BY ONLY l \in Int, x \in Int, ~(x <= l)
  <2>2. at[h][l + 1] = at[h][l]
    BY ONLY <1>1, <2>1, l \in Int, x \in Int, at[h][x] = at[h][l] DEF Convex
  <2> QED
    BY ONLY <2>2, at[h][l + 1] # at[h][l]
<1>4. ASSUME NEW y \in Int, at[h][y] = at[h][l + 1] PROVE y > l
  <2> SUFFICES ASSUME ~(y > l) PROVE FALSE
    OBVIOUS
  <2>1. y <= l /\ l <= l + 1 /\ l + 1 \in Int
    BY ONLY l \in Int, y \in Int, ~(y > l)
  <2>2. at[h][l] = at[h][y]
    BY ONLY <1>1, <1>4, <2>1, l \in Int, y \in Int DEF Convex
  <2> QED
    BY ONLY <1>4, <2>2, at[h][l + 1] # at[h][l]
<1> QED
  BY ONLY <1>2, <1>3, <1>4

(* From the leaf of x on to another leaf there is a last id of the former. *)
Changes(r, x, y) == x \in Int /\ y \in Int /\ x < y /\ r[y] # r[x]

LEMMA LastId ==
    ASSUME NEW r, NEW x, NEW y, Changes(r, x, y)
    PROVE  \E l \in Int : r[l] = r[x] /\ r[l + 1] # r[l]
<1> USE DEF Changes
<1> DEFINE S == {n \in Nat : r[x + n] # r[x]}
<1>1. S \in SUBSET Nat /\ S # {}
  <2>1. y - x \in Nat /\ x + (y - x) = y
    OBVIOUS
  <2>2. r[x + (y - x)] # r[x]
    BY ONLY <2>1, Changes(r, x, y)
  <2>3. y - x \in S
    BY ONLY <2>1, <2>2
  <2> QED
    BY <2>3
<1>2. PICK m \in S : \A n \in S : m <= n
  <2> HIDE DEF S
  <2> QED
    BY ONLY <1>1, LeastNatural
<1>3. m \in Nat /\ r[x + m] # r[x]
  BY <1>2
<1>4. m # 0
  <2>1. x + 0 = x
    OBVIOUS
  <2> QED
    BY ONLY <1>3, <2>1
<1>5. m - 1 \in Nat /\ ~(m <= m - 1) /\ x + (m - 1) \in Int
      /\ (x + (m - 1)) + 1 = x + m
  BY ONLY <1>3, <1>4, Changes(r, x, y)
<1>6. r[x + (m - 1)] = r[x]
  BY <1>2, <1>5
<1> QED
  BY ONLY <1>3, <1>5, <1>6

LEMMA InvLeafChain == ASSUME Inv PROVE LeafChain
<1> DEFINE leaves == {n \in Live : heap[n].leaf}
           low(n) == heap[n].keys[1]
           up(n) == {m \in leaves : low(m) > low(n)}
<1> SUFFICES ASSUME HasTree, failures = 0, NEW n \in leaves
             PROVE  IF up(n) = {}
                      THEN heap[n].next = NULL
                      ELSE /\ heap[n].next \in up(n)
                           /\ \A m \in up(n) : low(heap[n].next) <= low(m)
  BY DEF LeafChain
<1>1. PICK h, at : InTree(h, at)
  BY InTreeExists
<1>2. /\ OwnKeys(heap, h, at) /\ Convex(h, at) /\ TypeOK /\ h \in Nat
      /\ \A d \in 0 .. h : \A k \in Int : at[d][k] \in DOMAIN heap
      /\ \A d \in 0 .. h : \A k \in Int : heap[at[d][k]].leaf <=> d = h
  BY <1>1, SkeletonFacts
<1>3. h \in 0 .. h
  BY ONLY <1>2
<1>4. \A k \in Int : at[h][k] \in leaves
  <2>1. \A k \in Int : at[h][k] \in Live
    BY <1>1, <1>3, LiveIsTree DEF OnTree
  <2> QED
    BY <1>2, <1>3, <2>1
<1>5. ASSUME NEW m \in leaves PROVE low(m) \in Int /\ at[h][low(m)] = m
  <2>1. PICK d \in 0 .. h, k \in Int : at[d][k] = m
    BY <1>1, LiveIsTree DEF OnTree
  <2>2. d = h /\ m \in DOMAIN heap
    BY <1>2, <2>1
  <2>3. Shaped(heap[m])
    BY <1>2, <2>2 DEF TypeOK
  <2>4. PICK a : a = heap[m]
    OBVIOUS
  <2>5. a.keys \in Seq(Keys) /\ Len(a.keys) \in 1 .. Order
    BY ONLY <2>3, <2>4, NodeFacts
  <2>6. 1 \in 1 .. Len(a.keys) /\ a.keys[1] \in Keys
    BY ONLY <2>5, OrderAssumption
  <2>7. low(m) \in Int
    BY <2>4, <2>6, KeysAssumption
  <2>8. OwnKey(heap, m, low(m))
    BY <2>4, <2>6 DEF OwnKey
  <2>9. at[h][low(m)] = m
    <3> HIDE DEF low
    <3> QED
      BY ONLY <1>2, <1>3, <2>1, <2>2, <2>7, <2>8 DEF OwnKeys
  <2> QED
    BY ONLY <2>7, <2>9
<1>6. ASSUME NEW l \in Int, at[h][l] = n, at[h][l + 1] # n
      PROVE  /\ heap[n].next \in up(n)
             /\ \A m \in up(n) : low(heap[n].next) <= low(m)
  <2> DEFINE b == at[h][l + 1]
  <2>1. low(n) \in Int /\ at[h][low(n)] = n
    BY <1>5
  <2>2. l + 1 \in Int /\ b \in leaves
    BY <1>4, <1>6
  <2>3. low(b) \in Int /\ at[h][low(b)] = b
    BY <1>5, <2>2
  <2> HIDE DEF low, leaves, up
  <2>4. at[h][l + 1] # at[h][l] /\ at[h][low(n)] = at[h][l]
    BY ONLY <1>6, <2>1
  <2>5. /\ heap[at[h][l]].next = at[h][l + 1] /\ low(n) <= l
        /\ \A y \in Int : at[h][y] = at[h][l + 1] => y > l
    BY ONLY <1>1, <1>6, <2>1, <2>4, failures = 0, NextLeaf
  <2>6. heap[n].next = b /\ low(b) > l
    BY <1>6, <2>3, <2>5
  <2>7. low(b) > low(n)
    BY ONLY <2>1, <2>3, <2>5, <2>6, l \in Int
  <2>8. b \in up(n)
    BY <2>2, <2>7 DEF up
  <2>9. ASSUME NEW m \in up(n) PROVE low(b) <= low(m)
    <3>1. m \in leaves /\ low(m) > low(n)
      BY <2>9 DEF up
    <3>2. low(m) \in Int /\ at[h][low(m)] = m
      BY <1>5, <3>1
    <3> SUFFICES ASSUME ~(low(b) <= low(m)) PROVE FALSE
      OBVIOUS
    <3>3. CASE low(m) <= l
      <4>1. low(n) <= low(m)
        BY ONLY <2>1, <3>1, <3>2
      <4>2. at[h][low(m)] = at[h][low(n)]
        BY ONLY <1>2, <1>3, <2>1, <2>4, <3>2, <3>3, <4>1, l \in Int DEF Convex
      <4>3. m = n
        BY ONLY <2>1, <3>2, <4>2
      <4> QED
        BY ONLY <2>1, <3>1, <4>3
    <3>4. CASE ~(low(m) <= l)
      <4>1. l + 1 <= low(m) /\ low(m) <= low(b)
        BY ONLY <2>3, <3>2, <3>4, l \in Int, ~(low(b) <= low(m))
      <4>2. at[h][low(m)] = at[h][l + 1]
        <5>1. at[h][l + 1] = at[h][low(b)]
          BY ONLY <2>3
        <5> HIDE DEF b
        <5> QED
          BY ONLY <1>2, <1>3, <2>2, <2>3, <3>2, <4>1, <5>1 DEF Convex
      <4>3. m = b
        BY ONLY <3>2, <4>2
      <4> QED
        BY ONLY <2>3, <4>3, ~(low(b) <= low(m))
    <3> QED
      BY <3>3, <3>4
  <2> QED
    BY ONLY <2>6, <2>8, <2>9
<1>7. CASE up(n) = {}
  <2> SUFFICES ASSUME heap[n].next # NULL PROVE FALSE
    BY <1>7
  <2>1. low(n) \in Int /\ at[h][low(n)] = n
    BY <1>5
  <2>2. Chained(heap, h, at)
    BY <1>1 DEF InTree, TreeState
  <2>3. PICK l \in Int : at[h][l] = n /\ at[h][l + 1] # at[h][l]
    <3> HIDE DEF low
    <3> QED
      BY ONLY <2>1, <2>2, heap[n].next # NULL DEF Chained
  <2> QED
    BY <1>6, <1>7, <2>3
<1>8. CASE up(n) # {}
  <2>1. PICK m \in leaves : low(m) > low(n)
    BY <1>8
  <2>2. low(n) \in Int /\ at[h][low(n)] = n /\ low(m) \in Int /\ at[h][low(m)] = m
    BY <1>5
  <2>3. m # n
    <3> HIDE DEF low
    <3> QED
      BY ONLY <2>1, <2>2
  <2>4. PICK l \in Int : at[h][l] = n /\ at[h][l + 1] # at[h][l]
    <3> HIDE DEF low
    <3>1. PICK x, y : x = low(n) /\ y = low(m)
      OBVIOUS
    <3>2. at[h][x] = n /\ Changes(at[h], x, y)
      BY ONLY <2>1, <2>2, <2>3, <3>1 DEF Changes
    <3>3. \E l \in Int : at[h][l] = at[h][x] /\ at[h][l + 1] # at[h][l]
      BY ONLY <3>2, LastId
    <3> QED
      BY ONLY <3>2, <3>3
  <2> QED
    BY <1>6, <1>8, <2>4
<1> QED
  BY <1>7, <1>8

(* As long as malloc has not failed, the next pointers lead through all    *)
(* the leaves in the order of their ids, at every step.                    *)
THEOREM LeafChainWithoutFailure == Spec => []LeafChain
<1>1. Inv => LeafChain
  BY InvLeafChain
<1> QED
  BY <1>1, TreeInvariant, PTL
=============================================================================
