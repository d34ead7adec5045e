-------------------------- MODULE BPTreeRefinement ---------------------------
(***************************************************************************)
(* The tree of BPTree implements IdIndex, proved: every step of a call is  *)
(* a step of the partial map, or leaves it alone.  The map is read off the *)
(* leaves in use; a step is compared with it through the relation Binding, *)
(* and the leaves in use before and after it through what Live is least    *)
(* for.                                                                    *)
(***************************************************************************)
EXTENDS BPTreeTheorems

-----------------------------------------------------------------------------
(* What a key is bound to, as a relation.                                  *)

Holds(n, k, o) == \E i \in 1 .. Len(n.keys) : n.keys[i] = k /\ n.offs[i] = o

Binding(k, o) == \E n \in Leaves : Holds(heap[n], k, o)

HeldFact ==
    /\ Held = [k \in DOMAIN Held |-> Held[k]]
    /\ \A k, o : (k \in DOMAIN Held /\ Held[k] = o) <=> Binding(k, o)

LEMMA KeyIndex ==
    ASSUME NEW ks \in Seq(Keys), Ascends(ks, Len(ks)), NEW i \in 1 .. Len(ks)
    PROVE  InsertIndex(ks, ks[i]) = i
<1>1. Len(ks) \in Nat /\ \A j \in 1 .. Len(ks) : ks[j] \in Int
  BY KeyNumbers
<1>2. PICK c : c = InsertIndex(ks, ks[i])
  OBVIOUS
<1>3. Place(ks, Len(ks), ks[i], c)
  <2>1. ks[i] \in Int
    BY <1>1
  <2>2. Place(ks, Len(ks), ks[i], InsertIndex(ks, ks[i]))
    BY <2>1, InsertIndexPlace
  <2> QED
    BY ONLY <1>2, <2>2
<1>4. /\ c \in 1 .. Len(ks) + 1
      /\ \A j \in 1 .. c - 1 : ks[j] < ks[i]
      /\ c <= Len(ks) => ks[i] <= ks[c]
  BY ONLY <1>3 DEF Place
<1>5. ~(i < c)
  <2> SUFFICES ASSUME i < c PROVE FALSE
    OBVIOUS
  <2>1. i \in 1 .. c - 1
    BY ONLY <1>1, <1>4, i < c, i \in 1 .. Len(ks)
  <2>2. ks[i] < ks[i] /\ ks[i] \in Int
    BY ONLY <1>1, <1>4, <2>1, i \in 1 .. Len(ks)
  <2> QED
    BY ONLY <2>2
<1>6. ~(c < i)
  <2> SUFFICES ASSUME c < i PROVE FALSE
    OBVIOUS
  <2>1. c \in 1 .. Len(ks) /\ c <= Len(ks)
    BY ONLY <1>1, <1>4, c < i, i \in 1 .. Len(ks)
  <2>2. ks[c] < ks[i]
    BY <2>1 DEF Ascends
  <2>3. ks[i] <= ks[c] /\ ks[i] \in Int /\ ks[c] \in Int
    BY ONLY <1>1, <1>4, <2>1, i \in 1 .. Len(ks)
  <2> QED
    BY ONLY <2>2, <2>3
<1>7. c = i
  BY ONLY <1>1, <1>4, <1>5, <1>6, i \in 1 .. Len(ks)
<1> QED
  BY ONLY <1>2, <1>7

(* A leaf in use has sorted keys, an offset for each, and holds the keys   *)
(* whose routes end in it.                                                 *)
LEMMA LeafFacts ==
    ASSUME NEW h, NEW at, InTree(h, at), NEW n \in Leaves
    PROVE  /\ n \in DOMAIN heap /\ Shaped(heap[n]) /\ heap[n].leaf
           /\ heap[n].keys \in Seq(Keys) /\ Ascends(heap[n].keys, Len(heap[n].keys))
           /\ Len(heap[n].offs) = Len(heap[n].keys)
           /\ heap[n].offs \in Seq(Offsets)
           /\ \A i \in 1 .. Len(heap[n].keys) : at[h][heap[n].keys[i]] = n
<1>1. /\ OwnKeys(heap, h, at) /\ Sorted /\ TypeOK /\ h \in Nat
      /\ \A d \in 0 .. h : \A k \in Int : at[d][k] \in DOMAIN heap
      /\ \A d \in 0 .. h : \A k \in Int : heap[at[d][k]].leaf <=> d = h
  BY SkeletonFacts
<1>2. n \in Live /\ heap[n].leaf
  BY DEF Leaves
<1>3. PICK d \in 0 .. h, k \in Int : at[d][k] = n
  BY <1>2, LiveIsTree DEF OnTree
<1>4. d = h /\ n \in DOMAIN heap
  BY <1>1, <1>2, <1>3
<1>5. Shaped(heap[n]) /\ Ascends(heap[n].keys, Len(heap[n].keys))
  BY <1>1, <1>4 DEF TypeOK, Sorted
<1>6. PICK a : a = heap[n]
  OBVIOUS
<1>7. /\ a.keys \in Seq(Keys) /\ a.offs \in Seq(Offsets) /\ Len(a.offs) = Len(a.keys)
  BY ONLY <1>2, <1>5, <1>6, NodeFacts
<1>8. ASSUME NEW i \in 1 .. Len(heap[n].keys) PROVE at[h][heap[n].keys[i]] = n
  <2>1. a.keys[i] \in Int
    <3>1. PICK ks : ks = a.keys
      OBVIOUS
    <3>2. ks \in Seq(Keys) /\ i \in 1 .. Len(ks)
      BY ONLY <1>6, <1>7, <3>1, i \in 1 .. Len(heap[n].keys)
    <3>3. ks[i] \in Int
      BY ONLY <3>2, KeyNumbers
    <3> QED
      BY ONLY <3>1, <3>3
  <2>2. OwnKey(heap, n, a.keys[i])
    BY ONLY <1>6, i \in 1 .. Len(heap[n].keys) DEF OwnKey
  <2>3. at[d][a.keys[i]] = at[d][k]
    BY ONLY <1>1, <1>3, <2>1, <2>2 DEF OwnKeys
  <2> QED
    BY ONLY <1>3, <1>4, <1>6, <2>3
<1> QED
  BY ONLY <1>2, <1>4, <1>5, <1>6, <1>7, <1>8

LEMMA InvHeld == Inv /\ HasTree => HeldFact
<1> SUFFICES ASSUME Inv, HasTree PROVE HeldFact
  OBVIOUS
<1>1. PICK h, at : InTree(h, at)
  BY InTreeExists
<1>2. PICK E : E = Bindings
  OBVIOUS
<1>3. PICK D : D = {e[1] : e \in E}
  OBVIOUS
<1>4. Held = [k \in D |-> (CHOOSE e \in E : e[1] = k)[2]]
  BY <1>2, <1>3 DEF Held
<1>5. ASSUME NEW k, NEW o PROVE <<k, o>> \in E <=> Binding(k, o)
  BY <1>2 DEF Bindings, Entries, Binding, Holds
<1>6. ASSUME NEW e \in E PROVE e = <<e[1], e[2]>>
  BY <1>2 DEF Bindings, Entries
<1>7. ASSUME NEW k, NEW o, NEW p, Binding(k, o), Binding(k, p) PROVE o = p
  <2>1. PICK n \in Leaves : Holds(heap[n], k, o)
    BY <1>7 DEF Binding
  <2>2. PICK m \in Leaves : Holds(heap[m], k, p)
    BY <1>7 DEF Binding
  <2>3. PICK i \in 1 .. Len(heap[n].keys) : heap[n].keys[i] = k /\ heap[n].offs[i] = o
    BY <2>1 DEF Holds
  <2>4. PICK j \in 1 .. Len(heap[m].keys) : heap[m].keys[j] = k /\ heap[m].offs[j] = p
    BY <2>2 DEF Holds
  <2>5. /\ heap[n].keys \in Seq(Keys) /\ Ascends(heap[n].keys, Len(heap[n].keys))
        /\ at[h][k] = n
    BY <1>1, <2>3, LeafFacts
  <2>6. at[h][k] = m
    BY <1>1, <2>4, LeafFacts
  <2>7. n = m
    BY ONLY <2>5, <2>6
  <2>8. PICK ks : ks = heap[n].keys
    OBVIOUS
  <2>9. /\ ks \in Seq(Keys) /\ Ascends(ks, Len(ks))
        /\ i \in 1 .. Len(ks) /\ j \in 1 .. Len(ks) /\ ks[i] = k /\ ks[j] = k
    BY ONLY <2>3, <2>4, <2>5, <2>7, <2>8
  <2>10. InsertIndex(ks, ks[i]) = i /\ InsertIndex(ks, ks[j]) = j
    BY ONLY <2>9, KeyIndex
  <2> QED
    BY ONLY <2>3, <2>4, <2>7, <2>9, <2>10
<1>8. DOMAIN Held = D /\ \A k \in D : Held[k] = (CHOOSE e \in E : e[1] = k)[2]
  BY ONLY <1>4
<1>9. ASSUME NEW k \in D PROVE Binding(k, Held[k])
  <2>1. PICK c : c = CHOOSE e \in E : e[1] = k
    OBVIOUS
  <2>2. c \in E /\ c[1] = k
    BY <1>3, <2>1
  <2>3. Held[k] = c[2]
    BY ONLY <1>8, <2>1, k \in D
  <2>4. c = <<k, c[2]>>
    BY <1>6, <2>2
  <2> QED
    BY <1>5, <2>2, <2>3, <2>4
<1>10. ASSUME NEW k, NEW o, Binding(k, o) PROVE k \in D /\ Held[k] = o
  <2>1. <<k, o>> \in E
    BY <1>5, <1>10
  <2>2. k \in D
    BY ONLY <1>3, <2>1
  <2>3. Binding(k, Held[k])
    BY <1>9, <2>2
  <2> QED
    BY <1>7, <1>10, <2>2, <2>3
<1>11. \A k, o : (k \in DOMAIN Held /\ Held[k] = o) <=> Binding(k, o)
  BY ONLY <1>8, <1>9, <1>10
<1>12. Held = [k \in DOMAIN Held |-> Held[k]]
  BY ONLY <1>4
<1> QED
  BY ONLY <1>11, <1>12 DEF HeldFact

-----------------------------------------------------------------------------
(* The nodes in use, as the least set a tree needs.                        *)

LiveFact ==
    /\ root \in Live /\ (ret.split => ret.right \in Live)
    /\ Live \subseteq DOMAIN heap
    /\ \A n \in Live : Children(n) \subseteq Live
    /\ \A C : /\ root \in C /\ (ret.split => ret.right \in C)
              /\ \A n \in C \cap Live : Children(n) \subseteq C
              => Live \subseteq C

(* The nodes on the C stack are reached from the root.                     *)
ReachFact ==
    \A C : root \in C /\ (\A n \in C \cap Live : Children(n) \subseteq C)
             => \A j \in 1 .. Len(path) : path[j][1] \in C

LEMMA InvLive == Inv /\ HasTree => LiveFact
<1> SUFFICES ASSUME Inv, HasTree PROVE LiveFact
  OBVIOUS
<1>1. PICK h, at : InTree(h, at)
  BY InTreeExists
<1>2. /\ Finite /\ TypeOK /\ h \in Nat
      /\ \A d \in 0 .. h : \A k \in Int : at[d][k] \in DOMAIN heap
  BY <1>1, SkeletonFacts
<1>3. /\ Roots \subseteq Live /\ Live \subseteq DOMAIN heap
      /\ \A C \in SUBSET DOMAIN heap :
           Roots \subseteq C /\ (\A n \in C : Children(n) \cap DOMAIN heap \subseteq C)
             => Live \subseteq C
  BY <1>2, LiveLeast DEF Finite
<1>4. \A n : n \in Live <=> OnTree(h, at, n)
  BY <1>1, LiveIsTree
<1>5. \A n \in Live : Children(n) \subseteq Live
  BY <1>1, <1>4, KidsOnTree
<1>6. root \in Live /\ (ret.split => ret.right \in Live)
  <2>1. TreeState(h, at)
    BY <1>1 DEF InTree
  <2>2. CASE ~ret.split
    <3>1. 0 \in 0 .. h /\ 0 \in Int
      BY ONLY <1>2
    <3>2. at[0][0] = root
      BY <2>1, <2>2 DEF TreeState, Whole
    <3>3. OnTree(h, at, root)
      BY ONLY <3>1, <3>2 DEF OnTree
    <3> QED
      BY ONLY <1>4, <2>2, <3>3
  <2>3. CASE ret.split
    <3>1. PICK m, p, left, right : m = Len(path) /\ p = ret.promoted /\ left = Returned
                                   /\ right = ret.right
      OBVIOUS
    <3>2. Parted(heap, root, h, at, m, left, p, right)
      BY <2>1, <2>3, <3>1 DEF TreeState
    <3>3. /\ m \in 0 .. h /\ p \in Int /\ at[m][p] = right
          /\ \A k \in Int : at[0][k] = IF m = 0 /\ k >= p THEN right ELSE root
      BY ONLY <3>2 DEF Parted
    <3>4. 0 \in 0 .. h /\ p - 1 \in Int /\ ~(p - 1 >= p)
      BY ONLY <1>2, <3>3
    <3>5. at[0][p - 1] = root
      BY ONLY <3>3, <3>4
    <3>6. OnTree(h, at, root) /\ OnTree(h, at, right)
      BY ONLY <3>3, <3>4, <3>5 DEF OnTree
    <3> QED
      BY ONLY <1>4, <3>1, <3>6
  <2> QED
    BY ONLY <2>2, <2>3
<1>7. ASSUME NEW C, root \in C, ret.split => ret.right \in C,
             \A n \in C \cap Live : Children(n) \subseteq C
      PROVE  Live \subseteq C
  <2> DEFINE B == C \cap Live
  <2>1. B \in SUBSET DOMAIN heap
    BY <1>3
  <2>2. Roots \subseteq B
    <3>1. ASSUME NEW n \in Roots PROVE n \in C
      <4>1. n = root \/ n = ret.right
        BY <3>1 DEF Roots
      <4>2. n = ret.right => ret.split
        <5> SUFFICES ASSUME n = ret.right, ~ret.split PROVE FALSE
          OBVIOUS
        <5>1. ret = NoSplit
          BY <1>2, RetKind
        <5>2. ret.right = NULL
          BY <5>1 DEF NoSplit
        <5>3. n \in Addr
          BY <1>2, <3>1 DEF Roots, TypeOK
        <5> QED
          BY <5>2, <5>3, NullAssumption
      <4> QED
        BY ONLY <1>7, <4>1, <4>2
    <3> QED
      BY <1>3, <3>1
  <2>3. \A n \in B : Children(n) \cap DOMAIN heap \subseteq B
    BY <1>5, <1>7
  <2>4. Live \subseteq B
    BY <1>3, <2>1, <2>2, <2>3
  <2> QED
    BY <2>4
<1> QED
  BY ONLY <1>3, <1>5, <1>6, <1>7 DEF LiveFact

LEMMA InvReach == Inv /\ HasTree => ReachFact
<1> SUFFICES ASSUME Inv, HasTree, NEW C, root \in C,
                    \A n \in C \cap Live : Children(n) \subseteq C
             PROVE  \A j \in 1 .. Len(path) : path[j][1] \in C
  BY DEF ReachFact
<1>1. CASE path = << >>
  <2>1. Len(<< >>) = 0
    BY ONLY EmptyStack
  <2> QED
    BY ONLY <1>1, <2>1
<1>2. CASE path # << >>
  <2>1. PICK h, at : InTree(h, at)
    BY InTreeExists
  <2>2. /\ Len(path) \in 0 .. h /\ key \in Int
        /\ \A j \in 1 .. Len(path) : path[j][1] = at[j - 1][key]
    BY <1>2, <2>1, PathInTree
  <2>3. /\ TypeOK /\ h \in Nat /\ OneLevel(h, at)
        /\ \A d \in 0 .. h : \A k \in Int : at[d][k] \in DOMAIN heap
        /\ \A d \in 0 .. h : \A k \in Int : heap[at[d][k]].leaf <=> d = h
    BY <2>1, SkeletonFacts
  <2>4. TreeState(h, at)
    BY <2>1 DEF InTree
  <2>5. \A d \in 0 .. h : at[d][key] \in Live
    BY <2>1, <2>2, LiveIsTree DEF OnTree
  (* The right half in flight is below the stack.                          *)
  <2>6. PICK m : m = Len(path)
    OBVIOUS
  <2>7. /\ m # 0 => at[0][key] = root
        /\ \A d \in 0 .. h - 1 : m # d + 1 => at[d + 1][key] = Kid(heap, at[d][key], key)
    <3>1. CASE ~ret.split
      BY <2>2, <2>4, <3>1 DEF TreeState, Whole
    <3>2. CASE ret.split
      <4>1. PICK p, left, right : p = ret.promoted /\ left = Returned /\ right = ret.right
        OBVIOUS
      <4>2. Parted(heap, root, h, at, m, left, p, right)
        BY <2>4, <2>6, <3>2, <4>1 DEF TreeState
      <4> QED
        BY ONLY <2>2, <4>2 DEF Parted
    <3> QED
      BY ONLY <3>1, <3>2
  <2> DEFINE S == {d \in Nat : d < m => at[d][key] \in C}
  <2>8. m \in Nat /\ m <= h
    BY ONLY <2>2, <2>3, <2>6
  <2>9. 0 \in S
    BY <2>7
  <2>10. ASSUME NEW d \in Nat, d \in S PROVE d + 1 \in S
    <3> SUFFICES ASSUME d + 1 < m PROVE at[d + 1][key] \in C
      OBVIOUS
    <3>1. d < m /\ d \in 0 .. h - 1 /\ d \in 0 .. h /\ d # h /\ m # d + 1
      BY ONLY <2>3, <2>8, d + 1 < m, d \in Nat
    <3>2. PICK a : a = at[d][key]
      OBVIOUS
    <3>3. a \in C
      BY <2>10, <3>1, <3>2
    <3> HIDE DEF S
    <3>4. a \in Live /\ a \in DOMAIN heap /\ ~heap[a].leaf
      BY ONLY <2>2, <2>3, <2>5, <3>1, <3>2
    <3>5. Shaped(heap[a])
      BY <2>3, <3>4 DEF TypeOK
    <3>6. heap[a].keys \in Seq(Keys) /\ Len(heap[a].kids) = Len(heap[a].keys) + 1
      BY <3>4, <3>5, NodeFacts
    <3>7. Turn(heap, a, key) \in 1 .. Len(heap[a].kids)
      <4>1. PICK g, k : g = heap /\ k = key
        OBVIOUS
      <4>2. g[a].keys \in Seq(Keys) /\ k \in Int
        BY ONLY <2>2, <3>6, <4>1
      <4>3. Turn(g, a, k) \in 1 .. Len(g[a].keys) + 1
        BY ONLY <4>2, TurnSlot
      <4> QED
        BY ONLY <3>6, <4>1, <4>3
    <3>8. Kid(heap, a, key) \in Children(a)
      BY ONLY <3>7 DEF Kid, Children
    <3>9. at[d + 1][key] = Kid(heap, a, key)
      BY ONLY <2>7, <3>1, <3>2
    <3>10. Children(a) \subseteq C
      BY <3>3, <3>4
    <3> QED
      BY ONLY <3>8, <3>9, <3>10
  <2>11. Nat \subseteq S
    <3> HIDE DEF S
    <3> QED
      BY ONLY <2>9, <2>10, ByInduction
  <2> SUFFICES ASSUME NEW j \in 1 .. Len(path) PROVE path[j][1] \in C
    OBVIOUS
  <2>12. j - 1 \in Nat /\ j - 1 < m
    BY ONLY <2>6, <2>8, j \in 1 .. Len(path)
  <2>13. at[j - 1][key] \in C
    BY <2>11, <2>12
  <2> QED
    BY ONLY <2>2, <2>13, j \in 1 .. Len(path)
<1> QED
  BY <1>1, <1>2

-----------------------------------------------------------------------------
(* From one relation to the next.                                          *)

LEMMA HeldSame ==
    ASSUME HeldFact, HeldFact', \A k, o : Binding(k, o)' <=> Binding(k, o)
    PROVE  Held' = Held
<1>1. PICK f : f = Held
  OBVIOUS
<1>2. PICK g : g = Held'
  OBVIOUS
<1>3. f = [k \in DOMAIN f |-> f[k]] /\ g = [k \in DOMAIN g |-> g[k]]
  BY <1>1, <1>2 DEF HeldFact
<1>4. \A k, o : (k \in DOMAIN f /\ f[k] = o) <=> (k \in DOMAIN g /\ g[k] = o)
  BY <1>1, <1>2 DEF HeldFact
<1>5. f = g
  BY ONLY <1>3, <1>4
<1> QED
  BY ONLY <1>1, <1>2, <1>5

LEMMA HeldMore ==
    ASSUME HeldFact, HeldFact', NEW k0, NEW o0, \A o : ~Binding(k0, o),
           \A k, o : Binding(k, o)' <=> Binding(k, o) \/ (k = k0 /\ o = o0)
    PROVE  /\ k0 \notin DOMAIN Held
           /\ Held' = [k \in DOMAIN Held \union {k0} |-> IF k = k0 THEN o0 ELSE Held[k]]
<1>1. PICK f : f = Held
  OBVIOUS
<1>2. PICK g : g = Held'
  OBVIOUS
<1>3. g = [k \in DOMAIN g |-> g[k]]
  BY <1>2 DEF HeldFact
<1>4. \A k, o : (k \in DOMAIN g /\ g[k] = o) <=>
                   (k \in DOMAIN f /\ f[k] = o) \/ (k = k0 /\ o = o0)
  BY <1>1, <1>2 DEF HeldFact
<1>5. k0 \notin DOMAIN f
  BY <1>1 DEF HeldFact
<1>6. DOMAIN g = DOMAIN f \union {k0}
  BY ONLY <1>4
<1>7. \A k \in DOMAIN g : g[k] = IF k = k0 THEN o0 ELSE f[k]
  BY ONLY <1>4, <1>5
<1>8. g = [k \in DOMAIN f \union {k0} |-> IF k = k0 THEN o0 ELSE f[k]]
  BY ONLY <1>3, <1>6, <1>7
<1> QED
  BY ONLY <1>1, <1>2, <1>5, <1>8

LEMMA HeldCut ==
    ASSUME HeldFact, HeldFact', NEW p,
           \A k, o : Binding(k, o)' <=> Binding(k, o) /\ k < p
    PROVE  Held' = [k \in {k \in DOMAIN Held : k < p} |-> Held[k]]
<1>1. PICK f : f = Held
  OBVIOUS
<1>2. PICK g : g = Held'
  OBVIOUS
<1>3. g = [k \in DOMAIN g |-> g[k]]
  BY <1>2 DEF HeldFact
<1>4. \A k, o : (k \in DOMAIN g /\ g[k] = o) <=> (k \in DOMAIN f /\ f[k] = o) /\ k < p
  BY <1>1, <1>2 DEF HeldFact
<1>5. DOMAIN g = {k \in DOMAIN f : k < p}
  BY ONLY <1>4
<1>6. \A k \in DOMAIN g : g[k] = f[k]
  BY ONLY <1>4
<1>7. g = [k \in {k \in DOMAIN f : k < p} |-> f[k]]
  BY ONLY <1>3, <1>5, <1>6
<1> QED
  BY ONLY <1>1, <1>2, <1>7

(* What is known before and after a step between two trees.                *)
LEMMA Facts == Inv /\ HasTree => HeldFact /\ LiveFact /\ ReachFact
BY InvHeld, InvLive, InvReach

LEMMA FactsNext == Inv' /\ HasTree' => HeldFact' /\ LiveFact' /\ ReachFact'
BY Facts, PTL

-----------------------------------------------------------------------------
(* The elements of a sequence that has grown, or was split in two.         *)

Inserted(s, t, S, i, e) ==
    /\ s \in Seq(S) /\ i \in 1 .. Len(s) + 1 /\ e \in S /\ t = InsertAt(s, i, e)

LEMMA InsertedPlaces ==
    ASSUME NEW s, NEW t, NEW S, NEW i, NEW e, Inserted(s, t, S, i, e)
    PROVE  /\ Len(s) \in Nat /\ t \in Seq(S) /\ Len(t) = Len(s) + 1
           /\ i \in 1 .. Len(t) /\ t[i] = e
           /\ \A j \in 1 .. Len(s) :
                LET l == IF j < i THEN j ELSE j + 1
                IN  l \in 1 .. Len(t) /\ l # i /\ t[l] = s[j]
           /\ \A l \in 1 .. Len(t) :
                l # i => LET j == IF l < i THEN l ELSE l - 1
                         IN  j \in 1 .. Len(s) /\ t[l] = s[j]
<1>1. /\ s \in Seq(S) /\ i \in 1 .. Len(s) + 1 /\ e \in S /\ t = InsertAt(s, i, e)
  BY DEF Inserted
<1>2. /\ t \in Seq(S) /\ Len(t) = Len(s) + 1
      /\ \A j \in 1 .. i - 1 : t[j] = s[j]
      /\ t[i] = e
      /\ \A j \in i + 1 .. Len(s) + 1 : t[j] = s[j - 1]
  <2>1. s \in Seq(S)
    BY ONLY <1>1
  <2>2. i \in 1 .. Len(s) + 1
    BY ONLY <1>1
  <2>3. e \in S
    BY ONLY <1>1
  <2>4. /\ InsertAt(s, i, e) \in Seq(S)
        /\ Len(InsertAt(s, i, e)) = Len(s) + 1
        /\ \A j \in 1 .. i - 1 : InsertAt(s, i, e)[j] = s[j]
        /\ InsertAt(s, i, e)[i] = e
        /\ \A j \in i + 1 .. Len(s) + 1 : InsertAt(s, i, e)[j] = s[j - 1]
    BY ONLY <2>1, <2>2, <2>3, InsertAtElements
  <2> QED
    BY ONLY <1>1, <2>4
<1>3. Len(s) \in Nat /\ i \in 1 .. Len(s) + 1
  BY ONLY <1>1
<1>4. ASSUME NEW j \in 1 .. Len(s)
      PROVE  LET l == IF j < i THEN j ELSE j + 1
             IN  l \in 1 .. Len(t) /\ l # i /\ t[l] = s[j]
  <2>1. CASE j < i
    <3>1. j \in 1 .. i - 1 /\ j \in 1 .. Len(t) /\ j # i
      BY ONLY <1>2, <1>3, <2>1, j \in 1 .. Len(s)
    <3> QED
      BY ONLY <1>2, <2>1, <3>1
  <2>2. CASE ~(j < i)
    <3>1. j + 1 \in i + 1 .. Len(s) + 1 /\ j + 1 \in 1 .. Len(t) /\ j + 1 # i /\ (j + 1) - 1 = j
      BY ONLY <1>2, <1>3, <2>2, j \in 1 .. Len(s)
    <3>2. t[j + 1] = s[j]
      BY ONLY <1>2, <3>1
    <3> QED
      BY ONLY <2>2, <3>1, <3>2
  <2> QED
    BY ONLY <2>1, <2>2
<1>5. ASSUME NEW l \in 1 .. Len(t), l # i
      PROVE  LET j == IF l < i THEN l ELSE l - 1
             IN  j \in 1 .. Len(s) /\ t[l] = s[j]
  <2>1. CASE l < i
    <3>1. l \in 1 .. i - 1 /\ l \in 1 .. Len(s)
      BY ONLY <1>2, <1>3, <2>1, l \in 1 .. Len(t)
    <3> QED
      BY ONLY <1>2, <2>1, <3>1
  <2>2. CASE ~(l < i)
    <3>1. l \in i + 1 .. Len(s) + 1 /\ l - 1 \in 1 .. Len(s)
      BY ONLY <1>2, <1>3, <2>2, <1>5, l \in 1 .. Len(t)
    <3> QED
      BY ONLY <1>2, <2>2, <3>1
  <2> QED
    BY ONLY <2>1, <2>2
<1>6. i \in 1 .. Len(t)
  BY ONLY <1>2, <1>3
<1> QED
  BY ONLY <1>2, <1>3, <1>4, <1>5, <1>6

InSeq(x, s) == \E j \in 1 .. Len(s) : s[j] = x
Paired(x, y, s, u) == \E j \in 1 .. Len(s) : s[j] = x /\ u[j] = y

LEMMA InsertedElements ==
    ASSUME NEW s, NEW t, NEW S, NEW i, NEW e, Inserted(s, t, S, i, e)
    PROVE  \A x : InSeq(x, t) <=> InSeq(x, s) \/ x = e
<1>1. /\ i \in 1 .. Len(t) /\ t[i] = e
      /\ \A j \in 1 .. Len(s) : \E l \in 1 .. Len(t) : t[l] = s[j]
      /\ \A l \in 1 .. Len(t) : l # i => \E j \in 1 .. Len(s) : t[l] = s[j]
  BY InsertedPlaces
<1> QED
  BY ONLY <1>1 DEF InSeq

LEMMA InsertedPairs ==
    ASSUME NEW s, NEW t, NEW S, NEW i, NEW e, Inserted(s, t, S, i, e),
           NEW u, NEW v, NEW U, NEW f, Inserted(u, v, U, i, f), Len(s) = Len(u)
    PROVE  \A x, y : Paired(x, y, t, v) <=> Paired(x, y, s, u) \/ (x = e /\ y = f)
<1>1. /\ i \in 1 .. Len(t) /\ t[i] = e /\ v[i] = f /\ Len(t) = Len(v)
  BY InsertedPlaces
<1>2. ASSUME NEW j \in 1 .. Len(s) PROVE \E l \in 1 .. Len(t) : t[l] = s[j] /\ v[l] = u[j]
  <2>1. PICK l : l = IF j < i THEN j ELSE j + 1
    OBVIOUS
  <2>2. l \in 1 .. Len(t) /\ t[l] = s[j]
    BY <2>1, InsertedPlaces
  <2>3. v[l] = u[j]
    <3>1. j \in 1 .. Len(u)
      OBVIOUS
    <3> QED
      BY <2>1, <3>1, InsertedPlaces
  <2> QED
    BY ONLY <2>2, <2>3
<1>3. ASSUME NEW l \in 1 .. Len(t), l # i
      PROVE  \E j \in 1 .. Len(s) : t[l] = s[j] /\ v[l] = u[j]
  <2>1. PICK j : j = IF l < i THEN l ELSE l - 1
    OBVIOUS
  <2>2. j \in 1 .. Len(s) /\ t[l] = s[j]
    BY <1>3, <2>1, InsertedPlaces
  <2>3. v[l] = u[j]
    <3>1. l \in 1 .. Len(v)
      BY <1>1
    <3> QED
      BY <1>3, <2>1, <3>1, InsertedPlaces
  <2> QED
    BY ONLY <2>2, <2>3
<1>4. ASSUME NEW x, NEW y, Paired(x, y, t, v)
      PROVE  Paired(x, y, s, u) \/ (x = e /\ y = f)
  <2>1. PICK l \in 1 .. Len(t) : t[l] = x /\ v[l] = y
    BY <1>4 DEF Paired
  <2>2. CASE l = i
    BY ONLY <1>1, <2>1, <2>2
  <2>3. CASE l # i
    BY ONLY <1>3, <2>1, <2>3 DEF Paired
  <2> QED
    BY ONLY <2>2, <2>3
<1>5. ASSUME NEW x, NEW y, Paired(x, y, s, u) PROVE Paired(x, y, t, v)
  <2>1. PICK j \in 1 .. Len(s) : s[j] = x /\ u[j] = y
    BY <1>5 DEF Paired
  <2> QED
    BY ONLY <1>2, <2>1 DEF Paired
<1>6. Paired(e, f, t, v)
  BY ONLY <1>1 DEF Paired
<1> QED
  BY ONLY <1>4, <1>5, <1>6

(* lo and hi are t, split in front of the m-th element.                    *)
Parts(t, lo, hi, S, m) ==
    /\ t \in Seq(S) /\ m \in 1 .. Len(t) + 1
    /\ lo = SubSeq(t, 1, m - 1) /\ hi = SubSeq(t, m, Len(t))

LEMMA PartsPlaces ==
    ASSUME NEW t, NEW lo, NEW hi, NEW S, NEW m, Parts(t, lo, hi, S, m)
    PROVE  /\ Len(t) \in Nat /\ m \in 1 .. Len(t) + 1
           /\ Len(lo) = m - 1 /\ Len(hi) = Len(t) - m + 1
           /\ \A j \in 1 .. m - 1 : lo[j] = t[j]
           /\ \A j \in 1 .. Len(t) - m + 1 : hi[j] = t[m + j - 1]
<1>1. t \in Seq(S) /\ m \in 1 .. Len(t) + 1 /\ lo = SubSeq(t, 1, m - 1) /\ hi = SubSeq(t, m, Len(t))
  BY DEF Parts
<1>2. Len(t) \in Nat
  BY ONLY <1>1
<1>3. /\ 1 \in 1 .. Len(t) + 1 /\ m - 1 \in 1 - 1 .. Len(t)
      /\ Len(t) \in m - 1 .. Len(t) /\ (m - 1) - 1 + 1 = m - 1
  BY ONLY <1>1, <1>2
<1>4. /\ Len(SubSeq(t, 1, m - 1)) = (m - 1) - 1 + 1
      /\ \A j \in 1 .. (m - 1) - 1 + 1 : SubSeq(t, 1, m - 1)[j] = t[1 + j - 1]
  BY ONLY <1>1, <1>3, SliceElements
<1>5. /\ Len(SubSeq(t, m, Len(t))) = Len(t) - m + 1
      /\ \A j \in 1 .. Len(t) - m + 1 : SubSeq(t, m, Len(t))[j] = t[m + j - 1]
  BY ONLY <1>1, <1>3, SliceElements
<1>6. \A j \in 1 .. m - 1 : lo[j] = t[j]
  <2> SUFFICES ASSUME NEW j \in 1 .. m - 1 PROVE lo[j] = t[j]
    OBVIOUS
  <2>1. j \in 1 .. (m - 1) - 1 + 1 /\ 1 + j - 1 = j
    BY ONLY <1>1, <1>2, j \in 1 .. m - 1
  <2> QED
    BY ONLY <1>1, <1>4, <2>1
<1> QED
  BY ONLY <1>1, <1>2, <1>3, <1>4, <1>5, <1>6

LEMMA PartsPairs ==
    ASSUME NEW t, NEW lo, NEW hi, NEW S, NEW m, Parts(t, lo, hi, S, m),
           NEW v, NEW vlo, NEW vhi, NEW U, Parts(v, vlo, vhi, U, m), Len(t) = Len(v)
    PROVE  \A x, y : Paired(x, y, t, v) <=> Paired(x, y, lo, vlo) \/ Paired(x, y, hi, vhi)
<1>1. /\ Len(t) \in Nat /\ m \in 1 .. Len(t) + 1
      /\ Len(lo) = m - 1 /\ Len(hi) = Len(t) - m + 1
      /\ \A j \in 1 .. m - 1 : lo[j] = t[j]
      /\ \A j \in 1 .. Len(t) - m + 1 : hi[j] = t[m + j - 1]
  BY PartsPlaces
<1>2. /\ \A j \in 1 .. m - 1 : vlo[j] = v[j]
      /\ \A j \in 1 .. Len(t) - m + 1 : vhi[j] = v[m + j - 1]
  <2>1. /\ \A j \in 1 .. m - 1 : vlo[j] = v[j]
        /\ \A j \in 1 .. Len(v) - m + 1 : vhi[j] = v[m + j - 1]
    <3>1. Parts(v, vlo, vhi, U, m)
      OBVIOUS
    <3>2. \A j \in 1 .. m - 1 : vlo[j] = v[j]
      BY ONLY <3>1, PartsPlaces
    <3>3. \A j \in 1 .. Len(v) - m + 1 : vhi[j] = v[m + j - 1]
      BY ONLY <3>1, PartsPlaces
    <3> QED
      BY ONLY <3>2, <3>3
  <2>2. PICK n : n = Len(t) /\ n = Len(v)
    OBVIOUS
  <2> QED
    BY ONLY <2>1, <2>2
<1>3. ASSUME NEW x, NEW y, NEW j \in 1 .. Len(t), t[j] = x, v[j] = y
      PROVE  Paired(x, y, lo, vlo) \/ Paired(x, y, hi, vhi)
  <2>1. CASE j < m
    <3>1. j \in 1 .. m - 1 /\ j \in 1 .. Len(lo)
      BY ONLY <1>1, <2>1, j \in 1 .. Len(t)
    <3> QED
      BY ONLY <1>1, <1>2, <1>3, <3>1 DEF Paired
  <2>2. CASE ~(j < m)
    <3>1. PICK l : l = j - m + 1
      OBVIOUS
    <3>2. l \in 1 .. Len(t) - m + 1 /\ l \in 1 .. Len(hi) /\ m + l - 1 = j
      BY ONLY <1>1, <2>2, <3>1, j \in 1 .. Len(t)
    <3>3. hi[l] = x /\ vhi[l] = y
      BY ONLY <1>1, <1>2, <1>3, <3>2
    <3> QED
      BY ONLY <3>2, <3>3 DEF Paired
  <2> QED
    BY ONLY <2>1, <2>2
<1>4. ASSUME NEW x, NEW y, Paired(x, y, lo, vlo) PROVE Paired(x, y, t, v)
  <2>1. PICK j \in 1 .. Len(lo) : lo[j] = x /\ vlo[j] = y
    BY <1>4 DEF Paired
  <2>2. j \in 1 .. m - 1 /\ j \in 1 .. Len(t)
    BY ONLY <1>1, <2>1
  <2> QED
    BY ONLY <1>1, <1>2, <2>1, <2>2 DEF Paired
<1>5. ASSUME NEW x, NEW y, Paired(x, y, hi, vhi) PROVE Paired(x, y, t, v)
  <2>1. PICK j \in 1 .. Len(hi) : hi[j] = x /\ vhi[j] = y
    BY <1>5 DEF Paired
  <2>2. j \in 1 .. Len(t) - m + 1 /\ m + j - 1 \in 1 .. Len(t)
    BY ONLY <1>1, <2>1
  <2>3. t[m + j - 1] = x /\ v[m + j - 1] = y
    BY ONLY <1>1, <1>2, <2>1, <2>2
  <2> QED
    BY ONLY <2>2, <2>3 DEF Paired
<1>6. ASSUME NEW x, NEW y, Paired(x, y, t, v)
      PROVE  Paired(x, y, lo, vlo) \/ Paired(x, y, hi, vhi)
  <2>1. PICK j \in 1 .. Len(t) : t[j] = x /\ v[j] = y
    BY <1>6 DEF Paired
  <2> QED
    BY <1>3, <2>1
<1> QED
  BY ONLY <1>4, <1>5, <1>6

LEMMA PartsElements ==
    ASSUME NEW t, NEW lo, NEW hi, NEW S, NEW m, Parts(t, lo, hi, S, m)
    PROVE  \A x : InSeq(x, t) <=> InSeq(x, lo) \/ InSeq(x, hi)
<1>1. \A x, y : Paired(x, y, t, t) <=> Paired(x, y, lo, lo) \/ Paired(x, y, hi, hi)
  BY PartsPairs
<1>2. \A x, s : InSeq(x, s) <=> Paired(x, x, s, s)
  BY DEF InSeq, Paired
<1> QED
  BY ONLY <1>1, <1>2

-----------------------------------------------------------------------------
(* The nodes in use before and after a step.                               *)

(* Nothing that Held is read from has changed.                             *)
LEMMA SameHeld ==
    ASSUME UNCHANGED <<heap, root, ret>>
    PROVE  Held' = Held
<1>1. Live' = Live
  BY DEF Live, Children
<1>2. Leaves' = Leaves
  BY <1>1 DEF Leaves
<1>3. Bindings' = Bindings
  <2>1. \A b : b \in Bindings' <=> \E n \in Leaves' : b \in Entries(n)'
    BY DEF Bindings
  <2>2. \A b : b \in Bindings <=> \E n \in Leaves : b \in Entries(n)
    BY DEF Bindings
  <2>3. \A n : Entries(n)' = Entries(n)
    BY DEF Entries
  <2> QED
    BY ONLY <1>2, <2>1, <2>2, <2>3
<1> QED
  BY <1>3 DEF Held

(* S are the nodes a step has made.                                        *)
LEMMA LiveMore ==
    ASSUME LiveFact, LiveFact', NEW S, S \subseteq Live',
           root' \in Live \union S, root \in Live',
           ret'.split => ret'.right \in Live \union S,
           ret.split => ret.right \in Live',
           \A n \in Live : Children(n)' \subseteq Live \union S,
           \A n \in S : Children(n)' \subseteq Live \union S,
           \A n \in Live \cap Live' : Children(n) \subseteq Live'
    PROVE  Live' = Live \union S
<1>1. PICK A, B : A = Live /\ B = Live'
  OBVIOUS
<1>2. B \subseteq A \union S
  <2>1. root' \in A \union S /\ (ret'.split => ret'.right \in A \union S)
    BY <1>1
  <2>2. \A n \in (A \union S) \cap Live' : Children(n)' \subseteq A \union S
    BY <1>1
  <2>3. Live' \subseteq A \union S
    BY <2>1, <2>2 DEF LiveFact
  <2> QED
    BY <1>1, <2>3
<1>3. A \subseteq B
  <2>1. root \in B /\ (ret.split => ret.right \in B)
    BY <1>1
  <2>2. \A n \in B \cap Live : Children(n) \subseteq B
    BY <1>1
  <2>3. Live \subseteq B
    BY <2>1, <2>2 DEF LiveFact
  <2> QED
    BY <1>1, <2>3
<1> QED
  BY ONLY <1>1, <1>2, <1>3, S \subseteq Live'

(* The leaves have not changed, and all new nodes are internal.            *)
LEMMA SameLeaves ==
    ASSUME HeldFact, HeldFact', NEW S, Live' = Live \union S,
           \A n \in S : ~heap'[n].leaf,
           \A n \in Live : /\ heap'[n].leaf <=> heap[n].leaf
                           /\ heap[n].leaf => /\ heap'[n].keys = heap[n].keys
                                              /\ heap'[n].offs = heap[n].offs
    PROVE  Held' = Held
<1>1. \A n : n \in Leaves' <=> n \in Leaves
  BY DEF Leaves
<1>2. \A n \in Leaves : heap'[n].keys = heap[n].keys /\ heap'[n].offs = heap[n].offs
  BY DEF Leaves
<1>3. \A k, o : Binding(k, o)' <=> Binding(k, o)
  BY <1>1, <1>2 DEF Binding, Holds
<1> QED
  BY <1>3, HeldSame

-----------------------------------------------------------------------------
(* Linking and splitting above the leaves leaves the bindings alone.       *)

LEMMA KidsInSeq ==
    ASSUME NEW n
    PROVE  \A c : c \in Children(n) <=> InSeq(c, heap[n].kids)
BY DEF Children, InSeq

LEMMA KidsInSeqNext ==
    \A n, c : c \in Children(n)' <=> InSeq(c, heap'[n].kids)
BY DEF Children, InSeq

(* What a step of insert_into_internal finds when a child has split.       *)
LEMMA LinkingSetting ==
    ASSUME Inv, LinkReady, pc' = pc, root' = root
    PROVE  /\ HasTree /\ HasTree' /\ ret.split
           /\ ret.promoted \in Keys /\ ret.right \in Addr
           /\ parent \in DOMAIN heap /\ ~heap[parent].leaf
           /\ heap[parent].kids \in Seq(Addr)
           /\ slot = Turn(heap, parent, ret.promoted)
           /\ slot = Turn(heap, parent, ret.promoted - 1)
           /\ \E j \in 1 .. Len(path) : parent = path[j][1]
           /\ \A x : InSeq(x, LinkedKids) <=> x \in Children(parent) \/ x = ret.right
<1>1. /\ pc = "unwind" /\ path # << >> /\ ret.split /\ TypeOK /\ root # NULL /\ Linking
      /\ Sorted
  BY DEF LinkReady, Linking, Inv, Control
<1>2. HasTree /\ HasTree'
  BY <1>1 DEF HasTree
<1>3. PICK h, at : TreeState(h, at)
  BY <1>1 DEF Inv
<1>4. PICK d : d = Len(path) - 1
  OBVIOUS
<1>5. /\ ret.promoted \in Keys /\ ret.right \in Addr
      /\ slot = Turn(heap, parent, ret.promoted)
      /\ slot = Turn(heap, parent, ret.promoted - 1)
      /\ parent \in DOMAIN heap /\ ~heap[parent].leaf
  BY <1>1, <1>3, <1>4, LinkingFacts
<1>6. Branch(heap[parent])
  <2>1. PICK n : n = parent
    OBVIOUS
  <2>2. Shaped(heap[n]) /\ ~heap[n].leaf /\ Ascends(heap[n].keys, Len(heap[n].keys))
    BY <1>1, <1>5, <2>1 DEF TypeOK, Sorted
  <2>3. Branch(heap[n])
    BY ONLY <2>2, BranchFacts
  <2> QED
    BY ONLY <2>1, <2>3
<1>7. Len(path) \in 1 .. Len(path)
  BY <1>1, StackFacts
<1>8. PICK s, cs, r : s = slot /\ cs = heap[parent].kids /\ r = ret.right
  OBVIOUS
<1>9. Inserted(cs, LinkedKids, Addr, s + 1, r)
  <2>1. heap[parent].keys \in Seq(Keys) /\ cs \in Seq(Addr) /\ Len(cs) = Len(heap[parent].keys) + 1
    BY <1>6, <1>8 DEF Branch
  <2>2. s \in 1 .. Len(heap[parent].keys) + 1
    <3>1. ret.promoted \in Int
      BY <1>5, KeysAssumption
    <3>2. PICK n, p : n = parent /\ p = ret.promoted
      OBVIOUS
    <3>3. heap[n].keys \in Seq(Keys) /\ p \in Int
      BY ONLY <2>1, <3>1, <3>2
    <3>4. Turn(heap, n, p) \in 1 .. Len(heap[n].keys) + 1
      BY ONLY <3>3, TurnSlot
    <3> QED
      BY ONLY <1>5, <1>8, <3>2, <3>4
  <2>3. s + 1 \in 1 .. Len(cs) + 1
    <3>1. Len(heap[parent].keys) \in Nat
      BY ONLY <2>1
    <3> QED
      BY ONLY <2>1, <2>2, <3>1
  <2>4. LinkedKids = InsertAt(cs, s + 1, r)
    BY ONLY <1>8 DEF LinkedKids
  <2> QED
    BY ONLY <1>5, <1>8, <2>1, <2>3, <2>4 DEF Inserted
<1>10. \A x : InSeq(x, LinkedKids) <=> InSeq(x, cs) \/ x = r
  <2>1. PICK t : t = LinkedKids
    OBVIOUS
  <2>2. Inserted(cs, t, Addr, s + 1, r)
    BY ONLY <1>9, <2>1
  <2>3. PICK i : i = s + 1
    OBVIOUS
  <2>4. Inserted(cs, t, Addr, i, r)
    BY ONLY <2>2, <2>3
  <2>5. \A x : InSeq(x, t) <=> InSeq(x, cs) \/ x = r
    BY ONLY <2>4, InsertedElements
  <2> QED
    BY ONLY <2>1, <2>5
<1>11. \A x : x \in Children(parent) <=> InSeq(x, cs)
  BY <1>8, KidsInSeq
<1>12. heap[parent].kids \in Seq(Addr)
  BY <1>6 DEF Branch
<1>13. \E j \in 1 .. Len(path) : parent = path[j][1]
  BY <1>7 DEF parent
<1> QED
  BY ONLY <1>1, <1>2, <1>5, <1>8, <1>10, <1>11, <1>12, <1>13

(* The parent has the children of the two nodes that it has become.        *)
Spread(S, q) ==
    /\ q = parent
    /\ \A n \in Live : n # q =>
          /\ heap'[n] = heap[n]
          /\ \A c : c \in Children(n)' <=> c \in Children(n)
    /\ \A n \in S : Children(n)' \subseteq Children(q) \union {ret.right}
    /\ \A c : c \in Children(q) \/ c = ret.right
                => c \in Children(q)' \/ \E n \in S : c \in Children(n)'
    /\ Children(q)' \subseteq Children(q) \union {ret.right}
    /\ ~heap'[q].leaf
    /\ \A n \in S : ~heap'[n].leaf
    /\ S \subseteq Live'
    /\ ret'.split => ret'.right \in S

LEMMA SpreadHeld ==
    ASSUME Inv, Inv', LinkReady, UNCHANGED <<root, pc>>, NEW S, NEW q, Spread(S, q)
    PROVE  Held' = Held
<1>1. /\ HasTree /\ HasTree' /\ ret.split
      /\ ~heap[parent].leaf
      /\ \E j \in 1 .. Len(path) : parent = path[j][1]
  BY LinkingSetting
<1>2. HeldFact /\ LiveFact /\ ReachFact
  BY <1>1, Facts
<1>3. HeldFact' /\ LiveFact'
  BY <1>1, FactsNext
<1>4. PICK A, B, r : A = Live /\ B = Live' /\ q = parent /\ r = ret.right
  BY DEF Spread
<1>5. root \in A /\ r \in A /\ root \in B
  BY <1>1, <1>2, <1>3, <1>4 DEF LiveFact
<1>6. \A C : root \in C /\ (\A n \in C \cap A : Children(n) \subseteq C) => q \in C
  BY <1>1, <1>2, <1>4 DEF ReachFact
<1>7. \A n \in A : Children(n) \subseteq A
  BY <1>2, <1>4 DEF LiveFact
<1>8. \A n \in B : Children(n)' \subseteq B
  BY <1>3, <1>4 DEF LiveFact
<1>9. q \in A
  BY ONLY <1>5, <1>6, <1>7
<1>10. /\ \A n \in A : n # q => \A c : c \in Children(n)' <=> c \in Children(n)
       /\ \A n \in S : Children(n)' \subseteq Children(q) \union {r}
       /\ \A c : c \in Children(q) \/ c = r
                   => c \in Children(q)' \/ \E n \in S : c \in Children(n)'
       /\ Children(q)' \subseteq Children(q) \union {r}
       /\ S \subseteq B
  BY <1>4 DEF Spread
<1>11. \A n \in A : Children(n)' \subseteq A \union S
  BY ONLY <1>5, <1>7, <1>10
<1>12. \A n \in S : Children(n)' \subseteq A \union S
  BY ONLY <1>5, <1>7, <1>9, <1>10
<1>13. \A n \in A \cap B : Children(n) \subseteq B
  BY ONLY <1>8, <1>10
<1>14. q \in B
  BY ONLY <1>5, <1>6, <1>13
<1>15. r \in B
  BY ONLY <1>8, <1>10, <1>14
<1>16. Live' = Live \union S
  <2>1. S \subseteq Live'
    BY DEF Spread
  <2>2. root' \in Live \union S
    BY ONLY <1>4, <1>5, UNCHANGED <<root, pc>>
  <2>3. root \in Live'
    BY ONLY <1>4, <1>5
  <2>4. ret'.split => ret'.right \in Live \union S
    BY DEF Spread
  <2>5. ret.split => ret.right \in Live'
    BY ONLY <1>4, <1>15
  <2>6. \A n \in Live : Children(n)' \subseteq Live \union S
    BY ONLY <1>4, <1>11
  <2>7. \A n \in S : Children(n)' \subseteq Live \union S
    BY ONLY <1>4, <1>12
  <2>8. \A n \in Live \cap Live' : Children(n) \subseteq Live'
    BY ONLY <1>4, <1>13
  <2> QED
    BY ONLY <1>2, <1>3, <2>1, <2>2, <2>3, <2>4, <2>5, <2>6, <2>7, <2>8, LiveMore
<1>17. \A n \in Live : /\ heap'[n].leaf <=> heap[n].leaf
                       /\ heap[n].leaf => /\ heap'[n].keys = heap[n].keys
                                          /\ heap'[n].offs = heap[n].offs
  BY <1>1 DEF Spread
<1>18. \A n \in S : ~heap'[n].leaf
  BY DEF Spread
<1> QED
  BY ONLY <1>2, <1>3, <1>16, <1>17, <1>18, SameLeaves

LEMMA LinkedHeld ==
    ASSUME Inv, Inv', LinkReady, LinkedHeap(heap'), ret' = NoSplit, UNCHANGED <<root, pc>>
    PROVE  Held' = Held
<1>1. /\ HasTree /\ HasTree' /\ ret.split
      /\ ret.promoted \in Keys /\ ret.right \in Addr
      /\ parent \in DOMAIN heap /\ ~heap[parent].leaf
      /\ slot = Turn(heap, parent, ret.promoted)
      /\ slot = Turn(heap, parent, ret.promoted - 1)
      /\ \A x : InSeq(x, LinkedKids) <=> x \in Children(parent) \/ x = ret.right
  BY LinkingSetting
<1>2. PICK g : g = heap'
  OBVIOUS
<1>3. /\ DOMAIN g = DOMAIN heap
      /\ \A a \in DOMAIN heap : a # parent => g[a] = heap[a]
      /\ g[parent].kids = LinkedKids
      /\ ~g[parent].leaf
  BY <1>1, <1>2, LinkedNode
<1>4. Live \subseteq DOMAIN heap
  BY <1>1, Facts DEF LiveFact
<1>5. \A n \in Live : n # parent =>
          /\ heap'[n] = heap[n]
          /\ \A c : c \in Children(n)' <=> c \in Children(n)
  <2>1. \A n \in Live : n # parent => heap'[n] = heap[n]
    BY <1>2, <1>3, <1>4
  <2> QED
    BY <2>1, KidsInSeq, KidsInSeqNext
<1>5a. PICK q : q = parent
  OBVIOUS
<1>6. \A c : c \in Children(q)' <=> c \in Children(q) \/ c = ret.right
  <2>2. \A c : c \in Children(q)' <=> InSeq(c, heap'[q].kids)
    BY ONLY KidsInSeqNext
  <2>3. PICK cs : cs = LinkedKids
    OBVIOUS
  <2>4. heap'[q].kids = cs
    BY ONLY <1>2, <1>3, <1>5a, <2>3
  <2> QED
    BY <1>1, <1>5a, <2>2, <2>3, <2>4
<1>7. Spread({}, q)
  BY <1>2, <1>3, <1>5, <1>5a, <1>6 DEF Spread, NoSplit
<1> QED
  BY <1>7, SpreadHeld

LEMMA LinkSplitHeld == ASSUME Inv, Inv', LinkSplit PROVE Held' = Held
<1>1. /\ LinkReady /\ CanAllocate /\ UNCHANGED <<root, pc>>
  BY DEF LinkSplit
<1>2. /\ HasTree /\ HasTree' /\ ret.split
      /\ ret.promoted \in Keys /\ ret.right \in Addr
      /\ parent \in DOMAIN heap /\ ~heap[parent].leaf
      /\ slot = Turn(heap, parent, ret.promoted)
      /\ slot = Turn(heap, parent, ret.promoted - 1)
      /\ \A x : InSeq(x, LinkedKids) <=> x \in Children(parent) \/ x = ret.right
  BY <1>1, LinkingSetting
<1>3. PICK g : LinkedHeap(g)
  BY DEF LinkedHeap
<1>4. /\ Branch(g[parent]) /\ g[parent].keys = LinkedKeys /\ g[parent].kids = LinkedKids
  BY <1>1, <1>2, <1>3, LinkedNode
<1>5. PICK r : r = Fresh
  OBVIOUS
<1>6. PICK q : q = parent
  OBVIOUS
<1>7. r \in Addr /\ r \notin DOMAIN heap /\ r # q
  BY <1>1, <1>2, <1>5, <1>6, FreshNode
<1>8. PICK ks, cs : ks = LinkedKeys /\ cs = LinkedKids
  OBVIOUS
<1>9. ks \in Seq(Keys) /\ cs \in Seq(Addr) /\ Len(cs) = Len(ks) + 1
  BY ONLY <1>4, <1>8 DEF Branch
<1>10. PICK m : m = Half(ks)
  OBVIOUS
<1>11. m \in Nat /\ m <= Len(ks)
  BY ONLY <1>9, <1>10 DEF Half
<1>12. PICK lo, hi : lo = SubSeq(cs, 1, m + 1) /\ hi = SubSeq(cs, m + 2, Len(cs))
  OBVIOUS
<1>13. /\ \A a \in DOMAIN heap : a # q => heap'[a] = heap[a]
       /\ ~heap'[q].leaf /\ heap'[q].kids = lo
       /\ ~heap'[r].leaf /\ heap'[r].kids = hi
       /\ ret'.right = r
  <2>1. PICK los, his, p : los = SubSeq(ks, 1, m) /\ his = SubSeq(ks, m + 2, Len(ks))
                           /\ p = ks[m + 1]
    OBVIOUS
  <2>2. /\ heap' = [a \in DOMAIN heap \union {r} |->
              IF a = r THEN [leaf |-> FALSE, keys |-> his, offs |-> << >>,
                             kids |-> hi, next |-> NULL]
              ELSE IF a = q THEN [heap[q] EXCEPT !.keys = los, !.kids = lo]
              ELSE heap[a]]
        /\ ret' = Split(p, r)
    BY <1>5, <1>6, <1>8, <1>10, <1>12, <2>1 DEF LinkSplit, RightKids
  <2>3. heap'[r] = [leaf |-> FALSE, keys |-> his, offs |-> << >>, kids |-> hi, next |-> NULL]
    BY ONLY <2>2
  <2>4. /\ heap'[q] = [heap[q] EXCEPT !.keys = los, !.kids = lo]
        /\ \A a \in DOMAIN heap : a # q => heap'[a] = heap[a]
    BY ONLY <1>2, <1>6, <1>7, <2>2
  <2>5. heap[q] \in Node
    BY <1>2, <1>6 DEF Inv, TypeOK, Shaped
  <2>6. heap'[q].kids = lo /\ heap'[q].leaf = heap[q].leaf
    BY ONLY <2>4, <2>5 DEF Node
  <2>7. heap'[r].leaf = FALSE /\ heap'[r].kids = hi
    BY ONLY <2>3
  <2>8. ret'.right = r
    BY ONLY <2>2 DEF Split
  <2> QED
    BY ONLY <1>2, <1>6, <2>4, <2>6, <2>7, <2>8
<1>14. \A x : InSeq(x, cs) <=> InSeq(x, lo) \/ InSeq(x, hi)
  <2>1. PICK b : b = m + 2
    OBVIOUS
  <2>2. b \in 1 .. Len(cs) + 1
    <3>1. Len(ks) \in Nat
      BY ONLY <1>9
    <3> QED
      BY ONLY <1>9, <1>11, <2>1, <3>1
  <2>3. b - 1 = m + 1
    BY ONLY <1>11, <2>1
  <2>4. Parts(cs, lo, hi, Addr, b)
    BY ONLY <1>9, <1>12, <2>1, <2>2, <2>3 DEF Parts
  <2> QED
    BY ONLY <2>4, PartsElements
<1>15. /\ \A c : c \in Children(q)' <=> InSeq(c, lo)
       /\ \A c : c \in Children(r)' <=> InSeq(c, hi)
       /\ \A c : InSeq(c, cs) <=> c \in Children(q) \/ c = ret.right
  <2>1. \A n, c : c \in Children(n)' <=> InSeq(c, heap'[n].kids)
    BY ONLY KidsInSeqNext
  <2> QED
    BY ONLY <1>2, <1>6, <1>8, <1>13, <2>1
<1>16. \A n \in Live : n # q =>
          /\ heap'[n] = heap[n]
          /\ \A c : c \in Children(n)' <=> c \in Children(n)
  <2>1. \A n \in Live : n # q => heap'[n] = heap[n]
    BY <1>2, <1>13, Facts DEF LiveFact
  <2> QED
    BY <2>1, KidsInSeq, KidsInSeqNext
<1>17. r \in Live'
  <2>1. ret'.split
    BY DEF LinkSplit, Split
  <2> QED
    BY <1>2, <1>13, <2>1, FactsNext DEF LiveFact
<1>18. PICK S : S = {r}
  OBVIOUS
<1>19. Spread(S, q)
  BY ONLY <1>6, <1>13, <1>14, <1>15, <1>16, <1>17, <1>18 DEF Spread
<1> QED
  BY <1>1, <1>19, SpreadHeld

(* The new root has the two halves of the old one as its children.         *)
LEMMA GrowRootHeld == ASSUME Inv, Inv', GrowRoot PROVE Held' = Held
<1>1. /\ GrowReady /\ CanAllocate /\ root' = Fresh /\ ret' = NoSplit /\ pc' = "idle"
  BY DEF GrowRoot, Answer
<1>2. /\ ret.split /\ pc = "unwind" /\ root # NULL
  BY <1>1, PartedRoot
<1>3. PICK r : r = Fresh
  OBVIOUS
<1>4. r \in Addr /\ r \notin DOMAIN heap /\ r # NULL
  BY <1>1, <1>3, FreshNode, NullAssumption
<1>5. HasTree /\ HasTree'
  BY <1>1, <1>2, <1>3, <1>4 DEF HasTree
<1>6. HeldFact /\ LiveFact
  BY <1>5, Facts
<1>7. HeldFact' /\ LiveFact'
  BY <1>5, FactsNext
<1>8. PICK cs : cs = <<root, ret.right>>
  OBVIOUS
<1>9. /\ \A a \in DOMAIN heap : heap'[a] = heap[a]
      /\ ~heap'[r].leaf /\ heap'[r].kids = cs
  <2>1. PICK ks : ks = <<ret.promoted>>
    OBVIOUS
  <2>2. heap' = [a \in DOMAIN heap \union {r} |->
              IF a = r THEN [leaf |-> FALSE, keys |-> ks, offs |-> << >>,
                             kids |-> cs, next |-> NULL]
              ELSE heap[a]]
    BY <1>3, <1>8, <2>1 DEF GrowRoot, RootKids
  <2>3. heap'[r] = [leaf |-> FALSE, keys |-> ks, offs |-> << >>, kids |-> cs, next |-> NULL]
    BY ONLY <2>2
  <2>4. \A a \in DOMAIN heap : heap'[a] = heap[a]
    BY ONLY <1>4, <2>2
  <2> QED
    BY ONLY <2>3, <2>4
<1>10. \A c : c \in Children(r)' <=> c = root \/ c = ret.right
  <2>1. \A c : c \in Children(r)' <=> InSeq(c, heap'[r].kids)
    BY ONLY KidsInSeqNext
  <2>2. \A c : InSeq(c, cs) <=> c = root \/ c = ret.right
    BY ONLY <1>8 DEF InSeq
  <2> QED
    BY ONLY <1>9, <2>1, <2>2
<1>11. /\ \A n \in Live : heap'[n] = heap[n]
       /\ \A n \in Live : Children(n)' = Children(n)
  <2>1. \A n \in Live : heap'[n] = heap[n]
    BY <1>6, <1>9 DEF LiveFact
  <2> QED
    BY <2>1 DEF Children
<1>12. ~ret'.split
  BY <1>1 DEF NoSplit
<1>13. PICK S : S = {r}
  OBVIOUS
<1>14. r \in Live'
  BY <1>1, <1>3, <1>7 DEF LiveFact
<1>15. \A c : c \in Children(r)' => c \in Live'
  BY <1>7, <1>14 DEF LiveFact
<1>16. Live' = Live \union S
  <2>1. S \subseteq Live'
    BY ONLY <1>13, <1>14
  <2>2. root' \in Live \union S
    BY ONLY <1>1, <1>3, <1>13
  <2>3. root \in Live'
    BY ONLY <1>10, <1>15
  <2>4. ret'.split => ret'.right \in Live \union S
    BY ONLY <1>12
  <2>5. ret.split => ret.right \in Live'
    BY ONLY <1>10, <1>15
  <2>6. \A n \in Live : Children(n)' \subseteq Live \union S
    BY <1>6, <1>11 DEF LiveFact
  <2>7. \A n \in S : Children(n)' \subseteq Live \union S
    <3>1. root \in Live /\ ret.right \in Live
      BY <1>2, <1>6 DEF LiveFact
    <3>2. \A c : c \in Children(r)' => c \in Live
      BY ONLY <1>10, <3>1
    <3> QED
      BY ONLY <1>13, <3>2
  <2>8. \A n \in Live \cap Live' : Children(n) \subseteq Live'
    BY <1>7, <1>11 DEF LiveFact
  <2> QED
    BY ONLY <1>6, <1>7, <2>1, <2>2, <2>3, <2>4, <2>5, <2>6, <2>7, <2>8, LiveMore
<1>17. \A n \in Live : /\ heap'[n].leaf <=> heap[n].leaf
                       /\ heap[n].leaf => /\ heap'[n].keys = heap[n].keys
                                          /\ heap'[n].offs = heap[n].offs
  BY ONLY <1>11
<1>18. \A n \in S : ~heap'[n].leaf
  BY ONLY <1>9, <1>13
<1> QED
  BY ONLY <1>6, <1>7, <1>16, <1>17, <1>18, SameLeaves

-----------------------------------------------------------------------------
(* A key put in a leaf is bound, and was not bound before.                 *)

(* Where an insertion puts its key.                                        *)
LEMMA LeafSetting ==
    ASSUME Inv, LeafReady
    PROVE  /\ HasTree /\ ~ret.split /\ cur \in Leaves /\ cur \in DOMAIN heap
           /\ \A o : ~Binding(key, o)
           /\ \A x, y : Paired(x, y, NewKeys, NewOffs) <=>
                           \/ Paired(x, y, heap[cur].keys, heap[cur].offs)
                           \/ x = key /\ y = offset
<1>1. /\ pc = "descend" /\ heap[cur].leaf /\ ~Duplicate /\ root # NULL /\ ret = NoSplit
      /\ key \in Keys /\ offset \in Offsets /\ key \in Int
  BY KeysAssumption DEF LeafReady, Inv, Control
<1>2. HasTree /\ ~ret.split
  BY <1>1 DEF HasTree, NoSplit
<1>3. PICK h, at : InTree(h, at)
  BY <1>2, InTreeExists
<1>4. TreeState(h, at)
  BY <1>3 DEF InTree
<1>5. cur = at[h][key] /\ cur \in DOMAIN heap /\ h \in Nat
  BY <1>1, <1>4, AtLeaf
<1>6. cur \in Leaves
  <2>1. h \in 0 .. h
    BY ONLY <1>5
  <2>2. OnTree(h, at, cur)
    BY ONLY <1>1, <1>5, <2>1 DEF OnTree
  <2> QED
    BY <1>1, <1>3, <2>2, LiveIsTree DEF Leaves
<1>7. PICK c, ks, os, k : c = cur /\ ks = heap[cur].keys /\ os = heap[cur].offs /\ k = key
  OBVIOUS
<1>8. /\ ks \in Seq(Keys) /\ Ascends(ks, Len(ks)) /\ os \in Seq(Offsets)
      /\ Len(os) = Len(ks)
  BY <1>3, <1>6, <1>7, LeafFacts
<1>9. \A o : ~Binding(key, o)
  <2> SUFFICES ASSUME NEW o, Binding(key, o) PROVE FALSE
    OBVIOUS
  <2>1. PICK n \in Leaves : \E i \in 1 .. Len(heap[n].keys) : heap[n].keys[i] = k
    BY <1>7 DEF Binding, Holds
  <2>2. PICK i \in 1 .. Len(heap[n].keys) : heap[n].keys[i] = k
    BY <2>1
  <2>3. at[h][k] = n
    BY <1>3, <2>1, <2>2, LeafFacts
  <2>4. n = c
    BY ONLY <1>5, <1>7, <2>3
  <2>5. i \in 1 .. Len(ks) /\ ks[i] = k
    BY ONLY <1>7, <2>2, <2>4
  <2>6. InsertIndex(ks, ks[i]) = i
    BY ONLY <1>8, <2>5, KeyIndex
  <2>7. KeyAt = i
    BY ONLY <1>7, <2>5, <2>6 DEF KeyAt
  <2>8. i <= Len(ks)
    <3>1. Len(ks) \in Nat
      BY ONLY <1>8
    <3> QED
      BY ONLY <2>5, <3>1
  <2> QED
    BY ONLY <1>1, <1>7, <2>5, <2>7, <2>8 DEF Duplicate
<1>10. PICK i : i = KeyAt
  OBVIOUS
<1>11. i \in 1 .. Len(ks) + 1
  <2>1. k \in Int /\ i = InsertIndex(ks, k)
    BY ONLY <1>1, <1>7, <1>10 DEF KeyAt
  <2>2. Place(ks, Len(ks), k, InsertIndex(ks, k))
    BY ONLY <1>8, <2>1, InsertIndexPlace
  <2> QED
    BY ONLY <2>1, <2>2 DEF Place
<1>12. PICK o, ns, nos : o = offset /\ ns = NewKeys /\ nos = NewOffs
  OBVIOUS
<1>13. Inserted(ks, ns, Keys, i, k)
  BY ONLY <1>1, <1>7, <1>8, <1>10, <1>11, <1>12 DEF Inserted, NewKeys
<1>14. Inserted(os, nos, Offsets, i, o)
  BY ONLY <1>1, <1>7, <1>8, <1>10, <1>11, <1>12 DEF Inserted, NewOffs
<1>15. Len(ks) = Len(os)
  BY ONLY <1>8
<1>16. \A x, y : Paired(x, y, ns, nos) <=> Paired(x, y, ks, os) \/ (x = k /\ y = o)
  BY ONLY <1>13, <1>14, <1>15, InsertedPairs
<1> QED
  BY ONLY <1>2, <1>5, <1>6, <1>7, <1>9, <1>12, <1>16

(* The leaf has its keys and the new one, in it or in new leaves S.        *)
Bound(S, q) ==
    /\ q = cur
    /\ \A n \in Live : n # q => heap'[n] = heap[n]
    /\ heap'[q].leaf /\ heap'[q].kids = heap[q].kids
    /\ \A n \in S : heap'[n].leaf /\ heap'[n].kids = << >>
    /\ S \subseteq Live'
    /\ ret'.split => ret'.right \in S
    /\ \A x, y :
          \/ Paired(x, y, heap'[q].keys, heap'[q].offs)
          \/ \E n \in S : Paired(x, y, heap'[n].keys, heap'[n].offs)
          <=> Paired(x, y, heap[q].keys, heap[q].offs) \/ (x = key /\ y = offset)

LEMMA BoundHeld ==
    ASSUME Inv, Inv', LeafReady, root' = root, pc' = "unwind", NEW S, NEW q, Bound(S, q)
    PROVE  /\ key \notin DOMAIN Held
           /\ Held' = [k \in DOMAIN Held \union {key} |->
                         IF k = key THEN offset ELSE Held[k]]
<1>1. /\ HasTree /\ ~ret.split /\ q \in Leaves
      /\ \A o : ~Binding(key, o)
  BY LeafSetting DEF Bound
<1>2. HasTree'
  BY <1>1 DEF HasTree
<1>3. HeldFact /\ LiveFact
  BY <1>1, Facts
<1>4. HeldFact' /\ LiveFact'
  BY <1>2, FactsNext
<1>5. q \in Live /\ heap[q].leaf
  BY <1>1 DEF Leaves
<1>6. \A n \in Live : Children(n)' = Children(n)
  BY DEF Bound, Children
<1>7. \A n \in S : \A c : ~(c \in Children(n)')
  <2>1. \A n, c : c \in Children(n)' <=> InSeq(c, heap'[n].kids)
    BY ONLY KidsInSeqNext
  <2>2. \A c : ~InSeq(c, << >>)
    BY EmptyStack DEF InSeq
  <2>3. \A n \in S : heap'[n].kids = << >>
    BY DEF Bound
  <2> QED
    BY ONLY <2>1, <2>2, <2>3
<1>8. Live' = Live \union S
  <2>1. S \subseteq Live'
    BY DEF Bound
  <2>2. root' \in Live \union S
    BY <1>3 DEF LiveFact
  <2>3. root \in Live'
    BY <1>4 DEF LiveFact
  <2>4. ret'.split => ret'.right \in Live \union S
    BY DEF Bound
  <2>5. ret.split => ret.right \in Live'
    BY ONLY <1>1
  <2>6. \A n \in Live : Children(n)' \subseteq Live \union S
    BY <1>3, <1>6 DEF LiveFact
  <2>7. \A n \in S : Children(n)' \subseteq Live \union S
    BY ONLY <1>7
  <2>8. \A n \in Live \cap Live' : Children(n) \subseteq Live'
    BY <1>4, <1>6 DEF LiveFact
  <2> QED
    BY ONLY <1>3, <1>4, <2>1, <2>2, <2>3, <2>4, <2>5, <2>6, <2>7, <2>8, LiveMore
<1>9. /\ \A n : n \in Leaves' <=> n \in Leaves \/ n \in S
      /\ \A n \in Leaves : n # q => heap'[n] = heap[n]
  BY <1>5, <1>8 DEF Leaves, Bound
<1>10. /\ \A k, o : Binding(k, o) <=>
                      \E n \in Leaves : Paired(k, o, heap[n].keys, heap[n].offs)
       /\ \A k, o : Binding(k, o)' <=>
                      \E n \in Leaves' : Paired(k, o, heap'[n].keys, heap'[n].offs)
  BY DEF Binding, Holds, Paired
<1>11. \A k, o : Binding(k, o)' <=> Binding(k, o) \/ (k = key /\ o = offset)
  <2>1. \A x, y :
          \/ Paired(x, y, heap'[q].keys, heap'[q].offs)
          \/ \E n \in S : Paired(x, y, heap'[n].keys, heap'[n].offs)
          <=> Paired(x, y, heap[q].keys, heap[q].offs) \/ (x = key /\ y = offset)
    BY DEF Bound
  <2>2. q \in Leaves
    BY <1>1
  <2>3. ASSUME NEW k, NEW o, Binding(k, o)' PROVE Binding(k, o) \/ (k = key /\ o = offset)
    BY ONLY <1>9, <1>10, <2>1, <2>2, <2>3
  <2>4. ASSUME NEW k, NEW o, Binding(k, o) \/ (k = key /\ o = offset) PROVE Binding(k, o)'
    BY ONLY <1>9, <1>10, <2>1, <2>2, <2>4
  <2> QED
    BY ONLY <2>3, <2>4
<1>12. PICK k0, o0 : k0 = key /\ o0 = offset
  OBVIOUS
<1>13. /\ \A o : ~Binding(k0, o)
       /\ \A k, o : Binding(k, o)' <=> Binding(k, o) \/ (k = k0 /\ o = o0)
  BY ONLY <1>1, <1>11, <1>12
<1>14. /\ k0 \notin DOMAIN Held
       /\ Held' = [k \in DOMAIN Held \union {k0} |-> IF k = k0 THEN o0 ELSE Held[k]]
  BY ONLY <1>3, <1>4, <1>13, HeldMore
<1> QED
  BY ONLY <1>12, <1>14

LEMMA LeafGrownHeld ==
    ASSUME Inv, Inv', LeafReady, LeafHeap(heap'), UNCHANGED <<root, ret>>, pc' = "unwind"
    PROVE  /\ key \notin DOMAIN Held
           /\ Held' = [k \in DOMAIN Held \union {key} |->
                         IF k = key THEN offset ELSE Held[k]]
<1>1. /\ HasTree /\ ~ret.split /\ cur \in DOMAIN heap
      /\ \A x, y : Paired(x, y, NewKeys, NewOffs) <=>
                      \/ Paired(x, y, heap[cur].keys, heap[cur].offs)
                      \/ x = key /\ y = offset
  BY LeafSetting
<1>2. PICK g : g = heap'
  OBVIOUS
<1>3. /\ \A a \in DOMAIN heap : a # cur => g[a] = heap[a]
      /\ g[cur].keys = NewKeys /\ g[cur].offs = NewOffs
      /\ g[cur].leaf = TRUE /\ g[cur].kids = heap[cur].kids
  BY <1>1, <1>2, LeafNode
<1>4. \A n \in Live : n # cur => heap'[n] = heap[n]
  BY <1>1, <1>2, <1>3, Facts DEF LiveFact
<1>5. PICK q : q = cur
  OBVIOUS
<1>6. Bound({}, q)
  BY <1>1, <1>2, <1>3, <1>4, <1>5 DEF Bound
<1> QED
  BY <1>6, BoundHeld

LEMMA LeafSplitHeld ==
    ASSUME Inv, Inv', LeafSplit
    PROVE  /\ key \notin DOMAIN Held
           /\ Held' = [k \in DOMAIN Held \union {key} |->
                         IF k = key THEN offset ELSE Held[k]]
<1>1. /\ LeafReady /\ CanAllocate /\ root' = root /\ pc' = "unwind"
  BY DEF LeafSplit
<1>2. /\ HasTree /\ ~ret.split /\ cur \in DOMAIN heap
      /\ \A x, y : Paired(x, y, NewKeys, NewOffs) <=>
                      \/ Paired(x, y, heap[cur].keys, heap[cur].offs)
                      \/ x = key /\ y = offset
  BY <1>1, LeafSetting
<1>3. PICK ks, os : ks = NewKeys /\ os = NewOffs
  OBVIOUS
<1>4. ks \in Seq(Keys) /\ os \in Seq(Offsets) /\ Len(os) = Len(ks)
  BY <1>1, <1>2, <1>3, NewKeysAscend
<1>5. PICK r, q : r = Fresh /\ q = cur
  OBVIOUS
<1>6. r \in Addr /\ r \notin DOMAIN heap /\ r # q
  BY <1>1, <1>2, <1>5, FreshNode
<1>7. PICK m : m = Half(ks)
  OBVIOUS
<1>8. m \in Nat /\ m <= Len(ks)
  BY ONLY <1>4, <1>7 DEF Half
<1>9. PICK lo, hi, los, his :
         /\ lo = SubSeq(ks, 1, m) /\ hi = SubSeq(ks, m + 1, Len(ks))
         /\ los = SubSeq(os, 1, m) /\ his = SubSeq(os, m + 1, Len(ks))
  OBVIOUS
<1>10. /\ \A a \in DOMAIN heap : a # q => heap'[a] = heap[a]
       /\ heap'[q].leaf /\ heap'[q].kids = heap[q].kids
       /\ heap'[q].keys = lo /\ heap'[q].offs = los
       /\ heap'[r].leaf /\ heap'[r].kids = << >>
       /\ heap'[r].keys = hi /\ heap'[r].offs = his
       /\ ret'.split /\ ret'.right = r
  <2>1. PICK p, nx : p = hi[1] /\ nx = RightNext
    OBVIOUS
  <2>2. /\ heap' = [a \in DOMAIN heap \union {r} |->
              IF a = r THEN [leaf |-> TRUE, keys |-> hi, offs |-> his,
                             kids |-> << >>, next |-> nx]
              ELSE IF a = q THEN [heap[q] EXCEPT !.keys = lo, !.offs = los, !.next = r]
              ELSE heap[a]]
        /\ ret' = Split(p, r)
    BY <1>3, <1>5, <1>7, <1>9, <2>1 DEF LeafSplit
  <2>3. heap'[r] = [leaf |-> TRUE, keys |-> hi, offs |-> his, kids |-> << >>, next |-> nx]
    BY ONLY <2>2
  <2>4. /\ heap'[q] = [heap[q] EXCEPT !.keys = lo, !.offs = los, !.next = r]
        /\ \A a \in DOMAIN heap : a # q => heap'[a] = heap[a]
    BY ONLY <1>2, <1>5, <1>6, <2>2
  <2>5. heap[q] \in Node /\ heap[q].leaf
    BY <1>1, <1>2, <1>5 DEF Inv, TypeOK, Shaped, LeafReady
  <2>6. /\ heap'[q].keys = lo /\ heap'[q].offs = los
        /\ heap'[q].leaf = heap[q].leaf /\ heap'[q].kids = heap[q].kids
    BY ONLY <2>4, <2>5 DEF Node
  <2>7. /\ heap'[r].leaf = TRUE /\ heap'[r].kids = << >>
        /\ heap'[r].keys = hi /\ heap'[r].offs = his
    BY ONLY <2>3
  <2>8. ret'.split /\ ret'.right = r
    BY ONLY <2>2 DEF Split
  <2>9. heap'[q].leaf
    BY ONLY <2>5, <2>6
  <2>10. heap'[r].leaf
    BY ONLY <2>7
  <2> QED
    BY ONLY <2>4, <2>6, <2>7, <2>8, <2>9, <2>10
<1>11. \A x, y : Paired(x, y, ks, os) <=> Paired(x, y, lo, los) \/ Paired(x, y, hi, his)
  <2>1. PICK b : b = m + 1
    OBVIOUS
  <2>2. b \in 1 .. Len(ks) + 1
    <3>1. Len(ks) \in Nat
      BY ONLY <1>4
    <3> QED
      BY ONLY <1>8, <2>1, <3>1
  <2>3. b - 1 = m
    BY ONLY <1>8, <2>1
  <2>4. Parts(ks, lo, hi, Keys, b)
    BY ONLY <1>4, <1>9, <2>1, <2>2, <2>3 DEF Parts
  <2>5. Parts(os, los, his, Offsets, b)
    BY ONLY <1>4, <1>9, <2>1, <2>2, <2>3 DEF Parts
  <2>6. Len(ks) = Len(os)
    BY ONLY <1>4
  <2> QED
    BY ONLY <2>4, <2>5, <2>6, PartsPairs
<1>12. \A n \in Live : n # q => heap'[n] = heap[n]
  BY <1>2, <1>10, Facts DEF LiveFact
<1>13. r \in Live'
  <2>1. HasTree'
    BY <1>1, <1>2 DEF HasTree
  <2> QED
    BY <1>10, <2>1, FactsNext DEF LiveFact
<1>14. PICK S : S = {r}
  OBVIOUS
<1>15. Bound(S, q)
  BY ONLY <1>2, <1>3, <1>5, <1>10, <1>11, <1>12, <1>13, <1>14 DEF Bound
<1> QED
  BY <1>1, <1>15, BoundHeld

-----------------------------------------------------------------------------
(* The root could not grow: the ids from the separator on are lost.        *)

(* The leaves on the routes below p, of a tree whose right half is lost.   *)
LEMMA LostRoot ==
    ASSUME Inv, GrowRootFails
    PROVE  \E h, at, at2 :
             /\ InTree(h, at) /\ TreeState(h, at2)'
             /\ Parted(heap, root, h, at, 0, root, ret.promoted, ret.right)
             /\ at2 = Lowered(h, at, ret.promoted)
<1>1. /\ GrowReady /\ UNCHANGED <<heap, root>> /\ path' = << >> /\ ret' = NoSplit
      /\ pc' = "idle" /\ AllocFails
  BY DEF GrowRootFails, Answer
<1>2. /\ TypeOK /\ pc = "unwind" /\ root # NULL
  BY <1>1, PartedRoot
<1>3. PICK h, at : /\ TreeState(h, at) /\ h \in Nat
                   /\ Parted(heap, root, h, at, 0, root, ret.promoted, ret.right)
  BY <1>1, PartedRoot
<1>4. PICK at2 : at2 = Lowered(h, at, ret.promoted)
  OBVIOUS
<1>5. Whole(heap, root, h, at2)
  <2>1. \A a \in DOMAIN heap : heap[a].keys \in Seq(Keys)
    BY <1>2, NodeFacts DEF TypeOK
  <2> QED
    BY ONLY <1>3, <1>4, <2>1, LoseTree
<1>6. TreeState(h, at2)'
  <2>1. OnPath(h, at2)'
    <3>1. Len(path') = 0 /\ (\A j \in 1 .. Len(path') : FALSE) /\ Len(path') <= h
      BY ONLY <1>1, <1>3, EmptyStack
    <3> QED
      BY ONLY <3>1 DEF OnPath
  <2>2. failures' # 0
    <3>1. failures \in Nat /\ failures' = failures + 1
      BY <1>1, <1>2, FailureCount DEF AllocFails
    <3> QED
      BY ONLY <3>1
  <2> QED
    BY <1>1, <1>5, <2>1, <2>2 DEF TreeState, NoSplit
<1>7. InTree(h, at)
  BY <1>2, <1>3 DEF InTree, HasTree
<1> QED
  BY <1>3, <1>4, <1>6, <1>7

TreeNodes == \A h, at : InTree(h, at) => \A n : n \in Live <=> OnTree(h, at, n)

LEMMA LiveNodes == TreeNodes
BY LiveIsTree DEF TreeNodes

LEMMA LiveNodesNext == TreeNodes'
BY LiveNodes, PTL

LEMMA GrowRootFailsHeld ==
    ASSUME Inv, Inv', GrowRootFails, NEW p, p = ret.promoted
    PROVE  p \in Keys /\ Held' = [k \in {k \in DOMAIN Held : k < p} |-> Held[k]]
<1>1. /\ GrowReady /\ UNCHANGED <<heap, root>> /\ pc' = "idle"
  BY DEF GrowRootFails, Answer
<1>2. pc = "unwind" /\ root # NULL /\ p \in Keys /\ p \in Int
  BY <1>1, PartedRoot
<1>3. HasTree /\ HasTree'
  BY <1>1, <1>2 DEF HasTree
<1>4. HeldFact /\ HeldFact'
  BY <1>3, Facts, FactsNext
<1>5. PICK h, at, at2 :
         /\ InTree(h, at) /\ TreeState(h, at2)'
         /\ Parted(heap, root, h, at, 0, root, p, ret.right)
         /\ at2 = Lowered(h, at, p)
  BY LostRoot
<1>6. InTree(h, at2)'
  BY <1>3, <1>5 DEF InTree
<1>7. PICK A, B : A = Leaves /\ B = Leaves'
  OBVIOUS
<1>8. /\ \A n : n \in A <=> OnTree(h, at, n) /\ heap[n].leaf
      /\ \A n : n \in B <=> OnTree(h, at2, n) /\ heap[n].leaf
  <2>1. \A n : n \in Live <=> OnTree(h, at, n)
    BY <1>5, LiveNodes DEF TreeNodes
  <2>2. \A n : n \in Live' <=> OnTree(h, at2, n)
    BY <1>6, LiveNodesNext DEF TreeNodes, OnTree
  <2> QED
    BY <1>1, <1>7, <2>1, <2>2 DEF Leaves
<1>9. /\ h \in Nat /\ Nested(heap, h, at)
      /\ \A d \in 0 .. h : \A k \in Int : heap[at[d][k]].leaf <=> d = h
  BY <1>5, SkeletonFacts DEF Skeleton
<1>10. \A n \in B : n \in A /\ \E x \in Int : x < p /\ at[h][x] = n
  <2> SUFFICES ASSUME NEW n \in B PROVE n \in A /\ \E x \in Int : x < p /\ at[h][x] = n
    OBVIOUS
  <2>1. PICK d \in 0 .. h, k \in Int : at2[d][k] = n
    BY <1>8 DEF OnTree
  <2>2. PICK x \in Int : x < p /\ at2[d][k] = at[d][x]
    <3>1. at2[d][k] = at[d][IF k < p THEN k ELSE p - 1]
      BY ONLY <1>5, <2>1 DEF Lowered
    <3>2. p - 1 \in Int /\ p - 1 < p
      BY ONLY <1>2
    <3> QED
      BY ONLY <2>1, <3>1, <3>2
  <2>3. heap[n].leaf
    BY <1>8
  <2>4. at[d][x] = n
    BY ONLY <2>1, <2>2
  <2>5. d = h
    BY ONLY <1>9, <2>1, <2>2, <2>3, <2>4
  <2>6. OnTree(h, at, n)
    BY ONLY <2>1, <2>2, <2>4 DEF OnTree
  <2> QED
    BY ONLY <1>8, <2>2, <2>3, <2>4, <2>5, <2>6
<1>11. \A k \in Int : k < p /\ at[h][k] \in A => at[h][k] \in B
  <2> SUFFICES ASSUME NEW k \in Int, k < p, at[h][k] \in A PROVE at[h][k] \in B
    OBVIOUS
  <2>1. h \in 0 .. h
    BY ONLY <1>9
  <2>2. at2[h][k] = at[h][k]
    BY ONLY <1>5, <2>1, k < p, k \in Int DEF Lowered
  <2>3. OnTree(h, at2, at[h][k])
    BY ONLY <2>1, <2>2, k \in Int DEF OnTree
  <2>4. heap[at[h][k]].leaf
    BY ONLY <1>8, at[h][k] \in A
  <2> QED
    BY ONLY <1>8, <2>3, <2>4
<1>12. \A k, x \in Int : x < p /\ ~(k < p) => at[h][k] # at[h][x]
  <2> SUFFICES ASSUME NEW k \in Int, NEW x \in Int, x < p, ~(k < p)
               PROVE  at[h][k] # at[h][x]
    OBVIOUS
  <2>1. \A l \in Int : at[0][l] = IF 0 = 0 /\ l >= p THEN ret.right ELSE root
    BY <1>5 DEF Parted
  <2>2. root # ret.right
    BY <1>5 DEF Parted
  <2>3. k >= p /\ ~(x >= p)
    BY ONLY <1>2, x < p, ~(k < p), k \in Int, x \in Int
  <2>4. at[0][k] # at[0][x]
    BY ONLY <2>1, <2>2, <2>3, k \in Int, x \in Int
  <2>5. h \in 0 .. h
    BY ONLY <1>9
  <2> QED
    BY ONLY <1>9, <2>4, <2>5, NestedToRoot, k \in Int, x \in Int
<1>13. \A n \in A : \A i \in 1 .. Len(heap[n].keys) :
          /\ heap[n].keys[i] \in Int
          /\ at[h][heap[n].keys[i]] = n
  <2> SUFFICES ASSUME NEW n \in A, NEW i \in 1 .. Len(heap[n].keys)
               PROVE  /\ heap[n].keys[i] \in Int
                      /\ at[h][heap[n].keys[i]] = n
    OBVIOUS
  <2>1. n \in Leaves
    BY <1>7
  <2>2. heap[n].keys \in Seq(Keys) /\ at[h][heap[n].keys[i]] = n
    BY <1>5, <2>1, LeafFacts
  <2>3. PICK ks : ks = heap[n].keys
    OBVIOUS
  <2>4. ks[i] \in Int
    BY ONLY <2>2, <2>3, KeyNumbers, i \in 1 .. Len(heap[n].keys)
  <2> QED
    BY ONLY <2>2, <2>3, <2>4
<1>14. /\ \A k, o : Binding(k, o) <=> \E n \in A : Holds(heap[n], k, o)
       /\ \A k, o : Binding(k, o)' <=> \E n \in B : Holds(heap[n], k, o)
  BY <1>1, <1>7 DEF Binding, Holds
<1>15. \A k, o : Binding(k, o)' <=> Binding(k, o) /\ k < p
  <2>1. ASSUME NEW k, NEW o, Binding(k, o)' PROVE Binding(k, o) /\ k < p
    <3>1. PICK n \in B : Holds(heap[n], k, o)
      BY ONLY <1>14, <2>1
    <3>2. n \in A
      BY ONLY <1>10, <3>1
    <3>3. k \in Int /\ at[h][k] = n
      BY ONLY <1>13, <3>1, <3>2 DEF Holds
    <3>4. PICK x \in Int : x < p /\ at[h][x] = n
      BY ONLY <1>10, <3>1
    <3>5. k < p
      BY ONLY <1>12, <3>3, <3>4
    <3> QED
      BY ONLY <1>14, <3>1, <3>2, <3>5
  <2>2. ASSUME NEW k, NEW o, Binding(k, o), k < p PROVE Binding(k, o)'
    <3>1. PICK n \in A : Holds(heap[n], k, o)
      BY ONLY <1>14, <2>2
    <3>2. k \in Int /\ at[h][k] = n
      BY ONLY <1>13, <3>1 DEF Holds
    <3>3. n \in B
      BY ONLY <1>11, <2>2, <3>1, <3>2
    <3> QED
      BY ONLY <1>14, <3>1, <3>3
  <2> QED
    BY ONLY <2>1, <2>2
<1> QED
  BY ONLY <1>2, <1>4, <1>15, HeldCut

-----------------------------------------------------------------------------
(* What a call finds in a leaf is what the map says of the key.            *)

(* The leaf on the key's route decides whether the key is bound.           *)
LEMMA LeafDecides ==
    ASSUME Inv, HasTree, NEW k \in Int, NEW n, heap[n].leaf,
           NEW h, NEW at, TreeState(h, at), NEW d \in 0 .. h, n = at[d][k]
    PROVE  /\ \A i \in 1 .. Len(heap[n].keys) : heap[n].keys[i] = k =>
                /\ k \in DOMAIN Held /\ Held[k] = heap[n].offs[i]
                /\ heap[n].offs[i] \in Offsets
           /\ k \in DOMAIN Held => \E i \in 1 .. Len(heap[n].keys) : heap[n].keys[i] = k
<1>1. InTree(h, at)
  BY DEF InTree
<1>2. \A x, o : (x \in DOMAIN Held /\ Held[x] = o) <=> Binding(x, o)
  BY Facts DEF HeldFact
<1>3. d = h
  <2>1. \A e \in 0 .. h : \A l \in Int : heap[at[e][l]].leaf <=> e = h
    BY <1>1, SkeletonFacts
  <2> QED
    BY <2>1
<1>4. n \in Leaves
  <2>1. OnTree(h, at, n)
    BY DEF OnTree
  <2> QED
    BY <1>1, <2>1, LiveIsTree DEF Leaves
<1>5. Len(heap[n].offs) = Len(heap[n].keys) /\ heap[n].offs \in Seq(Offsets)
  BY <1>1, <1>4, LeafFacts
<1>6. ASSUME NEW i \in 1 .. Len(heap[n].keys), heap[n].keys[i] = k
      PROVE  /\ k \in DOMAIN Held /\ Held[k] = heap[n].offs[i]
             /\ heap[n].offs[i] \in Offsets
  <2>1. Binding(k, heap[n].offs[i])
    BY <1>4, <1>6 DEF Binding, Holds
  <2>2. heap[n].offs[i] \in Offsets
    BY ONLY <1>5, i \in 1 .. Len(heap[n].keys)
  <2> QED
    BY ONLY <1>2, <2>1, <2>2
<1>7. ASSUME k \in DOMAIN Held
      PROVE  \E i \in 1 .. Len(heap[n].keys) : heap[n].keys[i] = k
  <2>1. Binding(k, Held[k])
    BY <1>2, <1>7
  <2>2. PICK m \in Leaves : \E i \in 1 .. Len(heap[m].keys) : heap[m].keys[i] = k
    BY <2>1 DEF Binding, Holds
  <2>3. PICK i \in 1 .. Len(heap[m].keys) : heap[m].keys[i] = k
    BY <2>2
  <2>4. at[h][k] = m
    BY <1>1, <2>2, <2>3, LeafFacts
  <2> QED
    BY <1>3, <2>3, <2>4
<1> QED
  BY ONLY <1>6, <1>7

LEMMA DuplicateHeld == ASSUME Inv, LeafDuplicate PROVE key \in DOMAIN Held
<1>1. /\ pc = "descend" /\ heap[cur].leaf /\ Duplicate /\ root # NULL
      /\ key \in Keys /\ key \in Int
  BY KeysAssumption DEF LeafDuplicate, Inv, Control
<1>2. HasTree
  BY <1>1 DEF HasTree
<1>3. PICK h, at : TreeState(h, at)
  BY <1>1, <1>2 DEF Inv
<1>4. cur = at[h][key] /\ cur \in DOMAIN heap /\ h \in Nat
  BY <1>1, <1>3, AtLeaf
<1>5. PICK n, k, i : n = cur /\ k = key /\ i = KeyAt
  OBVIOUS
<1>6. i \in 1 .. Len(heap[n].keys) /\ heap[n].keys[i] = k
  <2>1. PICK ks : ks = heap[n].keys
    OBVIOUS
  <2>2. ks \in Seq(Keys)
    <3>1. Shaped(heap[n])
      BY <1>4, <1>5 DEF Inv, TypeOK
    <3> QED
      BY ONLY <2>1, <3>1, NodeFacts
  <2>3. i = InsertIndex(ks, k) /\ k \in Int
    BY ONLY <1>1, <1>5, <2>1 DEF KeyAt
  <2>4. Place(ks, Len(ks), k, InsertIndex(ks, k))
    BY ONLY <2>2, <2>3, InsertIndexPlace
  <2>5. i \in 1 .. Len(ks) + 1
    BY ONLY <2>3, <2>4 DEF Place
  <2>6. i <= Len(ks) /\ ks[i] = k
    BY ONLY <1>1, <1>5, <2>1 DEF Duplicate
  <2>7. Len(ks) \in Nat
    BY ONLY <2>2
  <2> QED
    BY ONLY <2>1, <2>5, <2>6, <2>7
<1>7. h \in 0 .. h
  BY ONLY <1>4
<1>8. k \in DOMAIN Held
  BY <1>1, <1>2, <1>3, <1>4, <1>5, <1>6, <1>7, LeafDecides
<1> QED
  BY ONLY <1>5, <1>8

LEMMA SearchHeld ==
    ASSUME Inv, SearchLeaf
    PROVE  \/ answer' = NotFound(key) /\ key \notin DOMAIN Held
           \/ \E o \in Offsets : /\ answer' = Found(key, o)
                                 /\ key \in DOMAIN Held /\ Held[key] = o
<1>1. /\ pc = "search" /\ heap[cur].leaf /\ root # NULL /\ key \in Keys /\ key \in Int
  BY KeysAssumption DEF SearchLeaf, Inv, Control
<1>2. HasTree
  BY <1>1 DEF HasTree
<1>3. PICK h, at : TreeState(h, at)
  BY <1>1, <1>2 DEF Inv
<1>4. PICK d \in 0 .. h : cur = at[d][key]
  BY <1>1, <1>3 DEF TreeState
<1>5. PICK n, k : n = cur /\ k = key
  OBVIOUS
<1>6. /\ \A i \in 1 .. Len(heap[n].keys) : heap[n].keys[i] = k =>
           /\ k \in DOMAIN Held /\ Held[k] = heap[n].offs[i]
           /\ heap[n].offs[i] \in Offsets
      /\ k \in DOMAIN Held => \E i \in 1 .. Len(heap[n].keys) : heap[n].keys[i] = k
  BY <1>1, <1>2, <1>3, <1>4, <1>5, LeafDecides
<1>7. PICK hits : hits = {i \in 1 .. Len(heap[n].keys) : heap[n].keys[i] = k}
  OBVIOUS
<1>8. \/ hits = {} /\ answer' = NotFound(k)
      \/ \E i \in hits : answer' = Found(k, heap[n].offs[i])
  BY <1>5, <1>7 DEF SearchLeaf, Answer
<1>9. CASE hits = {} /\ answer' = NotFound(k)
  BY ONLY <1>5, <1>6, <1>7, <1>9
<1>10. CASE \E i \in hits : answer' = Found(k, heap[n].offs[i])
  BY ONLY <1>5, <1>6, <1>7, <1>10
<1> QED
  BY ONLY <1>8, <1>9, <1>10

-----------------------------------------------------------------------------
(* Every step, as a step of the map.                                       *)

(* A duplicate is reported only of a key that is bound.                    *)
RefInv == Inv /\ (pc = "unwind" /\ status = "dup" => key \in DOMAIN Held)

MapStep == [Idx!Next]_(Idx!vars)

LEMMA Quiet ==
    ASSUME Stage' = Stage, Index' = Index, UNCHANGED <<key, offset, answer>>
    PROVE  MapStep
<1>1. Pending' = Pending
  BY DEF Pending
<1> QED
  BY <1>1 DEF MapStep, Idx!vars

(* In an insertion or a search, the map is what the leaves hold.           *)
LEMMA IndexHeld ==
    ASSUME Inv, pc \notin {"idle", "empty", "free"}
    PROVE  root # NULL /\ Index = Held
<1>1. pc \in {"created", "descend", "unwind", "overrun", "search"}
  BY DEF Inv, TypeOK
<1> QED
  BY <1>1 DEF Inv, Control, Index

LEMMA IndexHeldNext == root' # NULL /\ pc' # "free" => Index' = Held'
BY DEF Index

LEMMA DescendMap == ASSUME Inv, Descend PROVE MapStep
<1>1. pc = "descend" /\ pc' = pc /\ UNCHANGED <<heap, root, ret, status, key, offset, answer>>
  BY DEF Descend
<1>2. Index' = Index
  BY <1>1, SameHeld, IndexHeld, IndexHeldNext
<1>3. Stage' = Stage
  BY <1>1 DEF Stage, Unbound
<1> QED
  BY <1>1, <1>2, <1>3, Quiet

LEMMA LeafDuplicateMap == ASSUME Inv, LeafDuplicate PROVE MapStep
<1>1. /\ pc = "descend" /\ pc' = "unwind" /\ status' = "dup"
      /\ UNCHANGED <<heap, root, ret, key, offset, answer>>
  BY DEF LeafDuplicate, call
<1>2. Index' = Index
  BY <1>1, SameHeld, IndexHeld, IndexHeldNext
<1>3. Stage' = Stage
  BY <1>1 DEF Stage, Unbound
<1> QED
  BY <1>1, <1>2, <1>3, Quiet

LEMMA LeafOverrunMap == ASSUME Inv, LeafOverrun PROVE MapStep
<1>1. /\ pc = "descend" /\ pc' = "overrun" /\ ret = NoSplit
      /\ UNCHANGED <<heap, root, ret, key, offset, status, answer>>
  BY DEF LeafOverrun, call, Inv, Control
<1>2. Index' = Index
  BY <1>1, SameHeld, IndexHeld, IndexHeldNext
<1>3. ~ret.split
  BY <1>1 DEF NoSplit
<1>4. Stage' = Stage
  BY <1>1, <1>3 DEF Stage, Unbound
<1> QED
  BY <1>1, <1>2, <1>4, Quiet

LEMMA PassUpMap == ASSUME Inv, PassUp PROVE MapStep
<1>1. /\ pc = "unwind" /\ pc' = pc /\ ret' = NoSplit /\ (status # "" \/ ~ret.split)
      /\ UNCHANGED <<heap, root, status, key, offset, answer>>
  BY DEF PassUp
<1>2. ret' = ret
  BY <1>1, RetKind DEF Inv, Control
<1>3. Index' = Index
  BY <1>1, <1>2, SameHeld, IndexHeld, IndexHeldNext
<1>4. Stage' = Stage
  BY <1>1, <1>2 DEF Stage, Unbound
<1> QED
  BY <1>1, <1>3, <1>4, Quiet

LEMMA LinkOverrunMap == ASSUME Inv, LinkOverrun PROVE MapStep
<1>1. /\ pc = "unwind" /\ pc' = "overrun" /\ ret.split /\ status = ""
      /\ UNCHANGED <<heap, root, ret, status, key, offset, answer>>
  BY DEF LinkOverrun, Linking, call
<1>2. Index' = Index
  BY <1>1, SameHeld, IndexHeld, IndexHeldNext
<1>3. Stage' = Stage
  BY <1>1 DEF Stage, Unbound
<1> QED
  BY <1>1, <1>2, <1>3, Quiet

LEMMA LinkMap == ASSUME Inv, Inv', Link \/ LinkSplit \/ LinkSplitFails PROVE MapStep
<1>1. /\ pc = "unwind" /\ pc' = pc /\ status = "" /\ status' \in {"", "oom"}
      /\ UNCHANGED <<root, key, offset, answer>>
  BY DEF Link, LinkSplit, LinkSplitFails, LinkReady, Linking
<1>2. Held' = Held
  <2>1. CASE Link
    BY <2>1, LinkedHeld DEF Link, LinkedHeap
  <2>2. CASE LinkSplit
    BY <2>2, LinkSplitHeld
  <2>3. CASE LinkSplitFails
    BY <2>3, LinkedHeld DEF LinkSplitFails, LinkedHeap
  <2> QED
    BY <2>1, <2>2, <2>3
<1>3. Index' = Index
  BY <1>1, <1>2, IndexHeld, IndexHeldNext
<1>4. Stage' = Stage
  BY <1>1 DEF Stage, Unbound
<1> QED
  BY <1>1, <1>3, <1>4, Quiet

LEMMA SearchDescendMap == ASSUME Inv, SearchDescend PROVE MapStep
<1>1. pc = "search" /\ pc' = pc /\ UNCHANGED <<heap, root, ret, status, key, offset, answer>>
  BY DEF SearchDescend
<1>2. Index' = Index
  BY <1>1, SameHeld, IndexHeld, IndexHeldNext
<1>3. Stage' = Stage
  BY <1>1 DEF Stage, Unbound
<1> QED
  BY <1>1, <1>2, <1>3, Quiet

LEMMA FreeMap == ASSUME Free PROVE MapStep
<1>1. /\ pc = "free" /\ UNCHANGED <<key, offset, answer>>
      /\ pc' = "free" \/ (pc' = "idle" /\ root' = NULL)
  BY DEF Free, FreeChild, FreeNode, FreeReturn, call
<1>2. Index' = Index
  BY <1>1 DEF Index
<1>3. Stage' = Stage
  BY <1>1 DEF Stage, Unbound
<1> QED
  BY <1>1, <1>2, <1>3, Quiet

(* The calls, and what they return.                                        *)

LEMMA InsertCallMap ==
    ASSUME Inv, NEW k \in Keys, NEW o \in Offsets, InsertCall(k, o)
    PROVE  MapStep
<1>1. /\ pc = "idle" /\ <<k, o>> \in Requests /\ key' = k /\ offset' = o
      /\ answer' = NoAnswer /\ UNCHANGED <<heap, root, ret>>
      /\ IF root = NULL THEN pc' = "empty" ELSE pc' = "descend"
  BY DEF InsertCall
<1>2. Index' = Index
  BY <1>1, SameHeld DEF Index
<1>3. Stage = "idle" /\ Stage' = "called"
  BY <1>1 DEF Stage, Unbound
<1>4. Pending' = <<k, o>>
  BY <1>1, <1>3 DEF Pending
<1>5. Idx!Call(k, o)
  BY <1>1, <1>2, <1>3, <1>4 DEF Idx!Call, Idx!NoAnswer, NoAnswer
<1> QED
  BY <1>5 DEF MapStep, Idx!Next

(* The binding is made.                                                    *)
LEMMA Binds ==
    ASSUME Stage = "called", Stage' = "bound", UNCHANGED <<key, offset, answer>>,
           key \notin DOMAIN Index,
           Index' = [k \in DOMAIN Index \union {key} |-> IF k = key THEN offset ELSE Index[k]]
    PROVE  MapStep
<1>1. Pending = <<key, offset>> /\ Pending' = Pending
  BY DEF Pending
<1>2. Pending[1] = key /\ Pending[2] = offset
  BY <1>1
<1>3. Idx!Bind
  BY <1>1, <1>2 DEF Idx!Bind, Idx!Bound
<1> QED
  BY <1>3 DEF MapStep, Idx!Next

LEMMA LeafMap ==
    ASSUME Inv, Inv', LeafInsert \/ LeafSplit \/ LeafSplitFails
    PROVE  MapStep
<1>1. /\ pc = "descend" /\ pc' = "unwind" /\ status = "" /\ status' \in {"", "oom"}
      /\ UNCHANGED <<root, key, offset, answer>>
  BY DEF LeafInsert, LeafSplit, LeafSplitFails, LeafReady, call, Inv, Control
<1>2. /\ key \notin DOMAIN Held
      /\ Held' = [k \in DOMAIN Held \union {key} |-> IF k = key THEN offset ELSE Held[k]]
  <2>1. CASE LeafInsert
    BY <1>1, <2>1, LeafGrownHeld DEF LeafInsert, LeafHeap, call
  <2>2. CASE LeafSplit
    BY <2>2, LeafSplitHeld
  <2>3. CASE LeafSplitFails
    BY <1>1, <2>3, LeafGrownHeld DEF LeafSplitFails, LeafHeap, call
  <2> QED
    BY <2>1, <2>2, <2>3
<1>3. Index = Held /\ Index' = Held'
  BY <1>1, IndexHeld, IndexHeldNext
<1>4. Stage = "called" /\ Stage' = "bound"
  BY <1>1 DEF Stage, Unbound
<1> QED
  BY ONLY <1>1, <1>2, <1>3, <1>4, Binds

LEMMA ReturnMap ==
    ASSUME Inv, ReturnCreated \/ CreateRootFails \/ ReturnFailure \/ ReturnInserted,
           RefInv
    PROVE  MapStep
<1>1. /\ UNCHANGED <<heap, root>> /\ pc' = "idle" /\ ret' = NoSplit
      /\ \/ pc = "created" /\ answer' = InsertAnswer(key, "ok")
         \/ pc = "empty" /\ answer' = InsertAnswer(key, "oom")
         \/ /\ pc = "unwind" /\ status # "" /\ status \in {"", "dup", "oom"}
            /\ answer' = InsertAnswer(key, status)
         \/ /\ pc = "unwind" /\ status = "" /\ answer' = InsertAnswer(key, "ok")
  BY DEF ReturnCreated, CreateRootFails, ReturnFailure, ReturnInserted, Answer, Inv, TypeOK
<1>2. ret' = ret
  <2>1. pc # "unwind" => ret = NoSplit
    BY <1>1 DEF Inv, Control
  <2>2. pc = "unwind" => ~ret.split
    BY DEF ReturnCreated, CreateRootFails, ReturnFailure, ReturnInserted, Inv, Control
  <2> QED
    BY <1>1, <2>1, <2>2, RetKind DEF Inv
<1>3. Index' = Index
  BY <1>1, <1>2, SameHeld DEF Index
<1>4. Stage' = "idle" /\ Pending' = << >>
  BY <1>1 DEF Stage, Unbound, Pending
<1>5. Stage # "idle" => Pending[1] = key
  BY DEF Pending
<1>6. CASE answer' = InsertAnswer(key, "ok") /\ (pc = "created" \/ (pc = "unwind" /\ status = ""))
  <2>1. Stage = "bound"
    BY <1>6 DEF Stage, Unbound
  <2>2. Idx!ReturnInserted
    BY <1>3, <1>4, <1>5, <1>6, <2>1
       DEF Idx!ReturnInserted, Idx!Return, Idx!InsertAnswer, InsertAnswer
  <2> QED
    BY <2>2 DEF MapStep, Idx!Next
<1>7. CASE answer' = InsertAnswer(key, "oom") /\ (pc = "empty" \/ (pc = "unwind" /\ status = "oom"))
  <2>1. Stage \in {"called", "bound"}
    BY <1>7 DEF Stage, Unbound
  <2>2. Idx!ReturnNoMemory
    BY <1>3, <1>4, <1>5, <1>7, <2>1
       DEF Idx!ReturnNoMemory, Idx!Return, Idx!InsertAnswer, InsertAnswer
  <2> QED
    BY <2>2 DEF MapStep, Idx!Next
<1>8. CASE answer' = InsertAnswer(key, "dup") /\ pc = "unwind" /\ status = "dup"
  <2>1. Stage = "called" /\ Index = Held
    BY <1>8, IndexHeld DEF Stage, Unbound
  <2>2. key \in DOMAIN Index
    BY <1>8, <2>1 DEF RefInv
  <2>3. Idx!ReturnDuplicate
    BY <1>3, <1>4, <1>5, <1>8, <2>1, <2>2
       DEF Idx!ReturnDuplicate, Idx!Return, Idx!InsertAnswer, InsertAnswer, Idx!Bound
  <2> QED
    BY <2>3 DEF MapStep, Idx!Next
<1> QED
  BY <1>1, <1>6, <1>7, <1>8

LEMMA GrowRootMap == ASSUME Inv, Inv', GrowRoot PROVE MapStep
<1>1. /\ pc = "unwind" /\ status = "" /\ pc' = "idle" /\ answer' = InsertAnswer(key, "ok")
  BY DEF GrowRoot, GrowReady, Answer
<1>2. root' # NULL
  BY FreshNode, NullAssumption DEF GrowRoot
<1>3. Index' = Index
  BY <1>1, <1>2, GrowRootHeld, IndexHeld, IndexHeldNext
<1>4. Stage = "bound" /\ Stage' = "idle" /\ Pending' = << >>
  BY <1>1 DEF Stage, Unbound, Pending
<1>5. Pending[1] = key
  BY <1>4 DEF Pending
<1>6. Idx!ReturnInserted
  BY <1>1, <1>3, <1>4, <1>5
     DEF Idx!ReturnInserted, Idx!Return, Idx!InsertAnswer, InsertAnswer
<1> QED
  BY <1>6 DEF MapStep, Idx!Next

LEMMA GrowRootFailsMap == ASSUME Inv, Inv', GrowRootFails PROVE MapStep
<1>1. /\ pc = "unwind" /\ status = "" /\ pc' = "idle" /\ answer' = InsertAnswer(key, "oom")
      /\ root' = root
  BY DEF GrowRootFails, GrowReady, Answer
<1>2. PICK p : p = ret.promoted
  OBVIOUS
<1>3. p \in Keys /\ Held' = [k \in {k \in DOMAIN Held : k < p} |-> Held[k]]
  BY <1>2, GrowRootFailsHeld
<1>4. Index = Held /\ Index' = Held'
  BY <1>1, IndexHeld, IndexHeldNext
<1>5. Stage = "bound" /\ Stage' = "idle" /\ Pending' = << >>
  BY <1>1 DEF Stage, Unbound, Pending
<1>6. Pending[1] = key
  BY <1>5 DEF Pending
<1>7. Idx!ReturnRootLost(p)
  BY <1>1, <1>3, <1>4, <1>5, <1>6
     DEF Idx!ReturnRootLost, Idx!Return, Idx!InsertAnswer, InsertAnswer, Idx!Restrict
<1> QED
  BY <1>3, <1>7 DEF MapStep, Idx!Next

LEMMA NoBindings == DOMAIN << >> = {} /\ \A k : k \notin DOMAIN << >>
OBVIOUS

(* The first leaf holds the first key and nothing else.                    *)
LEMMA CreateRootMap == ASSUME Inv, Inv', CreateRoot PROVE MapStep
<1>1. /\ pc = "empty" /\ CanAllocate /\ pc' = "created" /\ root' = Fresh /\ root = NULL
      /\ ret' = NoSplit /\ UNCHANGED <<key, offset, answer>>
  BY DEF CreateRoot, call, Inv, Control
<1>2. PICK f, k0, o0 : f = Fresh /\ k0 = key /\ o0 = offset
  OBVIOUS
<1>3. f \in Addr /\ f # NULL
  BY <1>1, <1>2, FreshNode, NullAssumption
<1>4. HasTree' /\ ~ret'.split
  BY <1>1, <1>2, <1>3 DEF HasTree, NoSplit
<1>5. HeldFact' /\ LiveFact'
  BY <1>4, FactsNext
<1>6. PICK ks, os : ks = <<k0>> /\ os = <<o0>>
  OBVIOUS
<1>7. /\ heap'[f].leaf = TRUE /\ heap'[f].keys = ks /\ heap'[f].offs = os
      /\ heap'[f].kids = << >>
  <2>1. heap' = [a \in DOMAIN heap \union {f} |->
                  IF a = f THEN [leaf |-> TRUE, keys |-> ks, offs |-> os,
                                 kids |-> << >>, next |-> NULL]
                  ELSE heap[a]]
    BY <1>2, <1>6 DEF CreateRoot
  <2>2. heap'[f] = [leaf |-> TRUE, keys |-> ks, offs |-> os, kids |-> << >>, next |-> NULL]
    BY ONLY <2>1
  <2> QED
    BY ONLY <2>2
<1>8. PICK C : C = {f}
  OBVIOUS
<1>9. \A n \in C : \A c : ~(c \in Children(n)')
  <2>1. \A n, c : c \in Children(n)' <=> InSeq(c, heap'[n].kids)
    BY ONLY KidsInSeqNext
  <2>2. \A c : ~InSeq(c, << >>)
    BY EmptyStack DEF InSeq
  <2> QED
    BY ONLY <1>7, <1>8, <2>1, <2>2
<1>10. Live' \subseteq C
  <2>1. root' \in C /\ (ret'.split => ret'.right \in C)
    BY ONLY <1>1, <1>2, <1>4, <1>8
  <2>2. \A n \in C \cap Live' : Children(n)' \subseteq C
    BY ONLY <1>9
  <2> QED
    BY <1>5, <2>1, <2>2 DEF LiveFact
<1>11. \A n : n \in Leaves' <=> n = f
  <2>1. f \in Live'
    BY <1>1, <1>2, <1>5 DEF LiveFact
  <2> QED
    BY <1>7, <1>8, <1>10, <2>1 DEF Leaves
<1>12. \A k, o : Binding(k, o)' <=> k = k0 /\ o = o0
  <2>1. \A k, o : Binding(k, o)' <=> \E n \in Leaves' : Holds(heap'[n], k, o)
    BY DEF Binding, Holds
  <2>2. \A k, o : Holds(heap'[f], k, o) <=> k = k0 /\ o = o0
    <3>1. /\ Len(ks) = 1 /\ ks[1] = k0 /\ os[1] = o0
      BY <1>6
    <3>2. \A k, o : Holds(heap'[f], k, o) <=> \E i \in 1 .. Len(ks) : ks[i] = k /\ os[i] = o
      BY ONLY <1>7 DEF Holds
    <3> QED
      BY ONLY <3>1, <3>2
  <2> QED
    BY ONLY <1>11, <2>1, <2>2
<1>13. Held' = [k \in {k0} |-> o0]
  <2>1. PICK g : g = Held'
    OBVIOUS
  <2>2. g = [k \in DOMAIN g |-> g[k]]
    BY <1>5, <2>1 DEF HeldFact
  <2>3. \A k, o : (k \in DOMAIN g /\ g[k] = o) <=> (k = k0 /\ o = o0)
    BY <1>5, <1>12, <2>1 DEF HeldFact
  <2>4. g = [k \in {k0} |-> o0]
    BY ONLY <2>2, <2>3
  <2> QED
    BY ONLY <2>1, <2>4
<1>14. Index = << >>
  BY <1>1 DEF Index
<1>15. Index' = Held'
  BY <1>1, <1>2, <1>3, IndexHeldNext
<1>16. /\ key \notin DOMAIN Index
       /\ Index' = [k \in DOMAIN Index \union {key} |-> IF k = key THEN offset ELSE Index[k]]
  <2>1. PICK g : g = Index
    OBVIOUS
  <2>2. DOMAIN g = {}
    BY ONLY <1>14, <2>1, NoBindings
  <2>3. [k \in {k0} |-> o0] = [k \in DOMAIN g \union {k0} |-> IF k = k0 THEN o0 ELSE g[k]]
    BY ONLY <2>2
  <2> QED
    BY ONLY <1>2, <1>13, <1>15, <2>1, <2>2, <2>3
<1>17. Stage = "called" /\ Stage' = "bound"
  BY <1>1 DEF Stage, Unbound
<1> QED
  BY ONLY <1>1, <1>16, <1>17, Binds

LEMMA SearchCallMap ==
    ASSUME Inv, NEW k \in Keys, SearchCall(k)
    PROVE  MapStep
<1>1. /\ pc = "idle" /\ UNCHANGED <<heap, root>>
      /\ IF root = NULL THEN pc' = "idle" /\ answer' = NotFound(k) /\ ret' = NoSplit
         ELSE pc' = "search" /\ answer' = NoAnswer /\ ret' = ret
  BY DEF SearchCall, Answer
<1>2. ret' = ret
  BY <1>1 DEF Inv, Control
<1>3. Index' = Index
  BY <1>1, <1>2, SameHeld DEF Index
<1>4. Stage = "idle" /\ Stage' = "idle" /\ Pending' = Pending
  BY <1>1 DEF Stage, Unbound, Pending
<1>5. CASE root = NULL
  <2>1. Index = << >>
    BY <1>5 DEF Index
  <2>2. Idx!Search(k)
    BY <1>1, <1>3, <1>4, <1>5, <2>1, NoBindings
       DEF Idx!Search, Idx!NotFound, NotFound, Idx!Bound
  <2> QED
    BY <2>2 DEF MapStep, Idx!Next
<1>6. CASE root # NULL
  <2>1. Idx!Forget
    BY <1>1, <1>3, <1>4, <1>6 DEF Idx!Forget, Idx!NoAnswer, NoAnswer
  <2> QED
    BY <2>1 DEF MapStep, Idx!Next
<1> QED
  BY <1>5, <1>6

LEMMA SearchLeafMap == ASSUME Inv, SearchLeaf PROVE MapStep
<1>1. /\ pc = "search" /\ pc' = "idle" /\ UNCHANGED <<heap, root>> /\ ret' = ret
      /\ key \in Keys
  BY DEF SearchLeaf, Answer, Inv, Control
<1>2. Index = Held /\ Index' = Index
  BY <1>1, SameHeld, IndexHeld, IndexHeldNext
<1>3. Stage = "idle" /\ Stage' = "idle" /\ Pending' = Pending
  BY <1>1 DEF Stage, Unbound, Pending
<1>4. Idx!Search(key)
  BY <1>2, <1>3, SearchHeld
     DEF Idx!Search, Idx!NotFound, NotFound, Idx!Found, Found, Idx!Bound
<1> QED
  BY <1>1, <1>4 DEF MapStep, Idx!Next

LEMMA FreeCallMap == ASSUME FreeCall PROVE MapStep
<1>1. /\ pc = "idle" /\ answer' = NoAnswer /\ root' = root
      /\ IF root = NULL THEN pc' = pc ELSE pc' = "free"
  BY DEF FreeCall
<1>2. Index' = << >>
  BY <1>1 DEF Index
<1>3. Stage = "idle" /\ Stage' = "idle" /\ Pending' = Pending
  BY <1>1 DEF Stage, Unbound, Pending
<1>4. Idx!Clear
  BY <1>1, <1>2, <1>3 DEF Idx!Clear, Idx!NoAnswer, NoAnswer
<1> QED
  BY <1>4 DEF MapStep, Idx!Next

-----------------------------------------------------------------------------
(* The refinement.                                                         *)

LEMMA StepMap == ASSUME RefInv, Inv', [Next]_vars PROVE MapStep
<1>1. Inv
  BY DEF RefInv
<1>2. CASE UNCHANGED vars
  <2>1. UNCHANGED <<heap, root, ret, pc, status, key, offset, answer>>
    BY <1>2 DEF vars
  <2>2. Stage' = Stage
    BY <2>1 DEF Stage, Unbound
  <2>3. Index' = Index
    BY <2>1, SameHeld DEF Index
  <2> QED
    BY <2>1, <2>2, <2>3, Quiet
<1>3. CASE \E k \in Keys, o \in Offsets : InsertCall(k, o)
  BY <1>1, <1>3, InsertCallMap
<1>4. CASE \E k \in Keys : SearchCall(k)
  BY <1>1, <1>4, SearchCallMap
<1>5. CASE FreeCall
  BY <1>5, FreeCallMap
<1>6. CASE Free
  BY <1>6, FreeMap
<1>7. CASE SearchDescend
  BY <1>1, <1>7, SearchDescendMap
<1>8. CASE SearchLeaf
  BY <1>1, <1>8, SearchLeafMap
<1>9. CASE CreateRoot
  BY <1>1, <1>9, CreateRootMap
<1>10. CASE ReturnCreated \/ CreateRootFails \/ ReturnFailure \/ ReturnInserted
  BY <1>1, <1>10, ReturnMap
<1>11. CASE Descend
  BY <1>1, <1>11, DescendMap
<1>12. CASE LeafDuplicate
  BY <1>1, <1>12, LeafDuplicateMap
<1>13. CASE LeafOverrun
  BY <1>1, <1>13, LeafOverrunMap
<1>14. CASE LeafInsert \/ LeafSplit \/ LeafSplitFails
  BY <1>1, <1>14, LeafMap
<1>15. CASE PassUp
  BY <1>1, <1>15, PassUpMap
<1>16. CASE LinkOverrun
  BY <1>1, <1>16, LinkOverrunMap
<1>17. CASE Link \/ LinkSplit \/ LinkSplitFails
  BY <1>1, <1>17, LinkMap
<1>18. CASE GrowRoot
  BY <1>1, <1>18, GrowRootMap
<1>19. CASE GrowRootFails
  BY <1>1, <1>19, GrowRootFailsMap
<1> QED
  BY <1>2, <1>3, <1>4, <1>5, <1>6, <1>7, <1>8, <1>9, <1>10, <1>11, <1>12, <1>13, <1>14,
     <1>15, <1>16, <1>17, <1>18, <1>19 DEF Next, Step, Calls, Insert, Search

LEMMA RefInvNext == ASSUME RefInv, [Next]_vars PROVE RefInv'
<1>1. Inv /\ Inv'
  BY NextInv DEF RefInv
<1>2. ASSUME pc' = "unwind", status' = "dup" PROVE key' \in DOMAIN Held'
  <2>1. CASE LeafDuplicate
    <3>1. key \in DOMAIN Held /\ UNCHANGED <<heap, root, ret, key>>
      BY <1>1, <2>1, DuplicateHeld DEF LeafDuplicate, call
    <3> QED
      BY <3>1, SameHeld
  <2>2. CASE PassUp
    <3>1. /\ pc = "unwind" /\ status = "dup" /\ UNCHANGED <<heap, root, key>>
          /\ ret' = NoSplit
      BY <1>2, <2>2 DEF PassUp
    <3>2. ret' = ret
      BY <1>1, <3>1, RetKind DEF Inv, Control
    <3> QED
      BY <3>1, <3>2, SameHeld DEF RefInv
  <2>3. CASE UNCHANGED vars
    <3>1. /\ pc = "unwind" /\ status = "dup" /\ UNCHANGED <<heap, root, ret, key>>
      BY <1>2, <2>3 DEF vars
    <3> QED
      BY <3>1, SameHeld DEF RefInv
  <2>4. ASSUME LeafInsert \/ LeafSplit \/ LeafSplitFails PROVE FALSE
    BY <1>1, <1>2, <2>4 DEF LeafInsert, LeafSplit, LeafSplitFails, LeafReady, Inv, Control
  <2>5. ASSUME Link \/ LinkSplit \/ LinkSplitFails PROVE FALSE
    BY <1>2, <2>5 DEF Link, LinkSplit, LinkSplitFails, LinkReady, Linking
  <2>6. ASSUME \/ CreateRoot \/ ReturnCreated \/ CreateRootFails \/ Descend \/ LeafOverrun
               \/ LinkOverrun \/ ReturnFailure \/ ReturnInserted \/ GrowRoot \/ GrowRootFails
        PROVE  FALSE
    BY <1>2, <2>6 DEF CreateRoot, ReturnCreated, CreateRootFails, Descend, LeafOverrun,
       LinkOverrun, ReturnFailure, ReturnInserted, GrowRoot, GrowRootFails, Answer
  <2>7. ASSUME Search \/ Free \/ Calls PROVE FALSE
    BY <1>2, <2>7 DEF Search, SearchDescend, SearchLeaf, Free, FreeChild, FreeNode,
       FreeReturn, Calls, InsertCall, SearchCall, FreeCall, Answer
  <2> QED
    BY <2>1, <2>2, <2>3, <2>4, <2>5, <2>6, <2>7 DEF Next, Step, Insert
<1> QED
  BY <1>1, <1>2 DEF RefInv

(* The tree is a partial map from id to offset: a new id is bound once, a  *)
(* bound id is refused and keeps its offset, a search answers from the     *)
(* map, and only a reported failure of malloc may bind or lose ids.        *)
THEOREM TreeIsIdIndex == Spec => IsIdIndex
<1>1. Init => RefInv
  BY InitInv DEF RefInv, Init
<1>2. Init => Idx!Init
  BY DEF Init, Idx!Init, Index, Stage, Unbound, Pending, Idx!NoAnswer, NoAnswer
<1>3. RefInv /\ [Next]_vars => RefInv'
  BY RefInvNext
<1>4. RefInv /\ RefInv' /\ [Next]_vars => [Idx!Next]_(Idx!vars)
  BY StepMap DEF RefInv, MapStep
<1> QED
  BY <1>1, <1>2, <1>3, <1>4, PTL DEF Spec, IsIdIndex, Idx!Spec
=============================================================================
