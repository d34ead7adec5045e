---------------------------- MODULE ParserProofs ----------------------------
(***************************************************************************)
(* Theorems about Parser: for token arrays of any length and any number of *)
(* failing allocations, parse_statement frees every block once, reads no   *)
(* token past EOF, returns 1 only when no allocation failed, and accepts   *)
(* the statements of the grammar and no others.                            *)
(***************************************************************************)
EXTENDS ParserInv, FiniteSetTheorems, SequenceTheorems, TLAPS

(* The library's induction theorems take an operator; this takes a set.    *)
LEMMA LeastNatural ==
    ASSUME NEW N \in SUBSET Nat, N # {}
    PROVE  \E m \in N : \A k \in N : m <= k
<1> DEFINE T == {0 .. k : k \in N}
           R == StrictSubsetOrdering(Nat)
           F == FiniteSubsetsOf(Nat)
<1>1. T \subseteq F
  <2> SUFFICES ASSUME NEW k \in N PROVE 0 .. k \in F
    OBVIOUS
  <2>1. 0 .. k \in SUBSET Nat
    OBVIOUS
  <2>2. IsFiniteSet(0 .. k)
    BY FS_Interval
  <2> QED
    BY <2>1, <2>2 DEF FiniteSubsetsOf
<1>2. T # {}
  OBVIOUS
<1>3. IsWellFoundedOn(R, F)
  BY FS_StrictSubsetOrderingWellFounded
<1>4. PICK X \in T : \A Y \in T : ~(<<Y, X>> \in R)
  <2> HIDE DEF T, R, F
  <2> QED
    BY <1>1, <1>2, <1>3, WFMin
<1>5. PICK m \in N : X = 0 .. m
  OBVIOUS
<1>6. ASSUME NEW k \in N, k < m PROVE FALSE
  <2>1. 0 .. k \subseteq 0 .. m /\ m \in 0 .. m /\ m \notin 0 .. k
    BY <1>6
  <2>2. 0 .. k \in SUBSET Nat /\ X \in SUBSET Nat
    BY <1>5
  <2>3. <<0 .. k, X>> \in R
    BY <2>1, <2>2, <1>5 DEF StrictSubsetOrdering
  <2> QED
    BY <2>3, <1>4
<1> QED
  BY <1>6

-----------------------------------------------------------------------------
(* The heap as a forest: every live block hangs, over child and next, under *)
(* the block that one local of S points to.  root names that local, and     *)
(* rank falls along the links, so that no link leads back.                  *)

Linked(h, p, b) == h[p].child = b \/ h[p].next = b

Below(h, root, rank, b, c) ==
    c # NULL => c \in DOMAIN h /\ root[c] = root[b] /\ rank[c] < rank[b]

(* A root is no block's child or sibling.                                   *)
Unlinked(h, o, S) == \A v \in S : o[v] # NULL => \A p \in DOMAIN h : ~Linked(h, p, o[v])

(* LinkedOnce in terms of Linked.                                           *)
LEMMA OnceApart ==
    ASSUME NEW h
    PROVE  LinkedOnce(h) <=>
             /\ \A p, q \in DOMAIN h : \A b :
                  b # NULL /\ Linked(h, p, b) /\ Linked(h, q, b) => p = q
             /\ \A p \in DOMAIN h : h[p].child # NULL => h[p].child # h[p].next
<1>1. ASSUME LinkedOnce(h), NEW p \in DOMAIN h, NEW q \in DOMAIN h, NEW b,
             b # NULL, Linked(h, p, b), Linked(h, q, b)
      PROVE  p = q
  BY <1>1 DEF LinkedOnce, Linked
<1>2. ASSUME \A p, q \in DOMAIN h : \A b :
               b # NULL /\ Linked(h, p, b) /\ Linked(h, q, b) => p = q,
             NEW p \in DOMAIN h, NEW q \in DOMAIN h,
             NEW b \in {h[p].child, h[p].next} \cap {h[q].child, h[q].next}, b # NULL
      PROVE  p = q
  BY <1>2 DEF Linked
<1> QED
  BY <1>1, <1>2 DEF LinkedOnce

ForestBy(h, o, S, root, rank, top) ==
    /\ LinkedOnce(h) /\ Unlinked(h, o, S)
    /\ root \in [DOMAIN h -> S]
    /\ top \in Nat /\ rank \in [DOMAIN h -> 0..top]
    /\ \A v \in S : o[v] # NULL => o[v] \in DOMAIN h /\ root[o[v]] = v
    /\ \A b \in DOMAIN h :
         /\ o[root[b]] # NULL
         /\ Below(h, root, rank, b, h[b].child)
         /\ Below(h, root, rank, b, h[b].next)
         /\ b # o[root[b]] => \E p \in DOMAIN h : Linked(h, p, b)

Forest(h, o, S) == \E root, rank, top : ForestBy(h, o, S, root, rank, top)

(* What TypeOK says of the addresses.                                       *)
Addresses ==
    /\ made \in Nat /\ DOMAIN heap \subseteq 1..made
    /\ \A b \in DOMAIN heap : heap[b].child \in 0..made /\ heap[b].next \in 0..made

(* The recursion of Freed has a solution: the blocks in every set that is  *)
(* closed under child and next.                                            *)
LEMMA FreedStep ==
    ASSUME Addresses, NEW x \in 0..made
    PROVE  Freed(x) = IF x = NULL THEN {}
                      ELSE IF x \notin DOMAIN heap THEN {x}
                      ELSE Freed(heap[x].child) \cup Freed(heap[x].next) \cup {x}
<1> DEFINE Closed(C) == \A z \in C : z \in DOMAIN heap => heap[z].child \in C /\ heap[z].next \in C
           G(y) == {z \in 1..made : \A C \in SUBSET (0..made) : Closed(C) /\ y \in C => z \in C}
           E(f, y) == IF y = NULL THEN {}
                      ELSE IF y \notin DOMAIN heap THEN {y}
                      ELSE f[heap[y].child] \cup f[heap[y].next] \cup {y}
           g == [y \in 0..made |-> G(y)]
<1>a. ASSUME NEW y, NEW C \in SUBSET (0..made), Closed(C), y \in C
      PROVE  G(y) \subseteq C
  BY <1>a
<1>b. \A y : G(y) \subseteq 1..made
  OBVIOUS
<1>c. 0..made = {0} \cup 1..made /\ 0 \notin 1..made /\ 0 \notin DOMAIN heap
  BY DEF Addresses
<1>1. ASSUME NEW y \in 0..made PROVE g[y] = E(g, y)
  <2>1. CASE y = NULL
    <3>1. {0} \in SUBSET (0..made) /\ Closed({0}) /\ y \in {0}
      BY <1>c, <2>1 DEF NULL
    <3>2. G(y) = {}
      <4> HIDE DEF G, Closed
      <4> QED
        BY <3>1, <1>a, <1>b, <1>c
    <3> QED
      BY <2>1, <3>2
  <2>2. CASE y # NULL /\ y \notin DOMAIN heap
    <3>1. {y} \in SUBSET (0..made) /\ Closed({y}) /\ y \in 1..made
      BY <2>2, <1>c DEF NULL
    <3>2. G(y) \subseteq {y}
      <4> HIDE DEF G, Closed
      <4> QED
        BY <3>1, <1>a
    <3>3. y \in G(y)
      BY <3>1
    <3>4. G(y) = {y}
      BY <3>2, <3>3
    <3> QED
      BY <2>2, <3>4
  <2>3. CASE y # NULL /\ y \in DOMAIN heap
    <3> DEFINE c == heap[y].child
               n == heap[y].next
    <3>1. c \in 0..made /\ n \in 0..made /\ y \in 1..made
      BY <2>3 DEF Addresses
    <3>2. G(c) \cup G(n) \cup {y} \subseteq G(y)
      BY <2>3, <3>1
    <3>3. G(y) \subseteq G(c) \cup G(n) \cup {y}
      <4> DEFINE C == G(c) \cup G(n) \cup {y} \cup {0}
      <4>1. \A w \in 0..made : Closed(G(w) \cup {0}) /\ w \in G(w) \cup {0}
        <5> SUFFICES ASSUME NEW w \in 0..made
                     PROVE  Closed(G(w) \cup {0}) /\ w \in G(w) \cup {0}
          OBVIOUS
        <5>1. w \in G(w) \cup {0}
          OBVIOUS
        <5>2. ASSUME NEW u \in G(w), u \in DOMAIN heap,
                     NEW t \in {heap[u].child, heap[u].next}
              PROVE  t \in G(w) \cup {0}
          BY <5>2 DEF Addresses
        <5>3. 0 \notin DOMAIN heap
          BY DEF Addresses
        <5> QED
          BY <5>1, <5>2, <5>3
      <4>2. Closed(C)
        <5>1. c \in C /\ n \in C /\ 0 \notin DOMAIN heap
          <6> HIDE DEF G
          <6> QED
            BY <4>1, <3>1, <1>c
        <5>2. \A w \in {c, n} : \A t \in G(w) : t \in DOMAIN heap =>
                heap[t].child \in G(w) \cup {0} /\ heap[t].next \in G(w) \cup {0}
          <6> HIDE DEF G
          <6> QED
            BY <4>1, <3>1
        <5> HIDE DEF G
        <5> QED
          BY <5>1, <5>2
      <4>3. C \in SUBSET (0..made) /\ y \in C
        <5> HIDE DEF G
        <5> QED
          BY <3>1, <1>b, <1>c
      <4>4. G(y) \subseteq C
        <5> HIDE DEF G, Closed, C
        <5> QED
          BY <4>2, <4>3, <1>a
      <4> QED
        <5> HIDE DEF G
        <5> QED
          BY <4>4, <1>b, <1>c
    <3>4. G(y) = G(c) \cup G(n) \cup {y}
      BY <3>2, <3>3
    <3> HIDE DEF G
    <3> QED
      BY <2>3, <3>1, <3>4
  <2> HIDE DEF E, g
  <2> QED
    BY <2>1, <2>2, <2>3
<1> HIDE DEF G
<1>2. g = [y \in 0..made |-> E(g, y)]
  BY <1>1
<1> DEFINE F == CHOOSE f : f = [y \in 0..made |-> E(f, y)]
<1>3. F = [y \in 0..made |-> E(F, y)]
  <2> HIDE DEF E, g
  <2> QED
    BY <1>2
<1>4. \A y \in 0..made : Freed(y) = F[y]
  BY DEF Freed
<1>5. Freed(x) = E(F, x)
  <2> HIDE DEF F, E
  <2> QED
    BY <1>3, <1>4
<1> HIDE DEF F
<1>6. x \in DOMAIN heap => Freed(heap[x].child) = F[heap[x].child] /\ Freed(heap[x].next) = F[heap[x].next]
  BY <1>4 DEF Addresses
<1> QED
  BY <1>5, <1>6

(* Induction on the rank, over a set of what is already known to be good.   *)
LEMMA RankInduction ==
    ASSUME NEW D, NEW rank \in [D -> Nat], NEW T,
           \A b \in D : (\A c \in D : rank[c] < rank[b] => c \in T) => b \in T
    PROVE  \A b \in D : b \in T
<1> SUFFICES ASSUME NEW b \in D, b \notin T PROVE FALSE
  OBVIOUS
<1> DEFINE N == {rank[c] : c \in D \ T}
<1>1. N \in SUBSET Nat /\ N # {}
  OBVIOUS
<1>2. PICK m \in N : \A k \in N : m <= k
  <2> HIDE DEF N
  <2> QED
    BY <1>1, LeastNatural
<1>3. PICK c \in D \ T : m = rank[c]
  OBVIOUS
<1>4. ASSUME NEW d \in D, rank[d] < rank[c], d \notin T PROVE FALSE
  <2>1. rank[d] \in N /\ rank[d] \in Nat /\ rank[c] \in Nat
    BY <1>4
  <2>2. m <= rank[d]
    BY <1>2, <2>1
  <2> QED
    BY <2>1, <2>2, <1>3, <1>4
<1> HIDE DEF N
<1> QED
  BY <1>3, <1>4

(* What free_ast frees from a live block stays in the tree and misses nothing below. *)
LEMMA FreedBelow ==
    ASSUME Addresses, NEW S, NEW root, NEW rank, NEW top,
           ForestBy(heap, own, S, root, rank, top)
    PROVE  \A b \in DOMAIN heap :
             /\ b \in Freed(b)
             /\ \A p \in Freed(b) :
                  /\ p \in DOMAIN heap /\ root[p] = root[b]
                  /\ heap[p].child # NULL => heap[p].child \in Freed(b)
                  /\ heap[p].next # NULL => heap[p].next \in Freed(b)
<1> DEFINE D == DOMAIN heap
           Good(b) ==
             /\ b \in Freed(b)
             /\ \A p \in Freed(b) :
                  /\ p \in D /\ root[p] = root[b]
                  /\ heap[p].child # NULL => heap[p].child \in Freed(b)
                  /\ heap[p].next # NULL => heap[p].next \in Freed(b)
           T == {b \in D : Good(b)}
<1>1. rank \in [D -> Nat]
  BY DEF ForestBy
<1>2. ASSUME NEW b \in D, \A c \in D : rank[c] < rank[b] => c \in T
      PROVE  b \in T
  <2> DEFINE c == heap[b].child
             n == heap[b].next
  <2>1. c \in 0..made /\ n \in 0..made /\ b \in 0..made /\ b # NULL
    BY DEF Addresses, NULL
  <2>2. Freed(b) = Freed(c) \cup Freed(n) \cup {b}
    BY <2>1, FreedStep
  <2>3. Below(heap, root, rank, b, c) /\ Below(heap, root, rank, b, n)
    BY DEF ForestBy
  <2>4. \A l \in {c, n} : IF l = NULL THEN Freed(l) = {} ELSE Good(l) /\ l \in D /\ root[l] = root[b]
    <3> SUFFICES ASSUME NEW l \in {c, n}
                 PROVE  IF l = NULL THEN Freed(l) = {} ELSE Good(l) /\ l \in D /\ root[l] = root[b]
      OBVIOUS
    <3>1. CASE l = NULL
      <4>1. Freed(l) = {}
        BY <3>1, <2>1, FreedStep DEF NULL
      <4> QED
        BY <3>1, <4>1
    <3>2. CASE l # NULL
      <4>1. l \in D /\ root[l] = root[b] /\ rank[l] < rank[b]
        BY <2>3, <3>2 DEF Below
      <4>2. l \in T
        BY <4>1, <1>2
      <4> HIDE DEF Good
      <4> QED
        BY <3>2, <4>1, <4>2
    <3> QED
      BY <3>1, <3>2
  <2> HIDE DEF c, n
  <2>5. Good(b)
    BY <2>2, <2>4 DEF c, n
  <2> HIDE DEF Good
  <2> QED
    BY <2>5
<1>3. \A b \in D : b \in T
  <2> HIDE DEF T, D
  <2> QED
    BY <1>1, <1>2, RankInduction
<1> QED
  BY <1>3

(* What free_ast frees from the block that v points to: the tree of v.      *)
LEMMA FreedTree ==
    ASSUME Addresses, NEW S, NEW root, NEW rank, NEW top,
           ForestBy(heap, own, S, root, rank, top),
           NEW v \in S, own[v] # NULL
    PROVE  Freed(own[v]) = {b \in DOMAIN heap : root[b] = v}
<1> DEFINE D == DOMAIN heap
           R == own[v]
           up == [b \in D |-> top - rank[b]]
           T == {b \in D : root[b] = v => b \in Freed(R)}
<1>1. R \in D /\ root[R] = v
  BY DEF ForestBy
<1>2. /\ R \in Freed(R)
      /\ \A p \in Freed(R) : /\ p \in D /\ root[p] = v
                             /\ heap[p].child # NULL => heap[p].child \in Freed(R)
                             /\ heap[p].next # NULL => heap[p].next \in Freed(R)
  BY <1>1, FreedBelow
<1>3. up \in [D -> Nat]
  BY DEF ForestBy
<1>4. ASSUME NEW b \in D, \A c \in D : up[c] < up[b] => c \in T
      PROVE  b \in T
  <2> SUFFICES ASSUME root[b] = v, b # R PROVE b \in Freed(R)
    BY <1>2
  <2>1. PICK p \in D : Linked(heap, p, b)
    BY DEF ForestBy
  <2>2. Below(heap, root, rank, p, b)
    BY <2>1 DEF ForestBy, Linked
  <2>3. b # NULL
    BY DEF NULL, Addresses
  <2>4. root[p] = v /\ rank[b] < rank[p]
    BY <2>2, <2>3 DEF Below
  <2>5. rank[b] \in Nat /\ rank[p] \in Nat /\ top \in Nat
    BY DEF ForestBy
  <2>6. p \in T
    BY <2>4, <2>5, <1>4
  <2>7. p \in Freed(R)
    BY <2>4, <2>6
  <2> QED
    BY <2>7, <2>1, <2>3, <1>2 DEF Linked
<1>5. \A b \in D : b \in T
  <2> HIDE DEF T, D, up
  <2> QED
    BY <1>3, <1>4, RankInduction
<1> HIDE DEF R
<1>6. \A b \in D : root[b] = v => b \in Freed(R)
  BY <1>5
<1> QED
  BY <1>2, <1>6 DEF R

(* The recursion of LastSibling has a solution, and it ends at a block of   *)
(* the same tree that has no sibling after it.                              *)
LEMMA LastSiblingWorks ==
    ASSUME Addresses, NEW S, NEW root, NEW rank, NEW top,
           ForestBy(heap, own, S, root, rank, top),
           NEW b \in DOMAIN heap
    PROVE  /\ LastSibling(b) \in DOMAIN heap
           /\ heap[LastSibling(b)].next = NULL
           /\ root[LastSibling(b)] = root[b]
<1> DEFINE D == DOMAIN heap
           Closed(C) == \A z \in C : heap[z].next # NULL => heap[z].next \in C
           After(y) == {z \in D : \A C \in SUBSET D : Closed(C) /\ y \in C => z \in C}
           Ends(y) == {z \in After(y) : heap[z].next = NULL}
           E(f, y) == IF heap[y].next = NULL THEN y ELSE f[heap[y].next]
           g == [y \in D |-> CHOOSE z : z \in Ends(y)]
<1>1. ASSUME NEW y \in D
      PROVE  heap[y].next # NULL => /\ heap[y].next \in D
                                    /\ root[heap[y].next] = root[y]
                                    /\ rank[heap[y].next] < rank[y]
  BY DEF ForestBy, Below
<1>2. ASSUME NEW y \in D, NEW C \in SUBSET D, Closed(C), y \in C
      PROVE  After(y) \subseteq C
  BY <1>2
<1>3. ASSUME NEW y \in D PROVE After(y) \in SUBSET D /\ y \in After(y) /\ Closed(After(y))
  <2>1. After(y) \in SUBSET D /\ y \in After(y)
    OBVIOUS
  <2>2. ASSUME NEW z \in After(y), heap[z].next # NULL PROVE heap[z].next \in After(y)
    BY <2>2, <1>1
  <2> QED
    BY <2>1, <2>2
<1> HIDE DEF After
<1>4. ASSUME NEW y \in D PROVE g[y] = E(g, y)
  <2>1. CASE heap[y].next = NULL
    <3>1. {y} \in SUBSET D /\ Closed({y}) /\ y \in {y}
      BY <2>1
    <3>2. After(y) \subseteq {y}
      <4> HIDE DEF Closed
      <4> QED
        BY <3>1, <1>2
    <3>3. Ends(y) = {y}
      BY <3>2, <1>3, <2>1
    <3> HIDE DEF Ends
    <3> QED
      BY <2>1, <3>3
  <2>2. CASE heap[y].next # NULL
    <3> DEFINE n == heap[y].next
    <3>1. n \in D
      BY <2>2, <1>1
    <3>2. {y} \cup After(n) \in SUBSET D /\ Closed({y} \cup After(n)) /\ y \in {y} \cup After(n)
      BY <3>1, <1>3
    <3>3. After(y) \subseteq {y} \cup After(n)
      <4> HIDE DEF Closed
      <4> QED
        BY <3>2, <1>2
    <3>4. Closed(After(y)) /\ n \in After(y) /\ After(y) \in SUBSET D
      BY <1>3, <2>2
    <3>5. After(n) \subseteq After(y)
      <4> HIDE DEF Closed
      <4> QED
        BY <3>1, <3>4, <1>2
    <3>6. Ends(y) = Ends(n)
      BY <3>3, <3>5, <2>2
    <3> HIDE DEF Ends
    <3> QED
      BY <2>2, <3>1, <3>6
  <2> QED
    BY <2>1, <2>2
<1> HIDE DEF Ends, Closed
<1>5. g = [y \in D |-> E(g, y)]
  BY <1>4
<1> DEFINE L == CHOOSE f : f = [y \in D |-> E(f, y)]
<1>6. L = [y \in D |-> E(L, y)]
  <2> HIDE DEF E, g
  <2> QED
    BY <1>5
<1>7. \A y \in D : LastSibling(y) = L[y]
  BY DEF LastSibling
<1> HIDE DEF L
<1> DEFINE Good(y) == L[y] \in D /\ heap[L[y]].next = NULL /\ root[L[y]] = root[y]
           T == {y \in D : Good(y)}
<1>8. rank \in [D -> Nat]
  BY DEF ForestBy
<1>9. ASSUME NEW y \in D, \A c \in D : rank[c] < rank[y] => c \in T
      PROVE  y \in T
  <2>1. L[y] = E(L, y)
    <3> HIDE DEF E
    <3> QED
      BY <1>6
  <2>2. CASE heap[y].next = NULL
    BY <2>1, <2>2
  <2>3. CASE heap[y].next # NULL
    <3>1. heap[y].next \in T /\ L[y] = L[heap[y].next] /\ root[heap[y].next] = root[y]
      BY <2>1, <2>3, <1>1, <1>9
    <3> QED
      BY <3>1
  <2> QED
    BY <2>2, <2>3
<1>10. \A y \in D : y \in T
  <2> HIDE DEF T, D
  <2> QED
    BY <1>8, <1>9, RankInduction
<1> QED
  BY <1>7, <1>10

-----------------------------------------------------------------------------
(* What the memory operations do to the forest.                             *)

(* A local that is NULL may be counted among the owners or left out.        *)
LEMMA OwnersMayBeNull ==
    ASSUME NEW h, NEW o, NEW S, NEW T, Forest(h, o, S),
           \A v \in (S \ T) \cup (T \ S) : o[v] = NULL
    PROVE  Forest(h, o, T)
<1>1. PICK root, rank, top : ForestBy(h, o, S, root, rank, top)
  BY DEF Forest
<1>2. \A b \in DOMAIN h : root[b] \in S /\ o[root[b]] # NULL
  BY <1>1 DEF ForestBy
<1>3. root \in [DOMAIN h -> T]
  <2>1. root \in [DOMAIN h -> S]
    BY <1>1 DEF ForestBy
  <2> QED
    BY <1>2, <2>1
<1>4. \A v \in T : o[v] # NULL => v \in S
  OBVIOUS
<1>6. Unlinked(h, o, T)
  BY <1>1, <1>4 DEF ForestBy, Unlinked
<1>5. ForestBy(h, o, T, root, rank, top)
  BY <1>1, <1>3, <1>4, <1>6 DEF ForestBy
<1> QED
  BY <1>5 DEF Forest

(* When no owner has a block, no block is live.                             *)
LEMMA NoOwnerNoBlock ==
    ASSUME NEW h, NEW o, NEW S, Forest(h, o, S), \A v \in S : o[v] = NULL
    PROVE  DOMAIN h = {}
BY DEF Forest, ForestBy

(* Owners that keep their pointers, and a heap that stays, keep the forest. *)
LEMMA SameForest ==
    ASSUME NEW h, NEW o, NEW p, NEW S, Forest(h, o, S), \A v \in S : p[v] = o[v]
    PROVE  Forest(h, p, S)
<1>1. PICK root, rank, top : ForestBy(h, o, S, root, rank, top)
  BY DEF Forest
<1>2. \A b \in DOMAIN h : root[b] \in S
  BY <1>1 DEF ForestBy
<1>4. Unlinked(h, p, S)
  BY <1>1 DEF ForestBy, Unlinked
<1>3. ForestBy(h, p, S, root, rank, top)
  BY <1>1, <1>2, <1>4 DEF ForestBy
<1> QED
  BY <1>3 DEF Forest

(* malloc adds a tree of one block.                                         *)
LEMMA MakeAddsTree ==
    ASSUME Addresses, own \in [Locals -> 0..made], NEW S \in SUBSET Locals,
           Forest(heap, own, S), NEW v \in Locals \ S, NEW type, NEW text,
           Make(v, type, text)
    PROVE  Forest(heap', own', S \cup {v})
<1>1. PICK root, rank, top : ForestBy(heap, own, S, root, rank, top)
  BY DEF Forest
<1> DEFINE b == made + 1
           D == DOMAIN heap
           root2 == [x \in D \cup {b} |-> IF x = b THEN v ELSE root[x]]
           rank2 == [x \in D \cup {b} |-> IF x = b THEN 0 ELSE rank[x]]
<1>2. b \notin D /\ b # NULL /\ b \in Nat
  BY DEF Addresses, NULL
<1>3. /\ DOMAIN heap' = D \cup {b}
      /\ \A x \in D : heap'[x] = heap[x]
      /\ heap'[b].child = NULL /\ heap'[b].next = NULL
      /\ own'[v] = b
      /\ \A w \in S : own'[w] = own[w]
  BY <1>2 DEF Make
<1>4. top \in Nat /\ rank2 \in [DOMAIN heap' -> 0..top]
  BY <1>1, <1>2, <1>3 DEF ForestBy
<1>5. root2 \in [DOMAIN heap' -> S \cup {v}]
  BY <1>1, <1>2, <1>3 DEF ForestBy
<1>6. \A w \in S \cup {v} : own'[w] # NULL => own'[w] \in DOMAIN heap' /\ root2[own'[w]] = w
  BY <1>1, <1>2, <1>3 DEF ForestBy
<1>7. ASSUME NEW x \in DOMAIN heap'
      PROVE  /\ own'[root2[x]] # NULL
             /\ Below(heap', root2, rank2, x, heap'[x].child)
             /\ Below(heap', root2, rank2, x, heap'[x].next)
             /\ x # own'[root2[x]] => \E p \in DOMAIN heap' : Linked(heap', p, x)
  <2>1. CASE x = b
    BY <2>1, <1>2, <1>3 DEF Below
  <2>2. CASE x \in D
    <3>1. root2[x] = root[x] /\ rank2[x] = rank[x] /\ root[x] \in S /\ heap'[x] = heap[x]
      BY <2>2, <1>1, <1>2, <1>3 DEF ForestBy
    <3>2. own[root[x]] # NULL /\ own'[root2[x]] = own[root[x]]
      BY <2>2, <3>1, <1>1, <1>3 DEF ForestBy
    <3>3. \A c : Below(heap, root, rank, x, c) => Below(heap', root2, rank2, x, c)
      BY <3>1, <1>2, <1>3 DEF Below
    <3>4. x # own[root[x]] => \E p \in D : Linked(heap, p, x)
      BY <2>2, <1>1 DEF ForestBy
    <3>5. \A p \in D : Linked(heap, p, x) => Linked(heap', p, x)
      BY <1>3 DEF Linked
    <3>6. Below(heap, root, rank, x, heap[x].child) /\ Below(heap, root, rank, x, heap[x].next)
      BY <2>2, <1>1 DEF ForestBy
    <3> HIDE DEF root2, rank2
    <3> QED
      BY <3>1, <3>2, <3>3, <3>4, <3>5, <3>6, <1>3
  <2> QED
    BY <2>1, <2>2, <1>3
<1>9. \A p \in D : heap[p].child # b /\ heap[p].next # b
  BY DEF Addresses
<1> HIDE DEF root2, rank2, b, D
<1>10. LinkedOnce(heap')
  <2>1. LinkedOnce(heap)
    BY <1>1 DEF ForestBy
  <2>2. D = DOMAIN heap
    BY DEF D
  <2>3. ASSUME NEW p \in DOMAIN heap', NEW q \in DOMAIN heap', NEW x,
               x # NULL, Linked(heap', p, x), Linked(heap', q, x)
        PROVE  p = q
    <3>1. p \in D /\ q \in D
      BY <2>3, <1>3 DEF Linked
    <3>2. Linked(heap, p, x) /\ Linked(heap, q, x)
      BY <3>1, <2>3, <1>3 DEF Linked
    <3> QED
      BY <3>1, <3>2, <2>1, <2>2, <2>3, OnceApart
  <2>4. ASSUME NEW p \in DOMAIN heap', heap'[p].child # NULL
        PROVE  heap'[p].child # heap'[p].next
    <3>1. p \in D /\ heap'[p] = heap[p]
      BY <2>4, <1>3
    <3> QED
      BY <3>1, <2>4, <2>1, <2>2, OnceApart
  <2> QED
    BY <2>3, <2>4, OnceApart
<1>11. Unlinked(heap', own', S \cup {v})
  <2>1. \A w \in S : own[w] # NULL => own[w] \in D /\ \A p \in D : ~Linked(heap, p, own[w])
    BY <1>1 DEF ForestBy, Unlinked, D
  <2>2. \A p \in D : \A x : Linked(heap', p, x) => Linked(heap, p, x)
    BY <1>3 DEF Linked
  <2>3. \A x : Linked(heap', b, x) => x = NULL
    BY <1>3 DEF Linked
  <2>4. \A p \in D : ~Linked(heap', p, b)
    BY <1>3, <1>9 DEF Linked
  <2> QED
    BY <2>1, <2>2, <2>3, <2>4, <1>2, <1>3 DEF Unlinked
<1>8. ForestBy(heap', own', S \cup {v}, root2, rank2, top)
  BY <1>4, <1>5, <1>6, <1>7, <1>10, <1>11 DEF ForestBy
<1> QED
  BY <1>8 DEF Forest

(* A block that becomes the child of a block without one, or the sibling    *)
(* after one without any, takes its tree along.                             *)
LEMMA LinkJoinsTrees ==
    ASSUME NEW h, NEW o, NEW S, NEW root, NEW rank, NEW top,
           ForestBy(h, o, S, root, rank, top),
           NEW p \in S, NEW c \in S, p # c, o[p] # NULL, o[c] # NULL,
           NEW l \in DOMAIN h, root[l] = p,
           NEW g, DOMAIN g = DOMAIN h, 0 \notin DOMAIN h,
           \A x \in DOMAIN h : /\ x # l => g[x].child = h[x].child /\ g[x].next = h[x].next,
           \/ h[l].child = NULL /\ g[l].child = o[c] /\ g[l].next = h[l].next
           \/ h[l].next = NULL /\ g[l].next = o[c] /\ g[l].child = h[l].child
    PROVE  Forest(g, o, S \ {c})
<1> DEFINE D == DOMAIN h
           C == o[c]
           root2 == [x \in D |-> IF root[x] = c THEN p ELSE root[x]]
           top2 == 2 * top + 1
           rank2 == [x \in D |-> IF root[x] = p THEN rank[x] + top + 1 ELSE rank[x]]
<1>1. C \in D /\ root[C] = c /\ top \in Nat /\ C # NULL
  BY DEF ForestBy
<1>2. \A x \in D : rank[x] \in 0..top /\ root[x] \in S
  BY DEF ForestBy
<1>3. root2 \in [D -> S \ {c}]
  BY <1>2
<1>4. top2 \in Nat /\ rank2 \in [D -> 0..top2]
  BY <1>1, <1>2
<1>5. \A v \in S \ {c} : o[v] # NULL => o[v] \in D /\ root2[o[v]] = v
  BY DEF ForestBy
<1>6. ASSUME NEW x \in D, NEW y \in D, root[y] = root[x], rank[y] < rank[x]
      PROVE  root2[y] = root2[x] /\ rank2[y] < rank2[x]
  BY <1>6, <1>1, <1>2
<1>7. root2[C] = root2[l] /\ rank2[C] < rank2[l]
  BY <1>1, <1>2
<1>8. ASSUME NEW x \in D, NEW y, Below(h, root, rank, x, y)
      PROVE  Below(g, root2, rank2, x, y)
  <2> HIDE DEF root2, rank2
  <2> QED
    BY <1>8, <1>6 DEF Below
<1>9. Below(g, root2, rank2, l, C)
  <2> HIDE DEF root2, rank2, C
  <2> QED
    BY <1>1, <1>7 DEF Below
<1>10. ASSUME NEW x \in D
       PROVE  /\ o[root2[x]] # NULL
              /\ Below(g, root2, rank2, x, g[x].child)
              /\ Below(g, root2, rank2, x, g[x].next)
              /\ x # o[root2[x]] => \E q \in D : Linked(g, q, x)
  <2>1. o[root2[x]] # NULL
    BY DEF ForestBy
  <2>2. Below(h, root, rank, x, h[x].child) /\ Below(h, root, rank, x, h[x].next)
    BY DEF ForestBy
  <2>3. Below(g, root2, rank2, x, g[x].child) /\ Below(g, root2, rank2, x, g[x].next)
    <3> HIDE DEF root2, rank2, C
    <3> QED
      BY <2>2, <1>8, <1>9 DEF C
  <2>4. ASSUME x # o[root2[x]] PROVE \E q \in D : Linked(g, q, x)
    <3>1. CASE x = C
      BY <3>1 DEF Linked
    <3>2. CASE x # C
      <4>1. x # o[root[x]]
        BY <2>4, <3>2
      <4>2. PICK q \in D : Linked(h, q, x)
        BY <4>1 DEF ForestBy
      <4>3. x # NULL
        BY DEF NULL
      <4>4. Linked(g, q, x)
        BY <4>2, <4>3 DEF Linked
      <4> QED
        BY <4>4
    <3> QED
      BY <3>1, <3>2
  <2> QED
    BY <2>1, <2>3, <2>4
<1> HIDE DEF root2, rank2, top2, D
<1>12. \A q \in D :
          /\ g[q].child # h[q].child => (q = l /\ g[q].child = C /\ h[q].child = NULL)
          /\ g[q].next # h[q].next => (q = l /\ g[q].next = C /\ h[q].next = NULL)
  BY DEF D
<1>13. \A q \in D : h[q].child # C /\ h[q].next # C
  BY DEF ForestBy, Unlinked, Linked, D
<1>15. g[l].child # h[l].child => g[l].next = h[l].next
  OBVIOUS
<1>16. LinkedOnce(g)
  <2>1. LinkedOnce(h)
    BY DEF ForestBy
  <2>2. DOMAIN g = D /\ DOMAIN h = D
    BY DEF D
  <2> HIDE DEF C
  <2>3. ASSUME NEW q \in D, NEW r \in D, NEW b, b # NULL, Linked(g, q, b), Linked(g, r, b)
        PROVE  q = r
    <3>1. CASE b = C
      <4>1. q = l /\ r = l
        BY <2>3, <3>1, <1>12, <1>13 DEF Linked
      <4> QED
        BY <4>1
    <3>2. CASE b # C
      <4>1. Linked(h, q, b) /\ Linked(h, r, b)
        BY <2>3, <3>2, <1>12 DEF Linked
      <4> QED
        BY <4>1, <2>1, <2>2, <2>3, OnceApart
    <3> QED
      BY <3>1, <3>2
  <2>4. ASSUME NEW q \in D, g[q].child # NULL PROVE g[q].child # g[q].next
    <3>1. h[q].child # NULL => h[q].child # h[q].next
      BY <2>1, <2>2, OnceApart
    <3>2. h[q].child # C /\ h[q].next # C
      BY <1>13
    <3>3. CASE g[q].child = h[q].child
      BY <2>4, <3>1, <3>2, <3>3, <1>12
    <3>4. CASE g[q].child # h[q].child
      BY <2>4, <3>2, <3>4, <1>12, <1>15
    <3> QED
      BY <3>3, <3>4
  <2> QED
    BY <2>2, <2>3, <2>4, OnceApart
<1>17. Unlinked(g, o, S \ {c})
  <2>1. ASSUME NEW v \in S \ {c}, o[v] # NULL, NEW q \in D
        PROVE  ~Linked(g, q, o[v])
    <3>1. ~Linked(h, q, o[v])
      BY <2>1 DEF ForestBy, Unlinked, D
    <3>2. o[v] # C
      BY <2>1 DEF ForestBy
    <3> HIDE DEF C
    <3> QED
      BY <3>1, <3>2, <1>12 DEF Linked
  <2> QED
    BY <2>1 DEF Unlinked, D
<1>11. ForestBy(g, o, S \ {c}, root2, rank2, top2)
  BY <1>3, <1>4, <1>5, <1>10, <1>16, <1>17 DEF ForestBy, D
<1> QED
  BY <1>11 DEF Forest

(* free_ast on the owners in held takes their trees and leaves the others.  *)
LEMMA ReleaseTakesTrees ==
    ASSUME Addresses, NEW S, Forest(heap, own, S),
           NEW held, \A v \in held : v \in S \/ own[v] = NULL,
           NEW to, Release(held, to)
    PROVE  /\ pc' = to
           /\ Forest(heap', own, S \ held)
           /\ heap' \in [DOMAIN heap' -> {heap[b] : b \in DOMAIN heap}]
           /\ DOMAIN heap' \subseteq DOMAIN heap
<1>1. PICK root, rank, top : ForestBy(heap, own, S, root, rank, top)
  BY DEF Forest
<1> DEFINE D == DOMAIN heap
           given == {own[v] : v \in {h \in held : own[h] # NULL}}
           lost == UNION {Freed(b) : b \in given}
           E == D \ lost
<1>2. ASSUME NEW v \in held
      PROVE  Freed(own[v]) = {b \in D : root[b] = v}
  <2>1. CASE own[v] = NULL
    <3>1. Freed(own[v]) = {}
      BY <2>1, FreedStep DEF Addresses, NULL
    <3>2. {b \in D : root[b] = v} = {}
      BY <2>1, <1>1 DEF ForestBy
    <3> QED
      BY <3>1, <3>2
  <2>2. CASE own[v] # NULL
    BY <2>2, <1>1, FreedTree
  <2> QED
    BY <2>1, <2>2
<1>3. \A b \in D : own[root[b]] # NULL
  BY <1>1 DEF ForestBy
<1>4. lost = {b \in D : root[b] \in held}
  <2>1. ASSUME NEW x \in lost PROVE x \in D /\ root[x] \in held
    <3>1. PICK v \in held : own[v] # NULL /\ x \in Freed(own[v])
      OBVIOUS
    <3> QED
      BY <3>1, <1>2
  <2>2. ASSUME NEW x \in D, root[x] \in held PROVE x \in lost
    <3>1. x \in Freed(own[root[x]]) /\ own[root[x]] \in given
      BY <2>2, <1>2, <1>3
    <3> QED
      BY <3>1
  <2> HIDE DEF lost
  <2> QED
    BY <2>1, <2>2
<1>5. \A v, w \in held : v # w => Freed(own[v]) \cap Freed(own[w]) = {}
  BY <1>2
<1>6. lost \subseteq D
  <2> HIDE DEF lost
  <2> QED
    BY <1>4
<1>7. pc' = to /\ heap' = [b \in E |-> heap[b]]
  <2>1. heap' = Restrict(heap, E) /\ pc' = IF (\A v, w \in held : v # w => Freed(own[v]) \cap Freed(own[w]) = {})
                     /\ lost \subseteq DOMAIN heap THEN to ELSE "broken"
    BY DEF Release
  <2> HIDE DEF lost, E
  <2> QED
    BY <2>1, <1>5, <1>6 DEF Restrict
<1> HIDE DEF given, lost
<1>8. DOMAIN heap' = E /\ E \subseteq D /\ \A b \in E : heap'[b] = heap[b] /\ root[b] \in S \ held
  BY <1>7, <1>4, <1>1 DEF ForestBy
<1> DEFINE root2 == [b \in E |-> root[b]]
           rank2 == [b \in E |-> rank[b]]
<1>9. root2 \in [E -> S \ held] /\ rank2 \in [E -> 0..top] /\ top \in Nat
  BY <1>8, <1>1 DEF ForestBy
<1>10. \A v \in S \ held : own[v] # NULL => own[v] \in E /\ root2[own[v]] = v
  BY <1>4, <1>1 DEF ForestBy
<1>11. ASSUME NEW b \in E
       PROVE  /\ own[root2[b]] # NULL
              /\ Below(heap', root2, rank2, b, heap'[b].child)
              /\ Below(heap', root2, rank2, b, heap'[b].next)
              /\ b # own[root2[b]] => \E p \in E : Linked(heap', p, b)
  <2>1. own[root2[b]] # NULL
    BY <1>3
  <2>2. ASSUME NEW c, Below(heap, root, rank, b, c)
        PROVE  Below(heap', root2, rank2, b, c)
    BY <2>2, <1>4, <1>8 DEF Below
  <2>3. Below(heap, root, rank, b, heap[b].child) /\ Below(heap, root, rank, b, heap[b].next)
    BY <1>1 DEF ForestBy
  <2>4. ASSUME b # own[root2[b]] PROVE \E p \in E : Linked(heap', p, b)
    <3>1. PICK p \in D : Linked(heap, p, b)
      BY <2>4, <1>1 DEF ForestBy
    <3>2. b # NULL
      BY DEF Addresses, NULL
    <3>3. root[p] = root[b]
      BY <3>1, <3>2, <1>1 DEF ForestBy, Linked, Below
    <3>4. p \in E
      BY <3>3, <1>4
    <3> QED
      BY <3>1, <3>4, <1>8 DEF Linked
  <2> HIDE DEF root2, rank2, E
  <2> QED
    BY <2>1, <2>2, <2>3, <2>4, <1>8
<1>14. LinkedOnce(heap') /\ Unlinked(heap', own, S \ held)
  <2> HIDE DEF E, D
  <2>1. LinkedOnce(heap) /\ Unlinked(heap, own, S)
    BY <1>1 DEF ForestBy
  <2>2. \A p \in E : p \in DOMAIN heap /\ heap'[p] = heap[p]
    BY <1>8 DEF D
  <2>3. DOMAIN heap' = E
    BY <1>8
  <2>4. LinkedOnce(heap')
    BY <2>1, <2>2, <2>3 DEF LinkedOnce
  <2>5. Unlinked(heap', own, S \ held)
    BY <2>1, <2>2, <2>3 DEF Unlinked, Linked
  <2> QED
    BY <2>4, <2>5
<1>12. ForestBy(heap', own, S \ held, root2, rank2, top)
  <2> HIDE DEF root2, rank2, E
  <2> QED
    BY <1>8, <1>9, <1>10, <1>11, <1>14 DEF ForestBy
<1>13. heap' \in [E -> {heap[b] : b \in D}]
  BY <1>7
<1> QED
  BY <1>7, <1>8, <1>12, <1>13 DEF Forest

-----------------------------------------------------------------------------
(* The inductive invariant.  Its parts: the tokens and the index, the       *)
(* blocks and addresses, who owns the blocks at each step, and what is left *)
(* of a failed allocation.                                                  *)

ColumnSteps == {"star", "all columns", "columns read", "column", "column named",
                "column made", "column tried", "more columns", "from"}
TableSteps == {"dot", "qualified", "schema", "table name", "names copied",
               "table tried", "schema linked"}
ValueSteps == {"value", "value read", "more values", ")"}
ConditionSteps == {"where made", "where copied", "where tried", "between", "operand",
                   "operator", "operator made", "operator linked", "lower", "and", "upper",
                   "bounds read", "between made", "lower linked", "upper linked"}
WhereSteps == {"where", "where column", "where named"} \cup ConditionSteps
LastSteps == {"semicolon", "end", "statement", "root made"}

(* The locals that hold a tree of their own when step p comes next, in a    *)
(* statement that begins with the token first.                              *)
Owns(p, first) ==
    (IF \/ p \in ColumnSteps \cup ValueSteps \cup WhereSteps \cup LastSteps
        \/ first # "INSERT" /\ p \in {"table", "table named"} \cup TableSteps
        \/ first = "INSERT" /\ p = "first linked"
     THEN {"list_node"} ELSE {})
    \cup (IF \/ p \in TableSteps \cup {"values", "(", "value list"} \cup ValueSteps
                        \cup WhereSteps \cup LastSteps
             \/ first # "INSERT" /\ p = "first linked"
          THEN {"table_node"} ELSE {})
    \cup (IF p \in ConditionSteps \cup LastSteps \cup {"first linked", "second linked"}
          THEN {"where_node"} ELSE {})
    \cup (IF p \in {"root made", "first linked", "second linked", "returned"}
          THEN {"root"} ELSE {})
    \cup (IF p \in {"columns read", "column made", "column tried", "where copied", "where tried"}
          THEN {"column_node"} ELSE {})
    \cup (IF p \in {"column named", "column made", "where named", "where made", "where copied"}
          THEN {"column_name"} ELSE {})
    \cup (IF p \in {"table named", "dot", "qualified", "schema", "table name", "names copied"}
          THEN {"first_identifier"} ELSE {})
    \cup (IF p \in {"schema", "table name", "names copied"} THEN {"table_text"} ELSE {})
    \cup (IF p \in {"table name", "names copied", "table tried"} THEN {"schema_node"} ELSE {})
    \cup (IF p \in {"names copied", "table tried", "schema linked"} THEN {"table_name_node"} ELSE {})
    \cup (IF p \in {"value read", "operator", "operator made", "operator linked"}
          THEN {"value_node"} ELSE {})
    \cup (IF p = "operator made" THEN {"operator_node"} ELSE {})
    \cup (IF p \in {"and", "upper", "bounds read", "between made"} THEN {"lower_node"} ELSE {})
    \cup (IF p \in {"bounds read", "between made", "lower linked"} THEN {"upper_node"} ELSE {})
    \cup (IF p \in {"between made", "lower linked", "upper linked"} THEN {"between_node"} ELSE {})

(* The locals that are still NULL then: an INSERT has no list before its    *)
(* values, and no WHERE.                                                    *)
Unset(p, first) ==
    (IF \/ p \in {"start", "into", "values", "(", "value list"}
        \/ first = "INSERT" /\ p \in {"table", "table named"} \cup TableSteps
     THEN {"list_node"} ELSE {})
    \cup (IF p \in {"start", "into", "column list", "table", "table named", "values", "(", "value list",
                    "where", "where column", "where named"}
                     \cup ColumnSteps \cup TableSteps \cup ValueSteps
          THEN {"where_node"} ELSE {})
    \cup (IF p \in {"start", "into", "column list", "table", "table named", "dot", "qualified"} \cup ColumnSteps
          THEN {"table_text"} ELSE {})

(* The parents of the links to come, which were not made in vain.           *)
Has(p) ==
    (IF p \in ValueSteps \cup (ColumnSteps \ {"from"}) THEN {"list_node"} ELSE {})
    \cup (IF p \in TableSteps THEN {"table_node"} ELSE {})
    \cup (IF p \in ConditionSteps \ {"where made", "where copied", "where tried"}
          THEN {"where_node"} ELSE {})
    \cup (IF p \in {"between made", "lower linked"} THEN {"between_node"} ELSE {})
    \cup (IF p \in {"root made", "first linked", "second linked", "returned"}
          THEN {"root"} ELSE {})

(* The locals that were set without looking at the result.                  *)
Unseen(p) ==
    (IF p \in {"column made", "column tried", "where copied", "where tried"}
     THEN {"column_node"} ELSE {})
    \cup (IF p \in {"table name", "names copied", "table tried"} THEN {"schema_node"} ELSE {})
    \cup (IF p \in {"names copied", "table tried"} THEN {"table_name_node"} ELSE {})
    \cup (IF p \in {"where made", "where copied", "where tried"} THEN {"where_node"} ELSE {})

Ended == {"statement", "root made", "first linked", "second linked", "failed", "returned"}

Messages == {"", "Parse error", "Execution error"}

Scanned ==
    /\ tokens \in Seq(TokenTypes) /\ Len(tokens) <= MaxTokens
    /\ Len(tokens) = MaxTokens => tokens[MaxTokens] = "EOF"
    /\ index \in 0..Len(tokens)
    /\ pc \in Steps \ {"broken"}
    /\ pc = "start" => index = 0
    /\ pc \notin {"start", "failed"} => index > 0 /\ tokens[1] \in {"INSERT", "SELECT"}
    /\ pc \in ColumnSteps \cup {"column list"} => tokens[1] # "INSERT"
    /\ pc \notin Ended /\ index > 0 => tokens[index] # "EOF"
    /\ message \in Messages

Block(size, top) == [type : NodeTypes, text : 0..size, child : 0..top, next : 0..top]

Memory ==
    /\ made \in Nat /\ DOMAIN heap \subseteq 1..made
    /\ heap \in [DOMAIN heap -> Block(Len(tokens), made)]
    /\ own \in [Locals -> 0..made]

Owned ==
    /\ Forest(heap, own, Owns(pc, tokens[1]))
    /\ \A v \in Unset(pc, tokens[1]) : own[v] = NULL
    /\ \A v \in Has(pc) : own[v] # NULL

Losses ==
    /\ failures \in 0..MaxFailures
    /\ failures > 0 => pc = "failed" \/ \E v \in Unseen(pc) : own[v] = NULL

IInv == Scanned /\ Memory /\ Owned /\ Losses

-----------------------------------------------------------------------------
(* How a step from one place to the next keeps each part.                   *)

(* With what it gives out, frees and links, a step hands S on to the next;  *)
(* new are the locals it sets.                                              *)
Leads(from, to, first, S, new) ==
    /\ S \ Owns(to, first) \subseteq Unset(from, first) \ new
    /\ Owns(to, first) \ S \subseteq Unset(from, first) \ new
    /\ Unset(to, first) \subseteq Unset(from, first) \ new

(* held names every owner of the step, apart from those that are NULL.      *)
Frees(from, first, held) ==
    /\ held \subseteq Owns(from, first) \cup Unset(from, first)
    /\ Owns(from, first) \subseteq held \cup Unset(from, first)

LEMMA AllMessages == "" \in Messages /\ "Parse error" \in Messages /\ "Execution error" \in Messages
BY Zenon DEF Messages

LEMMA OwnersAreLocals ==
    ASSUME NEW p, NEW first
    PROVE  Owns(p, first) \subseteq Locals /\ Unset(p, first) \subseteq Locals
<1> DEFINE All == {"list_node", "table_node", "where_node", "root", "column_node", "column_name",
                   "first_identifier", "table_text", "schema_node", "table_name_node",
                   "value_node", "operator_node", "lower_node", "upper_node", "between_node"}
<1>1. ASSUME NEW v \in Owns(p, first) PROVE v \in All
  BY DEF Owns
<1>2. ASSUME NEW v \in Unset(p, first) PROVE v \in All
  BY DEF Unset
<1>3. All \subseteq Locals
  BY DEF Locals, Nodes, Names
<1> QED
  BY <1>1, <1>2, <1>3

LEMMA OwnedAfter ==
    ASSUME NEW from, NEW to, NEW S, NEW new, Owned, pc = from, pc' = to, tokens' = tokens,
           Leads(from, to, tokens[1], S, new),
           Forest(heap', own', S),
           \A w \in Locals : w \notin new => own'[w] = own[w],
           \A v \in Has(to) : v \in Has(from) \ new \/ own'[v] # NULL
    PROVE  Owned'
<1> DEFINE first == tokens[1]
<1>1. Owns(to, first) \subseteq Locals /\ Unset(from, first) \subseteq Locals
  BY OwnersAreLocals
<1>2. \A v \in Unset(from, first) \ new : own'[v] = NULL
  BY <1>1 DEF Owned
<1>3. \A v \in (S \ Owns(to, first)) \cup (Owns(to, first) \ S) : own'[v] = NULL
  BY <1>2 DEF Leads
<1>4. Forest(heap', own', Owns(to, first))
  BY <1>3, OwnersMayBeNull
<1>5. \A v \in Unset(to, first) : own'[v] = NULL
  BY <1>2 DEF Leads
<1>6. Has(from) \subseteq Locals
  BY DEF Has, Locals, Nodes
<1>7. \A v \in Has(to) : own'[v] # NULL
  BY <1>6 DEF Owned
<1> QED
  BY <1>4, <1>5, <1>7 DEF Owned

(* After a failure nobody owns anything.                                    *)
LEMMA OwnedAfterFailure ==
    ASSUME pc' = "failed", Forest(heap', own', {})
    PROVE  Owned'
BY DEF Owned, Owns, Unset, Has, ColumnSteps, TableSteps, ValueSteps,
       ConditionSteps, WhereSteps, LastSteps

LEMMA ScannedAfter ==
    ASSUME NEW from, NEW to, Scanned, pc = from, pc' = to, tokens' = tokens,
           to \in Steps \ {"start", "broken"},
           to = "failed" \/ from \notin {"start", "failed"},
           to \in ColumnSteps \cup {"column list"} => from \in ColumnSteps \cup {"column list"},
           \/ index' = index /\ (from \in Ended => to \in Ended)
           \/ /\ index' = index + 1 /\ index < Len(tokens)
              /\ tokens[index + 1] # "EOF" \/ to \in Ended,
           message' \in Messages
    PROVE  Scanned'
<1>a. tokens \in Seq(TokenTypes) /\ index \in 0..Len(tokens)
  BY DEF Scanned
<1>b. Len(tokens) \in Nat
  BY ONLY <1>a
<1>1. index \in Nat /\ Len(tokens) \in Nat
  BY ONLY <1>a, <1>b
<1>c. index' = index \/ (index' = index + 1 /\ index < Len(tokens))
  OBVIOUS
<1>2. index' \in 0..Len(tokens) /\ (index > 0 => index' > 0)
  BY ONLY <1>1, <1>a, <1>c
<1>3. to \notin Ended /\ index' > 0 => tokens[index'] # "EOF"
  BY DEF Scanned
<1>4. to \in ColumnSteps \cup {"column list"} => tokens[1] # "INSERT"
  BY DEF Scanned
<1> QED
  BY <1>2, <1>3, <1>4 DEF Scanned

(* A block for v.                                                           *)
LEMMA MemoryAfterMake ==
    ASSUME Memory, Scanned, tokens' = tokens, NEW v \in Locals, NEW type \in NodeTypes,
           NEW text \in 0..Len(tokens), Make(v, type, text)
    PROVE  Memory' /\ own'[v] # NULL /\ \A w \in Locals : w # v => own'[w] = own[w]
<1> DEFINE b == made + 1
<1>1. b \in Nat /\ made \in Nat /\ b > made
  BY DEF Memory
<1>2. made' = b /\ own' = [own EXCEPT ![v] = b]
  BY DEF Make
<1>3. own' \in [Locals -> 0..made'] /\ own'[v] # NULL
  BY <1>1, <1>2 DEF Memory, NULL
<1>4. Block(Len(tokens), made) \subseteq Block(Len(tokens'), made')
  BY <1>1, <1>2 DEF Block
<1>5. [type |-> type, text |-> text, child |-> NULL, next |-> NULL] \in Block(Len(tokens'), made')
  BY <1>1, <1>2 DEF Block, NULL
<1>6. heap \in [DOMAIN heap -> Block(Len(tokens), made)] /\ DOMAIN heap \subseteq 1..made
  BY DEF Memory
<1> DEFINE fresh == [type |-> type, text |-> text, child |-> NULL, next |-> NULL]
<1>7. heap' = [x \in DOMAIN heap \cup {b} |-> IF x = b THEN fresh ELSE heap[x]]
  BY DEF Make
<1>8. heap' \in [DOMAIN heap' -> Block(Len(tokens'), made')]
  <2> HIDE DEF fresh
  <2>1. fresh \in Block(Len(tokens'), made')
    BY <1>5 DEF fresh
  <2> QED
    BY <1>4, <1>6, <1>7, <2>1
<1>9. DOMAIN heap' \subseteq 1..made'
  BY <1>1, <1>2, <1>6, <1>7
<1>10. \A w \in Locals : w # v => own'[w] = own[w]
  BY <1>2 DEF Memory
<1> QED
  BY <1>1, <1>2, <1>3, <1>8, <1>9, <1>10 DEF Memory

LEMMA MemoryIsAddresses ==
    ASSUME Memory
    PROVE  Addresses
BY DEF Memory, Addresses, Block

LEMMA MemoryAfterRelease ==
    ASSUME Memory, tokens' = tokens, own' = own, made' = made,
           heap' \in [DOMAIN heap' -> {heap[b] : b \in DOMAIN heap}],
           DOMAIN heap' \subseteq DOMAIN heap
    PROVE  Memory'
<1>1. {heap[b] : b \in DOMAIN heap} \subseteq Block(Len(tokens), made)
  BY DEF Memory
<1>2. heap' \in [DOMAIN heap' -> Block(Len(tokens), made)]
  BY <1>1
<1> QED
  BY <1>2 DEF Memory

(* An error path: what it frees is all there is.                            *)
LEMMA FailFreesOwned ==
    ASSUME IInv, NEW from, pc = from, NEW held,
           \A v \in held : v \in Owns(from, tokens[1]) \/ own[v] = NULL,
           \A v \in Owns(from, tokens[1]) : v \in held \/ own[v] = NULL,
           NEW text \in Messages, Fail(held, text),
           UNCHANGED <<tokens, own, made>>,
           \/ index' = index
           \/ index' = index + 1 /\ index < Len(tokens),
           failures' \in 0..MaxFailures
    PROVE  IInv'
<1>1. Addresses /\ Memory /\ Scanned /\ Owned
  BY MemoryIsAddresses DEF IInv
<1>2. Forest(heap, own, Owns(from, tokens[1]))
  BY <1>1 DEF Owned
<1>5. Release(held, "failed") /\ message' = text
  BY DEF Fail
<1>6. /\ pc' = "failed"
      /\ Forest(heap', own, Owns(from, tokens[1]) \ held)
      /\ heap' \in [DOMAIN heap' -> {heap[b] : b \in DOMAIN heap}]
      /\ DOMAIN heap' \subseteq DOMAIN heap
  BY <1>1, <1>2, <1>5, ReleaseTakesTrees
<1>7. Forest(heap', own', {})
  <2>1. \A v \in ((Owns(from, tokens[1]) \ held) \ {}) \cup ({} \ (Owns(from, tokens[1]) \ held)) : own[v] = NULL
    OBVIOUS
  <2>2. Forest(heap', own, {})
    BY <1>6, <2>1, OwnersMayBeNull
  <2> QED
    BY <2>2
<1>8. Owned'
  BY <1>6, <1>7, OwnedAfterFailure
<1>9. Memory'
  BY <1>1, <1>6, MemoryAfterRelease
<1>10. Scanned'
  <2>1. /\ "failed" \in Steps \ {"start", "broken"} /\ "failed" \in Ended
        /\ "failed" \notin ColumnSteps \cup {"column list"}
    BY DEF Steps, Ended, ColumnSteps
  <2>2. message' \in Messages
    BY <1>5
  <2> QED
    BY <1>1, <1>6, <2>1, <2>2, ScannedAfter
<1>11. Losses'
  BY <1>6 DEF Losses
<1> QED
  BY <1>8, <1>9, <1>10, <1>11 DEF IInv

LEMMA FailFreesAll ==
    ASSUME IInv, NEW from, pc = from, NEW held, Frees(from, tokens[1], held),
           NEW text \in Messages, Fail(held, text),
           UNCHANGED <<tokens, own, made>>,
           \/ index' = index
           \/ index' = index + 1 /\ index < Len(tokens),
           failures' \in 0..MaxFailures
    PROVE  IInv'
<1>1. \A v \in Unset(from, tokens[1]) : own[v] = NULL
  BY DEF IInv, Owned
<1>2. \A v \in held : v \in Owns(from, tokens[1]) \/ own[v] = NULL
  BY <1>1 DEF Frees
<1>3. \A v \in Owns(from, tokens[1]) : v \in held \/ own[v] = NULL
  BY <1>1 DEF Frees
<1> QED
  BY <1>2, <1>3, FailFreesOwned

-----------------------------------------------------------------------------
(* The operators that the steps are made of keep the invariant, wherever    *)
(* they lead.                                                               *)

Moves(from, to) ==
    /\ from \notin {"start", "failed"} /\ to \in Steps \ {"start", "failed", "broken"}
    /\ from \in Ended => to \in Ended
    /\ to \in ColumnSteps \cup {"column list"} => from \in ColumnSteps \cup {"column list"}

LEMMA NothingLost ==
    ASSUME IInv, \A v \in Unseen(pc) : own[v] # NULL, pc # "failed"
    PROVE  failures = 0
BY DEF IInv, Losses

LEMMA UnseenAreLocals ==
    ASSUME NEW p
    PROVE  Unseen(p) \subseteq Locals
<1>1. ASSUME NEW v \in Unseen(p)
      PROVE  v \in {"column_node", "schema_node", "table_name_node", "where_node"}
  BY DEF Unseen
<1> QED
  BY <1>1 DEF Locals, Nodes

LEMMA NextIndex ==
    ASSUME IInv
    PROVE  /\ Len(tokens) \in Nat /\ index \in 0..Len(tokens)
           /\ index < Len(tokens) => index + 1 \in 0..Len(tokens)
<1>1. tokens \in Seq(TokenTypes) /\ index \in 0..Len(tokens)
  BY DEF IInv, Scanned
<1>2. Len(tokens) \in Nat
  BY ONLY <1>1
<1> QED
  BY ONLY <1>1, <1>2

LEMMA FailureCounted ==
    ASSUME failures = 0, NoMemory \/ failures' = failures
    PROVE  failures' \in 0..MaxFailures
BY ParserBounds DEF NoMemory

LEMMA NoLossAfter ==
    ASSUME failures = 0, failures' = failures
    PROVE  Losses'
BY ParserBounds DEF Losses

(* The part of a step that makes a block.                                   *)
LEMMA MakeKeeps ==
    ASSUME IInv, NEW from, pc = from, NEW to, Moves(from, to), pc' = to,
           NEW v \in Locals \ Owns(from, tokens[1]),
           NEW type \in NodeTypes, NEW text \in 0..Len(tokens),
           Make(v, type, text), tokens' = tokens, message' = message,
           \/ index' = index
           \/ /\ index' = index + 1 /\ index < Len(tokens) /\ tokens[index + 1] # "EOF",
           Leads(from, to, tokens[1], Owns(from, tokens[1]) \cup {v}, {v}),
           Has(to) \subseteq Has(from) \cup {v}
    PROVE  Scanned' /\ Memory' /\ Owned' /\ own'[v] # NULL
           /\ \A w \in Locals : w # v => own'[w] = own[w]
<1> DEFINE S == Owns(from, tokens[1])
<1>1. Scanned /\ Memory /\ Owned /\ Addresses
  BY MemoryIsAddresses DEF IInv
<1>2. Memory' /\ own'[v] # NULL /\ \A w \in Locals : w # v => own'[w] = own[w]
  BY <1>1, MemoryAfterMake
<1>3. Forest(heap', own', S \cup {v})
  <2>1. Forest(heap, own, S)
    BY <1>1 DEF Owned
  <2>2. own \in [Locals -> 0..made]
    BY <1>1 DEF Memory
  <2>3. S \in SUBSET Locals
    BY OwnersAreLocals
  <2> HIDE DEF S
  <2>4. v \in Locals \ S
    BY DEF S
  <2> QED
    BY <1>1, <2>1, <2>2, <2>3, <2>4, MakeAddsTree
<1>4. Owned'
  <2>1. \A w \in Locals : w \notin {v} => own'[w] = own[w]
    BY <1>2
  <2>2. \A w \in Has(to) : w \in Has(from) \ {v} \/ own'[w] # NULL
    BY <1>2
  <2> HIDE DEF S
  <2>3. Leads(from, to, tokens[1], S \cup {v}, {v})
    BY DEF S
  <2> QED
    BY <1>1, <1>3, <2>1, <2>2, <2>3, OwnedAfter
<1>5. Scanned'
  <2>1. to \in Steps \ {"start", "broken"} /\ from \notin {"start", "failed"}
        /\ (from \in Ended => to \in Ended)
        /\ (to \in ColumnSteps \cup {"column list"} => from \in ColumnSteps \cup {"column list"})
    BY DEF Moves
  <2>2. message' \in Messages
    BY <1>1 DEF Scanned
  <2> QED
    BY <1>1, <2>1, <2>2, ScannedAfter
<1> QED
  BY <1>2, <1>4, <1>5

(* The part of a step that changes no block and no local.                   *)
LEMMA PassKeeps ==
    ASSUME IInv, NEW from, pc = from, NEW to, Moves(from, to), pc' = to,
           UNCHANGED <<tokens, heap, own, made, message>>,
           \/ index' = index
           \/ /\ index' = index + 1 /\ index < Len(tokens)
              /\ tokens[index + 1] # "EOF" \/ to \in Ended,
           Leads(from, to, tokens[1], Owns(from, tokens[1]), {}),
           Has(to) \subseteq Has(from)
    PROVE  Scanned' /\ Memory' /\ Owned'
<1>1. Scanned /\ Memory /\ Owned
  BY DEF IInv
<1>2. Memory'
  BY <1>1 DEF Memory
<1>3. Forest(heap', own', Owns(from, tokens[1]))
  <2>1. Forest(heap, own, Owns(from, tokens[1]))
    BY <1>1 DEF Owned
  <2> QED
    BY <2>1
<1>4. Owned'
  <2>1. \A w \in Locals : w \notin {} => own'[w] = own[w]
    OBVIOUS
  <2>2. \A w \in Has(to) : w \in Has(from) \ {} \/ own'[w] # NULL
    OBVIOUS
  <2> QED
    BY <1>1, <1>3, <2>1, <2>2, OwnedAfter
<1>5. Scanned'
  <2>1. to \in Steps \ {"start", "broken"} /\ from \notin {"start", "failed"}
        /\ (from \in Ended => to \in Ended)
        /\ (to \in ColumnSteps \cup {"column list"} => from \in ColumnSteps \cup {"column list"})
    BY DEF Moves
  <2>2. message' \in Messages
    BY <1>1 DEF Scanned
  <2> QED
    BY <1>1, <2>1, <2>2, ScannedAfter
<1> QED
  BY <1>2, <1>4, <1>5

LEMMA CreateKeeps ==
    ASSUME IInv, NEW from, NEW to, NEW v, NEW type \in NodeTypes, NEW text \in 0..Len(tokens),
           NEW held, Create(from, v, type, text, to, held), Moves(from, to),
           v \in Locals \ Owns(from, tokens[1]), Unseen(from) = {},
           Leads(from, to, tokens[1], Owns(from, tokens[1]) \cup {v}, {v}),
           Has(to) \subseteq Has(from) \cup {v},
           Frees(from, tokens[1], held)
    PROVE  IInv'
<1>1. pc = from /\ tokens' = tokens /\ index' = index
  BY DEF Create
<1>2. failures = 0
  BY <1>1, NothingLost DEF Moves
<1>3. CASE Make(v, type, text) /\ pc' = to /\ UNCHANGED <<message, failures>>
  <2>1. Scanned' /\ Memory' /\ Owned'
    BY <1>1, <1>3, MakeKeeps
  <2>2. Losses'
    BY <1>2, <1>3, ParserBounds DEF Losses
  <2> QED
    BY <2>1, <2>2 DEF IInv
<1>4. CASE NoMemory /\ Fail(held, "Execution error") /\ UNCHANGED <<own, made>>
  <2>1. failures' \in 0..MaxFailures
    BY <1>2, <1>4, FailureCounted
  <2> QED
    BY <1>1, <1>4, <2>1, AllMessages, FailFreesAll
<1> QED
  BY <1>3, <1>4 DEF Create

LEMMA CreateOrNullKeeps ==
    ASSUME IInv, NEW from, NEW to, NEW v, NEW type \in NodeTypes, NEW text \in 0..Len(tokens),
           CreateOrNull(from, v, type, text, to), Moves(from, to),
           v \in Locals \ Owns(from, tokens[1]), v \notin Has(from),
           v \notin Unseen(from), Unseen(to) = Unseen(from) \cup {v},
           Leads(from, to, tokens[1], Owns(from, tokens[1]) \cup {v}, {v}),
           Has(to) \subseteq Has(from)
    PROVE  IInv'
<1> DEFINE S == Owns(from, tokens[1])
<1>1. pc = from /\ pc' = to /\ tokens' = tokens /\ index' = index /\ message' = message
  BY DEF CreateOrNull
<1>2. failures \in 0..MaxFailures /\ (failures > 0 => \E w \in Unseen(from) : own[w] = NULL)
  BY <1>1 DEF IInv, Losses, Moves
<1>3. Unseen(from) \subseteq Locals
  BY UnseenAreLocals
<1>4. CASE Make(v, type, text) /\ UNCHANGED failures
  <2>1. Scanned' /\ Memory' /\ Owned' /\ \A w \in Locals : w # v => own'[w] = own[w]
    BY <1>1, <1>4, MakeKeeps
  <2>2. Losses'
    BY <1>1, <1>2, <1>3, <1>4, <2>1 DEF Losses
  <2> QED
    BY <2>1, <2>2 DEF IInv
<1>5. CASE NoMemory /\ own' = [own EXCEPT ![v] = NULL] /\ UNCHANGED <<heap, made>>
  <2>1. Memory /\ Owned /\ Scanned
    BY DEF IInv
  <2>2. Memory' /\ own'[v] = NULL /\ \A w \in Locals : w # v => own'[w] = own[w]
    BY <1>1, <1>5, <2>1 DEF Memory, NULL
  <2>3. Forest(heap', own', S \cup {v})
    <3>1. Forest(heap, own, S) /\ S \subseteq Locals
      BY <1>1, <2>1, OwnersAreLocals DEF Owned
    <3> HIDE DEF S
    <3>2. v \notin S
      BY DEF S
    <3>3. \A w \in S : own'[w] = own[w]
      BY <2>2, <3>1, <3>2
    <3>4. Forest(heap', own', S)
      BY <1>5, <3>1, <3>3, SameForest
    <3>5. \A w \in (S \ (S \cup {v})) \cup ((S \cup {v}) \ S) : own'[w] = NULL
      BY <2>2
    <3> QED
      BY <3>4, <3>5, OwnersMayBeNull
  <2>4. Owned'
    <3>1. \A w \in Locals : w \notin {v} => own'[w] = own[w]
      BY <2>2
    <3>2. \A w \in Has(to) : w \in Has(from) \ {v} \/ own'[w] # NULL
      OBVIOUS
    <3> HIDE DEF S
    <3>3. Leads(from, to, tokens[1], S \cup {v}, {v})
      BY DEF S
    <3> QED
      BY <1>1, <2>1, <2>3, <3>1, <3>2, <3>3, OwnedAfter
  <2>5. Scanned'
    <3>1. to \in Steps \ {"start", "broken"} /\ from \notin {"start", "failed"}
          /\ (from \in Ended => to \in Ended)
          /\ (to \in ColumnSteps \cup {"column list"} => from \in ColumnSteps \cup {"column list"})
      BY DEF Moves
    <3>2. message' \in Messages
      BY <1>1, <2>1 DEF Scanned
    <3> QED
      BY <1>1, <2>1, <3>1, <3>2, ScannedAfter
  <2>6. failures' \in 0..MaxFailures
    BY <1>2, <1>5, ParserBounds DEF NoMemory
  <2>7. Losses'
    BY <1>1, <2>2, <2>6 DEF Losses
  <2> QED
    BY <2>2, <2>4, <2>5, <2>7 DEF IInv
<1> QED
  BY <1>4, <1>5 DEF CreateOrNull

LEMMA ExpectKeeps ==
    ASSUME IInv, NEW from, NEW to, NEW type, NEW held, Expect(from, type, to, held),
           Moves(from, to), Unseen(from) = {}, type # "EOF" \/ to \in Ended,
           Leads(from, to, tokens[1], Owns(from, tokens[1]), {}),
           Has(to) \subseteq Has(from),
           Frees(from, tokens[1], held)
    PROVE  IInv'
<1>1. /\ pc = from /\ index < Len(tokens) /\ tokens' = tokens
      /\ own' = own /\ made' = made /\ failures' = failures
  BY DEF Expect, Looking
<1>2. failures = 0
  BY <1>1, NothingLost DEF Moves
<1>3. CASE Current = type /\ index' = index + 1 /\ pc' = to /\ UNCHANGED <<heap, message>>
  <2>1. tokens[index + 1] # "EOF" \/ to \in Ended
    BY <1>3 DEF Current
  <2>2. Scanned' /\ Memory' /\ Owned'
    BY <1>1, <1>3, <2>1, PassKeeps
  <2>3. Losses'
    BY <1>1, <1>2, ParserBounds DEF Losses
  <2> QED
    BY <2>2, <2>3 DEF IInv
<1>4. CASE Current # type /\ Fail(held, "Parse error") /\ UNCHANGED index
  <2>1. failures' \in 0..MaxFailures
    BY <1>1, <1>2, FailureCounted
  <2> QED
    BY <1>1, <1>4, <2>1, AllMessages, FailFreesAll
<1> QED
  BY <1>3, <1>4 DEF Expect

LEMMA MatchKeeps ==
    ASSUME IInv, NEW from, NEW taken, NEW otherwise, NEW type,
           Match(from, type, taken, otherwise), type # "EOF",
           Moves(from, taken), Moves(from, otherwise), Unseen(from) = {},
           Leads(from, taken, tokens[1], Owns(from, tokens[1]), {}),
           Leads(from, otherwise, tokens[1], Owns(from, tokens[1]), {}),
           Has(taken) \subseteq Has(from), Has(otherwise) \subseteq Has(from)
    PROVE  IInv'
<1>1. /\ pc = from /\ index < Len(tokens)
      /\ UNCHANGED <<tokens, heap, own, made, message, failures>>
  BY DEF Match, Looking
<1>2. failures = 0
  BY <1>1, NothingLost DEF Moves
<1>3. Losses'
  BY <1>1, <1>2, ParserBounds DEF Losses
<1>4. CASE Current = type /\ index' = index + 1 /\ pc' = taken
  <2>1. tokens[index + 1] # "EOF"
    BY <1>4 DEF Current
  <2>2. Scanned' /\ Memory' /\ Owned'
    BY <1>1, <1>4, <2>1, PassKeeps
  <2> QED
    BY <1>3, <2>2 DEF IInv
<1>5. CASE Current # type /\ pc' = otherwise /\ UNCHANGED index
  <2>1. Scanned' /\ Memory' /\ Owned'
    BY <1>1, <1>5, PassKeeps
  <2> QED
    BY <1>3, <2>1 DEF IInv
<1> QED
  BY <1>4, <1>5 DEF Match

LEMMA CopyIdentifierKeeps ==
    ASSUME IInv, NEW from, NEW to, NEW v, NEW held, CopyIdentifier(from, v, to, held),
           Moves(from, to), v \in Locals \ Owns(from, tokens[1]), Unseen(from) = {},
           Leads(from, to, tokens[1], Owns(from, tokens[1]) \cup {v}, {v}),
           Has(to) \subseteq Has(from) \cup {v},
           Frees(from, tokens[1], held)
    PROVE  IInv'
<1>1. pc = from /\ index < Len(tokens) /\ tokens' = tokens
  BY DEF CopyIdentifier, Looking
<1>2. failures = 0
  BY <1>1, NothingLost DEF Moves
<1>3. index + 1 \in 0..Len(tokens) /\ "TEXT" \in NodeTypes
  BY <1>1, NextIndex DEF NodeTypes
<1>4. message \in Messages
  BY DEF IInv, Scanned
<1>5. CASE /\ Current = "IDENTIFIER" /\ index' = index + 1
           /\ Make(v, "TEXT", index + 1) /\ pc' = to /\ UNCHANGED <<message, failures>>
  <2>1. tokens[index + 1] # "EOF"
    BY <1>5 DEF Current
  <2>2. Scanned' /\ Memory' /\ Owned'
    BY <1>1, <1>3, <1>5, <2>1, MakeKeeps
  <2>3. Losses'
    BY <1>2, <1>5, ParserBounds DEF Losses
  <2> QED
    BY <2>2, <2>3 DEF IInv
<1>6. CASE index' = index + 1 /\ NoMemory /\ Fail(held, message) /\ UNCHANGED <<own, made>>
  <2>1. failures' \in 0..MaxFailures
    BY <1>2, <1>6, FailureCounted
  <2> QED
    BY <1>1, <1>4, <1>6, <2>1, AllMessages, FailFreesAll
<1>7. CASE Fail(held, "Parse error") /\ UNCHANGED <<index, own, made, failures>>
  <2>1. failures' \in 0..MaxFailures
    BY <1>2, <1>7, FailureCounted
  <2> QED
    BY <1>1, <1>7, <2>1, AllMessages, FailFreesAll
<1> QED
  BY <1>5, <1>6, <1>7 DEF CopyIdentifier

LEMMA ParseValueKeeps ==
    ASSUME IInv, NEW from, NEW to, NEW v, NEW held,
           NEW oom \in Messages,
           ParseValue(from, v, to, held, oom),
           Moves(from, to), v \in Locals \ Owns(from, tokens[1]), Unseen(from) = {},
           Leads(from, to, tokens[1], Owns(from, tokens[1]) \cup {v}, {v}),
           Has(to) \subseteq Has(from) \cup {v},
           Frees(from, tokens[1], held)
    PROVE  IInv'
<1>1. pc = from /\ index < Len(tokens) /\ tokens' = tokens
  BY DEF ParseValue, Looking
<1>2. failures = 0
  BY <1>1, NothingLost DEF Moves
<1>3. index + 1 \in 0..Len(tokens) /\ Literals \subseteq NodeTypes
  <2>1. index + 1 \in 0..Len(tokens)
    BY <1>1, NextIndex
  <2>2. Literals \subseteq NodeTypes
    BY DEF NodeTypes
  <2> QED
    BY <2>1, <2>2
<1>4. CASE /\ Current \in Literals /\ Make(v, Current, index + 1)
           /\ index' = index + 1 /\ pc' = to /\ UNCHANGED <<message, failures>>
  <2>1. Current \in NodeTypes
    BY <1>3, <1>4
  <2>2. tokens[index + 1] # "EOF"
    BY <1>4 DEF Current, Literals
  <2>3. Scanned' /\ Memory' /\ Owned'
    BY <1>1, <1>3, <1>4, <2>1, <2>2, MakeKeeps
  <2>4. Losses'
    BY <1>2, <1>4, NoLossAfter
  <2> QED
    BY <2>3, <2>4 DEF IInv
<1>5. CASE NoMemory /\ Fail(held, oom) /\ UNCHANGED <<index, own, made>>
  <2>1. failures' \in 0..MaxFailures
    BY <1>2, <1>5, FailureCounted
  <2> QED
    BY <1>1, <1>5, <2>1, AllMessages, FailFreesAll
<1>6. CASE Fail(held, "Parse error") /\ UNCHANGED <<index, own, made, failures>>
  <2>1. failures' \in 0..MaxFailures
    BY <1>2, <1>6, FailureCounted
  <2> QED
    BY <1>1, <1>6, <2>1, AllMessages, FailFreesAll
<1> QED
  BY <1>4, <1>5, <1>6 DEF ParseValue

LEMMA FreeNamesKeeps ==
    ASSUME IInv, NEW from, NEW to, NEW held, FreeNames(from, held, to),
           Moves(from, to), Unseen(to) = Unseen(from),
           held \subseteq Owns(from, tokens[1]) \cup Unset(from, tokens[1]),
           Leads(from, to, tokens[1], Owns(from, tokens[1]) \ held, {}),
           Has(to) \subseteq Has(from)
    PROVE  IInv'
<1> DEFINE S == Owns(from, tokens[1])
<1>1. pc = from /\ Release(held, to) /\ UNCHANGED <<tokens, index, own, made, message, failures>>
  BY DEF FreeNames
<1>2. Addresses /\ Memory /\ Scanned /\ Owned /\ Losses
  BY MemoryIsAddresses DEF IInv
<1>3. Forest(heap, own, S)
  BY <1>1, <1>2 DEF Owned
<1>4. \A v \in held : v \in S \/ own[v] = NULL
  BY <1>1, <1>2 DEF Owned
<1> HIDE DEF S
<1>5. /\ pc' = to
      /\ Forest(heap', own, S \ held)
      /\ heap' \in [DOMAIN heap' -> {heap[b] : b \in DOMAIN heap}]
      /\ DOMAIN heap' \subseteq DOMAIN heap
  BY <1>1, <1>2, <1>3, <1>4, ReleaseTakesTrees
<1>6. Memory'
  BY <1>1, <1>2, <1>5, MemoryAfterRelease
<1>7. Owned'
  <2>1. Forest(heap', own', S \ held)
    BY <1>1, <1>5
  <2>2. \A w \in Locals : w \notin {} => own'[w] = own[w]
    BY <1>1
  <2>3. \A w \in Has(to) : w \in Has(from) \ {} \/ own'[w] # NULL
    OBVIOUS
  <2>4. Leads(from, to, tokens[1], S \ held, {})
    BY DEF S
  <2>5. tokens' = tokens
    BY <1>1
  <2> QED
    BY <1>1, <1>2, <1>5, <2>1, <2>2, <2>3, <2>4, <2>5, OwnedAfter
<1>8. Scanned'
  <2>1. to \in Steps \ {"start", "broken"} /\ from \notin {"start", "failed"}
        /\ (from \in Ended => to \in Ended)
        /\ (to \in ColumnSteps \cup {"column list"} => from \in ColumnSteps \cup {"column list"})
    BY DEF Moves
  <2>2. message' \in Messages
    BY <1>1, <1>2 DEF Scanned
  <2> QED
    BY <1>1, <1>2, <1>5, <2>1, <2>2, ScannedAfter
<1>9. Losses'
  <2>1. failures' = failures /\ own' = own
    BY <1>1
  <2> QED
    BY <1>1, <1>2, <1>5, <2>1 DEF Losses, Moves
<1> QED
  BY <1>6, <1>7, <1>8, <1>9 DEF IInv

(* append_child hands the child's tree to the parent.                       *)
LEMMA AppendKeeps ==
    ASSUME IInv, NEW from, NEW to, NEW parent, NEW child, AppendChild(from, parent, child, to),
           Moves(from, to), parent # child,
           parent \in Owns(from, tokens[1]), child \in Owns(from, tokens[1]),
           own[parent] # NULL, failures = 0,
           Leads(from, to, tokens[1], Owns(from, tokens[1]) \ {child}, {}),
           \A v \in Has(to) : own[v] # NULL
    PROVE  IInv'
<1> DEFINE S == Owns(from, tokens[1])
           p == own[parent]
           c == own[child]
<1>1. pc = from /\ UNCHANGED <<tokens, index, own, made, message, failures>>
  BY DEF AppendChild
<1>2. Addresses /\ Memory /\ Scanned /\ Owned
  BY MemoryIsAddresses DEF IInv
<1>3. Forest(heap, own, S)
  BY <1>1, <1>2 DEF Owned
<1>4. parent \in S /\ child \in S
  OBVIOUS
<1> HIDE DEF S
<1>5. PICK root, rank, top : ForestBy(heap, own, S, root, rank, top)
  BY <1>3 DEF Forest
<1>6. p \in DOMAIN heap /\ root[p] = parent /\ (c # NULL => c \in DOMAIN heap /\ root[c] = child)
  BY <1>4, <1>5 DEF ForestBy
<1>7. pc' = to /\ Memory' /\ Forest(heap', own, S \ {child})
  <2>1. CASE c = NULL
    <3>1. pc' = to /\ heap' = heap
      BY <2>1, <1>1 DEF AppendChild
    <3>2. Memory'
      BY <3>1, <1>1, <1>2 DEF Memory
    <3>3. \A v \in (S \ (S \ {child})) \cup ((S \ {child}) \ S) : own[v] = NULL
      BY <2>1
    <3>4. Forest(heap, own, S \ {child})
      BY <1>3, <3>3, OwnersMayBeNull
    <3> QED
      BY <3>1, <3>2, <3>4
  <2>2. CASE c # NULL
    <3> DEFINE last == LastSibling(heap[p].child)
               l == IF heap[p].child = NULL THEN p ELSE last
    <3>1. /\ pc' = to
          /\ heap' = IF heap[p].child = NULL
                     THEN [heap EXCEPT ![p].child = c] ELSE [heap EXCEPT ![last].next = c]
      BY <2>2, <1>1, <1>6 DEF AppendChild
    <3>2. heap[p].child # NULL => /\ heap[p].child \in DOMAIN heap
                                  /\ root[heap[p].child] = parent
      BY <1>5, <1>6 DEF ForestBy, Below
    <3>3. heap[p].child # NULL => last \in DOMAIN heap /\ heap[last].next = NULL /\ root[last] = parent
      BY <3>2, <1>2, <1>5, LastSiblingWorks
    <3> HIDE DEF last
    <3>4. l \in DOMAIN heap /\ root[l] = parent
      BY <3>3, <1>6
    <3>5. heap \in [DOMAIN heap -> Block(Len(tokens), made)] /\ c \in 0..made
      BY <1>2, <1>6, <2>2 DEF Memory
    <3>6. \A x \in DOMAIN heap : heap[x] \in Block(Len(tokens), made)
      BY <3>5
    <3>7. CASE heap[p].child = NULL
      <4>1. heap' = [heap EXCEPT ![p].child = c]
        BY <3>1, <3>7
      <4>2. heap[p] \in Block(Len(tokens), made)
        BY <1>6, <3>6
      <4>3. [heap[p] EXCEPT !.child = c] \in Block(Len(tokens), made)
        BY <4>2, <3>5 DEF Block
      <4>4. heap' \in [DOMAIN heap -> Block(Len(tokens), made)] /\ DOMAIN heap' = DOMAIN heap
        BY <4>1, <4>3, <3>5
      <4>5. heap'[p].child = c /\ heap'[p].next = heap[p].next
        BY <4>1, <4>2, <1>6 DEF Block
      <4>6. \A x \in DOMAIN heap : x # p => heap'[x] = heap[x]
        BY <4>1
      <4>7. Memory'
        BY <4>4, <1>1, <1>2 DEF Memory
      <4>8. Forest(heap', own, S \ {child})
        <5>1. 0 \notin DOMAIN heap
          BY <1>2 DEF Addresses
        <5>2. \A x \in DOMAIN heap : x # p => heap'[x].child = heap[x].child /\ heap'[x].next = heap[x].next
          BY <4>6
        <5>3. \/ heap[p].child = NULL /\ heap'[p].child = own[child] /\ heap'[p].next = heap[p].next
              \/ heap[p].next = NULL /\ heap'[p].next = own[child] /\ heap'[p].child = heap[p].child
          BY <4>5, <3>7
        <5>4. parent \in S /\ child \in S /\ parent # child
          BY <1>4
        <5>5. own[parent] # NULL /\ own[child] # NULL
          BY <2>2
        <5>6. p \in DOMAIN heap /\ root[p] = parent
          BY <1>6
        <5>7. DOMAIN heap' = DOMAIN heap
          BY <4>4
        <5> HIDE DEF l
        <5> QED
          BY ONLY <5>1, <5>2, <5>3, <5>4, <5>5, <5>6, <5>7, <1>5, LinkJoinsTrees
      <4> QED
        BY <3>1, <4>7, <4>8
    <3>8. CASE heap[p].child # NULL
      <4>1. heap' = [heap EXCEPT ![last].next = c] /\ last \in DOMAIN heap
        BY <3>1, <3>3, <3>8
      <4>2. heap[last] \in Block(Len(tokens), made)
        BY <4>1, <3>6
      <4>3. [heap[last] EXCEPT !.next = c] \in Block(Len(tokens), made)
        BY <4>2, <3>5 DEF Block
      <4>4. heap' \in [DOMAIN heap -> Block(Len(tokens), made)] /\ DOMAIN heap' = DOMAIN heap
        BY <4>1, <4>3, <3>5
      <4>5. heap'[last].next = c /\ heap'[last].child = heap[last].child
        BY <4>1, <4>2 DEF Block
      <4>6. \A x \in DOMAIN heap : x # last => heap'[x] = heap[x]
        BY <4>1
      <4>7. Memory'
        BY <4>4, <1>1, <1>2 DEF Memory
      <4>8. Forest(heap', own, S \ {child})
        <5>1. 0 \notin DOMAIN heap
          BY <1>2 DEF Addresses
        <5>2. \A x \in DOMAIN heap : x # last => heap'[x].child = heap[x].child /\ heap'[x].next = heap[x].next
          BY <4>6
        <5>3. \/ heap[last].child = NULL /\ heap'[last].child = own[child] /\ heap'[last].next = heap[last].next
              \/ heap[last].next = NULL /\ heap'[last].next = own[child] /\ heap'[last].child = heap[last].child
          BY <4>5, <3>3, <3>8
        <5>4. parent \in S /\ child \in S /\ parent # child
          BY <1>4
        <5>5. own[parent] # NULL /\ own[child] # NULL
          BY <2>2
        <5>6. last \in DOMAIN heap /\ root[last] = parent
          BY <1>6, <3>3, <3>8
        <5>7. DOMAIN heap' = DOMAIN heap
          BY <4>4
        <5> HIDE DEF l
        <5> QED
          BY ONLY <5>1, <5>2, <5>3, <5>4, <5>5, <5>6, <5>7, <1>5, LinkJoinsTrees
      <4> QED
        BY <3>1, <4>7, <4>8
    <3> QED
      BY <3>7, <3>8
  <2> QED
    BY <2>1, <2>2
<1>8. Owned'
  <2>1. Forest(heap', own', S \ {child})
    BY <1>1, <1>7
  <2>2. \A w \in Locals : w \notin {} => own'[w] = own[w]
    BY <1>1
  <2>3. \A w \in Has(to) : w \in Has(from) \ {} \/ own'[w] # NULL
    BY <1>1
  <2>4. Leads(from, to, tokens[1], S \ {child}, {})
    BY DEF S
  <2>5. tokens' = tokens
    BY <1>1
  <2> QED
    BY <1>1, <1>2, <1>7, <2>1, <2>2, <2>3, <2>4, <2>5, OwnedAfter
<1>9. Scanned'
  <2>1. to \in Steps \ {"start", "broken"} /\ from \notin {"start", "failed"}
        /\ (from \in Ended => to \in Ended)
        /\ (to \in ColumnSteps \cup {"column list"} => from \in ColumnSteps \cup {"column list"})
    BY DEF Moves
  <2>2. message' \in Messages
    BY <1>1, <1>2 DEF Scanned
  <2> QED
    BY <1>1, <1>2, <1>7, <2>1, <2>2, ScannedAfter
<1>10. Losses'
  BY <1>1, NoLossAfter
<1> QED
  BY <1>7, <1>8, <1>9, <1>10 DEF IInv

-----------------------------------------------------------------------------
(* The steps of the parser go where the owners say: one fact for each, read *)
(* off from Owns, Unset, Has and Unseen.                                    *)

MakesAt(from, to, first, v, held) ==
    /\ Moves(from, to) /\ Unseen(from) = {}
    /\ v \in Locals \ Owns(from, first)
    /\ Leads(from, to, first, Owns(from, first) \cup {v}, {v})
    /\ Has(to) \subseteq Has(from) \cup {v}
    /\ Frees(from, first, held)

TriesAt(from, to, first, v) ==
    /\ Moves(from, to) /\ v \notin Unseen(from) /\ Unseen(to) = Unseen(from) \cup {v}
    /\ v \in Locals \ Owns(from, first) /\ v \notin Has(from)
    /\ Leads(from, to, first, Owns(from, first) \cup {v}, {v})
    /\ Has(to) \subseteq Has(from)

PassesAt(from, to, first) ==
    /\ Moves(from, to) /\ Unseen(from) = {}
    /\ Leads(from, to, first, Owns(from, first), {})
    /\ Has(to) \subseteq Has(from)

FreesAt(from, to, first, held) ==
    /\ Moves(from, to) /\ Unseen(to) = Unseen(from)
    /\ held \subseteq Owns(from, first) \cup Unset(from, first)
    /\ Leads(from, to, first, Owns(from, first) \ held, {})
    /\ Has(to) \subseteq Has(from)

LinksAt(from, to, first, parent, child) ==
    /\ Moves(from, to) /\ parent # child
    /\ parent \in Owns(from, first) /\ child \in Owns(from, first)
    /\ Leads(from, to, first, Owns(from, first) \ {child}, {})

(* The steps that make a node or stop.                                      *)
LEMMA MakingSteps ==
    ASSUME NEW first
    PROVE  /\ MakesAt("value list", "value", first, "list_node", {"table_node"})
           /\ MakesAt("value", "value read", first, "value_node", {"list_node", "table_node"})
           /\ MakesAt("column list", "star", first, "list_node", {})
           /\ MakesAt("all columns", "columns read", first, "column_node", {"list_node"})
           /\ MakesAt("column", "column named", first, "column_name", {"list_node"})
           /\ MakesAt("table", "table named", first, "first_identifier", {"list_node"})
           /\ MakesAt("table named", "dot", first, "table_node", {"first_identifier", "list_node"})
           /\ MakesAt("qualified", "schema", first, "table_text", {"first_identifier", "table_node", "list_node"})
           /\ MakesAt("where column", "where named", first, "column_name", Held)
           /\ MakesAt("operand", "operator", first, "value_node", {"where_node"} \cup Held)
           /\ MakesAt("operator", "operator made", first, "operator_node", {"where_node", "value_node"} \cup Held)
           /\ MakesAt("lower", "and", first, "lower_node", {"where_node"} \cup Held)
           /\ MakesAt("upper", "bounds read", first, "upper_node", {"lower_node", "where_node"} \cup Held)
           /\ MakesAt("bounds read", "between made", first, "between_node", {"lower_node", "upper_node", "where_node"} \cup Held)
           /\ MakesAt("statement", "root made", first, "root", Parts)
<1> USE DEF MakesAt, TriesAt, PassesAt, FreesAt, LinksAt, Moves, Leads, Frees,
            Steps, Reading, Ended, Owns, Unset, Has, Unseen, Locals, Nodes, Names,
            ColumnSteps, TableSteps, ValueSteps, ConditionSteps, WhereSteps, LastSteps, Held, Parts
<1>1. MakesAt("value list", "value", first, "list_node", {"table_node"})
  OBVIOUS
<1>2. MakesAt("value", "value read", first, "value_node", {"list_node", "table_node"})
  OBVIOUS
<1>3. MakesAt("column list", "star", first, "list_node", {})
  OBVIOUS
<1>4. MakesAt("all columns", "columns read", first, "column_node", {"list_node"})
  OBVIOUS
<1>5. MakesAt("column", "column named", first, "column_name", {"list_node"})
  OBVIOUS
<1>6. MakesAt("table", "table named", first, "first_identifier", {"list_node"})
  OBVIOUS
<1>7. MakesAt("table named", "dot", first, "table_node", {"first_identifier", "list_node"})
  OBVIOUS
<1>8. MakesAt("qualified", "schema", first, "table_text", {"first_identifier", "table_node", "list_node"})
  OBVIOUS
<1>9. MakesAt("where column", "where named", first, "column_name", Held)
  OBVIOUS
<1>10. MakesAt("operand", "operator", first, "value_node", {"where_node"} \cup Held)
  OBVIOUS
<1>11. MakesAt("operator", "operator made", first, "operator_node", {"where_node", "value_node"} \cup Held)
  OBVIOUS
<1>12. MakesAt("lower", "and", first, "lower_node", {"where_node"} \cup Held)
  OBVIOUS
<1>13. MakesAt("upper", "bounds read", first, "upper_node", {"lower_node", "where_node"} \cup Held)
  OBVIOUS
<1>14. MakesAt("bounds read", "between made", first, "between_node", {"lower_node", "upper_node", "where_node"} \cup Held)
  OBVIOUS
<1>15. MakesAt("statement", "root made", first, "root", Parts)
  OBVIOUS
<1> HIDE DEF MakesAt, TriesAt, PassesAt, FreesAt, LinksAt, Frees, Owns, Has, Unseen
<1> QED
  BY ONLY <1>1, <1>2, <1>3, <1>4, <1>5, <1>6, <1>7, <1>8, <1>9, <1>10, <1>11, <1>12, <1>13, <1>14, <1>15

(* The steps whose node is looked at later.                                 *)
LEMMA TryingSteps ==
    ASSUME NEW first
    PROVE  /\ TriesAt("column named", "column made", first, "column_node")
           /\ TriesAt("schema", "table name", first, "schema_node")
           /\ TriesAt("table name", "names copied", first, "table_name_node")
           /\ TriesAt("where named", "where made", first, "where_node")
           /\ TriesAt("where made", "where copied", first, "column_node")
<1> USE DEF MakesAt, TriesAt, PassesAt, FreesAt, LinksAt, Moves, Leads, Frees,
            Steps, Reading, Ended, Owns, Unset, Has, Unseen, Locals, Nodes, Names,
            ColumnSteps, TableSteps, ValueSteps, ConditionSteps, WhereSteps, LastSteps, Held, Parts
<1>1. TriesAt("column named", "column made", first, "column_node")
  OBVIOUS
<1>2. TriesAt("schema", "table name", first, "schema_node")
  OBVIOUS
<1>3. TriesAt("table name", "names copied", first, "table_name_node")
  OBVIOUS
<1>4. TriesAt("where named", "where made", first, "where_node")
  OBVIOUS
<1>5. TriesAt("where made", "where copied", first, "column_node")
  OBVIOUS
<1> HIDE DEF MakesAt, TriesAt, PassesAt, FreesAt, LinksAt, Frees, Owns, Has, Unseen
<1> QED
  BY ONLY <1>1, <1>2, <1>3, <1>4, <1>5

(* The steps that read a token, and what an error there frees.              *)
LEMMA PassingSteps ==
    ASSUME NEW first
    PROVE  /\ PassesAt("into", "table", first) /\ Frees("into", first, {})
           /\ PassesAt("values", "(", first) /\ Frees("values", first, {"table_node"})
           /\ PassesAt("(", "value list", first) /\ Frees("(", first, {"table_node"})
           /\ PassesAt(")", "semicolon", first) /\ Frees(")", first, {"table_node", "list_node"})
           /\ first # "INSERT" => PassesAt("from", "table", first) /\ Frees("from", first, {"list_node"})
           /\ PassesAt("and", "upper", first) /\ Frees("and", first, {"lower_node", "where_node"} \cup Held)
           /\ PassesAt("end", "statement", first) /\ Frees("end", first, Parts)
           /\ PassesAt("more values", "value", first)
           /\ PassesAt("more values", ")", first)
           /\ PassesAt("star", "all columns", first)
           /\ PassesAt("star", "column", first)
           /\ PassesAt("more columns", "column", first)
           /\ PassesAt("more columns", "from", first)
           /\ PassesAt("dot", "qualified", first)
           /\ PassesAt("dot", "schema", first)
           /\ PassesAt("where", "where column", first)
           /\ PassesAt("where", "semicolon", first)
           /\ PassesAt("semicolon", "end", first)
           /\ PassesAt("between", "lower", first) /\ Frees("between", first, {"where_node"} \cup Held)
           /\ PassesAt("between", "operand", first) /\ Frees("between", first, {"where_node"} \cup Held)
<1> USE DEF MakesAt, TriesAt, PassesAt, FreesAt, LinksAt, Moves, Leads, Frees,
            Steps, Reading, Ended, Owns, Unset, Has, Unseen, Locals, Nodes, Names,
            ColumnSteps, TableSteps, ValueSteps, ConditionSteps, WhereSteps, LastSteps, Held, Parts
<1>1. PassesAt("into", "table", first) /\ Frees("into", first, {})
  OBVIOUS
<1>2. PassesAt("values", "(", first) /\ Frees("values", first, {"table_node"})
  OBVIOUS
<1>3. PassesAt("(", "value list", first) /\ Frees("(", first, {"table_node"})
  OBVIOUS
<1>4. PassesAt(")", "semicolon", first) /\ Frees(")", first, {"table_node", "list_node"})
  OBVIOUS
<1>5. first # "INSERT" => PassesAt("from", "table", first) /\ Frees("from", first, {"list_node"})
  OBVIOUS
<1>6. PassesAt("and", "upper", first) /\ Frees("and", first, {"lower_node", "where_node"} \cup Held)
  OBVIOUS
<1>7. PassesAt("end", "statement", first) /\ Frees("end", first, Parts)
  OBVIOUS
<1>8. PassesAt("more values", "value", first)
  OBVIOUS
<1>9. PassesAt("more values", ")", first)
  OBVIOUS
<1>10. PassesAt("star", "all columns", first)
  OBVIOUS
<1>11. PassesAt("star", "column", first)
  OBVIOUS
<1>12. PassesAt("more columns", "column", first)
  OBVIOUS
<1>13. PassesAt("more columns", "from", first)
  OBVIOUS
<1>14. PassesAt("dot", "qualified", first)
  OBVIOUS
<1>15. PassesAt("dot", "schema", first)
  OBVIOUS
<1>16. PassesAt("where", "where column", first)
  OBVIOUS
<1>17. PassesAt("where", "semicolon", first)
  OBVIOUS
<1>18. PassesAt("semicolon", "end", first)
  OBVIOUS
<1>19. PassesAt("between", "lower", first) /\ Frees("between", first, {"where_node"} \cup Held)
  OBVIOUS
<1>20. PassesAt("between", "operand", first) /\ Frees("between", first, {"where_node"} \cup Held)
  OBVIOUS
<1> HIDE DEF MakesAt, TriesAt, PassesAt, FreesAt, LinksAt, Frees, Owns, Has, Unseen
<1> QED
  BY ONLY <1>1, <1>2, <1>3, <1>4, <1>5, <1>6, <1>7, <1>8, <1>9, <1>10, <1>11, <1>12, <1>13, <1>14, <1>15, <1>16, <1>17, <1>18, <1>19, <1>20

(* The steps that free names, and those that find a node missing.           *)
LEMMA FreeingSteps ==
    ASSUME NEW first
    PROVE  /\ FreesAt("column made", "column tried", first, {"column_name"})
           /\ FreesAt("names copied", "table tried", first, {"first_identifier", "table_text"})
           /\ FreesAt("where copied", "where tried", first, {"column_name"})
           /\ Owns("column tried", first) = {"list_node", "column_node"}
           /\ Frees("table tried", first, {"schema_node", "table_name_node", "table_node", "list_node"})
           /\ Frees("where tried", first, {"where_node", "column_node"} \cup Held)
<1> USE DEF MakesAt, TriesAt, PassesAt, FreesAt, LinksAt, Moves, Leads, Frees,
            Steps, Reading, Ended, Owns, Unset, Has, Unseen, Locals, Nodes, Names,
            ColumnSteps, TableSteps, ValueSteps, ConditionSteps, WhereSteps, LastSteps, Held, Parts
<1>1. FreesAt("column made", "column tried", first, {"column_name"})
  OBVIOUS
<1>2. FreesAt("names copied", "table tried", first, {"first_identifier", "table_text"})
  OBVIOUS
<1>3. FreesAt("where copied", "where tried", first, {"column_name"})
  OBVIOUS
<1>4. Owns("column tried", first) = {"list_node", "column_node"}
  OBVIOUS
<1>5. Frees("table tried", first, {"schema_node", "table_name_node", "table_node", "list_node"})
  OBVIOUS
<1>6. Frees("where tried", first, {"where_node", "column_node"} \cup Held)
  OBVIOUS
<1> HIDE DEF MakesAt, TriesAt, PassesAt, FreesAt, LinksAt, Frees, Owns, Has, Unseen
<1> QED
  BY ONLY <1>1, <1>2, <1>3, <1>4, <1>5, <1>6

(* The steps that append a node.                                            *)
LEMMA LinkingSteps ==
    ASSUME NEW first
    PROVE  /\ LinksAt("value read", "more values", first, "list_node", "value_node")
           /\ "list_node" \in Has("value read") /\ Has("more values") \subseteq Has("value read") /\ Unseen("value read") = {}
           /\ LinksAt("columns read", "from", first, "list_node", "column_node")
           /\ "list_node" \in Has("columns read") /\ Has("from") \subseteq Has("columns read") /\ Unseen("columns read") = {}
           /\ LinksAt("operator made", "operator linked", first, "where_node", "operator_node")
           /\ "where_node" \in Has("operator made") /\ Has("operator linked") \subseteq Has("operator made") /\ Unseen("operator made") = {}
           /\ LinksAt("operator linked", "semicolon", first, "where_node", "value_node")
           /\ "where_node" \in Has("operator linked") /\ Has("semicolon") \subseteq Has("operator linked") /\ Unseen("operator linked") = {}
           /\ LinksAt("between made", "lower linked", first, "between_node", "lower_node")
           /\ "between_node" \in Has("between made") /\ Has("lower linked") \subseteq Has("between made") /\ Unseen("between made") = {}
           /\ LinksAt("lower linked", "upper linked", first, "between_node", "upper_node")
           /\ "between_node" \in Has("lower linked") /\ Has("upper linked") \subseteq Has("lower linked") /\ Unseen("lower linked") = {}
           /\ LinksAt("upper linked", "semicolon", first, "where_node", "between_node")
           /\ "where_node" \in Has("upper linked") /\ Has("semicolon") \subseteq Has("upper linked") /\ Unseen("upper linked") = {}
           /\ LinksAt("second linked", "returned", first, "root", "where_node")
           /\ "root" \in Has("second linked") /\ Has("returned") \subseteq Has("second linked") /\ Unseen("second linked") = {}
<1> USE DEF MakesAt, TriesAt, PassesAt, FreesAt, LinksAt, Moves, Leads, Frees,
            Steps, Reading, Ended, Owns, Unset, Has, Unseen, Locals, Nodes, Names,
            ColumnSteps, TableSteps, ValueSteps, ConditionSteps, WhereSteps, LastSteps, Held, Parts
<1>1. LinksAt("value read", "more values", first, "list_node", "value_node")
           /\ "list_node" \in Has("value read") /\ Has("more values") \subseteq Has("value read") /\ Unseen("value read") = {}
  OBVIOUS
<1>2. LinksAt("columns read", "from", first, "list_node", "column_node")
           /\ "list_node" \in Has("columns read") /\ Has("from") \subseteq Has("columns read") /\ Unseen("columns read") = {}
  OBVIOUS
<1>3. LinksAt("operator made", "operator linked", first, "where_node", "operator_node")
           /\ "where_node" \in Has("operator made") /\ Has("operator linked") \subseteq Has("operator made") /\ Unseen("operator made") = {}
  OBVIOUS
<1>4. LinksAt("operator linked", "semicolon", first, "where_node", "value_node")
           /\ "where_node" \in Has("operator linked") /\ Has("semicolon") \subseteq Has("operator linked") /\ Unseen("operator linked") = {}
  OBVIOUS
<1>5. LinksAt("between made", "lower linked", first, "between_node", "lower_node")
           /\ "between_node" \in Has("between made") /\ Has("lower linked") \subseteq Has("between made") /\ Unseen("between made") = {}
  OBVIOUS
<1>6. LinksAt("lower linked", "upper linked", first, "between_node", "upper_node")
           /\ "between_node" \in Has("lower linked") /\ Has("upper linked") \subseteq Has("lower linked") /\ Unseen("lower linked") = {}
  OBVIOUS
<1>7. LinksAt("upper linked", "semicolon", first, "where_node", "between_node")
           /\ "where_node" \in Has("upper linked") /\ Has("semicolon") \subseteq Has("upper linked") /\ Unseen("upper linked") = {}
  OBVIOUS
<1>8. LinksAt("second linked", "returned", first, "root", "where_node")
           /\ "root" \in Has("second linked") /\ Has("returned") \subseteq Has("second linked") /\ Unseen("second linked") = {}
  OBVIOUS
<1> HIDE DEF MakesAt, TriesAt, PassesAt, FreesAt, LinksAt, Frees, Owns, Has, Unseen
<1> QED
  BY ONLY <1>1, <1>2, <1>3, <1>4, <1>5, <1>6, <1>7, <1>8

(* The steps that append the nodes that were looked at.                     *)
LEMMA LinkingChecked ==
    ASSUME NEW first
    PROVE  /\ LinksAt("column tried", "more columns", first, "list_node", "column_node") /\ Has("more columns") \subseteq Has("column tried")
           /\ "list_node" \in Has("column tried") /\ Unseen("column tried") = {"column_node"}
           /\ LinksAt("table tried", "schema linked", first, "table_node", "schema_node") /\ Has("schema linked") \subseteq Has("table tried")
           /\ "table_node" \in Has("table tried") /\ Unseen("table tried") = {"schema_node", "table_name_node"}
           /\ LinksAt("where tried", "between", first, "where_node", "column_node") /\ Has("between") \subseteq {"where_node"}
           /\ Unseen("where tried") = {"where_node", "column_node"}
<1> USE DEF MakesAt, TriesAt, PassesAt, FreesAt, LinksAt, Moves, Leads, Frees,
            Steps, Reading, Ended, Owns, Unset, Has, Unseen, Locals, Nodes, Names,
            ColumnSteps, TableSteps, ValueSteps, ConditionSteps, WhereSteps, LastSteps, Held, Parts
<1>1. LinksAt("column tried", "more columns", first, "list_node", "column_node") /\ Has("more columns") \subseteq Has("column tried")
  OBVIOUS
<1>2. "list_node" \in Has("column tried") /\ Unseen("column tried") = {"column_node"}
  OBVIOUS
<1>3. LinksAt("table tried", "schema linked", first, "table_node", "schema_node") /\ Has("schema linked") \subseteq Has("table tried")
  OBVIOUS
<1>4. "table_node" \in Has("table tried") /\ Unseen("table tried") = {"schema_node", "table_name_node"}
  OBVIOUS
<1>5. LinksAt("where tried", "between", first, "where_node", "column_node") /\ Has("between") \subseteq {"where_node"}
  OBVIOUS
<1>6. Unseen("where tried") = {"where_node", "column_node"}
  OBVIOUS
<1> HIDE DEF MakesAt, TriesAt, PassesAt, FreesAt, LinksAt, Frees, Owns, Has, Unseen
<1> QED
  BY ONLY <1>1, <1>2, <1>3, <1>4, <1>5, <1>6

(* The steps that depend on the statement.                                  *)
LEMMA LinkingByStatement ==
    ASSUME NEW first
    PROVE  /\ first = "INSERT" => LinksAt("schema linked", "values", first, "table_node", "table_name_node")
           /\ first # "INSERT" => LinksAt("schema linked", "where", first, "table_node", "table_name_node")
           /\ "table_node" \in Has("schema linked") /\ Unseen("schema linked") = {}
           /\ Has("values") = {} /\ Has("where") = {}
           /\ first = "INSERT" => LinksAt("root made", "first linked", first, "root", "table_node")
           /\ first # "INSERT" => LinksAt("root made", "first linked", first, "root", "list_node")
           /\ first = "INSERT" => LinksAt("first linked", "second linked", first, "root", "list_node")
           /\ first # "INSERT" => LinksAt("first linked", "second linked", first, "root", "table_node")
           /\ "root" \in Has("root made") /\ Has("first linked") = {"root"} /\ Has("second linked") = {"root"}
           /\ Unseen("root made") = {} /\ Unseen("first linked") = {}
<1> USE DEF MakesAt, TriesAt, PassesAt, FreesAt, LinksAt, Moves, Leads, Frees,
            Steps, Reading, Ended, Owns, Unset, Has, Unseen, Locals, Nodes, Names,
            ColumnSteps, TableSteps, ValueSteps, ConditionSteps, WhereSteps, LastSteps, Held, Parts
<1>1. first = "INSERT" => LinksAt("schema linked", "values", first, "table_node", "table_name_node")
  OBVIOUS
<1>2. first # "INSERT" => LinksAt("schema linked", "where", first, "table_node", "table_name_node")
  OBVIOUS
<1>3. "table_node" \in Has("schema linked") /\ Unseen("schema linked") = {}
  OBVIOUS
<1>4. Has("values") = {} /\ Has("where") = {}
  OBVIOUS
<1>5. first = "INSERT" => LinksAt("root made", "first linked", first, "root", "table_node")
  OBVIOUS
<1>6. first # "INSERT" => LinksAt("root made", "first linked", first, "root", "list_node")
  OBVIOUS
<1>7. first = "INSERT" => LinksAt("first linked", "second linked", first, "root", "list_node")
  OBVIOUS
<1>8. first # "INSERT" => LinksAt("first linked", "second linked", first, "root", "table_node")
  OBVIOUS
<1>9. "root" \in Has("root made") /\ Has("first linked") = {"root"} /\ Has("second linked") = {"root"}
  OBVIOUS
<1>10. Unseen("root made") = {} /\ Unseen("first linked") = {}
  OBVIOUS
<1> HIDE DEF MakesAt, TriesAt, PassesAt, FreesAt, LinksAt, Frees, Owns, Has, Unseen
<1> QED
  BY ONLY <1>1, <1>2, <1>3, <1>4, <1>5, <1>6, <1>7, <1>8, <1>9, <1>10

-----------------------------------------------------------------------------
(* Every action keeps the invariant.                                        *)

LEMMA TextIsTyped ==
    ASSUME IInv, NEW v
    PROVE  TextOf(v) \in 0..Len(tokens)
<1>1. heap \in [DOMAIN heap -> Block(Len(tokens), made)]
  BY DEF IInv, Memory
<1>2. 0 \in 0..Len(tokens)
  BY NextIndex
<1>3. CASE own[v] \in DOMAIN heap
  <2>1. heap[own[v]] \in Block(Len(tokens), made)
    BY <1>1, <1>3
  <2>2. heap[own[v]].text \in 0..Len(tokens)
    BY <2>1 DEF Block
  <2> QED
    BY <2>2, <1>3 DEF TextOf
<1>4. CASE own[v] \notin DOMAIN heap
  BY <1>2, <1>4 DEF TextOf
<1> QED
  BY <1>3, <1>4

(* append_child where the parent is known and nothing was lost.             *)
LEMMA LinkKeeps ==
    ASSUME IInv, NEW from, NEW to, NEW parent, NEW child, AppendChild(from, parent, child, to),
           LinksAt(from, to, tokens[1], parent, child),
           parent \in Has(from), Has(to) \subseteq Has(from), Unseen(from) = {}
    PROVE  IInv'
<1>1. pc = from
  BY DEF AppendChild
<1>2. failures = 0
  BY <1>1, NothingLost DEF LinksAt, Moves
<1>3. own[parent] # NULL /\ \A v \in Has(to) : own[v] # NULL
  BY <1>1 DEF IInv, Owned
<1> QED
  BY <1>2, <1>3, AppendKeeps DEF LinksAt

LEMMA ValueListKeeps ==
    ASSUME IInv, ValueList
    PROVE  IInv'
<1>1. Create("value list", "list_node", "VALUE_LIST", 0, "value", {"table_node"})
  BY DEF ValueList
<1>2. MakesAt("value list", "value", tokens[1], "list_node", {"table_node"})
  BY MakingSteps
<1>3. "VALUE_LIST" \in NodeTypes
  BY DEF NodeTypes
<1>4. 0 \in 0..Len(tokens)
  BY NextIndex
<1> QED
  BY <1>1, <1>2, <1>3, <1>4, CreateKeeps DEF MakesAt

LEMMA ValueKeeps ==
    ASSUME IInv, Value
    PROVE  IInv'
<1>1. ParseValue("value", "value_node", "value read", {"list_node", "table_node"}, "Execution error")
  BY DEF Value
<1>2. MakesAt("value", "value read", tokens[1], "value_node", {"list_node", "table_node"})
  BY MakingSteps
<1> QED
  BY <1>1, <1>2, AllMessages, ParseValueKeeps DEF MakesAt

LEMMA ColumnListKeeps ==
    ASSUME IInv, ColumnList
    PROVE  IInv'
<1>1. Create("column list", "list_node", "COLUMN_LIST", 0, "star", {})
  BY DEF ColumnList
<1>2. MakesAt("column list", "star", tokens[1], "list_node", {})
  BY MakingSteps
<1>3. "COLUMN_LIST" \in NodeTypes
  BY DEF NodeTypes
<1>4. 0 \in 0..Len(tokens)
  BY NextIndex
<1> QED
  BY <1>1, <1>2, <1>3, <1>4, CreateKeeps DEF MakesAt

LEMMA AllColumnsKeeps ==
    ASSUME IInv, AllColumns
    PROVE  IInv'
<1>1. Create("all columns", "column_node", "COLUMN", index, "columns read", {"list_node"})
  BY DEF AllColumns
<1>2. MakesAt("all columns", "columns read", tokens[1], "column_node", {"list_node"})
  BY MakingSteps
<1>3. "COLUMN" \in NodeTypes
  BY DEF NodeTypes
<1>4. index \in 0..Len(tokens)
  BY NextIndex
<1> QED
  BY <1>1, <1>2, <1>3, <1>4, CreateKeeps DEF MakesAt

LEMMA ColumnNameKeeps ==
    ASSUME IInv, ColumnName
    PROVE  IInv'
<1>1. CopyIdentifier("column", "column_name", "column named", {"list_node"})
  BY DEF ColumnName
<1>2. MakesAt("column", "column named", tokens[1], "column_name", {"list_node"})
  BY MakingSteps
<1> QED
  BY <1>1, <1>2, CopyIdentifierKeeps DEF MakesAt

LEMMA TableNameKeeps ==
    ASSUME IInv, TableName
    PROVE  IInv'
<1>1. CopyIdentifier("table", "first_identifier", "table named", {"list_node"})
  BY DEF TableName
<1>2. MakesAt("table", "table named", tokens[1], "first_identifier", {"list_node"})
  BY MakingSteps
<1> QED
  BY <1>1, <1>2, CopyIdentifierKeeps DEF MakesAt

LEMMA TableKeeps ==
    ASSUME IInv, Table
    PROVE  IInv'
<1>1. Create("table named", "table_node", "TABLE", 0, "dot", {"first_identifier", "list_node"})
  BY DEF Table
<1>2. MakesAt("table named", "dot", tokens[1], "table_node", {"first_identifier", "list_node"})
  BY MakingSteps
<1>3. "TABLE" \in NodeTypes
  BY DEF NodeTypes
<1>4. 0 \in 0..Len(tokens)
  BY NextIndex
<1> QED
  BY <1>1, <1>2, <1>3, <1>4, CreateKeeps DEF MakesAt

LEMMA QualifiedNameKeeps ==
    ASSUME IInv, QualifiedName
    PROVE  IInv'
<1>1. CopyIdentifier("qualified", "table_text", "schema", {"first_identifier", "table_node", "list_node"})
  BY DEF QualifiedName
<1>2. MakesAt("qualified", "schema", tokens[1], "table_text", {"first_identifier", "table_node", "list_node"})
  BY MakingSteps
<1> QED
  BY <1>1, <1>2, CopyIdentifierKeeps DEF MakesAt

LEMMA WhereColumnKeeps ==
    ASSUME IInv, WhereColumn
    PROVE  IInv'
<1>1. CopyIdentifier("where column", "column_name", "where named", Held)
  BY DEF WhereColumn
<1>2. MakesAt("where column", "where named", tokens[1], "column_name", Held)
  BY MakingSteps
<1> QED
  BY <1>1, <1>2, CopyIdentifierKeeps DEF MakesAt

LEMMA OperandKeeps ==
    ASSUME IInv, Operand
    PROVE  IInv'
<1>1. ParseValue("operand", "value_node", "operator", {"where_node"} \cup Held, "Execution error")
  BY DEF Operand
<1>2. MakesAt("operand", "operator", tokens[1], "value_node", {"where_node"} \cup Held)
  BY MakingSteps
<1> QED
  BY <1>1, <1>2, AllMessages, ParseValueKeeps DEF MakesAt

LEMMA OperatorKeeps ==
    ASSUME IInv, Operator
    PROVE  IInv'
<1>1. Create("operator", "operator_node", "OPERATOR", index - 1, "operator made", {"where_node", "value_node"} \cup Held)
  BY DEF Operator
<1>2. MakesAt("operator", "operator made", tokens[1], "operator_node", {"where_node", "value_node"} \cup Held)
  BY MakingSteps
<1>3. "OPERATOR" \in NodeTypes
  BY DEF NodeTypes
<1>4. index - 1 \in 0..Len(tokens)
  <2>1. pc = "operator"
    BY <1>1 DEF Create
  <2>2. index > 0
    BY <2>1 DEF IInv, Scanned
  <2> QED
    BY <2>2, NextIndex
<1> QED
  BY <1>1, <1>2, <1>3, <1>4, CreateKeeps DEF MakesAt

LEMMA LowerKeeps ==
    ASSUME IInv, Lower
    PROVE  IInv'
<1>1. ParseValue("lower", "lower_node", "and", {"where_node"} \cup Held, "Parse error")
  BY DEF Lower
<1>2. MakesAt("lower", "and", tokens[1], "lower_node", {"where_node"} \cup Held)
  BY MakingSteps
<1> QED
  BY <1>1, <1>2, AllMessages, ParseValueKeeps DEF MakesAt

LEMMA UpperKeeps ==
    ASSUME IInv, Upper
    PROVE  IInv'
<1>1. ParseValue("upper", "upper_node", "bounds read", {"lower_node", "where_node"} \cup Held, "Parse error")
  BY DEF Upper
<1>2. MakesAt("upper", "bounds read", tokens[1], "upper_node", {"lower_node", "where_node"} \cup Held)
  BY MakingSteps
<1> QED
  BY <1>1, <1>2, AllMessages, ParseValueKeeps DEF MakesAt

LEMMA BetweenKeeps ==
    ASSUME IInv, Between
    PROVE  IInv'
<1>1. Create("bounds read", "between_node", "BETWEEN", 0, "between made", {"lower_node", "upper_node", "where_node"} \cup Held)
  BY DEF Between
<1>2. MakesAt("bounds read", "between made", tokens[1], "between_node", {"lower_node", "upper_node", "where_node"} \cup Held)
  BY MakingSteps
<1>3. "BETWEEN" \in NodeTypes
  BY DEF NodeTypes
<1>4. 0 \in 0..Len(tokens)
  BY NextIndex
<1> QED
  BY <1>1, <1>2, <1>3, <1>4, CreateKeeps DEF MakesAt

LEMMA RootKeeps ==
    ASSUME IInv, Root
    PROVE  IInv'
<1>1. Create("statement", "root", tokens[1], 0, "root made", Parts)
  BY DEF Root
<1>2. MakesAt("statement", "root made", tokens[1], "root", Parts)
  BY MakingSteps
<1>3. tokens[1] \in NodeTypes
  <2>1. pc = "statement"
    BY <1>1 DEF Create
  <2> QED
    BY <2>1 DEF IInv, Scanned, NodeTypes
<1>4. 0 \in 0..Len(tokens)
  BY NextIndex
<1> QED
  BY <1>1, <1>2, <1>3, <1>4, CreateKeeps DEF MakesAt

LEMMA ColumnKeeps ==
    ASSUME IInv, Column
    PROVE  IInv'
<1>1. CreateOrNull("column named", "column_node", "COLUMN", TextOf("column_name"), "column made")
  BY DEF Column
<1>2. TriesAt("column named", "column made", tokens[1], "column_node")
  BY TryingSteps
<1>3. "COLUMN" \in NodeTypes
  BY DEF NodeTypes
<1>4. TextOf("column_name") \in 0..Len(tokens)
  BY NextIndex, TextIsTyped
<1> QED
  BY <1>1, <1>2, <1>3, <1>4, CreateOrNullKeeps DEF TriesAt

LEMMA SchemaKeeps ==
    ASSUME IInv, Schema
    PROVE  IInv'
<1>1. CreateOrNull("schema", "schema_node", "IDENTIFIER", IF Qualified THEN TextOf("first_identifier") ELSE 0, "table name")
  BY DEF Schema
<1>2. TriesAt("schema", "table name", tokens[1], "schema_node")
  BY TryingSteps
<1>3. "IDENTIFIER" \in NodeTypes
  BY DEF NodeTypes
<1>4. (IF Qualified THEN TextOf("first_identifier") ELSE 0) \in 0..Len(tokens)
  BY NextIndex, TextIsTyped
<1> QED
  BY <1>1, <1>2, <1>3, <1>4, CreateOrNullKeeps DEF TriesAt

LEMMA TableNameNodeKeeps ==
    ASSUME IInv, TableNameNode
    PROVE  IInv'
<1>1. CreateOrNull("table name", "table_name_node", "IDENTIFIER", TextOf(IF Qualified THEN "table_text" ELSE "first_identifier"), "names copied")
  BY DEF TableNameNode
<1>2. TriesAt("table name", "names copied", tokens[1], "table_name_node")
  BY TryingSteps
<1>3. "IDENTIFIER" \in NodeTypes
  BY DEF NodeTypes
<1>4. TextOf(IF Qualified THEN "table_text" ELSE "first_identifier") \in 0..Len(tokens)
  BY NextIndex, TextIsTyped
<1> QED
  BY <1>1, <1>2, <1>3, <1>4, CreateOrNullKeeps DEF TriesAt

LEMMA WhereNodeKeeps ==
    ASSUME IInv, WhereNode
    PROVE  IInv'
<1>1. CreateOrNull("where named", "where_node", "WHERE", 0, "where made")
  BY DEF WhereNode
<1>2. TriesAt("where named", "where made", tokens[1], "where_node")
  BY TryingSteps
<1>3. "WHERE" \in NodeTypes
  BY DEF NodeTypes
<1>4. 0 \in 0..Len(tokens)
  BY NextIndex, TextIsTyped
<1> QED
  BY <1>1, <1>2, <1>3, <1>4, CreateOrNullKeeps DEF TriesAt

LEMMA WhereColumnNodeKeeps ==
    ASSUME IInv, WhereColumnNode
    PROVE  IInv'
<1>1. CreateOrNull("where made", "column_node", "COLUMN", TextOf("column_name"), "where copied")
  BY DEF WhereColumnNode
<1>2. TriesAt("where made", "where copied", tokens[1], "column_node")
  BY TryingSteps
<1>3. "COLUMN" \in NodeTypes
  BY DEF NodeTypes
<1>4. TextOf("column_name") \in 0..Len(tokens)
  BY NextIndex, TextIsTyped
<1> QED
  BY <1>1, <1>2, <1>3, <1>4, CreateOrNullKeeps DEF TriesAt

LEMMA IntoKeeps ==
    ASSUME IInv, Into
    PROVE  IInv'
<1>1. Expect("into", "INTO", "table", {})
  BY DEF Into
<1>2. PassesAt("into", "table", tokens[1]) /\ Frees("into", tokens[1], {})
  BY PassingSteps
<1> QED
  BY <1>1, <1>2, ExpectKeeps DEF PassesAt

LEMMA ValuesKeeps ==
    ASSUME IInv, Values
    PROVE  IInv'
<1>1. Expect("values", "VALUES", "(", {"table_node"})
  BY DEF Values
<1>2. PassesAt("values", "(", tokens[1]) /\ Frees("values", tokens[1], {"table_node"})
  BY PassingSteps
<1> QED
  BY <1>1, <1>2, ExpectKeeps DEF PassesAt

LEMMA LeftParenKeeps ==
    ASSUME IInv, LeftParen
    PROVE  IInv'
<1>1. Expect("(", "(", "value list", {"table_node"})
  BY DEF LeftParen
<1>2. PassesAt("(", "value list", tokens[1]) /\ Frees("(", tokens[1], {"table_node"})
  BY PassingSteps
<1> QED
  BY <1>1, <1>2, ExpectKeeps DEF PassesAt

LEMMA RightParenKeeps ==
    ASSUME IInv, RightParen
    PROVE  IInv'
<1>1. Expect(")", ")", "semicolon", {"table_node", "list_node"})
  BY DEF RightParen
<1>2. PassesAt(")", "semicolon", tokens[1]) /\ Frees(")", tokens[1], {"table_node", "list_node"})
  BY PassingSteps
<1> QED
  BY <1>1, <1>2, ExpectKeeps DEF PassesAt

LEMMA FromKeeps ==
    ASSUME IInv, From
    PROVE  IInv'
<1>1. Expect("from", "FROM", "table", {"list_node"})
  BY DEF From
<1>a. tokens[1] # "INSERT"
  <2>1. pc = "from"
    BY <1>1 DEF Expect, Looking
  <2> QED
    BY <2>1 DEF IInv, Scanned, ColumnSteps
<1>2. PassesAt("from", "table", tokens[1]) /\ Frees("from", tokens[1], {"list_node"})
  BY <1>a, PassingSteps
<1> QED
  BY <1>1, <1>2, ExpectKeeps DEF PassesAt

LEMMA AndKeeps ==
    ASSUME IInv, And
    PROVE  IInv'
<1>1. Expect("and", "AND", "upper", {"lower_node", "where_node"} \cup Held)
  BY DEF And
<1>2. PassesAt("and", "upper", tokens[1]) /\ Frees("and", tokens[1], {"lower_node", "where_node"} \cup Held)
  BY PassingSteps
<1> QED
  BY <1>1, <1>2, ExpectKeeps DEF PassesAt

LEMMA EndOfInputKeeps ==
    ASSUME IInv, EndOfInput
    PROVE  IInv'
<1>1. Expect("end", "EOF", "statement", Parts)
  BY DEF EndOfInput
<1>2. PassesAt("end", "statement", tokens[1]) /\ Frees("end", tokens[1], Parts)
  BY PassingSteps
<1>3. "statement" \in Ended
  BY DEF Ended
<1> QED
  BY <1>1, <1>2, <1>3, ExpectKeeps DEF PassesAt

LEMMA MoreValuesKeeps ==
    ASSUME IInv, MoreValues
    PROVE  IInv'
<1>1. Match("more values", ",", "value", ")")
  BY DEF MoreValues
<1>2. PassesAt("more values", "value", tokens[1]) /\ PassesAt("more values", ")", tokens[1])
  BY PassingSteps
<1> QED
  BY <1>1, <1>2, MatchKeeps DEF PassesAt

LEMMA StarKeeps ==
    ASSUME IInv, Star
    PROVE  IInv'
<1>1. Match("star", "*", "all columns", "column")
  BY DEF Star
<1>2. PassesAt("star", "all columns", tokens[1]) /\ PassesAt("star", "column", tokens[1])
  BY PassingSteps
<1> QED
  BY <1>1, <1>2, MatchKeeps DEF PassesAt

LEMMA MoreColumnsKeeps ==
    ASSUME IInv, MoreColumns
    PROVE  IInv'
<1>1. Match("more columns", ",", "column", "from")
  BY DEF MoreColumns
<1>2. PassesAt("more columns", "column", tokens[1]) /\ PassesAt("more columns", "from", tokens[1])
  BY PassingSteps
<1> QED
  BY <1>1, <1>2, MatchKeeps DEF PassesAt

LEMMA DotKeeps ==
    ASSUME IInv, Dot
    PROVE  IInv'
<1>1. Match("dot", ".", "qualified", "schema")
  BY DEF Dot
<1>2. PassesAt("dot", "qualified", tokens[1]) /\ PassesAt("dot", "schema", tokens[1])
  BY PassingSteps
<1> QED
  BY <1>1, <1>2, MatchKeeps DEF PassesAt

LEMMA WhereKeeps ==
    ASSUME IInv, Where
    PROVE  IInv'
<1>1. Match("where", "WHERE", "where column", "semicolon")
  BY DEF Where
<1>2. PassesAt("where", "where column", tokens[1]) /\ PassesAt("where", "semicolon", tokens[1])
  BY PassingSteps
<1> QED
  BY <1>1, <1>2, MatchKeeps DEF PassesAt

LEMMA SemicolonKeeps ==
    ASSUME IInv, Semicolon
    PROVE  IInv'
<1>1. Match("semicolon", ";", "end", "end")
  BY DEF Semicolon
<1>2. PassesAt("semicolon", "end", tokens[1]) /\ PassesAt("semicolon", "end", tokens[1])
  BY PassingSteps
<1> QED
  BY <1>1, <1>2, MatchKeeps DEF PassesAt

LEMMA FreeColumnNameKeeps ==
    ASSUME IInv, FreeColumnName
    PROVE  IInv'
<1>1. FreeNames("column made", {"column_name"}, "column tried")
  BY DEF FreeColumnName
<1>2. FreesAt("column made", "column tried", tokens[1], {"column_name"})
  BY FreeingSteps
<1> QED
  BY <1>1, <1>2, FreeNamesKeeps DEF FreesAt

LEMMA FreeTableNamesKeeps ==
    ASSUME IInv, FreeTableNames
    PROVE  IInv'
<1>1. FreeNames("names copied", {"first_identifier", "table_text"}, "table tried")
  BY DEF FreeTableNames
<1>2. FreesAt("names copied", "table tried", tokens[1], {"first_identifier", "table_text"})
  BY FreeingSteps
<1> QED
  BY <1>1, <1>2, FreeNamesKeeps DEF FreesAt

LEMMA FreeWhereNameKeeps ==
    ASSUME IInv, FreeWhereName
    PROVE  IInv'
<1>1. FreeNames("where copied", {"column_name"}, "where tried")
  BY DEF FreeWhereName
<1>2. FreesAt("where copied", "where tried", tokens[1], {"column_name"})
  BY FreeingSteps
<1> QED
  BY <1>1, <1>2, FreeNamesKeeps DEF FreesAt

LEMMA LinkValueKeeps ==
    ASSUME IInv, LinkValue
    PROVE  IInv'
<1>1. AppendChild("value read", "list_node", "value_node", "more values")
  BY DEF LinkValue
<1>2. /\ LinksAt("value read", "more values", tokens[1], "list_node", "value_node")
      /\ "list_node" \in Has("value read") /\ Has("more values") \subseteq Has("value read") /\ Unseen("value read") = {}
  BY LinkingSteps
<1> QED
  BY <1>1, <1>2, LinkKeeps

LEMMA LinkAllKeeps ==
    ASSUME IInv, LinkAll
    PROVE  IInv'
<1>1. AppendChild("columns read", "list_node", "column_node", "from")
  BY DEF LinkAll
<1>2. /\ LinksAt("columns read", "from", tokens[1], "list_node", "column_node")
      /\ "list_node" \in Has("columns read") /\ Has("from") \subseteq Has("columns read") /\ Unseen("columns read") = {}
  BY LinkingSteps
<1> QED
  BY <1>1, <1>2, LinkKeeps

LEMMA LinkOperatorKeeps ==
    ASSUME IInv, LinkOperator
    PROVE  IInv'
<1>1. AppendChild("operator made", "where_node", "operator_node", "operator linked")
  BY DEF LinkOperator
<1>2. /\ LinksAt("operator made", "operator linked", tokens[1], "where_node", "operator_node")
      /\ "where_node" \in Has("operator made") /\ Has("operator linked") \subseteq Has("operator made") /\ Unseen("operator made") = {}
  BY LinkingSteps
<1> QED
  BY <1>1, <1>2, LinkKeeps

LEMMA LinkOperandKeeps ==
    ASSUME IInv, LinkOperand
    PROVE  IInv'
<1>1. AppendChild("operator linked", "where_node", "value_node", "semicolon")
  BY DEF LinkOperand
<1>2. /\ LinksAt("operator linked", "semicolon", tokens[1], "where_node", "value_node")
      /\ "where_node" \in Has("operator linked") /\ Has("semicolon") \subseteq Has("operator linked") /\ Unseen("operator linked") = {}
  BY LinkingSteps
<1> QED
  BY <1>1, <1>2, LinkKeeps

LEMMA LinkLowerKeeps ==
    ASSUME IInv, LinkLower
    PROVE  IInv'
<1>1. AppendChild("between made", "between_node", "lower_node", "lower linked")
  BY DEF LinkLower
<1>2. /\ LinksAt("between made", "lower linked", tokens[1], "between_node", "lower_node")
      /\ "between_node" \in Has("between made") /\ Has("lower linked") \subseteq Has("between made") /\ Unseen("between made") = {}
  BY LinkingSteps
<1> QED
  BY <1>1, <1>2, LinkKeeps

LEMMA LinkUpperKeeps ==
    ASSUME IInv, LinkUpper
    PROVE  IInv'
<1>1. AppendChild("lower linked", "between_node", "upper_node", "upper linked")
  BY DEF LinkUpper
<1>2. /\ LinksAt("lower linked", "upper linked", tokens[1], "between_node", "upper_node")
      /\ "between_node" \in Has("lower linked") /\ Has("upper linked") \subseteq Has("lower linked") /\ Unseen("lower linked") = {}
  BY LinkingSteps
<1> QED
  BY <1>1, <1>2, LinkKeeps

LEMMA LinkBetweenKeeps ==
    ASSUME IInv, LinkBetween
    PROVE  IInv'
<1>1. AppendChild("upper linked", "where_node", "between_node", "semicolon")
  BY DEF LinkBetween
<1>2. /\ LinksAt("upper linked", "semicolon", tokens[1], "where_node", "between_node")
      /\ "where_node" \in Has("upper linked") /\ Has("semicolon") \subseteq Has("upper linked") /\ Unseen("upper linked") = {}
  BY LinkingSteps
<1> QED
  BY <1>1, <1>2, LinkKeeps

LEMMA LinkWhereKeeps ==
    ASSUME IInv, LinkWhere
    PROVE  IInv'
<1>1. AppendChild("second linked", "root", "where_node", "returned")
  BY DEF LinkWhere
<1>2. /\ LinksAt("second linked", "returned", tokens[1], "root", "where_node")
      /\ "root" \in Has("second linked") /\ Has("returned") \subseteq Has("second linked") /\ Unseen("second linked") = {}
  BY LinkingSteps
<1> QED
  BY <1>1, <1>2, LinkKeeps

LEMMA LinkColumnKeeps ==
    ASSUME IInv, LinkColumn
    PROVE  IInv'
<1>1. own["column_node"] # NULL /\ AppendChild("column tried", "list_node", "column_node", "more columns")
  BY DEF LinkColumn
<1>2. pc = "column tried"
  BY <1>1 DEF AppendChild
<1>3. /\ LinksAt("column tried", "more columns", tokens[1], "list_node", "column_node")
      /\ Has("more columns") \subseteq Has("column tried") /\ "list_node" \in Has("column tried")
      /\ Unseen("column tried") = {"column_node"}
  BY LinkingChecked
<1>4. failures = 0
  BY <1>1, <1>2, <1>3, NothingLost
<1>5. own["list_node"] # NULL /\ \A v \in Has("more columns") : own[v] # NULL
  BY <1>2, <1>3 DEF IInv, Owned
<1> QED
  BY <1>1, <1>3, <1>4, <1>5, AppendKeeps DEF LinksAt

LEMMA LinkSchemaKeeps ==
    ASSUME IInv, LinkSchema
    PROVE  IInv'
<1>1. TableMade /\ AppendChild("table tried", "table_node", "schema_node", "schema linked")
  BY DEF LinkSchema
<1>2. pc = "table tried"
  BY <1>1 DEF AppendChild
<1>3. /\ LinksAt("table tried", "schema linked", tokens[1], "table_node", "schema_node")
      /\ Has("schema linked") \subseteq Has("table tried") /\ "table_node" \in Has("table tried")
      /\ Unseen("table tried") = {"schema_node", "table_name_node"}
  BY LinkingChecked
<1>4. failures = 0
  BY <1>1, <1>2, <1>3, NothingLost DEF TableMade
<1>5. own["table_node"] # NULL /\ \A v \in Has("schema linked") : own[v] # NULL
  BY <1>2, <1>3 DEF IInv, Owned
<1> QED
  BY <1>1, <1>3, <1>4, <1>5, AppendKeeps DEF LinksAt

LEMMA LinkWhereColumnKeeps ==
    ASSUME IInv, LinkWhereColumn
    PROVE  IInv'
<1>1. WhereMade /\ AppendChild("where tried", "where_node", "column_node", "between")
  BY DEF LinkWhereColumn
<1>2. pc = "where tried"
  BY <1>1 DEF AppendChild
<1>3. /\ LinksAt("where tried", "between", tokens[1], "where_node", "column_node")
      /\ Has("between") \subseteq {"where_node"}
      /\ Unseen("where tried") = {"where_node", "column_node"}
  BY LinkingChecked
<1>4. failures = 0
  BY <1>1, <1>2, <1>3, NothingLost DEF WhereMade
<1>5. own["where_node"] # NULL /\ \A v \in Has("between") : own[v] # NULL
  BY <1>1, <1>3 DEF WhereMade
<1> QED
  BY <1>1, <1>3, <1>4, <1>5, AppendKeeps DEF LinksAt

LEMMA LinkTableNameKeeps ==
    ASSUME IInv, LinkTableName
    PROVE  IInv'
<1>1. AppendChild("schema linked", "table_node", "table_name_node", IF Inserting THEN "values" ELSE "where")
  BY DEF LinkTableName
<1>2. /\ "table_node" \in Has("schema linked") /\ Unseen("schema linked") = {}
      /\ Has("values") \subseteq Has("schema linked") /\ Has("where") \subseteq Has("schema linked")
  BY LinkingByStatement
<1>3. CASE tokens[1] = "INSERT"
  <2>1. AppendChild("schema linked", "table_node", "table_name_node", "values")
    BY <1>1, <1>3 DEF Inserting
  <2>2. LinksAt("schema linked", "values", tokens[1], "table_node", "table_name_node")
    BY <1>3, LinkingByStatement
  <2> QED
    BY <1>2, <2>1, <2>2, LinkKeeps
<1>4. CASE tokens[1] # "INSERT"
  <2>1. AppendChild("schema linked", "table_node", "table_name_node", "where")
    BY <1>1, <1>4 DEF Inserting
  <2>2. LinksAt("schema linked", "where", tokens[1], "table_node", "table_name_node")
    BY <1>4, LinkingByStatement
  <2> QED
    BY <1>2, <2>1, <2>2, LinkKeeps
<1> QED
  BY <1>3, <1>4

LEMMA LinkFirstKeeps ==
    ASSUME IInv, LinkFirst
    PROVE  IInv'
<1>1. AppendChild("root made", "root", IF Inserting THEN "table_node" ELSE "list_node", "first linked")
  BY DEF LinkFirst
<1>2. /\ "root" \in Has("root made") /\ Has("first linked") \subseteq Has("root made")
      /\ Unseen("root made") = {}
  BY LinkingByStatement
<1>3. CASE tokens[1] = "INSERT"
  <2>1. AppendChild("root made", "root", "table_node", "first linked")
    BY <1>1, <1>3 DEF Inserting
  <2>2. LinksAt("root made", "first linked", tokens[1], "root", "table_node")
    BY <1>3, LinkingByStatement
  <2> QED
    BY <1>2, <2>1, <2>2, LinkKeeps
<1>4. CASE tokens[1] # "INSERT"
  <2>1. AppendChild("root made", "root", "list_node", "first linked")
    BY <1>1, <1>4 DEF Inserting
  <2>2. LinksAt("root made", "first linked", tokens[1], "root", "list_node")
    BY <1>4, LinkingByStatement
  <2> QED
    BY <1>2, <2>1, <2>2, LinkKeeps
<1> QED
  BY <1>3, <1>4

LEMMA LinkSecondKeeps ==
    ASSUME IInv, LinkSecond
    PROVE  IInv'
<1>1. AppendChild("first linked", "root", IF Inserting THEN "list_node" ELSE "table_node", "second linked")
  BY DEF LinkSecond
<1>2. /\ "root" \in Has("first linked") /\ Has("second linked") \subseteq Has("first linked")
      /\ Unseen("first linked") = {}
  BY LinkingByStatement
<1>3. CASE tokens[1] = "INSERT"
  <2>1. AppendChild("first linked", "root", "list_node", "second linked")
    BY <1>1, <1>3 DEF Inserting
  <2>2. LinksAt("first linked", "second linked", tokens[1], "root", "list_node")
    BY <1>3, LinkingByStatement
  <2> QED
    BY <1>2, <2>1, <2>2, LinkKeeps
<1>4. CASE tokens[1] # "INSERT"
  <2>1. AppendChild("first linked", "root", "table_node", "second linked")
    BY <1>1, <1>4 DEF Inserting
  <2>2. LinksAt("first linked", "second linked", tokens[1], "root", "table_node")
    BY <1>4, LinkingByStatement
  <2> QED
    BY <1>2, <2>1, <2>2, LinkKeeps
<1> QED
  BY <1>3, <1>4

LEMMA ColumnLostKeeps ==
    ASSUME IInv, ColumnLost
    PROVE  IInv'
<1>1. /\ pc = "column tried" /\ own["column_node"] = NULL
      /\ Fail({"list_node"}, "Execution error")
      /\ UNCHANGED <<tokens, index, own, made, failures>>
  BY DEF ColumnLost
<1>2. failures' \in 0..MaxFailures
  BY <1>1 DEF IInv, Losses
<1>3. \A v \in {"list_node"} : v \in Owns("column tried", tokens[1]) \/ own[v] = NULL
  BY FreeingSteps
<1>4. \A v \in Owns("column tried", tokens[1]) : v \in {"list_node"} \/ own[v] = NULL
  BY <1>1, FreeingSteps
<1> QED
  BY <1>1, <1>2, <1>3, <1>4, AllMessages, FailFreesOwned

LEMMA TableLostKeeps ==
    ASSUME IInv, TableLost
    PROVE  IInv'
<1>1. /\ pc = "table tried"
      /\ Fail({"schema_node", "table_name_node", "table_node", "list_node"}, "Execution error")
      /\ UNCHANGED <<tokens, index, own, made, failures>>
  BY DEF TableLost
<1>2. failures' \in 0..MaxFailures
  BY <1>1 DEF IInv, Losses
<1>3. Frees("table tried", tokens[1], {"schema_node", "table_name_node", "table_node", "list_node"})
  BY FreeingSteps
<1> QED
  BY <1>1, <1>2, <1>3, AllMessages, FailFreesAll

LEMMA WhereLostKeeps ==
    ASSUME IInv, WhereLost
    PROVE  IInv'
<1>1. /\ pc = "where tried"
      /\ Fail({"where_node", "column_node"} \cup Held, "Execution error")
      /\ UNCHANGED <<tokens, index, own, made, failures>>
  BY DEF WhereLost
<1>2. failures' \in 0..MaxFailures
  BY <1>1 DEF IInv, Losses
<1>3. Frees("where tried", tokens[1], {"where_node", "column_node"} \cup Held)
  BY FreeingSteps
<1> QED
  BY <1>1, <1>2, <1>3, AllMessages, FailFreesAll

(* The statement's first token.                                             *)
LEMMA StartKeeps ==
    ASSUME IInv, Start
    PROVE  IInv'
<1>a. pc = "start" /\ index < Len(tokens) /\ UNCHANGED <<tokens, own, made, failures>>
  BY DEF Start, Looking
<1>b. index = 0
  BY <1>a DEF IInv, Scanned
<1>c. Current = tokens[1]
  BY ONLY <1>b DEF Current
<1>1. /\ pc = "start" /\ index = 0 /\ index < Len(tokens) /\ Current = tokens[1]
      /\ UNCHANGED <<tokens, own, made, failures>>
  BY <1>a, <1>b, <1>c
<1>2. failures' \in 0..MaxFailures /\ failures = 0
  BY <1>1 DEF IInv, Losses, Unseen
<1>3. Scanned /\ Memory /\ Owned
  BY DEF IInv
<1>4. CASE /\ Current \in {"INSERT", "SELECT"} /\ index' = 1
           /\ pc' = IF Current = "INSERT" THEN "into" ELSE "column list"
           /\ UNCHANGED <<heap, message>>
  <2>1. tokens[1] \in {"INSERT", "SELECT"} /\ pc' \in {"into", "column list"}
        /\ (pc' = "column list" => tokens[1] # "INSERT")
    BY <1>1, <1>4
  <2>2. Scanned'
    <3>1. Len(tokens) \in Nat
      BY NextIndex
    <3>a. index' = 1 /\ index = 0 /\ index < Len(tokens)
      BY <1>1, <1>4
    <3>2. index' \in 0..Len(tokens)
      BY ONLY <3>a, <3>1
    <3>3. pc' \in Steps \ {"broken", "start", "failed"} /\ (pc' \in ColumnSteps \cup {"column list"} => tokens[1] # "INSERT")
      BY <2>1 DEF Steps, Reading, ColumnSteps
    <3>4. tokens[index'] # "EOF" /\ index' > 0
      <4>1. tokens[1] # "EOF"
        BY <2>1
      <4>2. index' > 0
        BY ONLY <3>a
      <4> QED
        BY ONLY <3>a, <4>1, <4>2
    <3> QED
      BY <1>1, <1>3, <1>4, <2>1, <3>2, <3>3, <3>4 DEF Scanned
  <2>3. Memory'
    BY <1>1, <1>3, <1>4 DEF Memory
  <2>4. Owned'
    <3>1. PICK to \in {"into", "column list"} : pc' = to
      BY <2>1
    <3>2. Leads("start", to, tokens[1], {}, {}) /\ Owns("start", tokens[1]) = {} /\ Has(to) = {}
      BY DEF Leads, Owns, Unset, Has, ColumnSteps, TableSteps, ValueSteps,
             ConditionSteps, WhereSteps, LastSteps
    <3>3. Forest(heap', own', {})
      BY <1>1, <1>3, <1>4, <3>2 DEF Owned
    <3>4. \A w \in Locals : w \notin {} => own'[w] = own[w]
      BY <1>1
    <3>5. \A v \in Has(to) : v \in Has("start") \ {} \/ own'[v] # NULL
      BY <3>2
    <3> QED
      BY <1>1, <1>3, <3>1, <3>2, <3>3, <3>4, <3>5, OwnedAfter
  <2>5. Losses'
    BY <1>1, <1>2, NoLossAfter
  <2> QED
    BY <2>2, <2>3, <2>4, <2>5 DEF IInv
<1>5. CASE Fail({}, "Parse error") /\ UNCHANGED index
  <2>1. Frees("start", tokens[1], {})
    BY DEF Frees, Owns, ColumnSteps, TableSteps, ValueSteps, ConditionSteps, WhereSteps, LastSteps
  <2> QED
    BY <1>1, <1>2, <1>5, <2>1, AllMessages, FailFreesAll
<1> QED
  BY <1>4, <1>5 DEF Start

(* The operator of a condition, or BETWEEN.                                 *)
LEMMA ComparisonKeeps ==
    ASSUME IInv, Comparison
    PROVE  IInv'
<1>1. /\ pc = "between" /\ index < Len(tokens)
      /\ UNCHANGED <<tokens, own, made, failures>>
  BY DEF Comparison, Looking
<1>2. /\ PassesAt("between", "lower", tokens[1]) /\ PassesAt("between", "operand", tokens[1])
      /\ Frees("between", tokens[1], {"where_node"} \cup Held)
  BY PassingSteps
<1>3. failures = 0
  BY <1>1, <1>2, NothingLost DEF PassesAt
<1>4. failures' \in 0..MaxFailures
  BY <1>1, <1>3, FailureCounted
<1>5. CASE /\ Current = "BETWEEN" \/ Current \in Operators
           /\ index' = index + 1
           /\ pc' = IF Current = "BETWEEN" THEN "lower" ELSE "operand"
           /\ UNCHANGED <<heap, message>>
  <2>1. tokens[index + 1] # "EOF"
    BY <1>5 DEF Current, Operators
  <2>2. PICK to \in {"lower", "operand"} : pc' = to
    BY <1>5
  <2>3. PassesAt("between", to, tokens[1])
    BY <1>2, <2>2
  <2>4. Scanned' /\ Memory' /\ Owned'
    BY <1>1, <1>5, <2>1, <2>2, <2>3, PassKeeps DEF PassesAt
  <2>5. Losses'
    BY <1>1, <1>3, NoLossAfter
  <2> QED
    BY <2>4, <2>5 DEF IInv
<1>6. CASE Fail({"where_node"} \cup Held, "Parse error") /\ UNCHANGED index
  BY <1>1, <1>2, <1>4, <1>6, AllMessages, FailFreesAll
<1> QED
  BY <1>5, <1>6 DEF Comparison

(* The next token of the array.                                             *)
LEMMA NextTokenKeeps ==
    ASSUME IInv, NextToken
    PROVE  IInv'
<1>1. /\ pc \in Reading /\ index = Len(tokens)
      /\ UNCHANGED <<index, heap, own, made, message, failures>>
  BY DEF NextToken
<1>2. Scanned /\ Memory /\ Owned /\ Losses
  BY DEF IInv
<1>3. tokens \in Seq(TokenTypes) /\ Len(tokens) <= MaxTokens
      /\ (Len(tokens) = MaxTokens => tokens[MaxTokens] = "EOF")
  BY <1>2 DEF Scanned
<1>4. Len(tokens) \in Nat
  BY NextIndex
<1>5. pc \notin Ended /\ pc # "failed"
  BY <1>1 DEF Reading, Ended
<1>6. index > 0 => tokens[index] # "EOF"
  BY <1>2, <1>5 DEF Scanned
<1>7. ~(tokens # <<>> /\ tokens[Len(tokens)] = "EOF")
  <2>1. tokens # <<>> => Len(tokens) > 0
    BY ONLY <1>3, <1>4
  <2> QED
    BY <1>1, <1>6, <2>1
<1>8. PICK t \in TokenTypes : /\ Len(tokens) + 1 = MaxTokens => t = "EOF"
                              /\ tokens' = Append(tokens, t)
  BY <1>7 DEF NextToken
<1>9. pc' = pc
  BY <1>7 DEF NextToken
<1>10. /\ tokens' \in Seq(TokenTypes) /\ Len(tokens') = Len(tokens) + 1
       /\ tokens'[Len(tokens) + 1] = t
       /\ \A i \in 1..Len(tokens) : tokens'[i] = tokens[i]
  BY ONLY <1>3, <1>4, <1>8
<1>11. Len(tokens) # MaxTokens
  BY <1>1, <1>3, <1>4, <1>6, ParserBounds
<1>12. Scanned'
  <2>1. Len(tokens') <= MaxTokens /\ index' \in 0..Len(tokens')
    BY <1>1, <1>3, <1>4, <1>10, <1>11, ParserBounds
  <2>2. Len(tokens') = MaxTokens => tokens'[MaxTokens] = "EOF"
    BY <1>4, <1>8, <1>10
  <2>3. index' > 0 => tokens'[index'] # "EOF" /\ tokens'[1] = tokens[1]
    <3>1. index > 0 => index \in 1..Len(tokens) /\ 1 \in 1..Len(tokens)
      BY <1>1, <1>4
    <3> QED
      BY <1>1, <1>6, <1>10, <3>1
  <2>4. pc # "start" => index > 0 /\ tokens[1] \in {"INSERT", "SELECT"} /\ tokens'[1] = tokens[1]
    BY <1>1, <1>2, <1>5, <2>3 DEF Scanned
  <2>5. pc \in ColumnSteps \cup {"column list"} => pc # "start" /\ tokens[1] # "INSERT"
    BY <1>2 DEF Scanned, ColumnSteps
  <2>6. pc' \in Steps \ {"broken"} /\ message' \in Messages /\ (pc' = "start" => index' = 0)
    BY <1>1, <1>2, <1>9 DEF Scanned
  <2>7. pc' \notin {"start", "failed"} => index' > 0 /\ tokens'[1] \in {"INSERT", "SELECT"}
    BY <1>1, <1>9, <2>4
  <2>8. pc' \in ColumnSteps \cup {"column list"} => tokens'[1] # "INSERT"
    BY <1>9, <2>4, <2>5
  <2> QED
    BY <1>10, <2>1, <2>2, <2>3, <2>6, <2>7, <2>8 DEF Scanned
<1>13. Memory'
  <2>1. Block(Len(tokens), made) \subseteq Block(Len(tokens'), made)
    BY <1>4, <1>10 DEF Block
  <2>2. heap \in [DOMAIN heap -> Block(Len(tokens'), made)]
    BY <1>2, <2>1 DEF Memory
  <2> QED
    BY <1>1, <1>2, <2>2 DEF Memory
<1>14. Owned'
  <2>1. CASE pc = "start"
    <3>1. \A f : Owns("start", f) = {} /\ Has("start") = {}
                 /\ Unset("start", f) = {"list_node", "where_node", "table_text"}
      BY DEF Owns, Unset, Has, ColumnSteps, TableSteps, ValueSteps,
             ConditionSteps, WhereSteps, LastSteps
    <3> QED
      BY <1>1, <1>2, <1>9, <2>1, <3>1 DEF Owned
  <2>2. CASE pc # "start"
    <3>1. tokens'[1] = tokens[1]
      <4>1. index > 0
        BY <1>2, <1>5, <2>2 DEF Scanned
      <4>2. 1 \in 1..Len(tokens)
        BY <1>1, <1>4, <4>1
      <4> QED
        BY <1>10, <4>2
    <3> QED
      BY <1>1, <1>2, <1>9, <3>1 DEF Owned
  <2> QED
    BY <2>1, <2>2
<1>15. Losses'
  BY <1>1, <1>2, <1>9 DEF Losses
<1> QED
  BY <1>12, <1>13, <1>14, <1>15 DEF IInv

(* A parse that failed leaves no block, and one that returns leaves the     *)
(* blocks of the tree.                                                      *)
LEMMA TreeIsAll ==
    ASSUME IInv
    PROVE  /\ pc \in {"start", "failed"} => DOMAIN heap = {}
           /\ pc = "returned" => DOMAIN heap = Freed(own["root"])
           /\ LinkedOnce(heap)
<1>1. /\ \A f : Owns("start", f) = {} /\ Owns("failed", f) = {}
      /\ \A f : Owns("returned", f) = {"root"}
      /\ "root" \in Has("returned")
  BY DEF Owns, Has, ColumnSteps, TableSteps, ValueSteps,
         ConditionSteps, WhereSteps, LastSteps
<1>2. ASSUME pc \in {"start", "failed"} PROVE DOMAIN heap = {}
  <2>1. Forest(heap, own, {})
    BY <1>1, <1>2 DEF IInv, Owned
  <2> QED
    BY <2>1, NoOwnerNoBlock
<1>3. ASSUME pc = "returned" PROVE DOMAIN heap = Freed(own["root"])
  <2>1. Forest(heap, own, {"root"}) /\ own["root"] # NULL
    BY <1>1, <1>3 DEF IInv, Owned
  <2>2. PICK root, rank, top : ForestBy(heap, own, {"root"}, root, rank, top)
    BY <2>1 DEF Forest
  <2>3. Freed(own["root"]) = {b \in DOMAIN heap : root[b] = "root"}
    BY <2>1, <2>2, MemoryIsAddresses, FreedTree DEF IInv
  <2>4. \A b \in DOMAIN heap : root[b] = "root"
    BY <2>2 DEF ForestBy
  <2> QED
    BY <2>3, <2>4
<1>4. LinkedOnce(heap)
  BY DEF IInv, Owned, Forest, ForestBy
<1> QED
  BY <1>2, <1>3, <1>4

LEMMA EmptyForest ==
    ASSUME NEW h, NEW o, DOMAIN h = {}
    PROVE  Forest(h, o, {})
<1> DEFINE e == [b \in {} |-> 0]
<1>1. ForestBy(h, o, {}, e, e, 0)
  BY DEF ForestBy, LinkedOnce, Unlinked
<1> QED
  BY <1>1 DEF Forest

Fresh ==
    /\ tokens = <<>> /\ index = 0 /\ pc = "start" /\ made = 0 /\ failures = 0
    /\ message \in Messages
    /\ heap = [b \in {} |-> heap[b]]
    /\ own = [v \in Locals |-> NULL]

LEMMA FreshStart == Fresh => IInv
<1> SUFFICES ASSUME Fresh PROVE IInv
  OBVIOUS
<1> USE DEF Fresh
<1>1. Scanned
  <2>1. tokens \in Seq(TokenTypes) /\ Len(tokens) = 0
    OBVIOUS
  <2>2. "start" \in Steps \ {"broken"} /\ "start" \notin ColumnSteps \cup {"column list"}
    BY DEF Steps, Reading, ColumnSteps
  <2> QED
    BY <2>1, <2>2, ParserBounds DEF Scanned
<1>2. Memory
  BY DEF Memory, NULL
<1>3. Owned
  <2>1. \A f : Owns("start", f) = {} /\ Has("start") = {}
    BY DEF Owns, Has, ColumnSteps, TableSteps, ValueSteps,
           ConditionSteps, WhereSteps, LastSteps
  <2>3. \A f : Unset("start", f) \subseteq Locals
    BY OwnersAreLocals
  <2>2. Forest(heap, own, {})
    BY EmptyForest
  <2>4. \A v \in Unset("start", tokens[1]) : own[v] = NULL
    BY <2>3
  <2> QED
    BY <2>1, <2>2, <2>4 DEF Owned
<1>4. Losses
  BY ParserBounds DEF Losses
<1> QED
  BY <1>1, <1>2, <1>3, <1>4 DEF IInv

LEMMA FreshStartAgain == Fresh' => IInv'
BY FreshStart, PTL

(* run_sql frees the tree of a statement that returned 1.                   *)
LEMMA NextStatementFresh ==
    ASSUME IInv, NextStatement
    PROVE  Fresh'
<1>1. DOMAIN heap' = {} /\ heap' = [b \in {} |-> heap'[b]]
  <2>1. CASE pc = "returned"
    <3>1. heap' = Restrict(heap, {})
      BY <2>1, TreeIsAll DEF NextStatement
    <3> QED
      BY <3>1 DEF Restrict
  <2>2. CASE pc = "failed"
    <3>1. heap' = heap
      BY <2>2 DEF NextStatement
    <3>2. DOMAIN heap = {} /\ heap \in [DOMAIN heap -> Block(Len(tokens), made)]
      BY <2>2, TreeIsAll DEF IInv, Memory
    <3> QED
      BY <3>1, <3>2
  <2> QED
    BY <2>1, <2>2 DEF NextStatement
<1>2. /\ tokens' = <<>> /\ index' = 0 /\ pc' = "start" /\ made' = 0 /\ failures' = 0
      /\ own' = [v \in Locals |-> NULL]
  BY DEF NextStatement
<1>3. message' \in Messages
  BY Zenon, AllMessages DEF NextStatement
<1>4. heap' = [b \in {} |-> heap'[b]]
  BY <1>1
<1> QED
  BY <1>2, <1>3, <1>4 DEF Fresh

LEMMA NextStatementKeeps ==
    ASSUME IInv, NextStatement
    PROVE  IInv'
BY NextStatementFresh, FreshStartAgain

LEMMA InitFresh == Init => Fresh
<1> SUFFICES ASSUME Init PROVE Fresh
  OBVIOUS
<1>1. message \in Messages
  BY Zenon, AllMessages DEF Init
<1>2. /\ tokens = <<>> /\ index = 0 /\ pc = "start" /\ made = 0 /\ failures = 0
      /\ own = [v \in Locals |-> NULL]
  BY DEF Init
<1>3. heap = [b \in {} |-> heap[b]]
  BY DEF Init
<1> QED
  BY <1>1, <1>2, <1>3 DEF Fresh

LEMMA InitHolds ==
    ASSUME Init
    PROVE  IInv
BY InitFresh, FreshStart

LEMMA NextKeeps ==
    ASSUME IInv, Next
    PROVE  IInv'
BY Zenon, NextTokenKeeps, StartKeeps, IntoKeeps, ValuesKeeps,
   LeftParenKeeps, ValueListKeeps, ValueKeeps, LinkValueKeeps,
   MoreValuesKeeps, RightParenKeeps, ColumnListKeeps, StarKeeps,
   AllColumnsKeeps, LinkAllKeeps, ColumnNameKeeps, ColumnKeeps,
   FreeColumnNameKeeps, ColumnLostKeeps, LinkColumnKeeps, MoreColumnsKeeps,
   FromKeeps, TableNameKeeps, TableKeeps, DotKeeps,
   QualifiedNameKeeps, SchemaKeeps, TableNameNodeKeeps, FreeTableNamesKeeps,
   TableLostKeeps, LinkSchemaKeeps, LinkTableNameKeeps, WhereKeeps,
   WhereColumnKeeps, WhereNodeKeeps, WhereColumnNodeKeeps, FreeWhereNameKeeps,
   WhereLostKeeps, LinkWhereColumnKeeps, ComparisonKeeps, OperandKeeps,
   OperatorKeeps, LinkOperatorKeeps, LinkOperandKeeps, LowerKeeps,
   AndKeeps, UpperKeeps, BetweenKeeps, LinkLowerKeeps,
   LinkUpperKeeps, LinkBetweenKeeps, SemicolonKeeps, EndOfInputKeeps,
   RootKeeps, LinkFirstKeeps, LinkSecondKeeps, LinkWhereKeeps,
   NextStatementKeeps
   DEF Next

LEMMA StutterKeeps ==
    ASSUME IInv, UNCHANGED vars
    PROVE  IInv'
BY DEF IInv, Scanned, Memory, Owned, Losses, vars

-----------------------------------------------------------------------------
(* The theorems.                                                            *)

(* Whatever the tokens and whichever allocations fail, at each step of      *)
(* parse_statement the live blocks form trees, each under exactly one of    *)
(* the locals that the step may still free or hand over.                    *)
THEOREM ParserInvariant == Spec => []IInv
<1>1. Init => IInv
  BY InitHolds
<1>2. IInv /\ [Next]_vars => IInv'
  BY NextKeeps, StutterKeeps
<1> QED
  BY <1>1, <1>2, PTL DEF Spec

(* The variables of the parser stay in their ranges: the index never passes *)
(* the tokens, and no link or local points beyond the addresses given out.  *)
THEOREM ParserTypes == Spec => []TypeOK
<1>1. IInv => TypeOK
  <2> SUFFICES ASSUME IInv PROVE TypeOK
    OBVIOUS
  <2>1. \A b \in DOMAIN heap :
          heap[b] \in [type : NodeTypes, text : 0..Len(tokens), child : 0..made, next : 0..made]
    BY DEF IInv, Memory, Block
  <2>2. message \in {"", "Parse error", "Execution error"}
    BY Zenon DEF IInv, Scanned, Messages
  <2>3. /\ tokens \in Seq(TokenTypes) /\ Len(tokens) <= MaxTokens
        /\ index \in 0..Len(tokens) /\ pc \in Steps
    BY DEF IInv, Scanned
  <2>4. made \in Nat /\ DOMAIN heap \subseteq 1..made /\ own \in [Locals -> 0..made]
    BY DEF IInv, Memory
  <2>5. failures \in 0..MaxFailures
    BY DEF IInv, Losses
  <2> QED
    BY Zenon, <2>1, <2>2, <2>3, <2>4, <2>5 DEF TypeOK
<1> QED
  BY <1>1, ParserInvariant, PTL

(* Every return of parse_statement after an error has freed all blocks, each *)
(* once, and what is live after a success is the tree it hands over.         *)
THEOREM ParserFreesOnce == Spec => []BlocksFreedOnce
<1>1. IInv => BlocksFreedOnce
  BY TreeIsAll DEF IInv, Scanned, BlocksFreedOnce
<1> QED
  BY <1>1, ParserInvariant, PTL

(* parse_statement returns 1 only when no allocation failed on the way.     *)
THEOREM ParserHidesNoFailure == Spec => []NoSilentFailure
<1>1. IInv => NoSilentFailure
  <2>1. Unseen("returned") = {}
    BY DEF Unseen
  <2> SUFFICES ASSUME IInv, pc = "returned" PROVE failures = 0
    BY DEF NoSilentFailure
  <2> QED
    BY <2>1, NothingLost
<1> QED
  BY <1>1, ParserInvariant, PTL

-----------------------------------------------------------------------------
(* The grammar as the parser goes through it: for each place the token      *)
(* arrays that may follow.  What may follow after a token more is computed  *)
(* from that.                                                               *)

Arrays == Seq(TokenTypes)

\* One of the types of S, and then an array of L.
Put(t, r) == <<t>> \o r
One(S, L) == {Put(t, r) : t \in S, r \in L}
Joined(a, b) == a \o b

\* A list of types of S with a comma between any two, of any length, and what
\* may follow its first.
Lists(S) ==
    {l \in Arrays : /\ Len(l) % 2 = 1
                    /\ \A i \in 1..Len(l) : IF i % 2 = 1 THEN l[i] \in S ELSE l[i] = ","}
More(S) ==
    {m \in Arrays : /\ Len(m) % 2 = 0
                    /\ \A i \in 1..Len(m) : IF i % 2 = 0 THEN m[i] \in S ELSE m[i] = ","}

LEMMA InOne ==
    ASSUME NEW S, NEW L, NEW x
    PROVE  x \in One(S, L) <=> \E t \in S, r \in L : x = Put(t, r)
BY DEF One

LEMMA InThen ==
    ASSUME NEW A, NEW B, NEW x
    PROVE  x \in Then(A, B) <=> \E a \in A, b \in B : x = Joined(a, b)
BY DEF Then, Joined

LEMMA InList ==
    ASSUME NEW S, NEW x
    PROVE  /\ x \in Lists(S) <=>
                /\ x \in Arrays /\ Len(x) % 2 = 1
                /\ \A i \in 1..Len(x) : IF i % 2 = 1 THEN x[i] \in S ELSE x[i] = ","
           /\ x \in More(S) <=>
                /\ x \in Arrays /\ Len(x) % 2 = 0
                /\ \A i \in 1..Len(x) : IF i % 2 = 0 THEN x[i] \in S ELSE x[i] = ","
BY DEF Lists, More

LEMMA FirstAdded ==
    ASSUME NEW t \in TokenTypes, NEW r \in Arrays
    PROVE  /\ Put(t, r) \in Arrays /\ Put(t, r) # << >>
           /\ Len(r) \in Nat /\ Len(Put(t, r)) = Len(r) + 1
           /\ Put(t, r)[1] = t
           /\ \A i \in 1..Len(r) : Put(t, r)[i + 1] = r[i]
<1>1. <<t>> \in Seq(TokenTypes) /\ r \in Seq(TokenTypes) /\ Len(<<t>>) = 1 /\ <<t>>[1] = t
  BY DEF Arrays
<1>2. Len(r) \in Nat
  BY <1>1, LenProperties
<1>3. /\ <<t>> \o r \in Seq(TokenTypes)
      /\ Len(<<t>> \o r) = 1 + Len(r)
      /\ \A i \in 1 .. 1 + Len(r) : (<<t>> \o r)[i] = IF i <= 1 THEN <<t>>[i] ELSE r[i - 1]
  BY <1>1, ConcatProperties
<1>4. (<<t>> \o r)[1] = t
  BY <1>1, <1>2, <1>3
<1>5. \A i \in 1..Len(r) : (<<t>> \o r)[i + 1] = r[i]
  BY <1>2, <1>3
<1>6. <<t>> \o r # << >>
  BY <1>2, <1>3, EmptySeq
<1> QED
  BY <1>2, <1>3, <1>4, <1>5, <1>6 DEF Arrays, Put

LEMMA FirstApart ==
    ASSUME NEW t \in TokenTypes, NEW u \in TokenTypes, NEW r \in Arrays, NEW q \in Arrays,
           Put(t, r) = Put(u, q)
    PROVE  t = u /\ r = q
<1>1. t = u /\ Len(r) = Len(q) /\ \A i \in 1..Len(r) : r[i] = q[i]
  <2>1. /\ Len(r) \in Nat /\ Len(Put(t, r)) = Len(r) + 1 /\ Put(t, r)[1] = t
        /\ \A i \in 1..Len(r) : Put(t, r)[i + 1] = r[i]
    BY FirstAdded
  <2>2. /\ Len(q) \in Nat /\ Len(Put(t, r)) = Len(q) + 1 /\ Put(t, r)[1] = u
        /\ \A i \in 1..Len(q) : Put(t, r)[i + 1] = q[i]
    BY FirstAdded
  <2> QED
    BY ONLY <2>1, <2>2
<1>2. r \in Seq(TokenTypes) /\ q \in Seq(TokenTypes)
  BY DEF Arrays
<1>3. r = q
  BY ONLY <1>1, <1>2, SeqEqual
<1> QED
  BY <1>1, <1>3

LEMMA FirstSplit ==
    ASSUME NEW s \in Arrays, s # << >>
    PROVE  \E t \in TokenTypes, r \in Arrays : s = Put(t, r)
<1>1. Len(s) \in Nat \ {0} /\ s \in Seq(TokenTypes)
  BY EmptySeq DEF Arrays
<1>2. SubSeq(s, 1, Len(s)) = <<s[1]>> \o SubSeq(s, 2, Len(s))
  BY <1>1, SubSeqRecursiveFirst
<1>3. s[1] \in TokenTypes
  BY <1>1, ElementOfSeq
<1>4. \A i \in 2..Len(s) : s[i] \in TokenTypes
  BY <1>1, ElementOfSeq
<1>5. SubSeq(s, 2, Len(s)) \in Arrays
  BY <1>1, <1>4, SubSeqProperties DEF Arrays
<1> QED
  BY <1>1, <1>2, <1>3, <1>5, SubSeqFull DEF Put

LEMMA JoinedTwo ==
    /\ \A a, b \in Arrays : Joined(a, b) \in Arrays
    /\ \A b \in Arrays : Joined(<< >>, b) = b /\ Joined(b, << >>) = b
    /\ \A a, b, c \in Arrays : Joined(Joined(a, b), c) = Joined(a, Joined(b, c))
    /\ \A t \in TokenTypes, a, b \in Arrays : Joined(Put(t, a), b) = Put(t, Joined(a, b))
<1>1. ASSUME NEW a \in Arrays, NEW b \in Arrays PROVE Joined(a, b) \in Arrays
  BY ConcatProperties DEF Arrays, Joined
<1>2. ASSUME NEW b \in Arrays PROVE Joined(<< >>, b) = b /\ Joined(b, << >>) = b
  BY ConcatEmptySeq DEF Arrays, Joined
<1>3. ASSUME NEW a \in Arrays, NEW b \in Arrays, NEW c \in Arrays
      PROVE  Joined(Joined(a, b), c) = Joined(a, Joined(b, c))
  <2>1. a \in Seq(TokenTypes) /\ b \in Seq(TokenTypes) /\ c \in Seq(TokenTypes)
    BY DEF Arrays
  <2> QED
    BY <2>1, ConcatAssociative DEF Joined
<1>4. ASSUME NEW t \in TokenTypes, NEW a \in Arrays, NEW b \in Arrays
      PROVE  Joined(Put(t, a), b) = Put(t, Joined(a, b))
  <2>1. <<t>> \in Seq(TokenTypes) /\ a \in Seq(TokenTypes) /\ b \in Seq(TokenTypes)
    BY DEF Arrays
  <2> QED
    BY <2>1, ConcatAssociative DEF Joined, Put
<1> QED
  BY Zenon, <1>1, <1>2, <1>3, <1>4

LEMMA ReadOne ==
    ASSUME NEW S \in SUBSET TokenTypes, NEW L \in SUBSET Arrays
    PROVE  /\ One(S, L) \in SUBSET Arrays
           /\ << >> \notin One(S, L)
           /\ \A t \in TokenTypes, r \in Arrays : Put(t, r) \in One(S, L) <=> t \in S /\ r \in L
<1>1. \A t \in S, r \in L : Put(t, r) \in Arrays /\ Put(t, r) # << >>
  BY FirstAdded
<1>2. ASSUME NEW t \in TokenTypes, NEW r \in Arrays, Put(t, r) \in One(S, L)
      PROVE  t \in S /\ r \in L
  <2>1. PICK u \in S, q \in L : Put(t, r) = Put(u, q)
    BY <1>2, InOne
  <2> QED
    BY <2>1, FirstApart
<1>3. \A x : x \in One(S, L) <=> \E t \in S, r \in L : x = Put(t, r)
  BY InOne
<1>4. One(S, L) \in SUBSET Arrays /\ << >> \notin One(S, L)
  BY <1>1, <1>3
<1> QED
  BY Zenon, <1>2, <1>3, <1>4

LEMMA Parity ==
    ASSUME NEW n \in Nat
    PROVE  /\ n % 2 = 0 \/ n % 2 = 1
           /\ (n + 1) % 2 = 1 <=> n % 2 = 0
           /\ (n + 1) % 2 = 0 <=> n % 2 = 1
OBVIOUS

LEMMA ReadList ==
    ASSUME NEW S \in SUBSET TokenTypes, NEW t \in TokenTypes, NEW r \in Arrays
    PROVE  /\ Put(t, r) \in Lists(S) <=> t \in S /\ r \in More(S)
           /\ Put(t, r) \in More(S) <=> t = "," /\ r \in Lists(S)
<1> DEFINE s == Put(t, r)
<1>1. /\ s \in Arrays /\ Len(r) \in Nat /\ Len(s) = Len(r) + 1 /\ s[1] = t
      /\ \A i \in 1..Len(r) : s[i + 1] = r[i]
  BY FirstAdded
<1>0. r \in Arrays
  OBVIOUS
<1>2. /\ Len(s) % 2 = 1 <=> Len(r) % 2 = 0
      /\ Len(s) % 2 = 0 <=> Len(r) % 2 = 1
  BY <1>1, Parity
<1>3. ASSUME NEW i \in 1..Len(s), i # 1
      PROVE  /\ i - 1 \in 1..Len(r) /\ s[i] = r[i - 1]
             /\ i % 2 = 1 <=> (i - 1) % 2 = 0
             /\ i % 2 = 0 <=> (i - 1) % 2 = 1
  <2>1. i - 1 \in 1..Len(r)
    BY <1>1, <1>3
  <2>2. s[(i - 1) + 1] = r[i - 1]
    BY <1>1, <2>1
  <2> QED
    BY <2>1, <2>2
<1>4. ASSUME NEW i \in 1..Len(r)
      PROVE  /\ i + 1 \in 1..Len(s) /\ s[i + 1] = r[i] /\ i + 1 # 1
             /\ (i + 1) % 2 = 1 <=> i % 2 = 0
             /\ (i + 1) % 2 = 0 <=> i % 2 = 1
  BY <1>1, <1>4, Parity
<1>5. 1 \in 1..Len(s) /\ 1 % 2 = 1 /\ 1 % 2 # 0
  BY <1>1
<1>6. \A i \in 1..Len(s) : i % 2 = 0 \/ i % 2 = 1
  BY <1>1
<1>7. \A i \in 1..Len(r) : i % 2 = 0 \/ i % 2 = 1
  BY <1>1
<1> HIDE DEF s
<1>8. s \in Lists(S) <=> Len(s) % 2 = 1 /\ \A i \in 1..Len(s) : IF i % 2 = 1 THEN s[i] \in S ELSE s[i] = ","
  BY Zenon, <1>1, InList
<1>11. s \in More(S) <=> Len(s) % 2 = 0 /\ \A i \in 1..Len(s) : IF i % 2 = 0 THEN s[i] \in S ELSE s[i] = ","
  BY Zenon, <1>1, InList
<1>12. r \in Lists(S) <=> Len(r) % 2 = 1 /\ \A i \in 1..Len(r) : IF i % 2 = 1 THEN r[i] \in S ELSE r[i] = ","
  BY Zenon, <1>0, InList
<1>13. r \in More(S) <=> Len(r) % 2 = 0 /\ \A i \in 1..Len(r) : IF i % 2 = 0 THEN r[i] \in S ELSE r[i] = ","
  BY Zenon, <1>0, InList
<1>9. (\A i \in 1..Len(s) : IF i % 2 = 1 THEN s[i] \in S ELSE s[i] = ",")
        <=> t \in S /\ \A i \in 1..Len(r) : IF i % 2 = 0 THEN r[i] \in S ELSE r[i] = ","
  BY <1>1, <1>3, <1>4, <1>5, <1>6, <1>7
<1>10. (\A i \in 1..Len(s) : IF i % 2 = 0 THEN s[i] \in S ELSE s[i] = ",")
        <=> t = "," /\ \A i \in 1..Len(r) : IF i % 2 = 1 THEN r[i] \in S ELSE r[i] = ","
  BY <1>1, <1>3, <1>4, <1>5, <1>6, <1>7
<1> QED
  BY <1>2, <1>8, <1>9, <1>10, <1>11, <1>12, <1>13 DEF s

LEMMA EmptyLists ==
    ASSUME NEW S
    PROVE  /\ << >> \notin Lists(S) /\ << >> \in More(S)
           /\ Lists(S) \in SUBSET Arrays /\ More(S) \in SUBSET Arrays
<1>1. << >> \in Arrays /\ Len(<< >>) = 0
  BY EmptySeq DEF Arrays
<1>2. Len(<< >>) % 2 = 0 /\ Len(<< >>) % 2 # 1 /\ \A i \in 1..Len(<< >>) : FALSE
  BY <1>1
<1> QED
  BY Zenon, <1>1, <1>2, InList

LEMMA ThenIsLanguage ==
    ASSUME NEW A \in SUBSET Arrays, NEW B \in SUBSET Arrays
    PROVE  Then(A, B) \in SUBSET Arrays
BY JoinedTwo, InThen

(* The first token of an array of A and one of B is that of A's, if it has  *)
(* one.                                                                     *)
LEMMA ReadThen ==
    ASSUME NEW A \in SUBSET Arrays, NEW B \in SUBSET Arrays,
           NEW t \in TokenTypes, NEW r \in Arrays
    PROVE  Put(t, r) \in Then(A, B) <=>
             \/ \E a \in Arrays, b \in B : Put(t, a) \in A /\ r = Joined(a, b)
             \/ << >> \in A /\ Put(t, r) \in B
<1>1. ASSUME NEW a \in Arrays, NEW b \in B, Put(t, a) \in A, r = Joined(a, b)
      PROVE  Put(t, r) \in Then(A, B)
  <2>1. Put(t, r) = Joined(Put(t, a), b)
    BY <1>1, JoinedTwo
  <2> QED
    BY <1>1, <2>1, InThen
<1>2. ASSUME << >> \in A, Put(t, r) \in B
      PROVE  Put(t, r) \in Then(A, B)
  <2>1. Put(t, r) = Joined(<< >>, Put(t, r))
    BY <1>2, JoinedTwo
  <2> QED
    BY <1>2, <2>1, InThen
<1>3. ASSUME Put(t, r) \in Then(A, B)
      PROVE  \/ \E a \in Arrays, b \in B : Put(t, a) \in A /\ r = Joined(a, b)
             \/ << >> \in A /\ Put(t, r) \in B
  <2>1. PICK x \in A, b \in B : Put(t, r) = Joined(x, b)
    BY <1>3, InThen
  <2>2. CASE x = << >>
    <3>1. Joined(<< >>, b) = b
      BY JoinedTwo
    <3> QED
      BY <2>1, <2>2, <3>1
  <2>3. CASE x # << >>
    <3>1. PICK u \in TokenTypes, a \in Arrays : x = Put(u, a)
      BY <2>3, FirstSplit
    <3>2. Put(t, r) = Put(u, Joined(a, b)) /\ Joined(a, b) \in Arrays
      BY <2>1, <3>1, JoinedTwo
    <3>3. t = u /\ r = Joined(a, b)
      BY <3>1, <3>2, FirstApart
    <3> QED
      BY Zenon, <2>1, <3>1, <3>3
  <2> QED
    BY <2>2, <2>3
<1> QED
  BY Zenon, <1>1, <1>2, <1>3

LEMMA ReadLists ==
    ASSUME NEW S \in SUBSET TokenTypes, NEW K \in SUBSET Arrays,
           NEW t \in TokenTypes, NEW r \in Arrays
    PROVE  /\ Put(t, r) \in Then(Lists(S), K) <=> t \in S /\ r \in Then(More(S), K)
           /\ Put(t, r) \in Then(More(S), K) <=>
                (t = "," /\ r \in Then(Lists(S), K)) \/ Put(t, r) \in K
<1>1. << >> \notin Lists(S) /\ << >> \in More(S)
      /\ Lists(S) \in SUBSET Arrays /\ More(S) \in SUBSET Arrays
  BY EmptyLists
<1>2. \A a \in Arrays : /\ Put(t, a) \in Lists(S) <=> t \in S /\ a \in More(S)
                        /\ Put(t, a) \in More(S) <=> t = "," /\ a \in Lists(S)
  BY ReadList
<1>3. \A L : r \in Then(L, K) <=> \E a \in L, b \in K : r = Joined(a, b)
  BY InThen
<1>4. Put(t, r) \in Then(Lists(S), K) <=>
        \E a \in Arrays, b \in K : Put(t, a) \in Lists(S) /\ r = Joined(a, b)
  BY Zenon, <1>1, ReadThen
<1>5. Put(t, r) \in Then(More(S), K) <=>
        \/ \E a \in Arrays, b \in K : Put(t, a) \in More(S) /\ r = Joined(a, b)
        \/ Put(t, r) \in K
  BY Zenon, <1>1, ReadThen
<1>6. Put(t, r) \in Then(Lists(S), K) <=> t \in S /\ r \in Then(More(S), K)
  BY Zenon, <1>1, <1>2, <1>3, <1>4
<1>7. Put(t, r) \in Then(More(S), K) <=>
        (t = "," /\ r \in Then(Lists(S), K)) \/ Put(t, r) \in K
  BY Zenon, <1>1, <1>2, <1>3, <1>5
<1> QED
  BY <1>6, <1>7

(* What may follow in each place, read from the end.                        *)
Final == {<< >>}
AtEnd == One({"EOF"}, Final)
AtSemicolon == AtEnd \cup One({";"}, AtEnd)
AtRightParen == One({")"}, AtSemicolon)
AtMoreValues == Then(More(Literals), AtRightParen)
AtValue == Then(Lists(Literals), AtRightParen)
AtLeftParen == One({"("}, AtValue)
AtValues == One({"VALUES"}, AtLeftParen)
AtOperand == One(Literals, AtSemicolon)
AtAnd == One({"AND"}, AtOperand)
AtLower == One(Literals, AtAnd)
AtComparison == One(Operators, AtOperand) \cup One({"BETWEEN"}, AtLower)
AtWhereColumn == One({"IDENTIFIER"}, AtComparison)
AtWhere == AtSemicolon \cup One({"WHERE"}, AtWhereColumn)
AfterTable(first) == IF first = "INSERT" THEN AtValues ELSE AtWhere
AtQualified(first) == One({"IDENTIFIER"}, AfterTable(first))
AtDot(first) == AfterTable(first) \cup One({"."}, AtQualified(first))
AtTable(first) == One({"IDENTIFIER"}, AtDot(first))
AtInto == One({"INTO"}, AtTable("INSERT"))
AtFrom == One({"FROM"}, AtTable("SELECT"))
AtMoreColumns == Then(More({"IDENTIFIER"}), AtFrom)
AtColumn == Then(Lists({"IDENTIFIER"}), AtFrom)
AtStar == AtColumn \cup One({"*"}, AtFrom)
AtStart == One({"INSERT"}, AtInto) \cup One({"SELECT"}, AtStar)

(* The same by the parser's steps, in a statement that begins with the      *)
(* token first: nothing may follow a statement that is refused.             *)
Rest(p, first) ==
    CASE p = "start" -> AtStart
      [] p = "into" -> AtInto
      [] p = "table" -> AtTable(first)
      [] p \in {"table named", "dot"} -> AtDot(first)
      [] p = "qualified" -> AtQualified(first)
      [] p \in {"schema", "table name", "names copied", "table tried", "schema linked"} -> AfterTable(first)
      [] p = "values" -> AtValues
      [] p = "(" -> AtLeftParen
      [] p \in {"value list", "value"} -> AtValue
      [] p \in {"value read", "more values"} -> AtMoreValues
      [] p = ")" -> AtRightParen
      [] p \in {"column list", "star"} -> AtStar
      [] p = "column" -> AtColumn
      [] p \in {"column named", "column made", "column tried", "more columns"} -> AtMoreColumns
      [] p \in {"all columns", "columns read", "from"} -> AtFrom
      [] p = "where" -> AtWhere
      [] p = "where column" -> AtWhereColumn
      [] p \in {"where named", "where made", "where copied", "where tried", "between"} -> AtComparison
      [] p = "lower" -> AtLower
      [] p = "and" -> AtAnd
      [] p \in {"upper", "operand"} -> AtOperand
      [] p \in {"operator", "operator made", "operator linked", "bounds read", "between made",
                "lower linked", "upper linked", "semicolon"} -> AtSemicolon
      [] p = "end" -> AtEnd
      [] p \in {"statement", "root made", "first linked", "second linked", "returned"} -> Final
      [] OTHER -> {}

LEMMA SomeTokens ==
    /\ Literals \in SUBSET TokenTypes /\ Operators \in SUBSET TokenTypes
    /\ {"IDENTIFIER"} \in SUBSET TokenTypes
    /\ "EOF" \in TokenTypes /\ ";" \in TokenTypes /\ ")" \in TokenTypes /\ "(" \in TokenTypes
    /\ "VALUES" \in TokenTypes /\ "AND" \in TokenTypes /\ "BETWEEN" \in TokenTypes
    /\ "IDENTIFIER" \in TokenTypes /\ "WHERE" \in TokenTypes /\ "." \in TokenTypes
    /\ "INTO" \in TokenTypes /\ "FROM" \in TokenTypes /\ "*" \in TokenTypes
    /\ "INSERT" \in TokenTypes /\ "SELECT" \in TokenTypes
BY DEF TokenTypes, Keywords

LEMMA ReadType ==
    ASSUME NEW u \in TokenTypes, NEW L \in SUBSET Arrays
    PROVE  /\ One({u}, L) \in SUBSET Arrays
           /\ \A t \in TokenTypes, r \in Arrays : Put(t, r) \in One({u}, L) <=> t = u /\ r \in L
<1>1. {u} \in SUBSET TokenTypes /\ \A t : t \in {u} <=> t = u
  OBVIOUS
<1>2. /\ One({u}, L) \in SUBSET Arrays
      /\ \A t \in TokenTypes, r \in Arrays : Put(t, r) \in One({u}, L) <=> t \in {u} /\ r \in L
  BY Zenon, <1>1, ReadOne
<1> QED
  BY Zenon, <1>1, <1>2

(* Which token may come next in each place, and what may follow it.         *)
LEMMA ReadsEnd ==
    /\ Final \in SUBSET Arrays /\ AtEnd \in SUBSET Arrays
    /\ \A t \in TokenTypes, r \in Arrays :
         Put(t, r) \notin Final /\ (Put(t, r) \in AtEnd <=> t = "EOF" /\ r \in Final)
<1>1. Final \in SUBSET Arrays /\ \A t \in TokenTypes, r \in Arrays : Put(t, r) \notin Final
  BY FirstAdded, EmptySeq DEF Final, Arrays
<1>2. /\ AtEnd \in SUBSET Arrays
      /\ \A t \in TokenTypes, r \in Arrays : Put(t, r) \in AtEnd <=> t = "EOF" /\ r \in Final
  BY Zenon, <1>1, SomeTokens, ReadType DEF AtEnd
<1> QED
  BY Zenon, <1>1, <1>2

LEMMA ReadsSemicolon ==
    /\ AtSemicolon \in SUBSET Arrays
    /\ \A t \in TokenTypes, r \in Arrays :
         Put(t, r) \in AtSemicolon <=> (t = ";" /\ r \in AtEnd) \/ (t # ";" /\ Put(t, r) \in AtEnd)
    /\ \A t \in TokenTypes, r \in Arrays : Put(t, r) \in AtSemicolon => t \in {";", "EOF"}
<1>1. /\ One({";"}, AtEnd) \in SUBSET Arrays
      /\ \A t \in TokenTypes, r \in Arrays : Put(t, r) \in One({";"}, AtEnd) <=> t = ";" /\ r \in AtEnd
  BY Zenon, ReadsEnd, SomeTokens, ReadType
<1>2. AtSemicolon \in SUBSET Arrays
  BY <1>1, ReadsEnd DEF AtSemicolon
<1>3. ASSUME NEW t \in TokenTypes, NEW r \in Arrays
      PROVE  /\ Put(t, r) \in AtSemicolon <=> (t = ";" /\ r \in AtEnd) \/ (t # ";" /\ Put(t, r) \in AtEnd)
             /\ Put(t, r) \in AtSemicolon => t \in {";", "EOF"}
  BY <1>1, ReadsEnd DEF AtSemicolon
<1> QED
  BY Zenon, <1>2, <1>3

LEMMA ReadsValues ==
    /\ AtRightParen \in SUBSET Arrays /\ AtMoreValues \in SUBSET Arrays /\ AtValue \in SUBSET Arrays
    /\ AtLeftParen \in SUBSET Arrays /\ AtValues \in SUBSET Arrays
    /\ \A t \in TokenTypes, r \in Arrays :
         /\ Put(t, r) \in AtRightParen <=> t = ")" /\ r \in AtSemicolon
         /\ Put(t, r) \in AtMoreValues <=> (t = "," /\ r \in AtValue) \/ (t # "," /\ Put(t, r) \in AtRightParen)
         /\ Put(t, r) \in AtValue <=> t \in Literals /\ r \in AtMoreValues
         /\ Put(t, r) \in AtLeftParen <=> t = "(" /\ r \in AtValue
         /\ Put(t, r) \in AtValues <=> t = "VALUES" /\ r \in AtLeftParen
<1>1. /\ AtRightParen \in SUBSET Arrays
      /\ \A t \in TokenTypes, r \in Arrays : Put(t, r) \in AtRightParen <=> t = ")" /\ r \in AtSemicolon
  BY Zenon, ReadsSemicolon, SomeTokens, ReadType DEF AtRightParen
<1>2. AtMoreValues \in SUBSET Arrays /\ AtValue \in SUBSET Arrays
  BY Zenon, <1>1, EmptyLists, ThenIsLanguage DEF AtMoreValues, AtValue
<1>3. \A t \in TokenTypes, r \in Arrays :
         /\ Put(t, r) \in AtValue <=> t \in Literals /\ r \in AtMoreValues
         /\ Put(t, r) \in AtMoreValues <=> (t = "," /\ r \in AtValue) \/ Put(t, r) \in AtRightParen
  BY Zenon, <1>1, SomeTokens, ReadLists DEF AtMoreValues, AtValue
<1>4. /\ AtLeftParen \in SUBSET Arrays
      /\ \A t \in TokenTypes, r \in Arrays : Put(t, r) \in AtLeftParen <=> t = "(" /\ r \in AtValue
  BY Zenon, <1>2, SomeTokens, ReadType DEF AtLeftParen
<1>5. /\ AtValues \in SUBSET Arrays
      /\ \A t \in TokenTypes, r \in Arrays : Put(t, r) \in AtValues <=> t = "VALUES" /\ r \in AtLeftParen
  BY Zenon, <1>4, SomeTokens, ReadType DEF AtValues
<1>6. ASSUME NEW t \in TokenTypes, NEW r \in Arrays
      PROVE  Put(t, r) \in AtMoreValues <=> (t = "," /\ r \in AtValue) \/ (t # "," /\ Put(t, r) \in AtRightParen)
  BY <1>1, <1>3
<1> QED
  BY Zenon, <1>1, <1>2, <1>3, <1>4, <1>5, <1>6

LEMMA ReadsWhere ==
    /\ AtOperand \in SUBSET Arrays /\ AtAnd \in SUBSET Arrays /\ AtLower \in SUBSET Arrays
    /\ AtComparison \in SUBSET Arrays /\ AtWhereColumn \in SUBSET Arrays /\ AtWhere \in SUBSET Arrays
    /\ \A t \in TokenTypes, r \in Arrays :
         /\ Put(t, r) \in AtOperand <=> t \in Literals /\ r \in AtSemicolon
         /\ Put(t, r) \in AtAnd <=> t = "AND" /\ r \in AtOperand
         /\ Put(t, r) \in AtLower <=> t \in Literals /\ r \in AtAnd
         /\ Put(t, r) \in AtComparison <=> (t \in Operators /\ r \in AtOperand) \/ (t = "BETWEEN" /\ r \in AtLower)
         /\ Put(t, r) \in AtWhereColumn <=> t = "IDENTIFIER" /\ r \in AtComparison
         /\ Put(t, r) \in AtWhere <=> (t = "WHERE" /\ r \in AtWhereColumn) \/ (t # "WHERE" /\ Put(t, r) \in AtSemicolon)
         /\ Put(t, r) \in AtWhere => t \in {"WHERE", ";", "EOF"}
<1>1. /\ AtOperand \in SUBSET Arrays
      /\ \A t \in TokenTypes, r \in Arrays : Put(t, r) \in AtOperand <=> t \in Literals /\ r \in AtSemicolon
  BY Zenon, ReadsSemicolon, SomeTokens, ReadOne DEF AtOperand
<1>2. /\ AtAnd \in SUBSET Arrays
      /\ \A t \in TokenTypes, r \in Arrays : Put(t, r) \in AtAnd <=> t = "AND" /\ r \in AtOperand
  BY Zenon, <1>1, SomeTokens, ReadType DEF AtAnd
<1>3. /\ AtLower \in SUBSET Arrays
      /\ \A t \in TokenTypes, r \in Arrays : Put(t, r) \in AtLower <=> t \in Literals /\ r \in AtAnd
  BY Zenon, <1>2, SomeTokens, ReadOne DEF AtLower
<1>4. /\ One(Operators, AtOperand) \in SUBSET Arrays
      /\ \A t \in TokenTypes, r \in Arrays :
           Put(t, r) \in One(Operators, AtOperand) <=> t \in Operators /\ r \in AtOperand
  BY Zenon, <1>1, SomeTokens, ReadOne
<1>5. /\ One({"BETWEEN"}, AtLower) \in SUBSET Arrays
      /\ \A t \in TokenTypes, r \in Arrays :
           Put(t, r) \in One({"BETWEEN"}, AtLower) <=> t = "BETWEEN" /\ r \in AtLower
  BY Zenon, <1>3, SomeTokens, ReadType
<1>6. /\ AtComparison \in SUBSET Arrays
      /\ \A t \in TokenTypes, r \in Arrays :
           Put(t, r) \in AtComparison <=> (t \in Operators /\ r \in AtOperand) \/ (t = "BETWEEN" /\ r \in AtLower)
  BY <1>4, <1>5 DEF AtComparison
<1>7. /\ AtWhereColumn \in SUBSET Arrays
      /\ \A t \in TokenTypes, r \in Arrays : Put(t, r) \in AtWhereColumn <=> t = "IDENTIFIER" /\ r \in AtComparison
  BY Zenon, <1>6, SomeTokens, ReadType DEF AtWhereColumn
<1>8. /\ One({"WHERE"}, AtWhereColumn) \in SUBSET Arrays
      /\ \A t \in TokenTypes, r \in Arrays :
           Put(t, r) \in One({"WHERE"}, AtWhereColumn) <=> t = "WHERE" /\ r \in AtWhereColumn
  BY Zenon, <1>7, SomeTokens, ReadType
<1>9. AtWhere \in SUBSET Arrays
  BY <1>8, ReadsSemicolon DEF AtWhere
<1>10. ASSUME NEW t \in TokenTypes, NEW r \in Arrays
       PROVE  /\ Put(t, r) \in AtWhere <=> (t = "WHERE" /\ r \in AtWhereColumn) \/ (t # "WHERE" /\ Put(t, r) \in AtSemicolon)
              /\ Put(t, r) \in AtWhere => t \in {"WHERE", ";", "EOF"}
  BY <1>8, ReadsSemicolon DEF AtWhere
<1> QED
  BY Zenon, <1>1, <1>2, <1>3, <1>6, <1>7, <1>9, <1>10

LEMMA ReadsTable ==
    ASSUME NEW first
    PROVE  /\ AfterTable(first) \in SUBSET Arrays /\ AtQualified(first) \in SUBSET Arrays
           /\ AtDot(first) \in SUBSET Arrays /\ AtTable(first) \in SUBSET Arrays
           /\ \A t \in TokenTypes, r \in Arrays :
                /\ Put(t, r) \in AtQualified(first) <=> t = "IDENTIFIER" /\ r \in AfterTable(first)
                /\ Put(t, r) \in AtDot(first) <=>
                     (t = "." /\ r \in AtQualified(first)) \/ (t # "." /\ Put(t, r) \in AfterTable(first))
                /\ Put(t, r) \in AtTable(first) <=> t = "IDENTIFIER" /\ r \in AtDot(first)
<1>1. /\ AfterTable(first) \in SUBSET Arrays
      /\ \A t \in TokenTypes, r \in Arrays : Put(t, r) \in AfterTable(first) => t # "."
  BY ReadsValues, ReadsWhere DEF AfterTable
<1>2. /\ AtQualified(first) \in SUBSET Arrays
      /\ \A t \in TokenTypes, r \in Arrays :
           Put(t, r) \in AtQualified(first) <=> t = "IDENTIFIER" /\ r \in AfterTable(first)
  BY Zenon, <1>1, SomeTokens, ReadType DEF AtQualified
<1>3. /\ One({"."}, AtQualified(first)) \in SUBSET Arrays
      /\ \A t \in TokenTypes, r \in Arrays :
           Put(t, r) \in One({"."}, AtQualified(first)) <=> t = "." /\ r \in AtQualified(first)
  BY Zenon, <1>2, SomeTokens, ReadType
<1>4. /\ AtDot(first) \in SUBSET Arrays
      /\ \A t \in TokenTypes, r \in Arrays :
           Put(t, r) \in AtDot(first) <=>
             (t = "." /\ r \in AtQualified(first)) \/ (t # "." /\ Put(t, r) \in AfterTable(first))
  BY <1>1, <1>3 DEF AtDot
<1>5. /\ AtTable(first) \in SUBSET Arrays
      /\ \A t \in TokenTypes, r \in Arrays : Put(t, r) \in AtTable(first) <=> t = "IDENTIFIER" /\ r \in AtDot(first)
  BY Zenon, <1>4, SomeTokens, ReadType DEF AtTable
<1> QED
  BY Zenon, <1>1, <1>2, <1>4, <1>5

LEMMA ReadsColumns ==
    /\ AtFrom \in SUBSET Arrays /\ AtMoreColumns \in SUBSET Arrays
    /\ AtColumn \in SUBSET Arrays /\ AtStar \in SUBSET Arrays
    /\ \A t \in TokenTypes, r \in Arrays :
         /\ Put(t, r) \in AtFrom <=> t = "FROM" /\ r \in AtTable("SELECT")
         /\ Put(t, r) \in AtMoreColumns <=> (t = "," /\ r \in AtColumn) \/ (t # "," /\ Put(t, r) \in AtFrom)
         /\ Put(t, r) \in AtColumn <=> t = "IDENTIFIER" /\ r \in AtMoreColumns
         /\ Put(t, r) \in AtStar <=> (t = "*" /\ r \in AtFrom) \/ (t # "*" /\ Put(t, r) \in AtColumn)
<1>1. /\ AtFrom \in SUBSET Arrays
      /\ \A t \in TokenTypes, r \in Arrays : Put(t, r) \in AtFrom <=> t = "FROM" /\ r \in AtTable("SELECT")
  BY Zenon, ReadsTable, SomeTokens, ReadType DEF AtFrom
<1>2. AtMoreColumns \in SUBSET Arrays /\ AtColumn \in SUBSET Arrays
  BY Zenon, <1>1, EmptyLists, ThenIsLanguage DEF AtMoreColumns, AtColumn
<1>3. \A t \in TokenTypes, r \in Arrays :
         /\ Put(t, r) \in AtColumn <=> t \in {"IDENTIFIER"} /\ r \in AtMoreColumns
         /\ Put(t, r) \in AtMoreColumns <=> (t = "," /\ r \in AtColumn) \/ Put(t, r) \in AtFrom
  BY Zenon, <1>1, SomeTokens, ReadLists DEF AtMoreColumns, AtColumn
<1>4. /\ One({"*"}, AtFrom) \in SUBSET Arrays
      /\ \A t \in TokenTypes, r \in Arrays : Put(t, r) \in One({"*"}, AtFrom) <=> t = "*" /\ r \in AtFrom
  BY Zenon, <1>1, SomeTokens, ReadType
<1>5. AtStar \in SUBSET Arrays
  BY <1>2, <1>4 DEF AtStar
<1>6. ASSUME NEW t \in TokenTypes, NEW r \in Arrays
      PROVE  /\ Put(t, r) \in AtMoreColumns <=> (t = "," /\ r \in AtColumn) \/ (t # "," /\ Put(t, r) \in AtFrom)
             /\ Put(t, r) \in AtColumn <=> t = "IDENTIFIER" /\ r \in AtMoreColumns
             /\ Put(t, r) \in AtStar <=> (t = "*" /\ r \in AtFrom) \/ (t # "*" /\ Put(t, r) \in AtColumn)
  BY <1>1, <1>3, <1>4 DEF AtStar
<1> QED
  BY Zenon, <1>1, <1>2, <1>5, <1>6

LEMMA ReadsStart ==
    /\ AtInto \in SUBSET Arrays /\ AtStart \in SUBSET Arrays
    /\ \A t \in TokenTypes, r \in Arrays :
         /\ Put(t, r) \in AtInto <=> t = "INTO" /\ r \in AtTable("INSERT")
         /\ Put(t, r) \in AtStart <=> (t = "INSERT" /\ r \in AtInto) \/ (t = "SELECT" /\ r \in AtStar)
<1>1. /\ AtInto \in SUBSET Arrays
      /\ \A t \in TokenTypes, r \in Arrays : Put(t, r) \in AtInto <=> t = "INTO" /\ r \in AtTable("INSERT")
  BY Zenon, ReadsTable, SomeTokens, ReadType DEF AtInto
<1>2. /\ One({"INSERT"}, AtInto) \in SUBSET Arrays
      /\ \A t \in TokenTypes, r \in Arrays : Put(t, r) \in One({"INSERT"}, AtInto) <=> t = "INSERT" /\ r \in AtInto
  BY Zenon, <1>1, SomeTokens, ReadType
<1>3. /\ One({"SELECT"}, AtStar) \in SUBSET Arrays
      /\ \A t \in TokenTypes, r \in Arrays : Put(t, r) \in One({"SELECT"}, AtStar) <=> t = "SELECT" /\ r \in AtStar
  BY Zenon, ReadsColumns, SomeTokens, ReadType
<1>4. /\ AtStart \in SUBSET Arrays
      /\ \A t \in TokenTypes, r \in Arrays :
           Put(t, r) \in AtStart <=> (t = "INSERT" /\ r \in AtInto) \/ (t = "SELECT" /\ r \in AtStar)
  BY <1>2, <1>3 DEF AtStart
<1> QED
  BY Zenon, <1>1, <1>4

-----------------------------------------------------------------------------
(* What the tokens seen so far and the place in the parser say of the       *)
(* grammar: an array that begins with them is a sentence if its remainder,  *)
(* from the token that is looked at, may follow in that place.  That is so  *)
(* as long as no allocation fails.                                          *)

Coming(r) == IF index < Len(tokens) THEN Put(tokens[index + 1], r) ELSE r

Agreed ==
    failures = 0 =>
      \A r \in Arrays : Joined(tokens, r) \in AtStart <=> Coming(r) \in Rest(pc, tokens[1])

\* At most one token is looked at, and none once EOF was.
LookAhead ==
    /\ Len(tokens) <= index + 1
    /\ pc \in Ended \ {"failed"} => Len(tokens) = index
    /\ pc = "into" => tokens[1] = "INSERT"

Parsed == LookAhead /\ Agreed

LEMMA RestIs ==
    ASSUME NEW first
    PROVE  /\ Rest("start", first) = AtStart
           /\ Rest("into", first) = AtInto
           /\ Rest("table", first) = AtTable(first)
           /\ \A p \in {"table named", "dot"} : Rest(p, first) = AtDot(first)
           /\ Rest("qualified", first) = AtQualified(first)
           /\ \A p \in {"schema", "table name", "names copied", "table tried", "schema linked"} :
                Rest(p, first) = AfterTable(first)
           /\ Rest("values", first) = AtValues
           /\ Rest("(", first) = AtLeftParen
           /\ \A p \in {"value list", "value"} : Rest(p, first) = AtValue
           /\ \A p \in {"value read", "more values"} : Rest(p, first) = AtMoreValues
           /\ Rest(")", first) = AtRightParen
           /\ \A p \in {"column list", "star"} : Rest(p, first) = AtStar
           /\ Rest("column", first) = AtColumn
           /\ \A p \in {"column named", "column made", "column tried", "more columns"} :
                Rest(p, first) = AtMoreColumns
           /\ \A p \in {"all columns", "columns read", "from"} : Rest(p, first) = AtFrom
           /\ Rest("where", first) = AtWhere
           /\ Rest("where column", first) = AtWhereColumn
           /\ \A p \in {"where named", "where made", "where copied", "where tried", "between"} :
                Rest(p, first) = AtComparison
           /\ Rest("lower", first) = AtLower
           /\ Rest("and", first) = AtAnd
           /\ \A p \in {"upper", "operand"} : Rest(p, first) = AtOperand
           /\ \A p \in {"operator", "operator made", "operator linked", "bounds read", "between made",
                        "lower linked", "upper linked", "semicolon"} : Rest(p, first) = AtSemicolon
           /\ Rest("end", first) = AtEnd
           /\ \A p \in {"statement", "root made", "first linked", "second linked", "returned"} :
                Rest(p, first) = Final
           /\ Rest("failed", first) = {}
BY DEF Rest

(* Steps that read nothing.                                                 *)
Quiet(from, to, first) ==
    /\ Rest(to, first) = Rest(from, first)
    /\ to \in Ended \ {"failed"} => from \in Ended \ {"failed"}
    /\ to # "into" /\ to # "broken"

LEMMA QuietSteps ==
    ASSUME NEW first
    PROVE  /\ Quiet("value list", "value", first)
           /\ Quiet("value read", "more values", first)
           /\ Quiet("column list", "star", first)
           /\ Quiet("all columns", "columns read", first)
           /\ Quiet("columns read", "from", first)
           /\ Quiet("column named", "column made", first)
           /\ Quiet("column made", "column tried", first)
           /\ Quiet("column tried", "more columns", first)
           /\ Quiet("table named", "dot", first)
           /\ Quiet("schema", "table name", first)
           /\ Quiet("table name", "names copied", first)
           /\ Quiet("names copied", "table tried", first)
           /\ Quiet("table tried", "schema linked", first)
           /\ first = "INSERT" => Quiet("schema linked", "values", first)
           /\ first # "INSERT" => Quiet("schema linked", "where", first)
           /\ Quiet("where named", "where made", first)
           /\ Quiet("where made", "where copied", first)
           /\ Quiet("where copied", "where tried", first)
           /\ Quiet("where tried", "between", first)
           /\ Quiet("operator", "operator made", first)
           /\ Quiet("operator made", "operator linked", first)
           /\ Quiet("operator linked", "semicolon", first)
           /\ Quiet("bounds read", "between made", first)
           /\ Quiet("between made", "lower linked", first)
           /\ Quiet("lower linked", "upper linked", first)
           /\ Quiet("upper linked", "semicolon", first)
           /\ Quiet("statement", "root made", first)
           /\ Quiet("root made", "first linked", first)
           /\ Quiet("first linked", "second linked", first)
           /\ Quiet("second linked", "returned", first)
<1>1. /\ Quiet("value list", "value", first)
      /\ Quiet("value read", "more values", first)
      /\ Quiet("column list", "star", first)
      /\ Quiet("all columns", "columns read", first)
      /\ Quiet("columns read", "from", first)
      /\ Quiet("column named", "column made", first)
      /\ Quiet("column made", "column tried", first)
      /\ Quiet("column tried", "more columns", first)
  BY RestIs DEF Quiet, Ended
<1>2. /\ Quiet("table named", "dot", first)
      /\ Quiet("schema", "table name", first)
      /\ Quiet("table name", "names copied", first)
      /\ Quiet("names copied", "table tried", first)
      /\ Quiet("table tried", "schema linked", first)
  BY RestIs DEF Quiet, Ended
<1>5. /\ first = "INSERT" => Quiet("schema linked", "values", first)
      /\ first # "INSERT" => Quiet("schema linked", "where", first)
  <2>1. /\ Rest("schema linked", first) = AfterTable(first)
        /\ Rest("values", first) = AtValues /\ Rest("where", first) = AtWhere
    BY RestIs
  <2>2. /\ first = "INSERT" => AfterTable(first) = AtValues
        /\ first # "INSERT" => AfterTable(first) = AtWhere
    BY DEF AfterTable
  <2>3. "values" \notin Ended /\ "where" \notin Ended
    BY DEF Ended
  <2> QED
    BY <2>1, <2>2, <2>3 DEF Quiet
<1>3. /\ Quiet("where named", "where made", first)
      /\ Quiet("where made", "where copied", first)
      /\ Quiet("where copied", "where tried", first)
      /\ Quiet("where tried", "between", first)
      /\ Quiet("operator", "operator made", first)
      /\ Quiet("operator made", "operator linked", first)
      /\ Quiet("operator linked", "semicolon", first)
  BY RestIs DEF Quiet, Ended
<1>4. /\ Quiet("bounds read", "between made", first)
      /\ Quiet("between made", "lower linked", first)
      /\ Quiet("lower linked", "upper linked", first)
      /\ Quiet("upper linked", "semicolon", first)
      /\ Quiet("statement", "root made", first)
      /\ Quiet("root made", "first linked", first)
      /\ Quiet("first linked", "second linked", first)
      /\ Quiet("second linked", "returned", first)
  BY RestIs DEF Quiet, Ended
<1> QED
  BY Zenon, <1>1, <1>2, <1>3, <1>4, <1>5

(* Which token a place expects, and where it leads.                         *)
Expects(from, T, to, first) ==
    /\ \A t \in TokenTypes, r \in Arrays : Put(t, r) \in Rest(from, first) <=> t \in T /\ r \in Rest(to, first)
    /\ to # "into" /\ to # "failed"

LEMMA ExpectedTokens ==
    ASSUME NEW first
    PROVE  /\ first = "INSERT" => Expects("into", {"INTO"}, "table", first)
           /\ Expects("values", {"VALUES"}, "(", first)
           /\ Expects("(", {"("}, "value list", first)
           /\ Expects(")", {")"}, "semicolon", first)
           /\ Expects("value", Literals, "value read", first)
           /\ Expects("column", {"IDENTIFIER"}, "column named", first)
           /\ first = "SELECT" => Expects("from", {"FROM"}, "table", first)
           /\ Expects("table", {"IDENTIFIER"}, "table named", first)
           /\ Expects("qualified", {"IDENTIFIER"}, "schema", first)
           /\ Expects("where column", {"IDENTIFIER"}, "where named", first)
           /\ Expects("operand", Literals, "operator", first)
           /\ Expects("lower", Literals, "and", first)
           /\ Expects("and", {"AND"}, "upper", first)
           /\ Expects("upper", Literals, "bounds read", first)
           /\ Expects("end", {"EOF"}, "statement", first)
<1>1. /\ first = "INSERT" => Expects("into", {"INTO"}, "table", first)
      /\ first = "SELECT" => Expects("from", {"FROM"}, "table", first)
  <2>1. /\ Rest("into", first) = AtInto /\ Rest("from", first) = AtFrom
        /\ Rest("table", first) = AtTable(first)
    BY RestIs
  <2>5. ASSUME first = "INSERT" PROVE Expects("into", {"INTO"}, "table", first)
    <3>1. \A t \in TokenTypes, r \in Arrays : Put(t, r) \in AtInto <=> t = "INTO" /\ r \in AtTable(first)
      BY Zenon, <2>5, ReadsStart
    <3> QED
      BY <2>1, <3>1 DEF Expects
  <2>6. ASSUME first = "SELECT" PROVE Expects("from", {"FROM"}, "table", first)
    <3>1. \A t \in TokenTypes, r \in Arrays : Put(t, r) \in AtFrom <=> t = "FROM" /\ r \in AtTable(first)
      BY Zenon, <2>6, ReadsColumns
    <3> QED
      BY <2>1, <3>1 DEF Expects
  <2> QED
    BY <2>5, <2>6
<1>2. /\ Expects("values", {"VALUES"}, "(", first)
      /\ Expects("(", {"("}, "value list", first)
      /\ Expects(")", {")"}, "semicolon", first)
      /\ Expects("value", Literals, "value read", first)
  <2>1. \A t \in TokenTypes, r \in Arrays :
           /\ Put(t, r) \in AtValues <=> t = "VALUES" /\ r \in AtLeftParen
           /\ Put(t, r) \in AtLeftParen <=> t = "(" /\ r \in AtValue
           /\ Put(t, r) \in AtRightParen <=> t = ")" /\ r \in AtSemicolon
           /\ Put(t, r) \in AtValue <=> t \in Literals /\ r \in AtMoreValues
    BY Zenon, ReadsValues
  <2>2. Expects("values", {"VALUES"}, "(", first)
    <3>1. Rest("values", first) = AtValues /\ Rest("(", first) = AtLeftParen
      BY RestIs
    <3> QED
      BY <2>1, <3>1 DEF Expects
  <2>3. Expects("(", {"("}, "value list", first)
    <3>1. Rest("(", first) = AtLeftParen /\ Rest("value list", first) = AtValue
      BY RestIs
    <3> QED
      BY <2>1, <3>1 DEF Expects
  <2>4. Expects(")", {")"}, "semicolon", first)
    <3>1. Rest(")", first) = AtRightParen /\ Rest("semicolon", first) = AtSemicolon
      BY RestIs
    <3> QED
      BY <2>1, <3>1 DEF Expects
  <2>5. Expects("value", Literals, "value read", first)
    <3>1. Rest("value", first) = AtValue /\ Rest("value read", first) = AtMoreValues
      BY RestIs
    <3> QED
      BY <2>1, <3>1 DEF Expects
  <2> QED
    BY Zenon, <2>2, <2>3, <2>4, <2>5
<1>3. Expects("column", {"IDENTIFIER"}, "column named", first)
  BY RestIs, ReadsColumns DEF Expects
<1>4. /\ Expects("table", {"IDENTIFIER"}, "table named", first)
      /\ Expects("qualified", {"IDENTIFIER"}, "schema", first)
  <2>1. /\ Rest("table", first) = AtTable(first) /\ Rest("table named", first) = AtDot(first)
        /\ Rest("qualified", first) = AtQualified(first) /\ Rest("schema", first) = AfterTable(first)
    BY RestIs
  <2>2. \A t \in TokenTypes, r \in Arrays :
           /\ Put(t, r) \in AtTable(first) <=> t = "IDENTIFIER" /\ r \in AtDot(first)
           /\ Put(t, r) \in AtQualified(first) <=> t = "IDENTIFIER" /\ r \in AfterTable(first)
    BY Zenon, ReadsTable
  <2> QED
    BY <2>1, <2>2 DEF Expects
<1>5. \A t \in TokenTypes, r \in Arrays :
         /\ Put(t, r) \in AtWhereColumn <=> t = "IDENTIFIER" /\ r \in AtComparison
         /\ Put(t, r) \in AtAnd <=> t = "AND" /\ r \in AtOperand
         /\ Put(t, r) \in AtOperand <=> t \in Literals /\ r \in AtSemicolon
         /\ Put(t, r) \in AtLower <=> t \in Literals /\ r \in AtAnd
  BY Zenon, ReadsWhere
<1>6. Expects("where column", {"IDENTIFIER"}, "where named", first)
  <2>1. Rest("where column", first) = AtWhereColumn /\ Rest("where named", first) = AtComparison
    BY RestIs
  <2> QED
    BY <1>5, <2>1 DEF Expects
<1>7. Expects("and", {"AND"}, "upper", first)
  <2>1. Rest("and", first) = AtAnd /\ Rest("upper", first) = AtOperand
    BY RestIs
  <2> QED
    BY <1>5, <2>1 DEF Expects
<1>8. Expects("operand", Literals, "operator", first)
  <2>1. Rest("operand", first) = AtOperand /\ Rest("operator", first) = AtSemicolon
    BY RestIs
  <2> QED
    BY <1>5, <2>1 DEF Expects
<1>9. Expects("lower", Literals, "and", first)
  <2>1. Rest("lower", first) = AtLower /\ Rest("and", first) = AtAnd
    BY RestIs
  <2> QED
    BY <1>5, <2>1 DEF Expects
<1>10. Expects("upper", Literals, "bounds read", first)
  <2>1. Rest("upper", first) = AtOperand /\ Rest("bounds read", first) = AtSemicolon
    BY RestIs
  <2> QED
    BY <1>5, <2>1 DEF Expects
<1>11. Expects("end", {"EOF"}, "statement", first)
  BY RestIs, ReadsEnd DEF Expects
<1> QED
  BY Zenon, <1>1, <1>2, <1>3, <1>4, <1>6, <1>7, <1>8, <1>9, <1>10, <1>11

(* Where a token is optional.                                               *)
Chooses(from, type, taken, otherwise, first) ==
    /\ \A t \in TokenTypes, r \in Arrays :
         Put(t, r) \in Rest(from, first) <=>
           (t = type /\ r \in Rest(taken, first)) \/ (t # type /\ Put(t, r) \in Rest(otherwise, first))
    /\ taken # "into" /\ otherwise \notin {"into"} \cup (Ended \ {"failed"})

LEMMA OptionalTokens ==
    ASSUME NEW first
    PROVE  /\ Chooses("more values", ",", "value", ")", first)
           /\ Chooses("star", "*", "all columns", "column", first)
           /\ Chooses("more columns", ",", "column", "from", first)
           /\ Chooses("dot", ".", "qualified", "schema", first)
           /\ Chooses("where", "WHERE", "where column", "semicolon", first)
           /\ Chooses("semicolon", ";", "end", "end", first)
<1>1. Chooses("more values", ",", "value", ")", first)
  BY RestIs, ReadsValues DEF Chooses, Ended
<1>2. /\ Chooses("star", "*", "all columns", "column", first)
      /\ Chooses("more columns", ",", "column", "from", first)
  BY RestIs, ReadsColumns DEF Chooses, Ended
<1>3. Chooses("dot", ".", "qualified", "schema", first)
  <2>1. /\ Rest("dot", first) = AtDot(first) /\ Rest("qualified", first) = AtQualified(first)
        /\ Rest("schema", first) = AfterTable(first)
    BY RestIs
  <2>2. "qualified" # "into" /\ "schema" \notin {"into"} \cup (Ended \ {"failed"})
    BY DEF Ended
  <2>3. \A t \in TokenTypes, r \in Arrays :
           Put(t, r) \in AtDot(first) <=>
             (t = "." /\ r \in AtQualified(first)) \/ (t # "." /\ Put(t, r) \in AfterTable(first))
    BY Zenon, ReadsTable
  <2> QED
    BY <2>1, <2>2, <2>3 DEF Chooses
<1>4. Chooses("where", "WHERE", "where column", "semicolon", first)
  BY RestIs, ReadsWhere DEF Chooses, Ended
<1>5. Chooses("semicolon", ";", "end", "end", first)
  BY RestIs, ReadsSemicolon DEF Chooses, Ended
<1> QED
  BY Zenon, <1>1, <1>2, <1>3, <1>4, <1>5

(* How the operators that the steps are made of keep it.                    *)

Counted == failures' = failures \/ NoMemory

LEMMA FailuresGrow ==
    ASSUME IInv, Counted, failures' = 0
    PROVE  failures = 0 /\ failures' = failures
BY DEF IInv, Losses, Counted, NoMemory

(* Once an allocation has failed, only the tokens matter.                   *)
LEMMA OutOfMemoryParses ==
    ASSUME IInv, LookAhead, NoMemory, tokens' = tokens,
           index' = index \/ (index' = index + 1 /\ index < Len(tokens)),
           pc' \in Ended \ {"failed"} => index' = Len(tokens), pc' # "into"
    PROVE  Parsed'
<1>1. failures' # 0
  BY DEF IInv, Losses, NoMemory
<1>2. Len(tokens) <= index' + 1
  BY NextIndex DEF LookAhead
<1> QED
  BY <1>1, <1>2 DEF Parsed, Agreed, LookAhead

LEMMA QuietParses ==
    ASSUME IInv, Parsed, NEW from, NEW to, Quiet(from, to, tokens[1]), pc = from, pc' = to,
           tokens' = tokens, index' = index, Counted
    PROVE  Parsed'
<1>1. LookAhead'
  BY DEF Parsed, LookAhead, Quiet
<1>2. ASSUME failures' = 0, NEW r \in Arrays
      PROVE  Joined(tokens', r) \in AtStart <=> Coming(r)' \in Rest(pc', tokens'[1])
  <2>1. failures = 0
    BY <1>2, FailuresGrow
  <2>2. Joined(tokens, r) \in AtStart <=> Coming(r) \in Rest(from, tokens[1])
    BY <2>1 DEF Parsed, Agreed
  <2>3. Coming(r)' = Coming(r)
    BY DEF Coming
  <2> QED
    BY <2>2, <2>3 DEF Quiet
<1> QED
  BY <1>1, <1>2 DEF Parsed, Agreed

(* The token that is looked at.                                             *)
LEMMA TokenAhead ==
    ASSUME IInv, index < Len(tokens)
    PROVE  Current \in TokenTypes
<1>1. tokens \in Seq(TokenTypes) /\ index \in 0..Len(tokens)
  BY DEF IInv, Scanned
<1>2. index + 1 \in 1..Len(tokens)
  BY <1>1, NextIndex
<1> QED
  BY <1>1, <1>2, ElementOfSeq DEF Current

(* The token is taken.                                                      *)
LEMMA TakenParses ==
    ASSUME IInv, Parsed, index < Len(tokens), tokens' = tokens, index' = index + 1, Counted,
           \A r \in Arrays : Put(Current, r) \in Rest(pc, tokens[1]) <=> r \in Rest(pc', tokens[1]),
           pc' = "into" => tokens[1] = "INSERT"
    PROVE  Parsed'
<1>1. index' = Len(tokens)
  BY NextIndex DEF Parsed, LookAhead
<1>2. LookAhead'
  BY <1>1, NextIndex DEF LookAhead
<1>3. ASSUME failures' = 0, NEW r \in Arrays
      PROVE  Joined(tokens', r) \in AtStart <=> Coming(r)' \in Rest(pc', tokens'[1])
  <2>1. failures = 0
    BY <1>3, FailuresGrow
  <2>2. Joined(tokens, r) \in AtStart <=> Coming(r) \in Rest(pc, tokens[1])
    BY <2>1 DEF Parsed, Agreed
  <2>3. Coming(r) = Put(Current, r)
    BY DEF Coming, Current
  <2>4. Coming(r)' = r
    BY <1>1, NextIndex DEF Coming
  <2> QED
    BY Zenon, <2>2, <2>3, <2>4
<1> QED
  BY <1>2, <1>3 DEF Parsed, Agreed

(* The token is left to the next step, or refused.                          *)
LEMMA LeftParses ==
    ASSUME IInv, Parsed, index < Len(tokens), tokens' = tokens, index' = index, Counted,
           \A r \in Arrays : Put(Current, r) \in Rest(pc, tokens[1]) <=> Put(Current, r) \in Rest(pc', tokens[1]),
           pc' # "into", pc' \notin Ended \ {"failed"}
    PROVE  Parsed'
<1>1. LookAhead'
  BY DEF Parsed, LookAhead
<1>2. ASSUME failures' = 0, NEW r \in Arrays
      PROVE  Joined(tokens', r) \in AtStart <=> Coming(r)' \in Rest(pc', tokens'[1])
  <2>1. failures = 0
    BY <1>2, FailuresGrow
  <2>2. Joined(tokens, r) \in AtStart <=> Coming(r) \in Rest(pc, tokens[1])
    BY <2>1 DEF Parsed, Agreed
  <2>3. Coming(r) = Put(Current, r) /\ Coming(r)' = Coming(r)
    BY DEF Coming, Current
  <2> QED
    BY Zenon, <2>2, <2>3
<1> QED
  BY <1>1, <1>2 DEF Parsed, Agreed

LEMMA FailLeads ==
    ASSUME IInv', NEW held, NEW text, Fail(held, text)
    PROVE  pc' = "failed" /\ pc' # "into" /\ pc' \notin Ended \ {"failed"}
<1>1. pc' \in {"failed", "broken"}
  BY DEF Fail, Release
<1>2. pc' # "broken"
  BY DEF IInv, Scanned
<1> QED
  BY <1>1, <1>2

LEMMA RefusedParses ==
    ASSUME IInv, IInv', Parsed, index < Len(tokens), tokens' = tokens, index' = index, Counted,
           NEW held, NEW text, Fail(held, text),
           \A r \in Arrays : Put(Current, r) \notin Rest(pc, tokens[1])
    PROVE  Parsed'
<1>1. pc' = "failed" /\ pc' # "into" /\ pc' \notin Ended \ {"failed"}
  BY FailLeads
<1>2. Rest("failed", tokens[1]) = {}
  BY RestIs
<1> QED
  BY <1>1, <1>2, LeftParses

(* Without memory, on an error path.                                        *)
LEMMA LostParses ==
    ASSUME IInv, IInv', Parsed, NoMemory, tokens' = tokens,
           index' = index \/ (index' = index + 1 /\ index < Len(tokens)),
           NEW held, NEW text, Fail(held, text)
    PROVE  Parsed'
BY FailLeads, OutOfMemoryParses DEF Parsed

LEMMA CreateParses ==
    ASSUME IInv, IInv', Parsed, NEW from, NEW v, NEW type, NEW text, NEW to, NEW held,
           Quiet(from, to, tokens[1]), Create(from, v, type, text, to, held)
    PROVE  Parsed'
<1>1. pc = from /\ tokens' = tokens /\ index' = index
  BY DEF Create
<1>2. CASE pc' = to /\ failures' = failures
  BY <1>1, <1>2, QuietParses DEF Counted
<1>3. CASE NoMemory /\ Fail(held, "Execution error")
  BY <1>1, <1>3, LostParses
<1> QED
  BY <1>2, <1>3 DEF Create

LEMMA CreateOrNullParses ==
    ASSUME IInv, Parsed, NEW from, NEW v, NEW type, NEW text, NEW to,
           Quiet(from, to, tokens[1]), CreateOrNull(from, v, type, text, to)
    PROVE  Parsed'
<1>1. pc = from /\ pc' = to /\ tokens' = tokens /\ index' = index /\ Counted
  BY DEF CreateOrNull, Counted
<1> QED
  BY <1>1, QuietParses

LEMMA AppendParses ==
    ASSUME IInv, IInv', Parsed, NEW from, NEW parent, NEW child, NEW to,
           Quiet(from, to, tokens[1]), AppendChild(from, parent, child, to)
    PROVE  Parsed'
<1>1. /\ pc = from /\ pc' \in {to, "broken"}
      /\ tokens' = tokens /\ index' = index /\ Counted
  BY DEF AppendChild, Counted
<1>2. pc' = to
  BY <1>1 DEF IInv, Scanned
<1> QED
  BY <1>1, <1>2, QuietParses

LEMMA FreeNamesParses ==
    ASSUME IInv, IInv', Parsed, NEW from, NEW held, NEW to,
           Quiet(from, to, tokens[1]), FreeNames(from, held, to)
    PROVE  Parsed'
<1>1. /\ pc = from /\ pc' \in {to, "broken"}
      /\ tokens' = tokens /\ index' = index /\ Counted
  BY DEF FreeNames, Release, Counted
<1>2. pc' = to
  BY <1>1 DEF IInv, Scanned
<1> QED
  BY <1>1, <1>2, QuietParses

LEMMA ExpectParses ==
    ASSUME IInv, IInv', Parsed, NEW from, NEW type, NEW to, NEW held,
           Expects(from, {type}, to, tokens[1]), Expect(from, type, to, held)
    PROVE  Parsed'
<1>1. pc = from /\ index < Len(tokens) /\ tokens' = tokens /\ Counted
  BY DEF Expect, Looking, Counted
<1>2. Current \in TokenTypes
  BY <1>1, TokenAhead
<1>3. CASE Current = type /\ index' = index + 1 /\ pc' = to
  <2>1. \A r \in Arrays : Put(Current, r) \in Rest(pc, tokens[1]) <=> r \in Rest(pc', tokens[1])
    BY <1>1, <1>2, <1>3 DEF Expects
  <2> QED
    BY <1>1, <1>3, <2>1, TakenParses DEF Expects
<1>4. CASE Current # type /\ Fail(held, "Parse error") /\ index' = index
  <2>1. \A r \in Arrays : Put(Current, r) \notin Rest(pc, tokens[1])
    BY <1>1, <1>2, <1>4 DEF Expects
  <2> QED
    BY <1>1, <1>4, <2>1, RefusedParses
<1> QED
  BY <1>3, <1>4 DEF Expect

LEMMA MatchParses ==
    ASSUME IInv, Parsed, NEW from, NEW type, NEW taken, NEW otherwise,
           Chooses(from, type, taken, otherwise, tokens[1]), Match(from, type, taken, otherwise)
    PROVE  Parsed'
<1>1. pc = from /\ index < Len(tokens) /\ tokens' = tokens /\ Counted
  BY DEF Match, Looking, Counted
<1>2. Current \in TokenTypes
  BY <1>1, TokenAhead
<1>3. CASE Current = type /\ index' = index + 1 /\ pc' = taken
  <2>1. \A r \in Arrays : Put(Current, r) \in Rest(pc, tokens[1]) <=> r \in Rest(pc', tokens[1])
    BY <1>1, <1>2, <1>3 DEF Chooses
  <2> QED
    BY <1>1, <1>3, <2>1, TakenParses DEF Chooses
<1>4. CASE Current # type /\ pc' = otherwise /\ index' = index
  <2>1. \A r \in Arrays : Put(Current, r) \in Rest(pc, tokens[1]) <=> Put(Current, r) \in Rest(pc', tokens[1])
    BY <1>1, <1>2, <1>4 DEF Chooses
  <2> QED
    BY <1>1, <1>4, <2>1, LeftParses DEF Chooses
<1> QED
  BY <1>3, <1>4 DEF Match

LEMMA CopyIdentifierParses ==
    ASSUME IInv, IInv', Parsed, NEW from, NEW v, NEW to, NEW held,
           Expects(from, {"IDENTIFIER"}, to, tokens[1]), CopyIdentifier(from, v, to, held)
    PROVE  Parsed'
<1>1. pc = from /\ index < Len(tokens) /\ tokens' = tokens
  BY DEF CopyIdentifier, Looking
<1>2. Current \in TokenTypes
  BY <1>1, TokenAhead
<1>3. CASE Current = "IDENTIFIER" /\ index' = index + 1 /\ pc' = to /\ failures' = failures
  <2>1. \A r \in Arrays : Put(Current, r) \in Rest(pc, tokens[1]) <=> r \in Rest(pc', tokens[1])
    BY <1>1, <1>2, <1>3 DEF Expects
  <2> QED
    BY <1>1, <1>3, <2>1, TakenParses DEF Expects, Counted
<1>4. CASE Current # "IDENTIFIER" /\ Fail(held, "Parse error") /\ index' = index /\ failures' = failures
  <2>1. \A r \in Arrays : Put(Current, r) \notin Rest(pc, tokens[1])
    BY <1>1, <1>2, <1>4 DEF Expects
  <2> QED
    BY <1>1, <1>4, <2>1, RefusedParses DEF Counted
<1>5. CASE NoMemory /\ Fail(held, message) /\ index' = index + 1
  BY <1>1, <1>5, LostParses
<1> QED
  BY <1>3, <1>4, <1>5 DEF CopyIdentifier

LEMMA ParseValueParses ==
    ASSUME IInv, IInv', Parsed, NEW from, NEW v, NEW to, NEW held, NEW oom,
           Expects(from, Literals, to, tokens[1]), ParseValue(from, v, to, held, oom)
    PROVE  Parsed'
<1>1. pc = from /\ index < Len(tokens) /\ tokens' = tokens
  BY DEF ParseValue, Looking
<1>2. Current \in TokenTypes
  BY <1>1, TokenAhead
<1>3. CASE Current \in Literals /\ index' = index + 1 /\ pc' = to /\ failures' = failures
  <2>1. \A r \in Arrays : Put(Current, r) \in Rest(pc, tokens[1]) <=> r \in Rest(pc', tokens[1])
    BY <1>1, <1>2, <1>3 DEF Expects
  <2> QED
    BY <1>1, <1>3, <2>1, TakenParses DEF Expects, Counted
<1>4. CASE Current \notin Literals /\ Fail(held, "Parse error") /\ index' = index /\ failures' = failures
  <2>1. \A r \in Arrays : Put(Current, r) \notin Rest(pc, tokens[1])
    BY <1>1, <1>2, <1>4 DEF Expects
  <2> QED
    BY <1>1, <1>4, <2>1, RefusedParses DEF Counted
<1>5. CASE NoMemory /\ Fail(held, oom) /\ index' = index
  BY <1>1, <1>5, LostParses
<1> QED
  BY <1>3, <1>4, <1>5 DEF ParseValue

(* A node is missing only where an allocation failed.                       *)
Blamed == \A v \in Unseen(pc) : own[v] = NULL => failures > 0

Clear(p) == Unseen(p) = {}

LEMMA ClearSteps ==
    /\ \A p \in {"into", "table", "values", "(", "value list", "value", "value read", "more values",
                 ")", "semicolon", "end", "statement", "root made", "first linked", "second linked",
                 "returned", "failed", "broken"} : Clear(p)
    /\ \A p \in {"column list", "star", "all columns", "columns read", "column", "column named",
                 "more columns", "from", "where", "where column", "where named", "start"} : Clear(p)
    /\ \A p \in {"table named", "dot", "qualified", "schema", "schema linked", "between", "operand",
                 "operator", "operator made", "operator linked", "lower", "and", "upper",
                 "bounds read", "between made", "lower linked", "upper linked"} : Clear(p)
BY DEF Clear, Unseen

LEMMA ClearIsBlamed ==
    ASSUME Clear(pc')
    PROVE  Blamed'
BY DEF Clear, Blamed

LEMMA StepsLead ==
    ASSUME NEW from, NEW to, NEW held
    PROVE  /\ \A v, type, text : Create(from, v, type, text, to, held) => pc' \in {to, "failed", "broken"}
           /\ \A parent, child : AppendChild(from, parent, child, to) => pc' \in {to, "failed", "broken"}
           /\ \A type : Expect(from, type, to, held) => pc' \in {to, "failed", "broken"}
           /\ \A v : CopyIdentifier(from, v, to, held) => pc' \in {to, "failed", "broken"}
           /\ \A v, oom : ParseValue(from, v, to, held, oom) => pc' \in {to, "failed", "broken"}
           /\ \A type, other : Match(from, type, to, other) => pc' \in {to, other}
<1>0. \A text : Fail(held, text) => pc' \in {"failed", "broken"}
  BY DEF Fail, Release
<1>1. ASSUME NEW v, NEW type, NEW text, Create(from, v, type, text, to, held)
      PROVE  pc' \in {to, "failed", "broken"}
  BY <1>0, <1>1 DEF Create
<1>2. ASSUME NEW parent, NEW child, AppendChild(from, parent, child, to)
      PROVE  pc' \in {to, "failed", "broken"}
  BY <1>2 DEF AppendChild
<1>3. ASSUME NEW type, Expect(from, type, to, held) PROVE pc' \in {to, "failed", "broken"}
  BY <1>0, <1>3 DEF Expect
<1>4. ASSUME NEW v, CopyIdentifier(from, v, to, held) PROVE pc' \in {to, "failed", "broken"}
  BY <1>0, <1>4 DEF CopyIdentifier
<1>5. ASSUME NEW v, NEW oom, ParseValue(from, v, to, held, oom) PROVE pc' \in {to, "failed", "broken"}
  BY <1>0, <1>5 DEF ParseValue
<1>6. ASSUME NEW type, NEW other, Match(from, type, to, other) PROVE pc' \in {to, other}
  BY <1>6 DEF Match
<1> QED
  BY Zenon, <1>1, <1>2, <1>3, <1>4, <1>5, <1>6

LEMMA CreateOrNullBlames ==
    ASSUME IInv, Blamed, NEW from, NEW v, NEW type, NEW text, NEW to,
           CreateOrNull(from, v, type, text, to), Unseen(to) \subseteq Unseen(from) \cup {v},
           v \in Locals
    PROVE  Blamed'
<1>0. own \in [Locals -> 0..made] /\ made \in Nat /\ failures \in Nat
  BY ParserBounds DEF IInv, Memory, Losses
<1>1. pc = from /\ pc' = to
  BY DEF CreateOrNull
<1>2. \A w \in Unseen(from) : w # v => own'[w] = own[w]
  <2>1. Unseen(from) \subseteq Locals
    BY UnseenAreLocals
  <2> QED
    BY <1>0, <2>1 DEF CreateOrNull, Make
<1>3. failures' \in Nat /\ failures' >= failures
  BY <1>0 DEF CreateOrNull, NoMemory
<1>4. own'[v] = NULL => failures' > 0
  BY <1>0 DEF CreateOrNull, Make, NoMemory, NULL
<1> QED
  BY <1>0, <1>1, <1>2, <1>3, <1>4 DEF Blamed

LEMMA FreeNamesBlames ==
    ASSUME IInv', Blamed, NEW from, NEW held, NEW to,
           FreeNames(from, held, to), Unseen(to) \subseteq Unseen(from)
    PROVE  Blamed'
<1>1. pc = from /\ pc' \in {to, "broken"} /\ own' = own /\ failures' = failures
  BY DEF FreeNames, Release
<1>2. pc' = to
  BY <1>1 DEF IInv, Scanned
<1> QED
  BY <1>1, <1>2 DEF Blamed

LEMMA NextBlames ==
    ASSUME IInv, IInv', Blamed, Next
    PROVE  Blamed'
<1>1. ASSUME NextToken PROVE Blamed'
  <2>1. pc' \in {pc, "broken"} /\ own' = own /\ failures' = failures
    BY <1>1 DEF NextToken
  <2>2. pc' # "broken"
    BY DEF IInv, Scanned
  <2> QED
    BY <2>1, <2>2 DEF Blamed
<1>2. ASSUME Start \/ NextStatement \/ Comparison \/ ColumnLost \/ TableLost \/ WhereLost PROVE Blamed'
  <2>1. pc' \in {"start", "into", "column list", "lower", "operand", "failed", "broken"}
    BY <1>2 DEF Start, NextStatement, Comparison, ColumnLost, TableLost, WhereLost, Fail, Release
  <2> QED
    BY <2>1, ClearSteps, ClearIsBlamed
<1>3. ASSUME Into \/ Values \/ LeftParen \/ RightParen \/ From \/ And \/ EndOfInput PROVE Blamed'
  <2>1. pc' \in {"table", "(", "value list", "semicolon", "upper", "statement", "failed", "broken"}
    BY <1>3, StepsLead DEF Into, Values, LeftParen, RightParen, From, And, EndOfInput
  <2> QED
    BY <2>1, ClearSteps, ClearIsBlamed
<1>4. ASSUME ValueList \/ ColumnList \/ AllColumns \/ Table \/ Operator \/ Between \/ Root PROVE Blamed'
  <2>1. pc' \in {"value", "star", "columns read", "dot", "operator made", "between made", "root made",
                 "failed", "broken"}
    BY <1>4, StepsLead DEF ValueList, ColumnList, AllColumns, Table, Operator, Between, Root
  <2> QED
    BY <2>1, ClearSteps, ClearIsBlamed
<1>5. ASSUME Value \/ Operand \/ Lower \/ Upper \/ ColumnName \/ TableName \/ QualifiedName \/ WhereColumn
      PROVE  Blamed'
  <2>1. pc' \in {"value read", "operator", "and", "bounds read", "column named", "table named", "schema",
                 "where named", "failed", "broken"}
    BY <1>5, StepsLead DEF Value, Operand, Lower, Upper, ColumnName, TableName, QualifiedName, WhereColumn
  <2> QED
    BY <2>1, ClearSteps, ClearIsBlamed
<1>6. ASSUME MoreValues \/ Star \/ MoreColumns \/ Dot \/ Where \/ Semicolon PROVE Blamed'
  <2>1. pc' \in {"value", ")", "all columns", "column", "from", "qualified", "schema", "where column",
                 "semicolon", "end"}
    BY <1>6, StepsLead DEF MoreValues, Star, MoreColumns, Dot, Where, Semicolon
  <2> QED
    BY <2>1, ClearSteps, ClearIsBlamed
<1>7. ASSUME \/ LinkValue \/ LinkAll \/ LinkColumn \/ LinkSchema \/ LinkTableName \/ LinkWhereColumn
             \/ LinkOperator \/ LinkOperand
      PROVE  Blamed'
  <2>1. pc' \in {"more values", "from", "more columns", "schema linked", "values", "where", "between",
                 "operator linked", "semicolon", "failed", "broken"}
    BY <1>7, StepsLead DEF LinkValue, LinkAll, LinkColumn, LinkSchema, LinkTableName, LinkWhereColumn,
         LinkOperator, LinkOperand
  <2> QED
    BY <2>1, ClearSteps, ClearIsBlamed
<1>8. ASSUME LinkLower \/ LinkUpper \/ LinkBetween \/ LinkFirst \/ LinkSecond \/ LinkWhere PROVE Blamed'
  <2>1. pc' \in {"lower linked", "upper linked", "semicolon", "first linked", "second linked", "returned",
                 "failed", "broken"}
    BY <1>8, StepsLead DEF LinkLower, LinkUpper, LinkBetween, LinkFirst, LinkSecond, LinkWhere
  <2> QED
    BY <2>1, ClearSteps, ClearIsBlamed
<1>9. ASSUME Column \/ Schema \/ TableNameNode \/ WhereNode \/ WhereColumnNode PROVE Blamed'
  <2>1. /\ Unseen("column made") \subseteq Unseen("column named") \cup {"column_node"}
        /\ Unseen("table name") \subseteq Unseen("schema") \cup {"schema_node"}
        /\ Unseen("names copied") \subseteq Unseen("table name") \cup {"table_name_node"}
        /\ Unseen("where made") \subseteq Unseen("where named") \cup {"where_node"}
        /\ Unseen("where copied") \subseteq Unseen("where made") \cup {"column_node"}
    BY DEF Unseen
  <2>2. {"column_node", "schema_node", "table_name_node", "where_node"} \subseteq Locals
    BY DEF Locals, Nodes
  <2>3. CASE Column
    BY <2>1, <2>2, <2>3, CreateOrNullBlames DEF Column
  <2>4. CASE Schema
    BY <2>1, <2>2, <2>4, CreateOrNullBlames DEF Schema
  <2>5. CASE TableNameNode
    BY <2>1, <2>2, <2>5, CreateOrNullBlames DEF TableNameNode
  <2>6. CASE WhereNode
    BY <2>1, <2>2, <2>6, CreateOrNullBlames DEF WhereNode
  <2>7. CASE WhereColumnNode
    BY <2>1, <2>2, <2>7, CreateOrNullBlames DEF WhereColumnNode
  <2> QED
    BY <1>9, <2>3, <2>4, <2>5, <2>6, <2>7
<1>10. ASSUME FreeColumnName \/ FreeTableNames \/ FreeWhereName PROVE Blamed'
  <2>1. /\ Unseen("column tried") \subseteq Unseen("column made")
        /\ Unseen("table tried") \subseteq Unseen("names copied")
        /\ Unseen("where tried") \subseteq Unseen("where copied")
    BY DEF Unseen
  <2> QED
    BY <1>10, <2>1, FreeNamesBlames DEF FreeColumnName, FreeTableNames, FreeWhereName
<1> QED
  BY Zenon, <1>1, <1>2, <1>3, <1>4, <1>5, <1>6, <1>7, <1>8, <1>9, <1>10 DEF Next

(* The steps keep it.                                                       *)

LEMMA NextTokenParses ==
    ASSUME IInv, IInv', Parsed, NextToken
    PROVE  Parsed'
<1>1. /\ pc \in Reading /\ index = Len(tokens) /\ pc' \in {pc, "broken"}
      /\ index' = index /\ failures' = failures
  BY DEF NextToken
<1>2. pc' = pc
  BY <1>1 DEF IInv, Scanned
<1>3. tokens \in Seq(TokenTypes) /\ Len(tokens) \in Nat
  BY NextIndex DEF IInv, Scanned
<1>4. pc # "broken"
  BY DEF IInv, Scanned
<1>5. PICK t \in TokenTypes : tokens' = Append(tokens, t)
  BY <1>2, <1>4 DEF NextToken
<1>6. tokens' = tokens \o <<t>> /\ tokens' \in Seq(TokenTypes)
  BY <1>3, <1>5, AppendIsConcat, AppendProperties
<1>7. /\ Len(tokens') = Len(tokens) + 1 /\ tokens'[Len(tokens) + 1] = t
      /\ \A i \in 1..Len(tokens) : tokens'[i] = tokens[i]
  BY ONLY <1>3, <1>5
<1>8. pc \notin Ended
  BY <1>1 DEF Reading, Ended
<1>9. pc = "start" \/ (index > 0 /\ 1 \in 1..Len(tokens))
  <2>1. pc # "start" => index > 0
    BY <1>8 DEF IInv, Scanned, Ended
  <2> QED
    BY <1>1, <1>3, <2>1
<1>10. Rest(pc', tokens'[1]) = Rest(pc, tokens[1])
  <2>1. CASE pc = "start"
    BY <1>2, <2>1, RestIs
  <2>2. CASE 1 \in 1..Len(tokens)
    BY <1>2, <1>7, <2>2
  <2> QED
    BY <1>9, <2>1, <2>2
<1>11. LookAhead'
  <2>1. pc' = "into" => tokens'[1] = "INSERT"
    BY <1>2, <1>7, <1>9 DEF Parsed, LookAhead
  <2> QED
    BY <1>1, <1>2, <1>3, <1>7, <1>8, <2>1 DEF LookAhead
<1>12. ASSUME failures' = 0, NEW r \in Arrays
       PROVE  Joined(tokens', r) \in AtStart <=> Coming(r)' \in Rest(pc', tokens'[1])
  <2>1. Put(t, r) \in Arrays
    BY FirstAdded
  <2>2. Joined(tokens, Put(t, r)) \in AtStart <=> Coming(Put(t, r)) \in Rest(pc, tokens[1])
    BY <1>1, <1>12, <2>1 DEF Parsed, Agreed
  <2>3. Joined(tokens', r) = Joined(tokens, Put(t, r))
    <3>1. <<t>> \in Seq(TokenTypes) /\ r \in Seq(TokenTypes)
      BY DEF Arrays
    <3>2. (tokens \o <<t>>) \o r = tokens \o (<<t>> \o r)
      BY <1>3, <3>1, ConcatAssociative
    <3> QED
      BY <1>6, <3>2 DEF Joined, Put
  <2>4. Coming(Put(t, r)) = Put(t, r)
    BY <1>1, <1>3 DEF Coming
  <2>5. Coming(r)' = Put(t, r)
    BY <1>1, <1>3, <1>7 DEF Coming
  <2> QED
    BY Zenon, <2>2, <2>3, <2>4, <2>5, <1>10
<1> QED
  BY <1>11, <1>12 DEF Parsed, Agreed

LEMMA StartParses ==
    ASSUME IInv, IInv', Parsed, Start
    PROVE  Parsed'
<1>1. /\ pc = "start" /\ index < Len(tokens) /\ tokens' = tokens /\ Counted
  BY DEF Start, Looking, Counted
<1>2. index = 0 /\ Current = tokens[1] /\ 1 = index + 1
  <2>1. index = 0
    BY <1>1 DEF IInv, Scanned
  <2>2. index + 1 = 1
    BY <2>1
  <2> QED
    BY <2>1, <2>2 DEF Current
<1>3. Current \in TokenTypes
  BY <1>1, TokenAhead
<1>4. CASE Current = "INSERT" /\ index' = 1 /\ pc' = "into"
  <2>1. \A r \in Arrays : Put(Current, r) \in Rest(pc, tokens[1]) <=> r \in Rest(pc', tokens[1])
    BY <1>1, <1>3, <1>4, RestIs, ReadsStart
  <2> QED
    BY Zenon, <1>1, <1>2, <1>4, <2>1, TakenParses
<1>5. CASE Current = "SELECT" /\ index' = 1 /\ pc' = "column list"
  <2>1. \A r \in Arrays : Put(Current, r) \in Rest(pc, tokens[1]) <=> r \in Rest(pc', tokens[1])
    BY <1>1, <1>3, <1>5, RestIs, ReadsStart
  <2> QED
    <3>1. pc' # "into" /\ index' = index + 1
      BY <1>2, <1>5
    <3> QED
      BY <1>1, <3>1, <2>1, TakenParses
<1>6. CASE Current \notin {"INSERT", "SELECT"} /\ Fail({}, "Parse error") /\ index' = index
  <2>1. \A r \in Arrays : Put(Current, r) \notin Rest(pc, tokens[1])
    BY <1>1, <1>3, <1>6, RestIs, ReadsStart
  <2> QED
    BY <1>1, <1>6, <2>1, RefusedParses
<1> QED
  BY <1>4, <1>5, <1>6 DEF Start

LEMMA ComparisonParses ==
    ASSUME IInv, IInv', Parsed, Comparison
    PROVE  Parsed'
<1>1. pc = "between" /\ index < Len(tokens) /\ tokens' = tokens /\ Counted
  BY DEF Comparison, Looking, Counted
<1>2. Current \in TokenTypes
  BY <1>1, TokenAhead
<1>3. "BETWEEN" \notin Operators
  BY DEF Operators
<1>4. /\ Rest("between", tokens[1]) = AtComparison /\ Rest("lower", tokens[1]) = AtLower
      /\ Rest("operand", tokens[1]) = AtOperand
  BY RestIs
<1>5. \A r \in Arrays : Put(Current, r) \in AtComparison <=>
        (Current \in Operators /\ r \in AtOperand) \/ (Current = "BETWEEN" /\ r \in AtLower)
  BY Zenon, <1>2, ReadsWhere
<1>6. CASE Current = "BETWEEN" /\ index' = index + 1 /\ pc' = "lower"
  <2>1. \A r \in Arrays : Put(Current, r) \in Rest(pc, tokens[1]) <=> r \in Rest(pc', tokens[1])
    BY <1>1, <1>3, <1>4, <1>5, <1>6
  <2> QED
    BY <1>1, <1>6, <2>1, TakenParses
<1>7. CASE Current \in Operators /\ index' = index + 1 /\ pc' = "operand"
  <2>1. \A r \in Arrays : Put(Current, r) \in Rest(pc, tokens[1]) <=> r \in Rest(pc', tokens[1])
    BY <1>1, <1>3, <1>4, <1>5, <1>7
  <2> QED
    BY <1>1, <1>7, <2>1, TakenParses
<1>8. CASE /\ Current \notin Operators \cup {"BETWEEN"} /\ index' = index
           /\ Fail({"where_node"} \cup Held, "Parse error")
  <2>1. \A r \in Arrays : Put(Current, r) \notin Rest(pc, tokens[1])
    BY <1>1, <1>4, <1>5, <1>8
  <2> QED
    BY <1>1, <1>8, <2>1, RefusedParses
<1> QED
  BY <1>3, <1>6, <1>7, <1>8 DEF Comparison

(* A node that is missing has been blamed on an allocation.                 *)
LEMMA LostNodesParse ==
    ASSUME IInv, IInv', Parsed, Blamed, ColumnLost \/ TableLost \/ WhereLost
    PROVE  Parsed'
<1>1. tokens' = tokens /\ index' = index /\ failures' = failures
  BY DEF ColumnLost, TableLost, WhereLost
<1>2. pc' \in {"failed", "broken"}
  BY DEF ColumnLost, TableLost, WhereLost, Fail, Release
<1>3. pc' = "failed"
  BY <1>2 DEF IInv, Scanned
<1>4. failures > 0
  <2>1. \E v \in Unseen(pc) : own[v] = NULL
    <3>1. CASE ColumnLost
      BY <3>1 DEF ColumnLost, Unseen
    <3>2. CASE TableLost
      BY <3>2 DEF TableLost, TableMade, Unseen
    <3>3. CASE WhereLost
      BY <3>3 DEF WhereLost, WhereMade, Unseen
    <3> QED
      BY <3>1, <3>2, <3>3
  <2> QED
    BY <2>1 DEF Blamed
<1>5. failures' # 0
  BY <1>1, <1>4 DEF IInv, Losses
<1>6. LookAhead'
  BY <1>1, <1>3 DEF Parsed, LookAhead
<1> QED
  BY <1>5, <1>6 DEF Parsed, Agreed

LEMMA FreshParses == Fresh => Parsed
<1> SUFFICES ASSUME Fresh PROVE Parsed
  OBVIOUS
<1>1. tokens = << >> /\ index = 0 /\ pc = "start" /\ Len(tokens) = 0
  BY DEF Fresh
<1>2. LookAhead
  BY <1>1 DEF LookAhead, Ended
<1>3. ASSUME NEW r \in Arrays
      PROVE  Joined(tokens, r) \in AtStart <=> Coming(r) \in Rest(pc, tokens[1])
  <2>1. Joined(tokens, r) = r /\ Rest(pc, tokens[1]) = AtStart
    BY <1>1, JoinedTwo, RestIs
  <2>2. Coming(r) = r
    BY <1>1 DEF Coming
  <2> QED
    BY Zenon, <2>1, <2>2
<1> QED
  BY <1>2, <1>3 DEF Parsed, Agreed

LEMMA FreshParsesAgain == Fresh' => Parsed'
BY FreshParses, PTL

LEMMA NextStatementParses ==
    ASSUME IInv, NextStatement
    PROVE  Parsed'
BY NextStatementFresh, FreshParsesAgain

LEMMA NextParses ==
    ASSUME IInv, IInv', Parsed, Blamed, Next
    PROVE  Parsed'
<1> DEFINE first == tokens[1]
<1>0. /\ pc = "into" => first = "INSERT"
      /\ pc = "from" => first = "SELECT"
  BY DEF Parsed, LookAhead, IInv, Scanned, ColumnSteps
<1> HIDE DEF first
<1>1. ASSUME ValueList \/ ColumnList \/ AllColumns \/ Table \/ Operator \/ Between \/ Root
      PROVE  Parsed'
  <2>1. CASE ValueList
    BY <2>1, QuietSteps, CreateParses DEF ValueList
  <2>2. CASE ColumnList
    BY <2>2, QuietSteps, CreateParses DEF ColumnList
  <2>3. CASE AllColumns
    BY <2>3, QuietSteps, CreateParses DEF AllColumns
  <2>4. CASE Table
    BY <2>4, QuietSteps, CreateParses DEF Table
  <2>5. CASE Operator
    BY <2>5, QuietSteps, CreateParses DEF Operator
  <2>6. CASE Between
    BY <2>6, QuietSteps, CreateParses DEF Between
  <2>7. CASE Root
    BY <2>7, QuietSteps, CreateParses DEF Root
  <2> QED
    BY <1>1, <2>1, <2>2, <2>3, <2>4, <2>5, <2>6, <2>7
<1>2. ASSUME Column \/ Schema \/ TableNameNode \/ WhereNode \/ WhereColumnNode PROVE Parsed'
  <2>1. CASE Column
    BY <2>1, QuietSteps, CreateOrNullParses DEF Column
  <2>2. CASE Schema
    BY <2>2, QuietSteps, CreateOrNullParses DEF Schema
  <2>3. CASE TableNameNode
    BY <2>3, QuietSteps, CreateOrNullParses DEF TableNameNode
  <2>4. CASE WhereNode
    BY <2>4, QuietSteps, CreateOrNullParses DEF WhereNode
  <2>5. CASE WhereColumnNode
    BY <2>5, QuietSteps, CreateOrNullParses DEF WhereColumnNode
  <2> QED
    BY <1>2, <2>1, <2>2, <2>3, <2>4, <2>5
<1>3. ASSUME FreeColumnName \/ FreeTableNames \/ FreeWhereName PROVE Parsed'
  <2>1. CASE FreeColumnName
    BY <2>1, QuietSteps, FreeNamesParses DEF FreeColumnName
  <2>2. CASE FreeTableNames
    BY <2>2, QuietSteps, FreeNamesParses DEF FreeTableNames
  <2>3. CASE FreeWhereName
    BY <2>3, QuietSteps, FreeNamesParses DEF FreeWhereName
  <2> QED
    BY <1>3, <2>1, <2>2, <2>3
<1>4. ASSUME LinkValue \/ LinkAll \/ LinkColumn \/ LinkSchema \/ LinkWhereColumn \/ LinkOperator \/ LinkOperand
      PROVE  Parsed'
  <2>1. CASE LinkValue
    BY <2>1, QuietSteps, AppendParses DEF LinkValue
  <2>2. CASE LinkAll
    BY <2>2, QuietSteps, AppendParses DEF LinkAll
  <2>3. CASE LinkColumn
    BY <2>3, QuietSteps, AppendParses DEF LinkColumn
  <2>4. CASE LinkSchema
    BY <2>4, QuietSteps, AppendParses DEF LinkSchema
  <2>5. CASE LinkWhereColumn
    BY <2>5, QuietSteps, AppendParses DEF LinkWhereColumn
  <2>6. CASE LinkOperator
    BY <2>6, QuietSteps, AppendParses DEF LinkOperator
  <2>7. CASE LinkOperand
    BY <2>7, QuietSteps, AppendParses DEF LinkOperand
  <2> QED
    BY <1>4, <2>1, <2>2, <2>3, <2>4, <2>5, <2>6, <2>7
<1>5. ASSUME LinkLower \/ LinkUpper \/ LinkBetween \/ LinkFirst \/ LinkSecond \/ LinkWhere PROVE Parsed'
  <2>1. CASE LinkLower
    BY <2>1, QuietSteps, AppendParses DEF LinkLower
  <2>2. CASE LinkUpper
    BY <2>2, QuietSteps, AppendParses DEF LinkUpper
  <2>3. CASE LinkBetween
    BY <2>3, QuietSteps, AppendParses DEF LinkBetween
  <2>4. CASE LinkFirst
    BY <2>4, QuietSteps, AppendParses DEF LinkFirst
  <2>5. CASE LinkSecond
    BY <2>5, QuietSteps, AppendParses DEF LinkSecond
  <2>6. CASE LinkWhere
    BY <2>6, QuietSteps, AppendParses DEF LinkWhere
  <2> QED
    BY <1>5, <2>1, <2>2, <2>3, <2>4, <2>5, <2>6
<1>6. ASSUME Values \/ LeftParen \/ RightParen \/ And \/ EndOfInput PROVE Parsed'
  <2>1. CASE Values
    BY <2>1, ExpectedTokens, ExpectParses DEF Values
  <2>2. CASE LeftParen
    BY <2>2, ExpectedTokens, ExpectParses DEF LeftParen
  <2>3. CASE RightParen
    BY <2>3, ExpectedTokens, ExpectParses DEF RightParen
  <2>4. CASE And
    BY <2>4, ExpectedTokens, ExpectParses DEF And
  <2>5. CASE EndOfInput
    BY <2>5, ExpectedTokens, ExpectParses DEF EndOfInput
  <2> QED
    BY <1>6, <2>1, <2>2, <2>3, <2>4, <2>5
<1>7. ASSUME MoreValues \/ Star \/ MoreColumns \/ Dot \/ Where \/ Semicolon PROVE Parsed'
  <2>1. CASE MoreValues
    BY <2>1, OptionalTokens, MatchParses DEF MoreValues
  <2>2. CASE Star
    BY <2>2, OptionalTokens, MatchParses DEF Star
  <2>3. CASE MoreColumns
    BY <2>3, OptionalTokens, MatchParses DEF MoreColumns
  <2>4. CASE Dot
    BY <2>4, OptionalTokens, MatchParses DEF Dot
  <2>5. CASE Where
    BY <2>5, OptionalTokens, MatchParses DEF Where
  <2>6. CASE Semicolon
    BY <2>6, OptionalTokens, MatchParses DEF Semicolon
  <2> QED
    BY <1>7, <2>1, <2>2, <2>3, <2>4, <2>5, <2>6
<1>8. ASSUME ColumnName \/ TableName \/ QualifiedName \/ WhereColumn PROVE Parsed'
  <2>1. CASE ColumnName
    BY <2>1, ExpectedTokens, CopyIdentifierParses DEF ColumnName
  <2>2. CASE TableName
    BY <2>2, ExpectedTokens, CopyIdentifierParses DEF TableName
  <2>3. CASE QualifiedName
    BY <2>3, ExpectedTokens, CopyIdentifierParses DEF QualifiedName
  <2>4. CASE WhereColumn
    BY <2>4, ExpectedTokens, CopyIdentifierParses DEF WhereColumn
  <2> QED
    BY <1>8, <2>1, <2>2, <2>3, <2>4
<1>9. ASSUME Value \/ Operand \/ Lower \/ Upper PROVE Parsed'
  <2>1. CASE Value
    BY <2>1, ExpectedTokens, ParseValueParses DEF Value
  <2>2. CASE Operand
    BY <2>2, ExpectedTokens, ParseValueParses DEF Operand
  <2>3. CASE Lower
    BY <2>3, ExpectedTokens, ParseValueParses DEF Lower
  <2>4. CASE Upper
    BY <2>4, ExpectedTokens, ParseValueParses DEF Upper
  <2> QED
    BY <1>9, <2>1, <2>2, <2>3, <2>4
<1>10. ASSUME Into PROVE Parsed'
  <2>1. Expects("into", {"INTO"}, "table", tokens[1])
    BY <1>0, <1>10, ExpectedTokens DEF first, Into, Expect, Looking
  <2> QED
    BY <1>10, <2>1, ExpectParses DEF Into
<1>11. ASSUME From PROVE Parsed'
  <2>1. Expects("from", {"FROM"}, "table", tokens[1])
    BY <1>0, <1>11, ExpectedTokens DEF first, From, Expect, Looking
  <2> QED
    BY <1>11, <2>1, ExpectParses DEF From
<1>12. ASSUME LinkTableName PROVE Parsed'
  <2>1. Quiet("schema linked", IF Inserting THEN "values" ELSE "where", tokens[1])
    BY QuietSteps DEF Inserting
  <2> QED
    BY <1>12, <2>1, AppendParses DEF LinkTableName
<1> QED
  BY Zenon, <1>1, <1>2, <1>3, <1>4, <1>5, <1>6, <1>7, <1>8, <1>9, <1>10, <1>11, <1>12,
     NextTokenParses, StartParses, ComparisonParses, LostNodesParse, NextStatementParses
     DEF Next

-----------------------------------------------------------------------------
(* The grammar as it is stated, and as the parser goes through it: first    *)
(* its pieces, and then whole sentences.                                    *)

LEMMA TupleOfOne ==
    ASSUME NEW a \in TokenTypes
    PROVE  <<a>> = Put(a, << >>) /\ <<a>> \in Arrays
<1>1. <<a>> \in Seq(TokenTypes)
  OBVIOUS
<1> QED
  BY <1>1, ConcatEmptySeq DEF Put, Arrays

LEMMA TupleOfTwo ==
    ASSUME NEW a \in TokenTypes,
           NEW b \in TokenTypes
    PROVE  <<a, b>> = Put(a, <<b>>) /\ <<a, b>> \in Arrays
<1> DEFINE x == <<a, b>>
           y == <<b>>
           p == Put(a, y)
<1>1. x \in Seq(TokenTypes) /\ Len(x) = 2 /\ x[1] = a /\ x[2] = b
  OBVIOUS
<1>2. y \in Arrays /\ Len(y) = 1 /\ y[1] = b
  BY DEF Arrays
<1> HIDE DEF x, y
<1>3. p \in Arrays /\ Len(p) = Len(y) + 1 /\ p[1] = a /\ \A i \in 1 .. Len(y) : p[i + 1] = y[i]
  BY <1>2, FirstAdded
<1> HIDE DEF p
<1>4. /\ x \in Seq(TokenTypes) /\ p \in Seq(TokenTypes) /\ Len(p) = Len(x)
      /\ \A i \in 1 .. Len(x) : x[i] = p[i]
  BY <1>1, <1>2, <1>3 DEF Arrays
<1>5. x = p
  BY ONLY <1>4, SeqEqual
<1> QED
  BY <1>1, <1>5 DEF x, y, p, Arrays

LEMMA TupleOfThree ==
    ASSUME NEW a \in TokenTypes,
           NEW b \in TokenTypes,
           NEW c \in TokenTypes
    PROVE  <<a, b, c>> = Put(a, <<b, c>>) /\ <<a, b, c>> \in Arrays
<1> DEFINE x == <<a, b, c>>
           y == <<b, c>>
           p == Put(a, y)
<1>1. x \in Seq(TokenTypes) /\ Len(x) = 3 /\ x[1] = a /\ x[2] = b /\ x[3] = c
  OBVIOUS
<1>2. y \in Arrays /\ Len(y) = 2 /\ y[1] = b /\ y[2] = c
  BY DEF Arrays
<1> HIDE DEF x, y
<1>3. p \in Arrays /\ Len(p) = Len(y) + 1 /\ p[1] = a /\ \A i \in 1 .. Len(y) : p[i + 1] = y[i]
  BY <1>2, FirstAdded
<1> HIDE DEF p
<1>4. /\ x \in Seq(TokenTypes) /\ p \in Seq(TokenTypes) /\ Len(p) = Len(x)
      /\ \A i \in 1 .. Len(x) : x[i] = p[i]
  BY <1>1, <1>2, <1>3 DEF Arrays
<1>5. x = p
  BY ONLY <1>4, SeqEqual
<1> QED
  BY <1>1, <1>5 DEF x, y, p, Arrays

LEMMA PutBeforeThree == \A a, b, c, d \in TokenTypes : <<a, b, c, d>> = Put(a, <<b, c, d>>)
<1> SUFFICES ASSUME NEW a \in TokenTypes,
                    NEW b \in TokenTypes,
                    NEW c \in TokenTypes,
                    NEW d \in TokenTypes
             PROVE  <<a, b, c, d>> = Put(a, <<b, c, d>>)
  OBVIOUS
<1> DEFINE x == <<a, b, c, d>>
           y == <<b, c, d>>
           p == Put(a, y)
<1>1. x \in Seq(TokenTypes) /\ Len(x) = 4 /\ x[1] = a /\ x[2] = b /\ x[3] = c /\ x[4] = d
  OBVIOUS
<1>2. y \in Arrays /\ Len(y) = 3 /\ y[1] = b /\ y[2] = c /\ y[3] = d
  BY DEF Arrays
<1> HIDE DEF x, y
<1>3. p \in Arrays /\ Len(p) = Len(y) + 1 /\ p[1] = a /\ \A i \in 1 .. Len(y) : p[i + 1] = y[i]
  BY <1>2, FirstAdded
<1> HIDE DEF p
<1>4. /\ x \in Seq(TokenTypes) /\ p \in Seq(TokenTypes) /\ Len(p) = Len(x)
      /\ \A i \in 1 .. Len(x) : x[i] = p[i]
  BY <1>1, <1>2, <1>3 DEF Arrays
<1>5. x = p
  BY ONLY <1>4, SeqEqual
<1> QED
  BY <1>1, <1>5 DEF x, y, p, Arrays

LEMMA PutBeforeFour == \A a, b, c, d, e \in TokenTypes : <<a, b, c, d, e>> = Put(a, <<b, c, d, e>>)
<1> SUFFICES ASSUME NEW a \in TokenTypes,
                    NEW b \in TokenTypes,
                    NEW c \in TokenTypes,
                    NEW d \in TokenTypes,
                    NEW e \in TokenTypes
             PROVE  <<a, b, c, d, e>> = Put(a, <<b, c, d, e>>)
  OBVIOUS
<1> DEFINE x == <<a, b, c, d, e>>
           y == <<b, c, d, e>>
           p == Put(a, y)
<1>1. x \in Seq(TokenTypes) /\ Len(x) = 5 /\ x[1] = a /\ x[2] = b /\ x[3] = c /\ x[4] = d /\ x[5] = e
  OBVIOUS
<1>2. y \in Arrays /\ Len(y) = 4 /\ y[1] = b /\ y[2] = c /\ y[3] = d /\ y[4] = e
  BY DEF Arrays
<1> HIDE DEF x, y
<1>3. p \in Arrays /\ Len(p) = Len(y) + 1 /\ p[1] = a /\ \A i \in 1 .. Len(y) : p[i + 1] = y[i]
  BY <1>2, FirstAdded
<1> HIDE DEF p
<1>4. /\ x \in Seq(TokenTypes) /\ p \in Seq(TokenTypes) /\ Len(p) = Len(x)
      /\ \A i \in 1 .. Len(x) : x[i] = p[i]
  BY <1>1, <1>2, <1>3 DEF Arrays
<1>5. x = p
  BY ONLY <1>4, SeqEqual
<1> QED
  BY <1>1, <1>5 DEF x, y, p, Arrays

LEMMA ThenOne ==
    ASSUME NEW S \in SUBSET TokenTypes, NEW A \in SUBSET Arrays, NEW B \in SUBSET Arrays
    PROVE  Then(One(S, A), B) = One(S, Then(A, B))
<1>1. ASSUME NEW x \in Then(One(S, A), B) PROVE x \in One(S, Then(A, B))
  <2>1. PICK y \in One(S, A), b \in B : x = Joined(y, b)
    BY <1>1, InThen
  <2>2. PICK t \in S, a \in A : y = Put(t, a)
    BY <2>1, InOne
  <2>3. Joined(Put(t, a), b) = Put(t, Joined(a, b))
    BY JoinedTwo
  <2>4. Joined(a, b) \in Then(A, B)
    BY InThen
  <2> QED
    BY <2>1, <2>2, <2>3, <2>4, InOne
<1>2. ASSUME NEW x \in One(S, Then(A, B)) PROVE x \in Then(One(S, A), B)
  <2>1. PICK t \in S, y \in Then(A, B) : x = Put(t, y)
    BY <1>2, InOne
  <2>2. PICK a \in A, b \in B : y = Joined(a, b)
    BY <2>1, InThen
  <2>3. Joined(Put(t, a), b) = Put(t, Joined(a, b))
    BY JoinedTwo
  <2>4. Put(t, a) \in One(S, A)
    BY InOne
  <2> QED
    BY <2>1, <2>2, <2>3, <2>4, InThen
<1> QED
  BY Zenon, <1>1, <1>2

LEMMA ThenUnion ==
    ASSUME NEW A, NEW B, NEW C
    PROVE  Then(A \cup B, C) = Then(A, C) \cup Then(B, C)
<1>1. ASSUME NEW x \in Then(A \cup B, C) PROVE x \in Then(A, C) \cup Then(B, C)
  <2>1. PICK a \in A \cup B, c \in C : x = Joined(a, c)
    BY <1>1, InThen
  <2> QED
    BY <2>1, InThen
<1>2. ASSUME NEW x \in Then(A, C) \cup Then(B, C) PROVE x \in Then(A \cup B, C)
  <2>1. \E a \in A \cup B, c \in C : x = Joined(a, c)
    BY <1>2, InThen
  <2> QED
    BY <2>1, InThen
<1> QED
  BY Zenon, <1>1, <1>2

LEMMA ThenFinal ==
    ASSUME NEW B \in SUBSET Arrays
    PROVE  Then(Final, B) = B
<1>1. ASSUME NEW x \in Then(Final, B) PROVE x \in B
  <2>1. PICK a \in Final, b \in B : x = Joined(a, b)
    BY <1>1, InThen
  <2>2. a = << >> /\ Joined(<< >>, b) = b
    BY JoinedTwo DEF Final
  <2> QED
    BY <2>1, <2>2
<1>2. ASSUME NEW x \in B PROVE x \in Then(Final, B)
  <2>1. << >> \in Final /\ Joined(<< >>, x) = x
    BY <1>2, JoinedTwo DEF Final
  <2> QED
    BY <1>2, <2>1, InThen
<1> QED
  BY Zenon, <1>1, <1>2

LEMMA ThenThen ==
    ASSUME NEW A \in SUBSET Arrays, NEW B \in SUBSET Arrays, NEW C \in SUBSET Arrays
    PROVE  Then(Then(A, B), C) = Then(A, Then(B, C))
<1>1. ASSUME NEW x \in Then(Then(A, B), C) PROVE x \in Then(A, Then(B, C))
  <2>1. PICK y \in Then(A, B), c \in C : x = Joined(y, c)
    BY <1>1, InThen
  <2>2. PICK a \in A, b \in B : y = Joined(a, b)
    BY <2>1, InThen
  <2>3. Joined(b, c) \in Then(B, C) /\ Joined(Joined(a, b), c) = Joined(a, Joined(b, c))
    BY InThen, JoinedTwo
  <2> QED
    BY <2>1, <2>2, <2>3, InThen
<1>2. ASSUME NEW x \in Then(A, Then(B, C)) PROVE x \in Then(Then(A, B), C)
  <2>1. PICK a \in A, y \in Then(B, C) : x = Joined(a, y)
    BY <1>2, InThen
  <2>2. PICK b \in B, c \in C : y = Joined(b, c)
    BY <2>1, InThen
  <2>3. Joined(a, b) \in Then(A, B) /\ Joined(Joined(a, b), c) = Joined(a, Joined(b, c))
    BY InThen, JoinedTwo
  <2> QED
    BY <2>1, <2>2, <2>3, InThen
<1> QED
  BY Zenon, <1>1, <1>2

(* One token, or one of a set, at the end of an array.                      *)
LEMMA InLast ==
    ASSUME NEW S \in SUBSET TokenTypes, NEW x
    PROVE  x \in One(S, Final) <=> \E t \in S : x = <<t>>
<1>1. \A t \in S : <<t>> = Put(t, << >>)
  BY TupleOfOne
<1>2. x \in One(S, Final) <=> \E t \in S, r \in Final : x = Put(t, r)
  BY InOne
<1> QED
  BY <1>1, <1>2 DEF Final

LEMMA InOneType ==
    ASSUME NEW u, NEW L, NEW x
    PROVE  x \in One({u}, L) <=> \E r \in L : x = Put(u, r)
BY InOne

LEMMA LastOf ==
    ASSUME NEW u \in TokenTypes
    PROVE  One({u}, Final) = {<<u>>}
<1>1. {u} \in SUBSET TokenTypes
  OBVIOUS
<1>2. \A x : x \in One({u}, Final) <=> \E t \in {u} : x = <<t>>
  BY <1>1, InLast
<1> QED
  BY Zenon, <1>2

LEMMA OneOf ==
    ASSUME NEW u, NEW r
    PROVE  One({u}, {r}) = {Put(u, r)}
<1>1. \A x : x \in One({u}, {r}) <=> \E q \in {r} : x = Put(u, q)
  BY InOneType
<1> QED
  BY Zenon, <1>1

LEMMA OneUnion ==
    ASSUME NEW S, NEW A, NEW B
    PROVE  One(S, A \cup B) = One(S, A) \cup One(S, B)
<1>1. ASSUME NEW x \in One(S, A \cup B) PROVE x \in One(S, A) \cup One(S, B)
  <2>1. PICK t \in S, r \in A \cup B : x = Put(t, r)
    BY <1>1, InOne
  <2> QED
    BY <2>1, InOne
<1>2. ASSUME NEW x \in One(S, A) \cup One(S, B) PROVE x \in One(S, A \cup B)
  <2>1. \E t \in S, r \in A \cup B : x = Put(t, r)
    BY <1>2, InOne
  <2> QED
    BY <2>1, InOne
<1> QED
  BY Zenon, <1>1, <1>2

LEMMA InsertIntoPut == {<<"INSERT", "INTO">>} = One({"INSERT"}, One({"INTO"}, Final))
<1>1. One({"INTO"}, Final) = {<<"INTO">>}
  BY SomeTokens, LastOf
<1>2. <<"INSERT", "INTO">> = Put("INSERT", <<"INTO">>)
  BY SomeTokens, TupleOfTwo
<1>3. One({"INSERT"}, {<<"INTO">>}) = {Put("INSERT", <<"INTO">>)}
  BY OneOf
<1> QED
  BY Zenon, <1>1, <1>2, <1>3

LEMMA TableNamesPut == TableNames = One({"IDENTIFIER"}, Final \cup One({"."}, One({"IDENTIFIER"}, Final)))
<1>1. One({"IDENTIFIER"}, Final) = {<<"IDENTIFIER">>}
  BY SomeTokens, LastOf
<1>2. <<".", "IDENTIFIER">> = Put(".", <<"IDENTIFIER">>)
  BY SomeTokens, TupleOfTwo
<1>3. <<"IDENTIFIER", ".", "IDENTIFIER">> = Put("IDENTIFIER", <<".", "IDENTIFIER">>)
  <2> DEFINE name == "IDENTIFIER"
             dot == "."
  <2>1. name \in TokenTypes /\ dot \in TokenTypes
    BY SomeTokens
  <2>2. <<name, dot, name>> = Put(name, <<dot, name>>)
    <3> HIDE DEF name, dot
    <3> QED
      BY <2>1, TupleOfThree
  <2> QED
    BY <2>2
<1>4. One({"."}, {<<"IDENTIFIER">>}) = {Put(".", <<"IDENTIFIER">>)}
  BY OneOf
<1>5. One({"IDENTIFIER"}, {<<".", "IDENTIFIER">>}) = {Put("IDENTIFIER", <<".", "IDENTIFIER">>)}
  BY OneOf
<1>6. One({"IDENTIFIER"}, One({"."}, One({"IDENTIFIER"}, Final))) = {<<"IDENTIFIER", ".", "IDENTIFIER">>}
  BY Zenon, <1>1, <1>2, <1>3, <1>4, <1>5
<1> DEFINE Q == One({"."}, One({"IDENTIFIER"}, Final))
<1>7. One({"IDENTIFIER"}, Final \cup Q) = One({"IDENTIFIER"}, Final) \cup One({"IDENTIFIER"}, Q)
  <2> HIDE DEF Q
  <2> QED
    BY OneUnion
<1>8. One({"IDENTIFIER"}, Final \cup Q) = {<<"IDENTIFIER">>} \cup {<<"IDENTIFIER", ".", "IDENTIFIER">>}
  BY Zenon, <1>1, <1>6, <1>7
<1>9. {<<"IDENTIFIER">>} \cup {<<"IDENTIFIER", ".", "IDENTIFIER">>} = TableNames
  BY Zenon DEF TableNames
<1> QED
  BY Zenon, <1>8, <1>9

LEMMA EndingsPut == Endings = AtSemicolon
<1>1. AtEnd = {<<"EOF">>}
  BY SomeTokens, LastOf DEF AtEnd
<1>2. <<";", "EOF">> = Put(";", <<"EOF">>)
  BY SomeTokens, TupleOfTwo
<1>3. One({";"}, {<<"EOF">>}) = {Put(";", <<"EOF">>)}
  BY OneOf
<1>4. AtSemicolon = {<<"EOF">>} \cup {<<";", "EOF">>}
  BY Zenon, <1>1, <1>2, <1>3 DEF AtSemicolon
<1> QED
  BY Zenon, <1>4 DEF Endings

Compared == One({"IDENTIFIER"}, One(Operators, One(Literals, Final)))
Bounded == One({"IDENTIFIER"}, One({"BETWEEN"}, One(Literals, One({"AND"}, One(Literals, Final)))))

LEMMA InCompared ==
    ASSUME NEW x
    PROVE  x \in Compared <=> \E op \in Operators, v \in Literals : x = <<"IDENTIFIER", op, v>>
<1>1. \A op \in Operators, v \in Literals : Put("IDENTIFIER", Put(op, <<v>>)) = <<"IDENTIFIER", op, v>>
  <2>1. ASSUME NEW op \in Operators, NEW v \in Literals
        PROVE  Put("IDENTIFIER", Put(op, <<v>>)) = <<"IDENTIFIER", op, v>>
    <3>1. op \in TokenTypes /\ v \in TokenTypes /\ "IDENTIFIER" \in TokenTypes
      BY SomeTokens
    <3>2. <<op, v>> = Put(op, <<v>>)
      BY <3>1, TupleOfTwo
    <3>3. <<"IDENTIFIER", op, v>> = Put("IDENTIFIER", <<op, v>>)
      BY <3>1, TupleOfThree
    <3> QED
      BY Zenon, <3>2, <3>3
  <2> QED
    BY Zenon, <2>1
<1>2. \A y : y \in One(Literals, Final) <=> \E v \in Literals : y = <<v>>
  BY SomeTokens, InLast
<1>3. ASSUME x \in Compared PROVE \E op \in Operators, v \in Literals : x = <<"IDENTIFIER", op, v>>
  <2>1. PICK y \in One(Operators, One(Literals, Final)) : x = Put("IDENTIFIER", y)
    BY <1>3, InOneType DEF Compared
  <2>2. PICK op \in Operators, z \in One(Literals, Final) : y = Put(op, z)
    BY <2>1, InOne
  <2>3. PICK v \in Literals : z = <<v>>
    BY <1>2, <2>2
  <2> QED
    BY <1>1, <2>1, <2>2, <2>3
<1>4. ASSUME NEW op \in Operators, NEW v \in Literals, x = <<"IDENTIFIER", op, v>> PROVE x \in Compared
  <2>1. <<v>> \in One(Literals, Final)
    BY <1>2
  <2>2. Put(op, <<v>>) \in One(Operators, One(Literals, Final))
    BY <2>1, InOne
  <2> QED
    BY <1>1, <1>4, <2>2, InOneType DEF Compared
<1> QED
  BY Zenon, <1>3, <1>4

LEMMA InBetween ==
    ASSUME NEW x
    PROVE  x \in Bounded <=>
             \E l \in Literals, u \in Literals : x = <<"IDENTIFIER", "BETWEEN", l, "AND", u>>
<1>1. \A l \in Literals, u \in Literals :
        Put("IDENTIFIER", Put("BETWEEN", Put(l, Put("AND", <<u>>)))) = <<"IDENTIFIER", "BETWEEN", l, "AND", u>>
  <2>1. ASSUME NEW l \in Literals, NEW u \in Literals
        PROVE  Put("IDENTIFIER", Put("BETWEEN", Put(l, Put("AND", <<u>>))))
                 = <<"IDENTIFIER", "BETWEEN", l, "AND", u>>
    <3> DEFINE name == "IDENTIFIER"
               between == "BETWEEN"
               and == "AND"
    <3>1. /\ l \in TokenTypes /\ u \in TokenTypes
          /\ name \in TokenTypes /\ between \in TokenTypes /\ and \in TokenTypes
      BY SomeTokens
    <3>2. Put(name, Put(between, Put(l, Put(and, <<u>>)))) = <<name, between, l, and, u>>
      <4> HIDE DEF name, between, and
      <4>1. <<and, u>> = Put(and, <<u>>)
        BY <3>1, TupleOfTwo
      <4>2. <<l, and, u>> = Put(l, <<and, u>>)
        BY <3>1, TupleOfThree
      <4>3. <<between, l, and, u>> = Put(between, <<l, and, u>>)
        BY <3>1, PutBeforeThree
      <4>4. <<name, between, l, and, u>> = Put(name, <<between, l, and, u>>)
        BY <3>1, PutBeforeFour
      <4> QED
        BY Zenon, <4>1, <4>2, <4>3, <4>4
    <3> QED
      BY Zenon, <3>2
  <2> QED
    BY Zenon, <2>1
<1>2. \A y : y \in One(Literals, Final) <=> \E v \in Literals : y = <<v>>
  BY SomeTokens, InLast
<1>3. ASSUME x \in Bounded
      PROVE  \E l \in Literals, u \in Literals : x = <<"IDENTIFIER", "BETWEEN", l, "AND", u>>
  <2>1. PICK y \in One({"BETWEEN"}, One(Literals, One({"AND"}, One(Literals, Final)))) : x = Put("IDENTIFIER", y)
    BY <1>3, InOneType DEF Bounded
  <2>2. PICK z \in One(Literals, One({"AND"}, One(Literals, Final))) : y = Put("BETWEEN", z)
    BY <2>1, InOneType
  <2>3. PICK l \in Literals, w \in One({"AND"}, One(Literals, Final)) : z = Put(l, w)
    BY <2>2, InOne
  <2>4. PICK v \in One(Literals, Final) : w = Put("AND", v)
    BY <2>3, InOneType
  <2>5. PICK u \in Literals : v = <<u>>
    BY <1>2, <2>4
  <2> QED
    BY <1>1, <2>1, <2>2, <2>3, <2>4, <2>5
<1>4. ASSUME NEW l \in Literals, NEW u \in Literals, x = <<"IDENTIFIER", "BETWEEN", l, "AND", u>>
      PROVE  x \in Bounded
  <2>1. <<u>> \in One(Literals, Final)
    BY <1>2
  <2>2. Put("AND", <<u>>) \in One({"AND"}, One(Literals, Final))
    BY <2>1, InOneType
  <2>3. Put(l, Put("AND", <<u>>)) \in One(Literals, One({"AND"}, One(Literals, Final)))
    BY <2>2, InOne
  <2>4. Put("BETWEEN", Put(l, Put("AND", <<u>>)))
          \in One({"BETWEEN"}, One(Literals, One({"AND"}, One(Literals, Final))))
    BY <2>3, InOneType
  <2> QED
    BY <1>1, <1>4, <2>4, InOneType DEF Bounded
<1> QED
  BY Zenon, <1>3, <1>4

LEMMA ConditionsPut == Conditions = Compared \cup Bounded
<1>1. \A x : x \in Conditions <=>
        \/ \E op \in Operators, v \in Literals : x = <<"IDENTIFIER", op, v>>
        \/ \E l \in Literals, u \in Literals : x = <<"IDENTIFIER", "BETWEEN", l, "AND", u>>
  BY DEF Conditions
<1>2. \A x : x \in Conditions <=> x \in Compared \/ x \in Bounded
  BY <1>1, InCompared, InBetween
<1> QED
  BY Zenon, <1>2

LEMMA ThenTables ==
    ASSUME NEW K \in SUBSET Arrays
    PROVE  Then(TableNames, K) = One({"IDENTIFIER"}, K \cup One({"."}, One({"IDENTIFIER"}, K)))
<1> DEFINE name == {"IDENTIFIER"}
           dot == {"."}
           N == One(name, Final)
           D == One(dot, N)
<1>1. name \in SUBSET TokenTypes /\ dot \in SUBSET TokenTypes /\ Final \in SUBSET Arrays
  BY SomeTokens, ReadsEnd
<1>2. TableNames = One(name, Final \cup D)
  BY TableNamesPut
<1> HIDE DEF name, dot
<1>3. N \in SUBSET Arrays
  BY <1>1, ReadOne
<1>4. D \in SUBSET Arrays /\ Then(N, K) = One(name, Then(Final, K))
  BY <1>1, <1>3, ReadOne, ThenOne
<1> HIDE DEF N
<1>5. Then(D, K) = One(dot, Then(N, K)) /\ Then(Final, K) = K
  BY <1>1, <1>3, ThenOne, ThenFinal
<1> HIDE DEF D
<1>6. Final \cup D \in SUBSET Arrays
  BY <1>1, <1>4
<1>7. Then(One(name, Final \cup D), K) = One(name, Then(Final \cup D, K))
  BY Zenon, <1>1, <1>6, ThenOne
<1>8. Then(Final \cup D, K) = Then(Final, K) \cup Then(D, K)
  BY ThenUnion
<1>9. Then(TableNames, K) = One(name, K \cup One(dot, One(name, K)))
  BY Zenon, <1>2, <1>4, <1>5, <1>7, <1>8
<1> QED
  BY <1>9 DEF name, dot

LEMMA ThenOf ==
    ASSUME NEW u \in TokenTypes, NEW A \in SUBSET Arrays, NEW K \in SUBSET Arrays
    PROVE  Then(One({u}, A), K) = One({u}, Then(A, K))
<1>1. {u} \in SUBSET TokenTypes
  OBVIOUS
<1> QED
  BY Zenon, <1>1, ThenOne

LEMMA OneBefore ==
    ASSUME NEW S \in SUBSET TokenTypes, NEW A \in SUBSET Arrays, NEW K \in SUBSET Arrays,
           NEW B, Then(A, K) = B
    PROVE  One(S, A) \in SUBSET Arrays /\ Then(One(S, A), K) = One(S, B)
<1>1. One(S, A) \in SUBSET Arrays
  BY ReadOne
<1>2. Then(One(S, A), K) = One(S, Then(A, K))
  BY ThenOne
<1> QED
  BY <1>1, <1>2

(* The conditions and what ends a statement.                                *)
LEMMA ThenConditions == Conditions \in SUBSET Arrays /\ Then(Conditions, AtSemicolon) = AtWhereColumn
<1> DEFINE V == One(Literals, Final)
           C == One(Operators, V)
           A == One({"AND"}, V)
           L == One(Literals, A)
           B == One({"BETWEEN"}, L)
           K == AtSemicolon
           OV == One(Literals, K)
           OC == One(Operators, OV)
           OA == One({"AND"}, OV)
           OL == One(Literals, OA)
           OB == One({"BETWEEN"}, OL)
<1>1. /\ K \in SUBSET Arrays /\ Final \in SUBSET Arrays
      /\ Literals \in SUBSET TokenTypes /\ Operators \in SUBSET TokenTypes
      /\ {"AND"} \in SUBSET TokenTypes /\ {"BETWEEN"} \in SUBSET TokenTypes
      /\ {"IDENTIFIER"} \in SUBSET TokenTypes
  BY SomeTokens, ReadsEnd, ReadsSemicolon
<1>2. Then(Final, K) = K
  BY <1>1, ThenFinal
<1>7. /\ Compared = One({"IDENTIFIER"}, C) /\ Bounded = One({"IDENTIFIER"}, B)
      /\ AtComparison = OC \cup OB /\ AtWhereColumn = One({"IDENTIFIER"}, AtComparison)
  BY DEF Compared, Bounded, AtWhereColumn, AtComparison, AtOperand, AtLower, AtAnd
<1> HIDE DEF K
<1>3. V \in SUBSET Arrays /\ Then(V, K) = OV
  BY <1>1, <1>2, OneBefore
<1> HIDE DEF V, OV
<1>4. C \in SUBSET Arrays /\ Then(C, K) = OC
  BY <1>1, <1>3, OneBefore
<1>5. A \in SUBSET Arrays /\ Then(A, K) = OA
  BY <1>1, <1>3, OneBefore
<1> HIDE DEF A, OA, C, OC
<1>6. L \in SUBSET Arrays /\ Then(L, K) = OL
  BY <1>1, <1>5, OneBefore
<1> HIDE DEF L, OL
<1>8. B \in SUBSET Arrays /\ Then(B, K) = OB
  BY <1>1, <1>6, OneBefore
<1> HIDE DEF B, OB
<1>9. Compared \in SUBSET Arrays /\ Then(Compared, K) = One({"IDENTIFIER"}, OC)
  <2>1. One({"IDENTIFIER"}, C) \in SUBSET Arrays /\ Then(One({"IDENTIFIER"}, C), K) = One({"IDENTIFIER"}, OC)
    BY <1>1, <1>4, OneBefore
  <2> QED
    BY Zenon, <1>7, <2>1
<1>10. Bounded \in SUBSET Arrays /\ Then(Bounded, K) = One({"IDENTIFIER"}, OB)
  <2>1. One({"IDENTIFIER"}, B) \in SUBSET Arrays /\ Then(One({"IDENTIFIER"}, B), K) = One({"IDENTIFIER"}, OB)
    BY <1>1, <1>8, OneBefore
  <2> QED
    BY Zenon, <1>7, <2>1
<1>11. Then(Conditions, K) = Then(Compared, K) \cup Then(Bounded, K)
  BY ConditionsPut, ThenUnion
<1>12. One({"IDENTIFIER"}, OC \cup OB) = One({"IDENTIFIER"}, OC) \cup One({"IDENTIFIER"}, OB)
  BY OneUnion
<1>13. Conditions \in SUBSET Arrays
  BY <1>9, <1>10, ConditionsPut
<1>14. Then(Conditions, K) = AtWhereColumn
  BY Zenon, <1>7, <1>9, <1>10, <1>11, <1>12
<1> QED
  BY <1>13, <1>14 DEF K

LEMMA ArraysOfPieces ==
    /\ TableNames \in SUBSET Arrays
    /\ {<<"INSERT", "INTO">>} \in SUBSET Arrays /\ {<<"*">>} \in SUBSET Arrays
<1>1. TableNames \in SUBSET Arrays
  BY DEF TableNames, Arrays, TokenTypes, Keywords
<1>2. {<<"INSERT", "INTO">>} \in SUBSET Arrays /\ {<<"*">>} \in SUBSET Arrays
  BY DEF Arrays, TokenTypes, Keywords
<1> QED
  BY Zenon, <1>1, <1>2

(* What may follow the table of a SELECT.                                   *)
LEMMA ThenWhere ==
    Then({<< >>} \cup {<<"WHERE">> \o c : c \in Conditions}, Endings) = AtWhere
<1> DEFINE W == {<<"WHERE">> \o c : c \in Conditions}
<1>1. W = One({"WHERE"}, Conditions)
  <2>1. \A x : x \in W <=> \E c \in Conditions : x = Put("WHERE", c)
    BY DEF Put
  <2>2. \A x : x \in One({"WHERE"}, Conditions) <=> \E c \in Conditions : x = Put("WHERE", c)
    BY InOneType
  <2> HIDE DEF W
  <2> QED
    BY Zenon, <2>1, <2>2
<1> HIDE DEF W
<1>2. Then(W, AtSemicolon) = One({"WHERE"}, Then(Conditions, AtSemicolon))
  <2>1. Then(One({"WHERE"}, Conditions), AtSemicolon) = One({"WHERE"}, Then(Conditions, AtSemicolon))
    <3>1. /\ "WHERE" \in TokenTypes /\ Conditions \in SUBSET Arrays /\ AtSemicolon \in SUBSET Arrays
      BY SomeTokens, ThenConditions, ReadsSemicolon
    <3> QED
      BY <3>1, ThenOf
  <2> QED
    BY Zenon, <1>1, <2>1
<1>3. Then(Final \cup W, AtSemicolon) = Then(Final, AtSemicolon) \cup Then(W, AtSemicolon)
  BY ThenUnion
<1>4. Then(Final, AtSemicolon) = AtSemicolon
  BY Zenon, ReadsSemicolon, ThenFinal
<1>5. Then(Final \cup W, AtSemicolon) = AtWhere
  BY Zenon, <1>2, <1>3, <1>4, ThenConditions DEF AtWhere
<1> QED
  BY Zenon, <1>5, EndingsPut DEF W, Final

(* An INSERT whose values, and a SELECT whose columns, are among those of a *)
(* set.                                                                     *)
InsertsOf(V) ==
    One({"INSERT"}, One({"INTO"}, Then(TableNames, One({"VALUES"}, One({"("}, Then(V, AtRightParen))))))
SelectsOf(C) == One({"SELECT"}, Then(C \cup {<<"*">>}, AtFrom))

ValueLists(V) == {<<"VALUES", "(">> \o l \o <<")">> : l \in V}
ColumnLists(C) == {<<"SELECT">> \o l \o <<"FROM">> : l \in C}

LEMMA ValueListsPut ==
    ASSUME NEW V \in SUBSET Arrays
    PROVE  ValueLists(V) = One({"VALUES"}, One({"("}, Then(V, One({")"}, Final))))
<1> DEFINE R == One({")"}, Final)
           E == <<")">>
           P == <<"(">>
<1>0. /\ "VALUES" \in TokenTypes /\ "(" \in TokenTypes /\ ")" \in TokenTypes
      /\ E \in Arrays /\ R = {E} /\ P = Put("(", << >>) /\ P \in Arrays
      /\ <<"VALUES", "(">> = Put("VALUES", P) /\ << >> \in Arrays
  <2>1. /\ "VALUES" \in TokenTypes /\ "(" \in TokenTypes /\ ")" \in TokenTypes /\ << >> \in Arrays
    <3>1. << >> \in Arrays
      BY EmptySeq DEF Arrays
    <3> QED
      BY Zenon, <3>1, SomeTokens
  <2>2. P = Put("(", << >>) /\ P \in Arrays
    BY <2>1, TupleOfOne
  <2>3. E \in Arrays
    BY <2>1, TupleOfOne
  <2>4. R = {E}
    BY <2>1, LastOf
  <2>5. <<"VALUES", "(">> = Put("VALUES", P)
    BY <2>1, TupleOfTwo
  <2> QED
    BY Zenon, <2>1, <2>2, <2>3, <2>4, <2>5
<1> HIDE DEF R, E, P
<1>1. ASSUME NEW l \in V
      PROVE  (<<"VALUES", "(">> \o l) \o E = Put("VALUES", Put("(", Joined(l, E)))
  <2>1. (<<"VALUES", "(">> \o l) \o E = Joined(Joined(Put("VALUES", P), l), E)
    BY <1>0 DEF Joined
  <2>2. l \in Arrays /\ Joined(l, E) \in Arrays
    BY <1>0, JoinedTwo
  <2>3. Joined(Put("VALUES", P), l) = Put("VALUES", Joined(P, l))
    BY <1>0, <2>2, JoinedTwo
  <2>4. Joined(P, l) = Put("(", Joined(<< >>, l)) /\ Joined(<< >>, l) = l
    BY <1>0, <2>2, JoinedTwo
  <2>5. Put("(", l) \in Arrays
    BY <1>0, <2>2, FirstAdded
  <2>6. Joined(Put("VALUES", Put("(", l)), E) = Put("VALUES", Joined(Put("(", l), E))
    BY <1>0, <2>5, JoinedTwo
  <2>7. Joined(Put("(", l), E) = Put("(", Joined(l, E))
    BY <1>0, <2>2, JoinedTwo
  <2> QED
    BY Zenon, <2>1, <2>3, <2>4, <2>6, <2>7
<1>2. \A x : x \in ValueLists(V) <=> \E l \in V : x = (<<"VALUES", "(">> \o l) \o E
  BY DEF ValueLists, E
<1>3. ASSUME NEW x \in ValueLists(V) PROVE x \in One({"VALUES"}, One({"("}, Then(V, R)))
  <2>0. PICK l \in V : x = (<<"VALUES", "(">> \o l) \o E
    BY <1>2, <1>3
  <2>1. x = Put("VALUES", Put("(", Joined(l, E)))
    BY Zenon, <1>1, <2>0
  <2>2. Joined(l, E) \in Then(V, R)
    BY <1>0, InThen
  <2>3. Put("(", Joined(l, E)) \in One({"("}, Then(V, R))
    BY <2>2, InOneType
  <2> QED
    BY <2>1, <2>3, InOneType
<1>4. ASSUME NEW x \in One({"VALUES"}, One({"("}, Then(V, R))) PROVE x \in ValueLists(V)
  <2>1. PICK y \in One({"("}, Then(V, R)) : x = Put("VALUES", y)
    BY <1>4, InOneType
  <2>2. PICK z \in Then(V, R) : y = Put("(", z)
    BY <2>1, InOneType
  <2>3. PICK l \in V : z = Joined(l, E)
    BY <1>0, <2>2, InThen
  <2> QED
    BY Zenon, <1>1, <1>2, <2>1, <2>2, <2>3
<1>5. ValueLists(V) = One({"VALUES"}, One({"("}, Then(V, R)))
  BY Zenon, <1>3, <1>4
<1> QED
  BY <1>5 DEF R

LEMMA ColumnListsPut ==
    ASSUME NEW C \in SUBSET Arrays
    PROVE  ColumnLists(C) = One({"SELECT"}, Then(C, One({"FROM"}, Final)))
<1> DEFINE R == One({"FROM"}, Final)
           E == <<"FROM">>
           P == <<"SELECT">>
<1>0. /\ "SELECT" \in TokenTypes /\ "FROM" \in TokenTypes
      /\ E \in Arrays /\ R = {E} /\ P = Put("SELECT", << >>) /\ << >> \in Arrays
  <2>1. "SELECT" \in TokenTypes /\ "FROM" \in TokenTypes /\ << >> \in Arrays
    <3>1. << >> \in Arrays
      BY EmptySeq DEF Arrays
    <3> QED
      BY Zenon, <3>1, SomeTokens
  <2>2. P = Put("SELECT", << >>)
    BY <2>1, TupleOfOne
  <2>3. E \in Arrays
    BY <2>1, TupleOfOne
  <2>4. R = {E}
    BY <2>1, LastOf
  <2> QED
    BY Zenon, <2>1, <2>2, <2>3, <2>4
<1> HIDE DEF R, E, P
<1>1. ASSUME NEW l \in C PROVE (P \o l) \o E = Put("SELECT", Joined(l, E))
  <2>1. (P \o l) \o E = Joined(Joined(P, l), E)
    BY DEF Joined
  <2>2. l \in Arrays
    BY <1>0
  <2>3. Joined(P, l) = Put("SELECT", Joined(<< >>, l)) /\ Joined(<< >>, l) = l
    BY <1>0, <2>2, JoinedTwo
  <2>4. Joined(Put("SELECT", l), E) = Put("SELECT", Joined(l, E))
    BY <1>0, <2>2, JoinedTwo
  <2> QED
    BY Zenon, <2>1, <2>3, <2>4
<1>2. \A x : x \in ColumnLists(C) <=> \E l \in C : x = (P \o l) \o E
  BY DEF ColumnLists, E, P
<1>3. ASSUME NEW x \in ColumnLists(C) PROVE x \in One({"SELECT"}, Then(C, R))
  <2>0. PICK l \in C : x = (P \o l) \o E
    BY <1>2, <1>3
  <2>1. x = Put("SELECT", Joined(l, E))
    BY Zenon, <1>1, <2>0
  <2>2. Joined(l, E) \in Then(C, R)
    BY <1>0, InThen
  <2> QED
    BY <2>1, <2>2, InOneType
<1>4. ASSUME NEW x \in One({"SELECT"}, Then(C, R)) PROVE x \in ColumnLists(C)
  <2>1. PICK z \in Then(C, R) : x = Put("SELECT", z)
    BY <1>4, InOneType
  <2>2. PICK l \in C : z = Joined(l, E)
    BY <1>0, <2>1, InThen
  <2> QED
    BY Zenon, <1>1, <1>2, <2>1, <2>2
<1>5. ColumnLists(C) = One({"SELECT"}, Then(C, R))
  BY Zenon, <1>3, <1>4
<1> QED
  BY <1>5 DEF R

LEMMA ThenIsArrays ==
    ASSUME NEW A \in SUBSET Arrays, NEW B \in SUBSET Arrays
    PROVE  Then(A, B) \in SUBSET Arrays
BY ThenIsLanguage

LEMMA InsertsPut ==
    ASSUME NEW V \in SUBSET Arrays
    PROVE  Then(Then({<<"INSERT", "INTO">>}, TableNames), Then(ValueLists(V), Endings)) = InsertsOf(V)
<1> DEFINE ins == {"INSERT"}
           into == {"INTO"}
           vals == {"VALUES"}
           left == {"("}
           right == {")"}
           K == AtSemicolon
           R == One(right, Final)
           VR == Then(V, R)
           LR == One(left, VR)
           I == One(into, Final)
           T == TableNames
           W == ValueLists(V)
<1>1. /\ ins \in SUBSET TokenTypes /\ into \in SUBSET TokenTypes /\ vals \in SUBSET TokenTypes
      /\ left \in SUBSET TokenTypes /\ right \in SUBSET TokenTypes
      /\ K \in SUBSET Arrays /\ Final \in SUBSET Arrays /\ T \in SUBSET Arrays
  <2>1. K \in SUBSET Arrays /\ Final \in SUBSET Arrays /\ T \in SUBSET Arrays
    BY Zenon, ReadsEnd, ReadsSemicolon, ArraysOfPieces
  <2>2. /\ ins \in SUBSET TokenTypes /\ into \in SUBSET TokenTypes /\ vals \in SUBSET TokenTypes
        /\ left \in SUBSET TokenTypes /\ right \in SUBSET TokenTypes
    BY SomeTokens
  <2> QED
    BY Zenon, <2>1, <2>2
<1>2. /\ {<<"INSERT", "INTO">>} = One(ins, I) /\ W = One(vals, LR) /\ Endings = K
      /\ AtRightParen = One(right, K)
      /\ InsertsOf(V) = One(ins, One(into, Then(T, One(vals, One(left, Then(V, One(right, K)))))))
  BY InsertIntoPut, ValueListsPut, EndingsPut DEF AtRightParen, InsertsOf
<1> HIDE DEF ins, into, vals, left, right, K, T, W
<1>3. Then(Final, K) = K
  BY <1>1, ThenFinal
<1>4. R \in SUBSET Arrays /\ Then(R, K) = One(right, K)
  <2>1. R \in SUBSET Arrays
    BY <1>1, ReadOne
  <2>2. Then(R, K) = One(right, Then(Final, K))
    BY <1>1, ThenOne
  <2> QED
    BY Zenon, <1>3, <2>1, <2>2
<1> HIDE DEF R
<1>5. VR \in SUBSET Arrays /\ Then(VR, K) = Then(V, Then(R, K))
  <2>1. VR \in SUBSET Arrays
    BY <1>4, ThenIsArrays
  <2>2. Then(VR, K) = Then(V, Then(R, K))
    BY <1>1, <1>4, ThenThen
  <2> QED
    BY <2>1, <2>2
<1> HIDE DEF VR
<1>6. LR \in SUBSET Arrays /\ Then(LR, K) = One(left, Then(VR, K))
  BY <1>1, <1>5, OneBefore
<1> HIDE DEF LR
<1>7. One(vals, LR) \in SUBSET Arrays /\ Then(One(vals, LR), K) = One(vals, Then(LR, K))
  BY <1>1, <1>6, OneBefore
<1> DEFINE WK == Then(W, K)
<1>8. W \in SUBSET Arrays /\ WK = One(vals, One(left, Then(V, One(right, K))))
  BY Zenon, <1>2, <1>4, <1>5, <1>6, <1>7
<1>9. WK \in SUBSET Arrays
  BY <1>1, <1>8, ThenIsArrays
<1> HIDE DEF WK
<1> DEFINE TW == Then(T, WK)
<1>10. TW \in SUBSET Arrays
  BY <1>1, <1>9, ThenIsArrays
<1>11. I \in SUBSET Arrays
  BY <1>1, ReadOne
<1>12. Then(I, TW) = One(into, Then(Final, TW))
  BY <1>1, <1>10, ThenOne
<1>13. Then(Final, TW) = TW
  BY <1>10, ThenFinal
<1> HIDE DEF I
<1>14. Then(One(ins, I), TW) = One(ins, Then(I, TW))
  BY <1>1, <1>10, <1>11, ThenOne
<1>15. One(ins, I) \in SUBSET Arrays
  BY <1>1, <1>11, ReadOne
<1>16. Then(Then(One(ins, I), T), WK) = Then(One(ins, I), TW)
  <2> DEFINE J == One(ins, I)
  <2> HIDE DEF J
  <2>1. J \in SUBSET Arrays
    BY <1>15 DEF J
  <2>2. Then(Then(J, T), WK) = Then(J, Then(T, WK))
    BY <1>1, <1>9, <2>1, ThenThen
  <2> QED
    BY <2>2 DEF J
<1>17. Then(Then(One(ins, I), T), WK) = InsertsOf(V)
  BY Zenon, <1>2, <1>8, <1>12, <1>13, <1>14, <1>16
<1> QED
  BY <1>2, <1>17 DEF T, W, WK

LEMMA SelectsPut ==
    ASSUME NEW C \in SUBSET Arrays
    PROVE  Then(ColumnLists(C),
                Then(TableNames, Then({<< >>} \cup {<<"WHERE">> \o c : c \in Conditions}, Endings)))
             = One({"SELECT"}, Then(C, AtFrom))
<1> DEFINE sel == {"SELECT"}
           from == {"FROM"}
           F == One(from, Final)
           CF == Then(C, F)
           K == Then(TableNames, AtWhere)
<1>1. /\ sel \in SUBSET TokenTypes /\ from \in SUBSET TokenTypes
      /\ AtWhere \in SUBSET Arrays /\ Final \in SUBSET Arrays /\ TableNames \in SUBSET Arrays
  <2>1. AtWhere \in SUBSET Arrays /\ Final \in SUBSET Arrays /\ TableNames \in SUBSET Arrays
    BY Zenon, ReadsEnd, ReadsWhere, ArraysOfPieces
  <2>2. sel \in SUBSET TokenTypes /\ from \in SUBSET TokenTypes
    BY SomeTokens
  <2> QED
    BY Zenon, <2>1, <2>2
<1>2. ColumnLists(C) = One(sel, CF)
  BY ColumnListsPut
<1>3. AtFrom = One(from, K)
  <2>1. K = One({"IDENTIFIER"}, AtWhere \cup One({"."}, One({"IDENTIFIER"}, AtWhere)))
    BY <1>1, ThenTables
  <2>2. AfterTable("SELECT") = AtWhere
    BY DEF AfterTable
  <2> QED
    BY Zenon, <2>1, <2>2 DEF AtFrom, AtTable, AtDot, AtQualified
<1>4. K \in SUBSET Arrays
  BY <1>1, ThenIsArrays
<1> HIDE DEF sel, from, K
<1>5. Then(Final, K) = K
  BY <1>4, ThenFinal
<1>6. F \in SUBSET Arrays /\ Then(F, K) = One(from, K)
  <2>1. F \in SUBSET Arrays
    BY <1>1, ReadOne
  <2>2. Then(F, K) = One(from, Then(Final, K))
    BY <1>1, <1>4, ThenOne
  <2> QED
    BY Zenon, <1>5, <2>1, <2>2
<1> HIDE DEF F
<1>7. CF \in SUBSET Arrays
  BY <1>6, ThenIsArrays
<1>8. Then(CF, K) = Then(C, Then(F, K))
  BY <1>4, <1>6, ThenThen
<1> HIDE DEF CF
<1>9. Then(One(sel, CF), K) = One(sel, Then(CF, K))
  BY <1>1, <1>4, <1>7, ThenOne
<1>10. Then(ColumnLists(C), K) = One(sel, Then(C, AtFrom))
  BY Zenon, <1>2, <1>3, <1>6, <1>8, <1>9
<1> QED
  BY <1>10, ThenWhere DEF K, sel

LEMMA SentencesPut ==
    ASSUME ListsOf(Literals) \in SUBSET Arrays, ListsOf({"IDENTIFIER"}) \in SUBSET Arrays
    PROVE  Sentences = InsertsOf(ListsOf(Literals)) \cup SelectsOf(ListsOf({"IDENTIFIER"}))
<1>1. Inserts = InsertsOf(ListsOf(Literals))
  <2>1. Inserts = Then(Then({<<"INSERT", "INTO">>}, TableNames), Then(ValueLists(ListsOf(Literals)), Endings))
    BY DEF Inserts, ValueLists
  <2> QED
    BY <2>1, InsertsPut
<1>2. Selects = SelectsOf(ListsOf({"IDENTIFIER"}))
  <2> DEFINE C == ListsOf({"IDENTIFIER"}) \cup {<<"*">>}
  <2>1. C \in SUBSET Arrays
    BY ArraysOfPieces
  <2>2. Selects = Then(ColumnLists(C),
                    Then(TableNames, Then({<< >>} \cup {<<"WHERE">> \o c : c \in Conditions}, Endings)))
    BY DEF Selects, ColumnLists
  <2>3. SelectsOf(ListsOf({"IDENTIFIER"})) = One({"SELECT"}, Then(C, AtFrom))
    BY DEF SelectsOf
  <2> HIDE DEF C
  <2> QED
    BY <2>1, <2>2, <2>3, SelectsPut
<1> QED
  BY <1>1, <1>2 DEF Sentences

LEMMA StartPut ==
    AtStart = InsertsOf(Lists(Literals)) \cup SelectsOf(Lists({"IDENTIFIER"}))
<1>1. AtInto = One({"INTO"}, Then(TableNames, AtValues))
  <2>1. Then(TableNames, AtValues) = One({"IDENTIFIER"}, AtValues \cup One({"."}, One({"IDENTIFIER"}, AtValues)))
    BY ReadsValues, ThenTables
  <2>2. AfterTable("INSERT") = AtValues
    BY DEF AfterTable
  <2> QED
    BY Zenon, <2>1, <2>2 DEF AtInto, AtTable, AtDot, AtQualified
<1>2. One({"INSERT"}, AtInto) = InsertsOf(Lists(Literals))
  BY Zenon, <1>1 DEF AtValues, AtLeftParen, AtValue, InsertsOf
<1>3. AtStar = Then(Lists({"IDENTIFIER"}) \cup {<<"*">>}, AtFrom)
  <2> DEFINE L == Lists({"IDENTIFIER"})
             star == {"*"}
  <2>1. star \in SUBSET TokenTypes /\ Final \in SUBSET Arrays /\ AtFrom \in SUBSET Arrays
    BY SomeTokens, ReadsEnd, ReadsColumns
  <2>2. {<<"*">>} = One(star, Final)
    BY SomeTokens, LastOf
  <2>3. AtStar = Then(L, AtFrom) \cup One(star, AtFrom)
    BY DEF AtStar, AtColumn
  <2> HIDE DEF L, star
  <2>4. Then(Final, AtFrom) = AtFrom
    BY <2>1, ThenFinal
  <2>5. Then(One(star, Final), AtFrom) = One(star, AtFrom)
    BY <2>1, <2>4, OneBefore
  <2> DEFINE X == One(star, Final)
  <2>6. Then(L \cup X, AtFrom) = Then(L, AtFrom) \cup Then(X, AtFrom)
    <3> HIDE DEF X
    <3> QED
      BY ThenUnion
  <2>7. AtStar = Then(L \cup One(star, Final), AtFrom)
    BY Zenon, <2>3, <2>5, <2>6
  <2> QED
    BY <2>2, <2>7 DEF L
<1>4. One({"SELECT"}, AtStar) = SelectsOf(Lists({"IDENTIFIER"}))
  BY <1>3 DEF SelectsOf
<1> QED
  BY <1>2, <1>4 DEF AtStart

(* What holds of the arrays of up to n tokens of two languages holds of     *)
(* what is built from them.                                                 *)
UpTo(A, B, n) == \A x \in A : Len(x) <= n => x \in B

LEMMA OneUpTo ==
    ASSUME NEW S \in SUBSET TokenTypes, NEW A \in SUBSET Arrays, NEW B, NEW n \in Nat, UpTo(A, B, n)
    PROVE  UpTo(One(S, A), One(S, B), n)
<1>1. ASSUME NEW x \in One(S, A), Len(x) <= n PROVE x \in One(S, B)
  <2>1. PICK t \in S, r \in A : x = Put(t, r)
    BY InOne
  <2>2. Len(x) = Len(r) + 1 /\ Len(r) \in Nat
    BY <2>1, FirstAdded
  <2>3. Len(r) <= n
    BY <1>1, <2>2
  <2>4. r \in B
    BY <2>3 DEF UpTo
  <2> QED
    BY <2>1, <2>4, InOne
<1> QED
  BY <1>1 DEF UpTo

LEMMA ThenUpTo ==
    ASSUME NEW A \in SUBSET Arrays, NEW B, NEW K \in SUBSET Arrays, NEW L, NEW n \in Nat,
           UpTo(A, B, n), UpTo(K, L, n)
    PROVE  UpTo(Then(A, K), Then(B, L), n)
<1>1. ASSUME NEW x \in Then(A, K), Len(x) <= n PROVE x \in Then(B, L)
  <2>1. PICK a \in A, k \in K : x = Joined(a, k)
    BY InThen
  <2>2. Len(x) = Len(a) + Len(k) /\ Len(a) \in Nat /\ Len(k) \in Nat
    <3>1. a \in Seq(TokenTypes) /\ k \in Seq(TokenTypes)
      BY DEF Arrays
    <3>2. Len(a \o k) = Len(a) + Len(k)
      BY <3>1, ConcatProperties
    <3> QED
      BY <2>1, <3>1, <3>2, LenProperties DEF Joined
  <2>3. Len(a) <= n /\ Len(k) <= n
    BY <1>1, <2>2
  <2>4. a \in B /\ k \in L
    BY <2>3 DEF UpTo
  <2> QED
    BY <2>1, <2>4, InThen
<1> QED
  BY <1>1 DEF UpTo

LEMMA UpToItself == \A A, n : UpTo(A, A, n)
BY DEF UpTo

LEMMA InsertsUpTo ==
    ASSUME NEW V \in SUBSET Arrays, NEW W \in SUBSET Arrays, NEW n \in Nat, UpTo(V, W, n)
    PROVE  InsertsOf(V) \in SUBSET Arrays /\ UpTo(InsertsOf(V), InsertsOf(W), n)
<1> DEFINE ins == {"INSERT"}
           into == {"INTO"}
           vals == {"VALUES"}
           left == {"("}
           K == AtRightParen
           T == TableNames
           V1 == Then(V, K)
           W1 == Then(W, K)
           V2 == One(left, V1)
           W2 == One(left, W1)
           V3 == One(vals, V2)
           W3 == One(vals, W2)
           V4 == Then(T, V3)
           W4 == Then(T, W3)
           V5 == One(into, V4)
           W5 == One(into, W4)
<1>1. /\ ins \in SUBSET TokenTypes /\ into \in SUBSET TokenTypes
      /\ vals \in SUBSET TokenTypes /\ left \in SUBSET TokenTypes
  BY SomeTokens
<1>2. K \in SUBSET Arrays /\ T \in SUBSET Arrays
  BY Zenon, ReadsValues, ArraysOfPieces
<1>3. InsertsOf(V) = One(ins, V5) /\ InsertsOf(W) = One(ins, W5)
  BY DEF InsertsOf
<1>4. UpTo(K, K, n) /\ UpTo(T, T, n)
  BY UpToItself
<1> HIDE DEF ins, into, vals, left, K, T
<1>5. V1 \in SUBSET Arrays /\ UpTo(V1, W1, n)
  BY <1>2, <1>4, ThenIsArrays, ThenUpTo
<1> HIDE DEF V1, W1
<1>6. V2 \in SUBSET Arrays /\ UpTo(V2, W2, n)
  BY <1>1, <1>5, ReadOne, OneUpTo
<1> HIDE DEF V2, W2
<1>7. V3 \in SUBSET Arrays /\ UpTo(V3, W3, n)
  BY <1>1, <1>6, ReadOne, OneUpTo
<1> HIDE DEF V3, W3
<1>8. V4 \in SUBSET Arrays /\ UpTo(V4, W4, n)
  BY <1>2, <1>4, <1>7, ThenIsArrays, ThenUpTo
<1> HIDE DEF V4, W4
<1>9. V5 \in SUBSET Arrays /\ UpTo(V5, W5, n)
  BY <1>1, <1>8, ReadOne, OneUpTo
<1> HIDE DEF V5, W5
<1>10. One(ins, V5) \in SUBSET Arrays /\ UpTo(One(ins, V5), One(ins, W5), n)
  BY <1>1, <1>9, ReadOne, OneUpTo
<1> QED
  BY Zenon, <1>3, <1>10

LEMMA SelectsUpTo ==
    ASSUME NEW V \in SUBSET Arrays, NEW W \in SUBSET Arrays, NEW n \in Nat, UpTo(V, W, n)
    PROVE  SelectsOf(V) \in SUBSET Arrays /\ UpTo(SelectsOf(V), SelectsOf(W), n)
<1> DEFINE sel == {"SELECT"}
           star == {<<"*">>}
           V0 == V \cup star
           W0 == W \cup star
           V1 == Then(V0, AtFrom)
           W1 == Then(W0, AtFrom)
<1>1. sel \in SUBSET TokenTypes
  BY SomeTokens
<1>2. AtFrom \in SUBSET Arrays /\ star \in SUBSET Arrays
  BY Zenon, ReadsColumns, ArraysOfPieces
<1>3. SelectsOf(V) = One(sel, V1) /\ SelectsOf(W) = One(sel, W1)
  BY DEF SelectsOf
<1>4. UpTo(AtFrom, AtFrom, n)
  BY UpToItself
<1> HIDE DEF sel, star
<1>5. V0 \in SUBSET Arrays /\ UpTo(V0, W0, n)
  BY <1>2 DEF UpTo
<1> HIDE DEF V0, W0
<1>6. V1 \in SUBSET Arrays /\ UpTo(V1, W1, n)
  BY <1>2, <1>4, <1>5, ThenIsArrays, ThenUpTo
<1> HIDE DEF V1, W1
<1>7. One(sel, V1) \in SUBSET Arrays /\ UpTo(One(sel, V1), One(sel, W1), n)
  BY <1>1, <1>6, ReadOne, OneUpTo
<1> QED
  BY Zenon, <1>3, <1>7

(* The lists, by their number of items.                                     *)
WithItem(l, s) == l \o <<",", s>>
Longer(L, S) == {WithItem(l, s) : l \in L, s \in S}
Items(f, n, S) == IF n = 1 THEN {<<s>> : s \in S} ELSE Longer(f[n - 1], S)
OfItems(n, S) == {l \in Lists(S) : Len(l) = 2 * n - 1}

ItemAt(x, i, S) == IF i % 2 = 1 THEN x[i] \in S ELSE x[i] = ","

LEMMA InListOf ==
    ASSUME NEW S, NEW x
    PROVE  x \in Lists(S) <=> x \in Arrays /\ Len(x) % 2 = 1 /\ \A i \in 1..Len(x) : ItemAt(x, i, S)
BY Zenon DEF Lists, ItemAt

LEMMA ParityOfTwo ==
    ASSUME NEW n \in Nat, n % 2 = 1
    PROVE  (n + 1) % 2 = 0 /\ (n + 2) % 2 = 1
OBVIOUS

LEMMA CommaAndItem ==
    ASSUME NEW S \in SUBSET TokenTypes, NEW s \in S
    PROVE  <<",", s>> \in Seq(TokenTypes) /\ Len(<<",", s>>) = 2 /\ <<",", s>>[1] = "," /\ <<",", s>>[2] = s
<1> DEFINE c == ","
<1>1. c \in TokenTypes
  BY DEF TokenTypes
<1>2. s \in TokenTypes
  OBVIOUS
<1>3. <<c, s>> \in Seq(TokenTypes) /\ Len(<<c, s>>) = 2 /\ <<c, s>>[1] = c /\ <<c, s>>[2] = s
  <2> HIDE DEF c
  <2> QED
    BY ONLY <1>1, <1>2
<1> QED
  BY <1>3

LEMMA TwoAdded ==
    ASSUME NEW a \in Seq(TokenTypes), NEW b \in Seq(TokenTypes), Len(b) = 2
    PROVE  /\ Len(a) \in Nat /\ a \o b \in Seq(TokenTypes) /\ Len(a \o b) = Len(a) + 2
           /\ \A i \in 1 .. Len(a) : (a \o b)[i] = a[i]
           /\ (a \o b)[Len(a) + 1] = b[1] /\ (a \o b)[Len(a) + 2] = b[2]
<1>1. Len(a) \in Nat
  BY LenProperties
<1>2. /\ a \o b \in Seq(TokenTypes) /\ Len(a \o b) = Len(a) + Len(b)
      /\ \A i \in 1 .. Len(a) + Len(b) : (a \o b)[i] = IF i <= Len(a) THEN a[i] ELSE b[i - Len(a)]
  BY ConcatProperties
<1> QED
  BY <1>1, <1>2

LEMMA LongerList ==
    ASSUME NEW S \in SUBSET TokenTypes, NEW l \in Lists(S), NEW s \in S
    PROVE  WithItem(l, s) \in Lists(S) /\ Len(WithItem(l, s)) = Len(l) + 2
<1> DEFINE e == <<",", s>>
           x == l \o e
<1>1. l \in Seq(TokenTypes)
  BY InListOf DEF Arrays
<1>2. Len(l) \in Nat
  BY <1>1, LenProperties
<1>3. Len(l) % 2 = 1 /\ \A i \in 1 .. Len(l) : ItemAt(l, i, S)
  BY Zenon, InListOf
<1>4. e \in Seq(TokenTypes) /\ Len(e) = 2 /\ e[1] = "," /\ e[2] = s
  BY CommaAndItem
<1> HIDE DEF e
<1>5. /\ x \in Seq(TokenTypes) /\ Len(x) = Len(l) + 2
      /\ \A i \in 1 .. Len(l) : x[i] = l[i]
      /\ x[Len(l) + 1] = e[1] /\ x[Len(l) + 2] = e[2]
  BY <1>1, <1>4, TwoAdded
<1> HIDE DEF x
<1>6. ASSUME NEW i \in 1 .. Len(l) PROVE ItemAt(x, i, S)
  <2>1. x[i] = l[i]
    BY <1>2, <1>5
  <2> QED
    BY Zenon, <1>3, <2>1 DEF ItemAt
<1>7. (Len(l) + 1) % 2 = 0 /\ (Len(l) + 2) % 2 = 1
  BY <1>2, <1>3, ParityOfTwo
<1>8. x[Len(l) + 1] = "," /\ x[Len(l) + 2] = s
  BY Zenon, <1>4, <1>5
<1>9. ItemAt(x, Len(l) + 1, S) /\ ItemAt(x, Len(l) + 2, S)
  BY <1>7, <1>8 DEF ItemAt
<1>10. \A i \in 1 .. Len(x) : ItemAt(x, i, S)
  <2>1. \A i \in 1 .. Len(x) : i \in 1 .. Len(l) \/ i = Len(l) + 1 \/ i = Len(l) + 2
    BY <1>2, <1>5
  <2> QED
    BY Zenon, <1>6, <1>9, <2>1
<1>11. x \in Lists(S)
  BY <1>5, <1>7, <1>10, InListOf DEF Arrays
<1> QED
  BY <1>5, <1>11 DEF x, e, WithItem

LEMMA ShorterList ==
    ASSUME NEW S \in SUBSET TokenTypes, NEW x \in Lists(S), NEW n \in Nat, n > 1, Len(x) = 2 * n - 1
    PROVE  \E l \in Lists(S), s \in S : Len(l) = 2 * (n - 1) - 1 /\ x = WithItem(l, s)
<1> DEFINE k == Len(x) - 2
           l == SubSeq(x, 1, k)
           s == x[Len(x)]
           e == <<",", s>>
           y == l \o e
<1>1. x \in Seq(TokenTypes)
  BY InListOf DEF Arrays
<1>2. Len(x) % 2 = 1 /\ \A i \in 1 .. Len(x) : ItemAt(x, i, S)
  BY Zenon, InListOf
<1>3. /\ Len(x) \in Nat /\ k \in Nat /\ Len(x) = k + 2 /\ k = 2 * (n - 1) - 1
      /\ k <= Len(x) /\ k + 1 \in 1 .. Len(x) /\ Len(x) \in 1 .. Len(x) /\ k % 2 = 1 /\ (k + 1) % 2 = 0
  <2>1. Len(x) \in Nat
    BY <1>1, LenProperties
  <2> DEFINE m == Len(x)
  <2>2. m \in Nat /\ m = 2 * n - 1
    BY <2>1
  <2> HIDE DEF m
  <2>3. /\ m - 2 \in Nat /\ m = m - 2 + 2 /\ m - 2 = 2 * (n - 1) - 1 /\ m - 2 <= m
        /\ m - 2 + 1 \in 1 .. m /\ m \in 1 .. m
    BY <2>2
  <2>4. (m - 2) % 2 = 1 /\ (m - 2 + 1) % 2 = 0
    BY <2>2
  <2> QED
    BY <2>1, <2>3, <2>4 DEF m
<1> HIDE DEF k
<1>4. l \in Seq(TokenTypes) /\ Len(l) = k /\ \A i \in 1 .. k : l[i] = x[i]
  BY <1>1, <1>3, SubSeqProperties
<1> HIDE DEF l
<1>5. s \in S /\ x[k + 1] = ","
  <2>1. ItemAt(x, k + 1, S) /\ ItemAt(x, Len(x), S)
    BY Zenon, <1>2, <1>3
  <2>2. Len(x) % 2 = 1 /\ (k + 1) % 2 = 0
    BY Zenon, <1>2, <1>3
  <2> QED
    <3>1. (k + 1) % 2 # 1
      BY ONLY <2>2
    <3> QED
      BY Zenon, <2>1, <2>2, <3>1 DEF ItemAt, s
<1>6. l \in Lists(S)
  <2>1. ASSUME NEW i \in 1 .. k PROVE ItemAt(l, i, S)
    <3>1. i \in 1 .. Len(x) /\ l[i] = x[i]
      BY <1>3, <1>4
    <3> QED
      BY Zenon, <1>2, <3>1 DEF ItemAt
  <2> QED
    BY <1>3, <1>4, <2>1, InListOf DEF Arrays
<1>7. e \in Seq(TokenTypes) /\ Len(e) = 2 /\ e[1] = "," /\ e[2] = s
  BY <1>5, CommaAndItem
<1> HIDE DEF e, s
<1>8. /\ y \in Seq(TokenTypes) /\ Len(y) = k + 2
      /\ \A i \in 1 .. k : y[i] = l[i]
      /\ y[k + 1] = e[1] /\ y[k + 2] = e[2]
  <2>1. /\ y \in Seq(TokenTypes) /\ Len(y) = Len(l) + 2
        /\ \A i \in 1 .. Len(l) : y[i] = l[i]
        /\ y[Len(l) + 1] = e[1] /\ y[Len(l) + 2] = e[2]
    BY <1>4, <1>7, TwoAdded
  <2> QED
    BY Zenon, <1>4, <2>1
<1> HIDE DEF y
<1>9. \A i \in 1 .. Len(x) : x[i] = y[i]
  <2>1. \A i \in 1 .. k : x[i] = y[i]
    BY <1>3, <1>4, <1>8
  <2>2. x[k + 1] = y[k + 1] /\ x[k + 2] = y[k + 2]
    <3>1. s = x[k + 2]
      BY <1>3 DEF s
    <3> QED
      BY Zenon, <1>5, <1>7, <1>8, <3>1
  <2>3. \A i \in 1 .. Len(x) : i \in 1 .. k \/ i = k + 1 \/ i = k + 2
    BY <1>3
  <2> QED
    BY Zenon, <2>1, <2>2, <2>3
<1>10. x = y
  <2>1. x \in Seq(TokenTypes) /\ y \in Seq(TokenTypes) /\ Len(x) = Len(y) /\ \A i \in 1 .. Len(x) : x[i] = y[i]
    BY <1>1, <1>3, <1>8, <1>9
  <2> QED
    BY ONLY <2>1, SeqEqual
<1>11. Len(l) = 2 * (n - 1) - 1 /\ x = WithItem(l, s)
  BY <1>3, <1>4, <1>10 DEF y, e, WithItem
<1> QED
  BY Zenon, <1>5, <1>6, <1>11

LEMMA InLonger ==
    ASSUME NEW L, NEW S, NEW x
    PROVE  x \in Longer(L, S) <=> \E l \in L, s \in S : x = WithItem(l, s)
BY DEF Longer

LEMMA OneItem ==
    ASSUME NEW S \in SUBSET TokenTypes
    PROVE  OfItems(1, S) = {<<s>> : s \in S}
<1>1. ASSUME NEW s \in S PROVE <<s>> \in OfItems(1, S)
  <2> DEFINE x == <<s>>
  <2>1. x \in Arrays /\ Len(x) = 1 /\ x[1] = s
    BY DEF Arrays
  <2> HIDE DEF x
  <2>2. 1 % 2 = 1 /\ 1 = 2 * 1 - 1
    OBVIOUS
  <2>3. ItemAt(x, 1, S)
    BY <2>1, <2>2 DEF ItemAt
  <2>4. \A i \in 1 .. Len(x) : i = 1
    BY <2>1
  <2>5. Len(x) % 2 = 1 /\ Len(x) = 2 * 1 - 1
    BY <2>1, <2>2
  <2>6. x \in Lists(S)
    BY Zenon, <2>1, <2>3, <2>4, <2>5, InListOf
  <2> QED
    BY <2>5, <2>6 DEF OfItems, x
<1>2. ASSUME NEW x \in OfItems(1, S) PROVE \E s \in S : x = <<s>>
  <2>1. x \in Lists(S) /\ Len(x) = 2 * 1 - 1
    BY DEF OfItems
  <2>2. x \in Seq(TokenTypes) /\ \A i \in 1 .. Len(x) : ItemAt(x, i, S)
    BY <2>1, InListOf DEF Arrays
  <2>3. Len(x) = 1 /\ 1 \in 1 .. Len(x) /\ 1 % 2 = 1
    BY <2>1
  <2>4. x[1] \in S
    BY Zenon, <2>2, <2>3 DEF ItemAt
  <2>5. x = <<x[1]>>
    BY <2>2, <2>3
  <2> QED
    BY Zenon, <2>4, <2>5
<1> QED
  BY <1>1, <1>2

LEMMA MoreItems ==
    ASSUME NEW S \in SUBSET TokenTypes, NEW n \in Nat, n > 1
    PROVE  OfItems(n, S) = Longer(OfItems(n - 1, S), S)
<1>1. ASSUME NEW x \in OfItems(n, S) PROVE x \in Longer(OfItems(n - 1, S), S)
  <2>1. x \in Lists(S) /\ Len(x) = 2 * n - 1
    BY DEF OfItems
  <2>2. PICK l \in Lists(S), s \in S : Len(l) = 2 * (n - 1) - 1 /\ x = WithItem(l, s)
    BY <2>1, ShorterList
  <2>3. l \in OfItems(n - 1, S)
    BY <2>2 DEF OfItems
  <2> QED
    BY <2>2, <2>3, InLonger
<1>2. ASSUME NEW x \in Longer(OfItems(n - 1, S), S) PROVE x \in OfItems(n, S)
  <2> DEFINE L == OfItems(n - 1, S)
  <2>1. PICK l \in L, s \in S : x = WithItem(l, s)
    <3>1. x \in Longer(L, S)
      BY <1>2
    <3> HIDE DEF L
    <3> QED
      BY <3>1, InLonger
  <2>2. l \in Lists(S) /\ Len(l) = 2 * (n - 1) - 1
    BY DEF OfItems
  <2>3. x \in Lists(S) /\ Len(x) = Len(l) + 2
    BY <2>1, <2>2, LongerList
  <2>4. Len(x) = 2 * n - 1
    BY <2>2, <2>3
  <2> QED
    BY <2>3, <2>4 DEF OfItems
<1> QED
  BY Zenon, <1>1, <1>2

LEMMA ItemsFound ==
    ASSUME NEW S \in SUBSET TokenTypes, NEW n \in 1 .. MaxTokens, NEW f,
           n > 1 => f[n - 1] = OfItems(n - 1, S)
    PROVE  Items(f, n, S) = OfItems(n, S)
<1>1. n \in Nat
  BY ParserBounds
<1>2. CASE n = 1
  BY <1>2, OneItem DEF Items
<1>3. CASE n # 1
  <2>1. n > 1
    BY <1>1, <1>3
  <2>2. Items(f, n, S) = Longer(f[n - 1], S)
    BY <1>3 DEF Items
  <2>3. OfItems(n, S) = Longer(OfItems(n - 1, S), S)
    BY <1>1, <2>1, MoreItems
  <2> QED
    BY Zenon, <2>1, <2>2, <2>3
<1> QED
  BY <1>2, <1>3

LEMMA ListsOfItems ==
    ASSUME NEW S \in SUBSET TokenTypes
    PROVE  ListsOf(S) = UNION {OfItems(n, S) : n \in 1 .. (1 + (MaxTokens \div 2))}
<1> DEFINE Good(f) == f = [n \in 1 .. MaxTokens |-> Items(f, n, S)]
           F == CHOOSE f : Good(f)
           g == [n \in 1 .. MaxTokens |-> OfItems(n, S)]
<1>1. MaxTokens \in Nat /\ MaxTokens >= 1
  BY ParserBounds
<1>2. Good(g)
  <2>1. ASSUME NEW n \in 1 .. MaxTokens PROVE Items(g, n, S) = OfItems(n, S)
    <3>1. n > 1 => n - 1 \in 1 .. MaxTokens
      BY <1>1
    <3>2. n > 1 => g[n - 1] = OfItems(n - 1, S)
      BY <3>1
    <3> HIDE DEF g
    <3> QED
      BY <3>2, ItemsFound
  <2>2. g = [n \in 1 .. MaxTokens |-> Items(g, n, S)]
    <3> DEFINE h == [n \in 1 .. MaxTokens |-> Items(g, n, S)]
    <3>1. \A n \in 1 .. MaxTokens : h[n] = g[n]
      BY Zenon, <2>1
    <3> QED
      BY <2>1
  <2> QED
    BY <2>2
<1>3. Good(F)
  <2> HIDE DEF Good, g
  <2> QED
    BY <1>2
<1>4. \A n \in 1 .. MaxTokens : F[n] = Items(F, n, S)
  <2> HIDE DEF F
  <2> QED
    BY <1>3
<1>5. ListsOf(S) = UNION {F[n] : n \in 1 .. (1 + (MaxTokens \div 2))}
  BY DEF ListsOf, Items, Longer, WithItem
<1> HIDE DEF F
<1> DEFINE T == {n \in 1 .. MaxTokens : F[n] # OfItems(n, S)}
<1>6. T = {}
  <2>1. SUFFICES ASSUME T # {} PROVE FALSE
    OBVIOUS
  <2>2. T \in SUBSET Nat
    BY <1>1
  <2>3. PICK m \in T : \A k \in T : m <= k
    <3> HIDE DEF T
    <3> QED
      BY <2>1, <2>2, LeastNatural
  <2>4. m \in 1 .. MaxTokens /\ F[m] # OfItems(m, S)
    OBVIOUS
  <2>5. m > 1 => m - 1 \in 1 .. MaxTokens /\ ~(m <= m - 1)
    BY <1>1, <2>4
  <2>6. m > 1 => F[m - 1] = OfItems(m - 1, S)
    <3>1. m > 1 => m - 1 \notin T
      <4> HIDE DEF T
      <4> QED
        BY Zenon, <2>3, <2>5
    <3> QED
      BY Zenon, <2>5, <3>1
  <2>7. Items(F, m, S) = OfItems(m, S)
    BY <2>4, <2>6, ItemsFound
  <2> QED
    BY Zenon, <1>4, <2>4, <2>7
<1>7. \A n \in 1 .. MaxTokens : F[n] = OfItems(n, S)
  BY <1>6
<1>8. \A n \in 1 .. (1 + (MaxTokens \div 2)) : n \in 1 .. MaxTokens
  BY <1>1
<1>9. \A n \in 1 .. (1 + (MaxTokens \div 2)) : F[n] = OfItems(n, S)
  BY Zenon, <1>7, <1>8
<1> QED
  BY Zenon, <1>5, <1>9

(* The lists that the sentences are made of are those of the parser, and    *)
(* every one of the parser's that fits an array.                            *)
LEMMA ListsOfLists ==
    ASSUME NEW S \in SUBSET TokenTypes
    PROVE  /\ ListsOf(S) \in SUBSET Lists(S)
           /\ UpTo(Lists(S), ListsOf(S), MaxTokens)
<1>1. \A x : x \in ListsOf(S) <=> \E n \in 1 .. (1 + (MaxTokens \div 2)) : x \in OfItems(n, S)
  <2>1. ListsOf(S) = UNION {OfItems(n, S) : n \in 1 .. (1 + (MaxTokens \div 2))}
    BY ListsOfItems
  <2> QED
    BY <2>1
<1>2. ListsOf(S) \in SUBSET Lists(S)
  <2>1. \A n : OfItems(n, S) \in SUBSET Lists(S)
    BY DEF OfItems
  <2> QED
    BY <1>1, <2>1
<1>3. ASSUME NEW x \in Lists(S), Len(x) <= MaxTokens PROVE x \in ListsOf(S)
  <2>1. x \in Seq(TokenTypes) /\ Len(x) % 2 = 1
    BY InListOf DEF Arrays
  <2> DEFINE k == Len(x)
             n == 1 + (k \div 2)
  <2>2. k \in Nat /\ k % 2 = 1 /\ k <= MaxTokens /\ MaxTokens \in Nat
    BY <1>3, <2>1, LenProperties, ParserBounds
  <2> HIDE DEF k
  <2>3. n \in 1 .. (1 + (MaxTokens \div 2)) /\ k = 2 * n - 1
    BY <2>2
  <2>4. x \in OfItems(n, S)
    BY <2>3 DEF OfItems, k
  <2> HIDE DEF n
  <2> QED
    BY <1>1, <2>3, <2>4
<1> QED
  BY <1>2, <1>3 DEF UpTo

(* What the parser goes through is the grammar as it is stated, up to the   *)
(* length of an array.                                                      *)
LEMMA SentencesStart ==
    /\ \A s \in Sentences : s \in AtStart
    /\ \A s \in AtStart : Len(s) <= MaxTokens => s \in Sentences
<1> DEFINE V == ListsOf(Literals)
           C == ListsOf({"IDENTIFIER"})
           VL == Lists(Literals)
           CL == Lists({"IDENTIFIER"})
<1>1. /\ V \in SUBSET VL /\ C \in SUBSET CL
      /\ UpTo(VL, V, MaxTokens) /\ UpTo(CL, C, MaxTokens)
  BY SomeTokens, ListsOfLists
<1>2. VL \in SUBSET Arrays /\ CL \in SUBSET Arrays
  BY EmptyLists
<1>3. Sentences = InsertsOf(V) \cup SelectsOf(C)
  <2>1. V \in SUBSET Arrays /\ C \in SUBSET Arrays
    BY <1>1, <1>2
  <2> QED
    BY <2>1, SentencesPut
<1>4. AtStart = InsertsOf(VL) \cup SelectsOf(CL)
  BY StartPut
<1> HIDE DEF V, C, VL, CL
<1>5. V \in SUBSET Arrays /\ C \in SUBSET Arrays
  BY <1>1, <1>2
<1>6. ASSUME NEW s \in Sentences PROVE s \in AtStart
  <2> DEFINE n == Len(s)
  <2>1. UpTo(V, VL, n) /\ UpTo(C, CL, n)
    BY <1>1 DEF UpTo
  <2>2. InsertsOf(V) \in SUBSET Arrays /\ SelectsOf(C) \in SUBSET Arrays
    <3>1. UpTo(V, V, 0) /\ UpTo(C, C, 0)
      BY UpToItself
    <3>2. InsertsOf(V) \in SUBSET Arrays
      BY <1>5, <3>1, InsertsUpTo
    <3>3. SelectsOf(C) \in SUBSET Arrays
      BY <1>5, <3>1, SelectsUpTo
    <3> QED
      BY <3>2, <3>3
  <2>3. n \in Nat /\ n <= n
    <3>1. s \in Seq(TokenTypes)
      BY <1>3, <2>2 DEF Arrays
    <3>2. n \in Nat
      BY ONLY <3>1, LenProperties
    <3> HIDE DEF n
    <3> QED
      BY ONLY <3>2
  <2> HIDE DEF n
  <2>4. UpTo(InsertsOf(V), InsertsOf(VL), n)
    BY <1>2, <1>5, <2>1, <2>3, InsertsUpTo
  <2>5. UpTo(SelectsOf(C), SelectsOf(CL), n)
    BY <1>2, <1>5, <2>1, <2>3, SelectsUpTo
  <2>6. CASE s \in InsertsOf(V)
    BY <1>4, <2>3, <2>4, <2>6 DEF UpTo, n
  <2>7. CASE s \in SelectsOf(C)
    BY <1>4, <2>3, <2>5, <2>7 DEF UpTo, n
  <2> QED
    BY <1>3, <2>6, <2>7
<1>7. ASSUME NEW s \in AtStart, Len(s) <= MaxTokens PROVE s \in Sentences
  <2>1. MaxTokens \in Nat
    BY ParserBounds
  <2>2. UpTo(InsertsOf(VL), InsertsOf(V), MaxTokens)
    BY <1>1, <1>2, <1>5, <2>1, InsertsUpTo
  <2>3. UpTo(SelectsOf(CL), SelectsOf(C), MaxTokens)
    BY <1>1, <1>2, <1>5, <2>1, SelectsUpTo
  <2> QED
    BY <1>3, <1>4, <1>7, <2>2, <2>3 DEF UpTo
<1> QED
  BY <1>6, <1>7

LEMMA PrefixJoined ==
    ASSUME NEW s \in Arrays, NEW p \in Arrays, IsPrefix(p, s)
    PROVE  \E r \in Arrays : s = Joined(p, r)
<1> DEFINE m == Len(p)
           n == Len(s)
           r == SubSeq(s, m + 1, n)
           j == p \o r
<1>1. /\ p \in Seq(TokenTypes) /\ s \in Seq(TokenTypes) /\ m \in Nat /\ n \in Nat /\ m <= n
      /\ SubSeq(p, 1, m) = SubSeq(s, 1, m)
  BY LenProperties DEF Arrays, IsPrefix
<1>2. r \in Seq(TokenTypes) /\ Len(r) = n - m /\ \A i \in 1 .. n - m : r[i] = s[m + i]
  <2>1. \A i \in m + 1 .. n : s[i] \in TokenTypes
    BY <1>1
  <2>2. m + 1 \in Int /\ n \in Int /\ (IF m + 1 <= n THEN n - (m + 1) + 1 ELSE 0) = n - m
        /\ n - (m + 1) + 1 = n - m
    BY <1>1
  <2>3. /\ r \in Seq(TokenTypes) /\ Len(r) = IF m + 1 <= n THEN n - (m + 1) + 1 ELSE 0
        /\ \A i \in 1 .. n - (m + 1) + 1 : r[i] = s[m + 1 + i - 1]
    BY <2>1, <2>2, SubSeqProperties
  <2>4. \A i \in 1 .. n - m : m + 1 + i - 1 = m + i
    BY <1>1
  <2> HIDE DEF r, m, n
  <2> QED
    BY <2>2, <2>3, <2>4
<1>3. \A i \in 1 .. m : p[i] = s[i]
  <2>1. \A i \in 1 .. m : SubSeq(p, 1, m)[i] = p[i]
    <3>1. SubSeq(p, 1, m) = p
      BY <1>1, SubSeqFull
    <3> QED
      BY <3>1
  <2>2. \A i \in 1 .. m : SubSeq(s, 1, m)[i] = s[i]
    <3>1. \A i \in 1 .. m : s[i] \in TokenTypes
      BY <1>1
    <3>2. \A i \in 1 .. m - 1 + 1 : SubSeq(s, 1, m)[i] = s[1 + i - 1]
      BY <1>1, <3>1, SubSeqProperties
    <3>3. m - 1 + 1 = m /\ \A i \in 1 .. m : 1 + i - 1 = i
      BY <1>1
    <3> HIDE DEF m
    <3> QED
      BY <3>2, <3>3
  <2> QED
    BY Zenon, <1>1, <2>1, <2>2
<1> HIDE DEF r
<1>4. /\ j \in Seq(TokenTypes) /\ Len(j) = m + Len(r)
      /\ \A i \in 1 .. m + Len(r) : j[i] = IF i <= m THEN p[i] ELSE r[i - m]
  BY <1>1, <1>2, ConcatProperties
<1> HIDE DEF j, m, n
<1>5. j = s
  <2>1. Len(j) = n
    BY <1>1, <1>2, <1>4
  <2>2. ASSUME NEW i \in 1 .. n PROVE j[i] = s[i]
    <3>1. CASE i <= m
      <4>1. i \in 1 .. m /\ i \in 1 .. m + Len(r)
        BY <1>1, <1>2, <3>1
      <4>2. j[i] = p[i]
        BY <1>4, <3>1, <4>1
      <4> QED
        BY Zenon, <1>3, <4>1, <4>2
    <3>2. CASE i > m
      <4>1. i - m \in 1 .. n - m /\ m + (i - m) = i /\ i \in 1 .. m + Len(r) /\ ~(i <= m)
        BY <1>1, <1>2, <3>2
      <4>2. j[i] = r[i - m]
        BY <1>4, <4>1
      <4>3. r[i - m] = s[m + (i - m)]
        BY <1>2, <4>1
      <4> QED
        BY Zenon, <4>1, <4>2, <4>3
    <3> QED
      BY <1>1, <3>1, <3>2
  <2>3. /\ j \in Seq(TokenTypes) /\ s \in Seq(TokenTypes) /\ Len(j) = Len(s)
        /\ \A i \in 1 .. Len(j) : j[i] = s[i]
    BY <1>1, <1>4, <2>1, <2>2 DEF n
  <2> QED
    BY ONLY <2>3, SeqEqual
<1> QED
  BY <1>2, <1>5 DEF j, Joined, Arrays

LEMMA ParsedAccepts ==
    ASSUME IInv, Parsed
    PROVE  AcceptsGrammar
<1>1. tokens \in Arrays /\ Len(tokens) <= MaxTokens /\ Len(tokens) \in Nat
  BY LenProperties DEF IInv, Scanned, Arrays
<1>2. ASSUME pc = "returned" PROVE tokens \in Sentences
  <2>1. failures = 0
    <3>1. Unseen("returned") = {}
      BY DEF Unseen
    <3> QED
      BY <1>2, <3>1, NothingLost
  <2>2. Len(tokens) = index
    BY <1>2 DEF Parsed, LookAhead, Ended
  <2>3. << >> \in Arrays /\ Joined(tokens, << >>) = tokens
    BY <1>1, JoinedTwo, EmptySeq DEF Arrays
  <2>4. Coming(<< >>) = << >>
    BY <1>1, <2>2 DEF Coming
  <2>5. Rest(pc, tokens[1]) = Final
    BY <1>2 DEF Rest
  <2>6. << >> \in Rest(pc, tokens[1])
    BY <2>5 DEF Final
  <2>7. tokens \in AtStart
    BY Zenon, <2>1, <2>3, <2>4, <2>6 DEF Parsed, Agreed
  <2> QED
    BY Zenon, <1>1, <2>7, SentencesStart
<1>3. ASSUME pc = "failed", failures = 0, NEW s \in Sentences, IsPrefix(tokens, s) PROVE FALSE
  <2>1. s \in AtStart
    BY SentencesStart
  <2>2. s \in Arrays
    BY <2>1, ReadsStart
  <2>3. PICK r \in Arrays : s = Joined(tokens, r)
    BY <1>1, <1>3, <2>2, PrefixJoined
  <2>4. Rest(pc, tokens[1]) = {}
    BY <1>3 DEF Rest
  <2>5. Coming(r) \in Rest(pc, tokens[1])
    BY Zenon, <1>3, <2>1, <2>3 DEF Parsed, Agreed
  <2> QED
    BY <2>4, <2>5
<1> QED
  BY Zenon, <1>2, <1>3 DEF AcceptsGrammar

LEMMA StutterParses ==
    ASSUME Parsed, Blamed, UNCHANGED vars
    PROVE  Parsed' /\ Blamed'
<1>1. /\ tokens' = tokens /\ index' = index /\ pc' = pc /\ own' = own /\ failures' = failures
  BY DEF vars
<1>2. \A r : Coming(r)' = Coming(r)
  BY <1>1 DEF Coming
<1> QED
  BY <1>1, <1>2 DEF Parsed, LookAhead, Agreed, Blamed

-----------------------------------------------------------------------------
(* parse_statement returns 1 for the sentences of the grammar and for       *)
(* nothing else, and when memory does not run out it fails at the first     *)
(* token that no sentence has there.                                        *)
THEOREM ParserAcceptsGrammar == Spec => []AcceptsGrammar
<1>1. Init => Parsed /\ Blamed
  <2> SUFFICES ASSUME Init PROVE Parsed /\ Blamed
    OBVIOUS
  <2>1. Parsed
    BY InitFresh, FreshParses
  <2>2. Blamed
    <3>1. Clear("start") /\ pc = "start"
      BY ClearSteps DEF Init
    <3> QED
      BY <3>1 DEF Clear, Blamed
  <2> QED
    BY <2>1, <2>2
<1>2. IInv /\ IInv' /\ Parsed /\ Blamed /\ [Next]_vars => Parsed' /\ Blamed'
  BY NextParses, NextBlames, StutterParses
<1>3. IInv /\ Parsed => AcceptsGrammar
  BY ParsedAccepts
<1> QED
  BY <1>1, <1>2, <1>3, ParserInvariant, PTL DEF Spec

=============================================================================
