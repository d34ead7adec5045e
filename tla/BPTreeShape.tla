----------------------------- MODULE BPTreeShape ----------------------------
(***************************************************************************)
(* What it means that the nodes of a heap form a search tree, and what the *)
(* steps of an insertion do to it.  The tree is described by the node that *)
(* each id passes at each level: at[d][k] is the node on the route of k, d *)
(* levels below the root.  The ids that pass a node are its region; this   *)
(* states regions of unbounded trees without recursion or reachability.    *)
(* Before that, what it rests on: induction on the natural numbers, and    *)
(* the sequences of a node.                                                *)
(***************************************************************************)
EXTENDS BPTreeInv, FiniteSetTheorems, SequenceTheorems, TLAPS

-----------------------------------------------------------------------------
(* The library's induction theorems take an operator; these take a set.    *)

LEMMA LeastNatural ==
    ASSUME NEW S \in SUBSET Nat, S # {}
    PROVE  \E m \in S : \A k \in S : m <= k
<1> DEFINE T == {0 .. k : k \in S}
           R == StrictSubsetOrdering(Nat)
           F == FiniteSubsetsOf(Nat)
<1>1. T \subseteq F
  <2> SUFFICES ASSUME NEW k \in S PROVE 0 .. k \in F
    OBVIOUS
  <2>1. 0 .. k \in SUBSET Nat
    OBVIOUS
  <2>2. IsFiniteSet(0 .. k)
    BY FS_Interval
  <2> QED
    BY <2>1, <2>2 DEF FiniteSubsetsOf
<1>2. T # {}
  OBVIOUS
<1>3. IsWellFoundedOn(R, F)
  BY FS_StrictSubsetOrderingWellFounded
<1>4. PICK X \in T : \A Y \in T : ~(<<Y, X>> \in R)
  <2> HIDE DEF T, R, F
  <2> QED
    BY <1>1, <1>2, <1>3, WFMin
<1>5. PICK m \in S : X = 0 .. m
  OBVIOUS
<1>6. ASSUME NEW k \in S, k < m PROVE FALSE
  <2>1. 0 .. k \subseteq 0 .. m /\ m \in 0 .. m /\ m \notin 0 .. k
    BY <1>6
  <2>2. 0 .. k \in SUBSET Nat /\ X \in SUBSET Nat
    BY <1>5
  <2>3. <<0 .. k, X>> \in R
    BY <2>1, <2>2, <1>5 DEF StrictSubsetOrdering
  <2> QED
    BY <2>3, <1>4
<1> QED
  BY <1>6

LEMMA ByInduction ==
    ASSUME NEW S, 0 \in S, \A n \in Nat : n \in S => n + 1 \in S
    PROVE  Nat \subseteq S
<1> SUFFICES ASSUME Nat \ S # {} PROVE FALSE
  OBVIOUS
<1>1. PICK m \in Nat \ S : \A k \in Nat \ S : m <= k
  <2>1. Nat \ S \in SUBSET Nat
    OBVIOUS
  <2> QED
    BY <2>1, LeastNatural
<1>2. m # 0
  OBVIOUS
<1>3. m - 1 \in Nat /\ m - 1 \in S
  BY <1>1, <1>2
<1>4. (m - 1) + 1 = m
  BY <1>1
<1> QED
  BY <1>1, <1>3, <1>4

-----------------------------------------------------------------------------
(* The keys of a node, as the first n values of a function: the provers    *)
(* reason about them more easily than about a sequence.                    *)

Ascends(f, n) == \A i, j \in 1 .. n : i < j => f[i] < f[j]

(* ChildIndex and InsertIndex, by what they are for.                       *)
Slot(f, n, k, i) ==
    /\ i \in 1 .. n + 1
    /\ \A j \in 1 .. i - 1 : f[j] <= k
    /\ i <= n => k < f[i]

Place(f, n, k, i) ==
    /\ i \in 1 .. n + 1
    /\ \A j \in 1 .. i - 1 : f[j] < k
    /\ i <= n => k <= f[i]

(* g is f with e put in front of the i-th value.                           *)
Opened(f, g, n, i, e) ==
    /\ \A j \in 1 .. i - 1 : g[j] = f[j]
    /\ g[i] = e
    /\ \A j \in i .. n : g[j + 1] = f[j]

LEMMA OpenedAscends ==
    ASSUME NEW f, NEW g, NEW n \in Nat, \A j \in 1 .. n : f[j] \in Int,
           Ascends(f, n), NEW e \in Int, NEW i \in 1 .. n + 1,
           \A j \in 1 .. i - 1 : f[j] < e, i <= n => e < f[i],
           Opened(f, g, n, i, e)
    PROVE  Ascends(g, n + 1)
<1>1. \A j \in i .. n : e < f[j]
  BY DEF Ascends
<1> SUFFICES ASSUME NEW x \in 1 .. n + 1, NEW y \in 1 .. n + 1, x < y
             PROVE  g[x] < g[y]
  BY DEF Ascends
<1>2. CASE y < i
  BY <1>2 DEF Ascends, Opened
<1>3. CASE y = i
  BY <1>3 DEF Opened
<1>4. CASE y > i
  <2>1. y - 1 \in i .. n /\ g[(y - 1) + 1] = f[y - 1]
    BY <1>4 DEF Opened
  <2>2. CASE x < i
    BY <2>1, <2>2 DEF Ascends, Opened
  <2>3. CASE x = i
    BY <2>1, <2>3, <1>1 DEF Opened
  <2>4. CASE x > i
    <3>1. x - 1 \in i .. n /\ g[(x - 1) + 1] = f[x - 1]
      BY <2>4 DEF Opened
    <3> QED
      BY <2>1, <3>1 DEF Ascends
  <2> QED
    BY <2>2, <2>3, <2>4
<1> QED
  BY <1>2, <1>3, <1>4

LEMMA OpenedSlot ==
    ASSUME NEW f, NEW g, NEW n \in Nat, \A j \in 1 .. n : f[j] \in Int,
           NEW p \in Int, NEW k \in Int, NEW s, NEW c,
           Slot(f, n, p, s), Slot(f, n, k, c), Opened(f, g, n, s, p)
    PROVE  /\ (c < s \/ (c = s /\ k < p)) => Slot(g, n + 1, k, c)
           /\ (c > s \/ (c = s /\ k >= p)) => Slot(g, n + 1, k, c + 1)
<1>0. s \in 1 .. n + 1 /\ c \in 1 .. n + 1
  BY DEF Slot
<1>1. ASSUME c < s \/ (c = s /\ k < p) PROVE Slot(g, n + 1, k, c)
  <2>1. \A j \in 1 .. c - 1 : g[j] <= k
    BY <1>0, <1>1 DEF Slot, Opened
  <2>2. k < g[c]
    BY <1>0, <1>1 DEF Slot, Opened
  <2> QED
    BY <1>0, <2>1, <2>2 DEF Slot
<1>2. ASSUME c > s \/ (c = s /\ k >= p) PROVE Slot(g, n + 1, k, c + 1)
  <2>1. k >= p
    BY <1>0, <1>2 DEF Slot
  <2>2. ASSUME NEW j \in 1 .. c PROVE g[j] <= k
    <3>1. CASE j < s
      BY <3>1, <1>0, <1>2 DEF Slot, Opened
    <3>2. CASE j = s
      BY <3>2, <2>1 DEF Opened
    <3>3. CASE j > s
      <4>1. j - 1 \in s .. n /\ g[(j - 1) + 1] = f[j - 1]
        BY <1>0, <3>3 DEF Opened
      <4> QED
        BY <1>0, <3>3, <4>1 DEF Slot
    <3> QED
      BY <1>0, <3>1, <3>2, <3>3
  <2>3. c + 1 <= n + 1 => k < g[c + 1]
    BY <1>0, <1>2 DEF Slot, Opened
  <2> QED
    BY <1>0, <2>2, <2>3 DEF Slot
<1> QED
  BY <1>1, <1>2

(* The halves of a split route a key as the whole did.                     *)
LEMMA LowerSlot ==
    ASSUME NEW f, NEW g, NEW n \in Nat, \A j \in 1 .. n : f[j] \in Int,
           NEW mid \in Nat, mid + 1 <= n, \A j \in 1 .. mid : g[j] = f[j],
           NEW k \in Int, NEW c, Slot(f, n, k, c), k < f[mid + 1]
    PROVE  c <= mid + 1 /\ Slot(g, mid, k, c)
BY DEF Slot

LEMMA UpperSlot ==
    ASSUME NEW f, NEW g, NEW n \in Nat, \A j \in 1 .. n : f[j] \in Int,
           Ascends(f, n), NEW mid \in Nat, mid + 1 <= n,
           NEW r \in Nat, r = n - (mid + 1),
           \A j \in 1 .. r : g[j] = f[(mid + 1) + j],
           NEW k \in Int, NEW c, Slot(f, n, k, c), k >= f[mid + 1]
    PROVE  c > mid + 1 /\ Slot(g, r, k, c - (mid + 1))
<1>1. \A j \in 1 .. mid + 1 : f[j] <= k
  BY DEF Ascends
<1>2. c > mid + 1
  BY <1>1 DEF Slot
<1>3. ASSUME NEW j \in 1 .. (c - (mid + 1)) - 1 PROVE g[j] <= k
  <2>1. j \in 1 .. r /\ (mid + 1) + j \in 1 .. c - 1
    BY DEF Slot
  <2> QED
    BY <2>1 DEF Slot
<1>4. c - (mid + 1) <= r => k < g[c - (mid + 1)]
  <2>1. c - (mid + 1) <= r => c - (mid + 1) \in 1 .. r /\ (mid + 1) + (c - (mid + 1)) = c
    BY <1>2 DEF Slot
  <2> QED
    BY <2>1, <1>2 DEF Slot
<1>5. c - (mid + 1) \in 1 .. r + 1
  BY <1>2 DEF Slot
<1> QED
  BY <1>2, <1>3, <1>4, <1>5 DEF Slot

LEMMA SliceAscends ==
    ASSUME NEW f, NEW g, NEW n \in Nat, Ascends(f, n),
           NEW b \in Nat, NEW r \in Nat, b + r <= n,
           \A j \in 1 .. r : g[j] = f[b + j]
    PROVE  Ascends(g, r)
<1> SUFFICES ASSUME NEW x \in 1 .. r, NEW y \in 1 .. r, x < y
             PROVE  g[x] < g[y]
  BY DEF Ascends
<1>1. b + x \in 1 .. n /\ b + y \in 1 .. n /\ b + x < b + y
  OBVIOUS
<1> QED
  BY <1>1 DEF Ascends

LEMMA SlotExists ==
    ASSUME NEW f, NEW n \in Nat, \A j \in 1 .. n : f[j] \in Int, NEW k \in Int
    PROVE  \E i \in 1 .. n + 1 : Slot(f, n, k, i)
<1> DEFINE S == {i \in 1 .. n + 1 : i <= n => k < f[i]}
<1>1. S \in SUBSET Nat /\ n + 1 \in S
  OBVIOUS
<1>2. PICK m \in S : \A i \in S : m <= i
  <2> HIDE DEF S
  <2> QED
    BY <1>1, LeastNatural
<1>3. \A j \in 1 .. m - 1 : f[j] <= k
  BY <1>2
<1> QED
  BY <1>2, <1>3 DEF Slot

LEMMA SlotUnique ==
    ASSUME NEW f, NEW n \in Nat, \A j \in 1 .. n : f[j] \in Int, NEW k \in Int,
           NEW i, NEW j, Slot(f, n, k, i), Slot(f, n, k, j)
    PROVE  i = j
<1>1. i \in 1 .. n + 1 /\ j \in 1 .. n + 1
  BY DEF Slot
<1>2. ~(i < j) /\ ~(j < i)
  BY <1>1 DEF Slot
<1> QED
  BY <1>1, <1>2

LEMMA PlaceExists ==
    ASSUME NEW f, NEW n \in Nat, \A j \in 1 .. n : f[j] \in Int, NEW k \in Int
    PROVE  \E i \in 1 .. n + 1 : Place(f, n, k, i)
<1> DEFINE S == {i \in 1 .. n + 1 : i <= n => k <= f[i]}
<1>1. S \in SUBSET Nat /\ n + 1 \in S
  OBVIOUS
<1>2. PICK m \in S : \A i \in S : m <= i
  <2> HIDE DEF S
  <2> QED
    BY <1>1, LeastNatural
<1>3. \A j \in 1 .. m - 1 : f[j] < k
  BY <1>2
<1> QED
  BY <1>2, <1>3 DEF Place

-----------------------------------------------------------------------------
(* The sequences of a node.                                                *)

LEMMA InsertAtElements ==
    ASSUME NEW S, NEW s \in Seq(S), NEW i \in 1 .. Len(s) + 1, NEW e \in S
    PROVE  /\ InsertAt(s, i, e) \in Seq(S)
           /\ Len(InsertAt(s, i, e)) = Len(s) + 1
           /\ \A j \in 1 .. i - 1 : InsertAt(s, i, e)[j] = s[j]
           /\ InsertAt(s, i, e)[i] = e
           /\ \A j \in i + 1 .. Len(s) + 1 : InsertAt(s, i, e)[j] = s[j - 1]
<1> DEFINE a == SubSeq(s, 1, i - 1)
           b == SubSeq(s, i, Len(s))
<1>1. /\ a \in Seq(S) /\ Len(a) = i - 1 /\ \A j \in 1 .. i - 1 : a[j] = s[j]
  OBVIOUS
<1>2. /\ b \in Seq(S) /\ Len(b) = Len(s) - i + 1
      /\ \A j \in 1 .. Len(s) - i + 1 : b[j] = s[i + j - 1]
  OBVIOUS
<1>3. InsertAt(s, i, e) = (a \o <<e>>) \o b
  BY DEF InsertAt
<1> HIDE DEF a, b
<1> DEFINE c == a \o <<e>>
<1>4. /\ c \in Seq(S) /\ Len(c) = i /\ c[i] = e
      /\ \A j \in 1 .. i - 1 : c[j] = s[j]
  BY <1>1
<1> HIDE DEF c
<1> DEFINE d == c \o b
<1>5. /\ d \in Seq(S) /\ Len(d) = Len(s) + 1
      /\ \A j \in 1 .. i : d[j] = c[j]
      /\ \A j \in i + 1 .. Len(s) + 1 : d[j] = b[j - i]
  <2>1. /\ d \in Seq(S) /\ Len(d) = Len(c) + Len(b)
        /\ \A j \in 1 .. Len(c) + Len(b) :
             d[j] = IF j <= Len(c) THEN c[j] ELSE b[j - Len(c)]
    BY <1>2, <1>4, ConcatProperties
  <2> HIDE DEF d
  <2> QED
    BY <2>1, <1>2, <1>4
<1> HIDE DEF d
<1>6. \A j \in i + 1 .. Len(s) + 1 : d[j] = s[j - 1]
  <2> TAKE j \in i + 1 .. Len(s) + 1
  <2>1. d[j] = b[j - i] /\ j - i \in 1 .. Len(s) - i + 1
    BY <1>5
  <2>2. b[j - i] = s[i + (j - i) - 1] /\ i + (j - i) - 1 = j - 1
    BY <2>1, <1>2
  <2> QED
    BY <2>1, <2>2
<1>7. InsertAt(s, i, e) = d
  BY <1>3 DEF c, d
<1> QED
  BY <1>4, <1>5, <1>6, <1>7

LEMMA SliceElements ==
    ASSUME NEW S, NEW s \in Seq(S),
           NEW m \in 1 .. Len(s) + 1, NEW n \in m - 1 .. Len(s)
    PROVE  /\ SubSeq(s, m, n) \in Seq(S) /\ Len(SubSeq(s, m, n)) = n - m + 1
           /\ \A j \in 1 .. n - m + 1 : SubSeq(s, m, n)[j] = s[m + j - 1]
<1>1. m \in Int /\ n \in Int /\ \A i \in m .. n : s[i] \in S
  OBVIOUS
<1> QED
  BY <1>1, SubSeqProperties

LEMMA FrontElements ==
    ASSUME NEW S, NEW s \in Seq(S), s # << >>
    PROVE  /\ Front(s) \in Seq(S) /\ Len(Front(s)) = Len(s) - 1
           /\ \A j \in 1 .. Len(s) - 1 : Front(s)[j] = s[j]
<1>1. Len(s) \in Nat /\ Len(s) # 0
  BY EmptySeq
<1>2. 1 \in 1 .. Len(s) + 1 /\ Len(s) - 1 \in 1 - 1 .. Len(s)
  BY <1>1
<1>3. /\ SubSeq(s, 1, Len(s) - 1) \in Seq(S)
      /\ Len(SubSeq(s, 1, Len(s) - 1)) = Len(s) - 1 - 1 + 1
      /\ \A j \in 1 .. Len(s) - 1 - 1 + 1 : SubSeq(s, 1, Len(s) - 1)[j] = s[1 + j - 1]
  BY <1>2, SliceElements
<1> QED
  BY <1>1, <1>3 DEF Front

LEMMA KeyNumbers ==
    ASSUME NEW ks \in Seq(Keys)
    PROVE  Len(ks) \in Nat /\ \A j \in 1 .. Len(ks) : ks[j] \in Keys /\ ks[j] \in Int
<1>1. Len(ks) \in Nat /\ \A j \in 1 .. Len(ks) : ks[j] \in Keys
  OBVIOUS
<1> QED
  BY ONLY <1>1, KeysAssumption

(* ChildIndex and InsertIndex are defined, by the least larger element.    *)
LEMMA ChildIndexSlot ==
    ASSUME NEW ks \in Seq(Keys), NEW k \in Int
    PROVE  Slot(ks, Len(ks), k, ChildIndex(ks, k))
<1>1. Len(ks) \in Nat /\ \A j \in 1 .. Len(ks) : ks[j] \in Int
  BY KeyNumbers
<1>2. PICK i \in 1 .. Len(ks) + 1 : Slot(ks, Len(ks), k, i)
  BY <1>1, SlotExists
<1>3. /\ \A j \in 1 .. i - 1 : k >= ks[j]
      /\ i <= Len(ks) => k < ks[i]
  BY <1>1, <1>2 DEF Slot
<1> DEFINE c == ChildIndex(ks, k)
<1>4. /\ c \in 1 .. Len(ks) + 1
      /\ \A j \in 1 .. c - 1 : k >= ks[j]
      /\ c <= Len(ks) => k < ks[c]
  BY <1>3 DEF ChildIndex
<1> HIDE DEF c
<1>5. Slot(ks, Len(ks), k, c)
  BY <1>1, <1>4 DEF Slot
<1> QED
  BY <1>5 DEF c

LEMMA SlotIsChildIndex ==
    ASSUME NEW ks \in Seq(Keys), NEW k \in Int, NEW i, Slot(ks, Len(ks), k, i)
    PROVE  ChildIndex(ks, k) = i
<1>1. Len(ks) \in Nat /\ \A j \in 1 .. Len(ks) : ks[j] \in Int
  BY KeyNumbers
<1>2. Slot(ks, Len(ks), k, ChildIndex(ks, k))
  BY ChildIndexSlot
<1> QED
  BY ONLY <1>1, <1>2, SlotUnique, Slot(ks, Len(ks), k, i), k \in Int

LEMMA InsertIndexPlace ==
    ASSUME NEW ks \in Seq(Keys), NEW k \in Int
    PROVE  Place(ks, Len(ks), k, InsertIndex(ks, k))
<1>1. Len(ks) \in Nat /\ \A j \in 1 .. Len(ks) : ks[j] \in Int
  BY KeyNumbers
<1>2. PICK i \in 1 .. Len(ks) + 1 : Place(ks, Len(ks), k, i)
  BY <1>1, PlaceExists
<1>3. /\ \A j \in 1 .. i - 1 : ks[j] < k
      /\ i <= Len(ks) => ks[i] >= k
  BY <1>1, <1>2 DEF Place
<1> DEFINE c == InsertIndex(ks, k)
<1>4. /\ c \in 1 .. Len(ks) + 1
      /\ \A j \in 1 .. c - 1 : ks[j] < k
      /\ c <= Len(ks) => ks[c] >= k
  BY <1>3 DEF InsertIndex
<1> HIDE DEF c
<1>5. Place(ks, Len(ks), k, c)
  BY <1>1, <1>4 DEF Place
<1> QED
  BY <1>5 DEF c

LEMMA OpenedByInsert ==
    ASSUME NEW S, NEW s \in Seq(S), NEW i \in 1 .. Len(s) + 1, NEW e \in S
    PROVE  /\ InsertAt(s, i, e) \in Seq(S)
           /\ Len(InsertAt(s, i, e)) = Len(s) + 1
           /\ Opened(s, InsertAt(s, i, e), Len(s), i, e)
<1> DEFINE g == InsertAt(s, i, e)
<1>1. /\ g \in Seq(S) /\ Len(g) = Len(s) + 1
      /\ \A j \in 1 .. i - 1 : g[j] = s[j]
      /\ g[i] = e
      /\ \A j \in i + 1 .. Len(s) + 1 : g[j] = s[j - 1]
  BY InsertAtElements
<1> HIDE DEF g
<1>2. Len(s) \in Nat
  OBVIOUS
<1>3. ASSUME NEW j \in i .. Len(s) PROVE g[j + 1] = s[j]
  <2>1. j + 1 \in i + 1 .. Len(s) + 1 /\ (j + 1) - 1 = j
    BY <1>2
  <2> QED
    BY ONLY <2>1, <1>1
<1>4. Opened(s, g, Len(s), i, e)
  BY <1>1, <1>3 DEF Opened
<1> QED
  BY <1>1, <1>4 DEF g

-----------------------------------------------------------------------------
(* The way k takes at node n, and the node it leads to.                    *)
Turn(g, n, k) == ChildIndex(g[n].keys, k)
Kid(g, n, k) == g[n].kids[Turn(g, n, k)]
OwnKey(g, n, x) == \E i \in 1 .. Len(g[n].keys) : g[n].keys[i] = x

Levels(g, h, at) == h \in Nat /\ at \in [0 .. h -> [Int -> DOMAIN g]]

LeavesAtBottom(g, h, at) ==
    \A d \in 0 .. h : \A k \in Int : g[at[d][k]].leaf <=> d = h

OneLevel(h, at) ==
    \A d, e \in 0 .. h : \A k, l \in Int : at[d][k] = at[e][l] => d = e

(* The region of a node has no gaps.                                       *)
Convex(h, at) ==
    \A d \in 0 .. h : \A j, k, l \in Int :
        j <= k /\ k <= l /\ at[d][j] = at[d][l] => at[d][k] = at[d][j]

OwnKeys(g, h, at) ==
    \A d \in 0 .. h : \A k, x \in Int :
        OwnKey(g, at[d][k], x) => at[d][x] = at[d][k]

(* A node has one parent, and one place in it.                             *)
Nested(g, h, at) ==
    \A d \in 0 .. h - 1 : \A k, l \in Int :
        at[d + 1][k] = at[d + 1][l] =>
            /\ at[d][k] = at[d][l]
            /\ Turn(g, at[d][k], k) = Turn(g, at[d][k], l)

(* Every child is on the route of some id.                                 *)
Served(g, h, at) ==
    \A d \in 0 .. h - 1 : \A k \in Int : \A i \in 1 .. Len(g[at[d][k]].kids) :
        \E l \in Int : at[d][l] = at[d][k] /\ Turn(g, at[d][k], l) = i

Skeleton(g, h, at) ==
    /\ Levels(g, h, at)
    /\ LeavesAtBottom(g, h, at)
    /\ OneLevel(h, at)
    /\ Convex(h, at)
    /\ OwnKeys(g, h, at)
    /\ Nested(g, h, at)
    /\ Served(g, h, at)

(* The tree between two insertions, and on the way down.                   *)
Whole(g, rt, h, at) ==
    /\ Skeleton(g, h, at)
    /\ \A k \in Int : at[0][k] = rt
    /\ \A d \in 0 .. h - 1 : \A k \in Int :
          at[d + 1][k] = Kid(g, at[d][k], k)

(* The tree with a right half in flight: the m-th level's node left has    *)
(* given the ids from p on to right, and no node refers to right yet.      *)
Parted(g, rt, h, at, m, left, p, right) ==
    /\ Skeleton(g, h, at)
    /\ m \in 0 .. h /\ p \in Int /\ left # right
    /\ at[m][p - 1] = left /\ at[m][p] = right
    /\ \A k \in Int : at[0][k] = IF m = 0 /\ k >= p THEN right ELSE rt
    /\ \A d \in 0 .. h - 1 : \A k \in Int :
          at[d + 1][k] = IF m = d + 1 /\ Kid(g, at[d][k], k) = left /\ k >= p
                           THEN right ELSE Kid(g, at[d][k], k)
    /\ \A d \in 0 .. h - 1 : m = d + 1 =>
          /\ at[d][p] = at[d][p - 1]
          /\ Turn(g, at[d][p], p) = Turn(g, at[d][p], p - 1)
          /\ Kid(g, at[d][p], p) = left

-----------------------------------------------------------------------------
(* Keys are added to a leaf: the routes stay what they were.               *)
LEMMA LeafKeysTree ==
    ASSUME NEW g, NEW g2, NEW rt, NEW h, NEW at, Whole(g, rt, h, at),
           NEW n, DOMAIN g2 = DOMAIN g,
           \A a \in DOMAIN g : a # n => g2[a] = g[a],
           g2[n].leaf, g[n].leaf,
           \A k, x \in Int : at[h][k] = n /\ OwnKey(g2, n, x) => at[h][x] = n
    PROVE  Whole(g2, rt, h, at)
<1> USE DEF Whole, Skeleton
<1>0. h \in Nat /\ at \in [0 .. h -> [Int -> DOMAIN g]]
  BY DEF Levels
<1>1. \A d \in 0 .. h - 1 : \A k \in Int : at[d][k] # n /\ g2[at[d][k]] = g[at[d][k]]
  BY <1>0 DEF LeavesAtBottom
<1>2. \A d \in 0 .. h - 1 : \A k, l \in Int :
         /\ Turn(g2, at[d][k], l) = Turn(g, at[d][k], l)
         /\ Kid(g2, at[d][k], l) = Kid(g, at[d][k], l)
  BY <1>1 DEF Turn, Kid
<1>3. Levels(g2, h, at)
  BY <1>0 DEF Levels
<1>4. LeavesAtBottom(g2, h, at)
  <2>1. \A d \in 0 .. h : \A k \in Int : at[d][k] \in DOMAIN g
    BY ONLY <1>0
  <2>2. \A a \in DOMAIN g : g2[a].leaf <=> g[a].leaf
    OBVIOUS
  <2>3. LeavesAtBottom(g, h, at)
    OBVIOUS
  <2> QED
    BY ONLY <2>1, <2>2, <2>3 DEF LeavesAtBottom
<1>5. OwnKeys(g2, h, at)
  <2> SUFFICES ASSUME NEW d \in 0 .. h, NEW k \in Int, NEW x \in Int,
                      OwnKey(g2, at[d][k], x)
               PROVE  at[d][x] = at[d][k]
    BY DEF OwnKeys
  <2>1. CASE at[d][k] = n
    BY <2>1, <1>0 DEF LeavesAtBottom
  <2>2. CASE at[d][k] # n
    BY <2>2, <1>0 DEF OwnKeys, OwnKey
  <2> QED
    BY <2>1, <2>2
<1>6. Nested(g2, h, at)
  BY <1>0, <1>2 DEF Nested
<1>7. Served(g2, h, at)
  <2> SUFFICES ASSUME NEW d \in 0 .. h - 1, NEW k \in Int,
                      NEW i \in 1 .. Len(g2[at[d][k]].kids)
               PROVE  \E l \in Int : /\ at[d][l] = at[d][k]
                                     /\ Turn(g2, at[d][k], l) = i
    BY DEF Served
  <2>0. g2[at[d][k]] = g[at[d][k]]
    BY <1>1
  <2>1. i \in 1 .. Len(g[at[d][k]].kids)
    BY ONLY <2>0, i \in 1 .. Len(g2[at[d][k]].kids)
  <2>2. PICK l \in Int : at[d][l] = at[d][k] /\ Turn(g, at[d][k], l) = i
    <3>1. Served(g, h, at)
      OBVIOUS
    <3> QED
      BY ONLY <3>1, <2>1, d \in 0 .. h - 1, k \in Int DEF Served
  <2>3. Turn(g2, at[d][k], l) = i
    BY <2>2, <1>2
  <2> QED
    BY <2>2, <2>3
<1>8. Skeleton(g2, h, at)
  BY <1>3, <1>4, <1>5, <1>6, <1>7
<1>9. \A d \in 0 .. h - 1 : \A k \in Int : at[d + 1][k] = Kid(g2, at[d][k], k)
  BY <1>2
<1> HIDE DEF Skeleton
<1> QED
  BY <1>8, <1>9

(* Of the children of n the first c stay, the others go to r, and an id    *)
(* takes the same way as before, from r if it is not below p.              *)
WaysDivided(g, g2, n, r, p, c) ==
    /\ Len(g2[n].kids) = c
    /\ Len(g2[r].kids) \in Nat
    /\ Len(g[n].kids) = c + Len(g2[r].kids)
    /\ \A k \in Int : Turn(g, n, k) \in Nat
    /\ \A k \in Int : Turn(g, n, k) <= c <=> k < p
    /\ \A k \in Int : k < p => /\ Turn(g2, n, k) = Turn(g, n, k)
                               /\ Kid(g2, n, k) = Kid(g, n, k)
    /\ \A k \in Int : k >= p => /\ Turn(g2, r, k) = Turn(g, n, k) - c
                                /\ Kid(g2, r, k) = Kid(g, n, k)

(* The routes after n has given the ids from p on to r.                    *)
Redirected(h, at, d, n, p, r) ==
    [e \in 0 .. h |-> [k \in Int |->
        IF e = d /\ at[d][k] = n /\ k >= p THEN r ELSE at[e][k]]]

(* A node gives the ids from p on to a new node: its region is divided and *)
(* nothing else changes, but the new node has no parent yet.               *)
LEMMA DivideTree ==
    ASSUME NEW g, NEW g2, NEW rt, NEW h, NEW at, Whole(g, rt, h, at),
           NEW n, NEW r, r \notin DOMAIN g, DOMAIN g2 = DOMAIN g \union {r},
           \A a \in DOMAIN g : a # n => g2[a] = g[a],
           g2[n].leaf <=> g[n].leaf, g2[r].leaf <=> g[n].leaf,
           NEW p \in Int, NEW d \in 0 .. h, at[d][p - 1] = n, at[d][p] = n,
           \A x \in Int : OwnKey(g2, n, x) => OwnKey(g, n, x) /\ x < p,
           \A x \in Int : OwnKey(g2, r, x) => OwnKey(g, n, x) /\ x >= p,
           NEW c \in Nat,
           ~g[n].leaf => WaysDivided(g, g2, n, r, p, c),
           NEW at2, at2 = Redirected(h, at, d, n, p, r)
    PROVE  Parted(g2, rt, h, at2, d, n, p, r)
<1>1. Levels(g, h, at) /\ LeavesAtBottom(g, h, at) /\ OneLevel(h, at)
  BY DEF Whole, Skeleton
<1>2. Convex(h, at) /\ OwnKeys(g, h, at) /\ Nested(g, h, at) /\ Served(g, h, at)
  BY DEF Whole, Skeleton
<1>3. /\ \A k \in Int : at[0][k] = rt
      /\ \A e \in 0 .. h - 1 : \A k \in Int : at[e + 1][k] = Kid(g, at[e][k], k)
  BY DEF Whole
<1>4. h \in Nat /\ at \in [0 .. h -> [Int -> DOMAIN g]]
  BY <1>1 DEF Levels
<1>5. /\ at2 \in [0 .. h -> [Int -> DOMAIN g2]]
      /\ \A e \in 0 .. h : \A k \in Int : at[e][k] \in DOMAIN g /\ at[e][k] # r
      /\ \A e \in 0 .. h : \A k \in Int :
           at2[e][k] = IF e = d /\ at[d][k] = n /\ k >= p THEN r ELSE at[e][k]
  BY <1>4 DEF Redirected
<1>6. n \in DOMAIN g /\ n # r
  BY <1>5
<1>7. Levels(g2, h, at2)
  BY <1>4, <1>5 DEF Levels
<1>8. \A e \in 0 .. h : \A k \in Int : (at[e][k] = n => e = d)
  BY <1>1, <1>4 DEF OneLevel
<1>9. LeavesAtBottom(g2, h, at2)
  <2> SUFFICES ASSUME NEW e \in 0 .. h, NEW k \in Int
               PROVE  g2[at2[e][k]].leaf <=> e = h
    BY DEF LeavesAtBottom
  <2>1. g[at[e][k]].leaf <=> e = h
    BY <1>1 DEF LeavesAtBottom
  <2>2. at2[e][k] = r => at[e][k] = n
    BY <1>5
  <2>3. at2[e][k] # r => at2[e][k] = at[e][k] /\ at[e][k] \in DOMAIN g
    BY <1>5
  <2> QED
    BY <2>1, <2>2, <2>3
<1>10. OneLevel(h, at2)
  <2> SUFFICES ASSUME NEW e \in 0 .. h, NEW f \in 0 .. h, NEW k \in Int, NEW l \in Int,
                      at2[e][k] = at2[f][l]
               PROVE  e = f
    BY DEF OneLevel
  <2>1. CASE at2[e][k] = r
    BY ONLY <2>1, <1>5, <1>8, at2[e][k] = at2[f][l], e \in 0 .. h, f \in 0 .. h,
            k \in Int, l \in Int
  <2>2. CASE at2[e][k] # r
    <3>1. at[e][k] = at[f][l]
      BY ONLY <2>2, <1>5, at2[e][k] = at2[f][l], e \in 0 .. h, f \in 0 .. h,
              k \in Int, l \in Int
    <3>2. OneLevel(h, at)
      BY <1>1
    <3> QED
      BY ONLY <3>1, <3>2, e \in 0 .. h, f \in 0 .. h, k \in Int, l \in Int DEF OneLevel
  <2> QED
    BY <2>1, <2>2
<1>11. Convex(h, at2)
  <2> SUFFICES ASSUME NEW e \in 0 .. h, NEW j \in Int, NEW k \in Int, NEW l \in Int,
                      j <= k, k <= l, at2[e][j] = at2[e][l]
               PROVE  at2[e][k] = at2[e][j]
    BY DEF Convex
  <2>1. at[e][j] = at[e][l]
    BY <1>5
  <2>2. at[e][k] = at[e][j]
    BY <2>1, <1>2 DEF Convex
  <2> QED
    BY <2>1, <2>2, <1>5
<1>12. OwnKeys(g2, h, at2)
  <2> SUFFICES ASSUME NEW e \in 0 .. h, NEW k \in Int, NEW x \in Int,
                      OwnKey(g2, at2[e][k], x)
               PROVE  at2[e][x] = at2[e][k]
    BY DEF OwnKeys
  <2>1. CASE at[e][k] = n
    <3>1. OwnKey(g, n, x)
      BY <2>1, <1>5, <1>8
    <3>2. at[e][x] = n
      BY <2>1, <3>1, <1>2 DEF OwnKeys
    <3> QED
      BY <2>1, <3>1, <3>2, <1>5, <1>8
  <2>2. CASE at[e][k] # n
    <3>1. at2[e][k] = at[e][k] /\ g2[at[e][k]] = g[at[e][k]]
      BY <2>2, <1>5
    <3>2. OwnKey(g, at[e][k], x)
      BY <3>1 DEF OwnKey
    <3>3. at[e][x] = at[e][k]
      BY <3>2, <1>2 DEF OwnKeys
    <3> QED
      BY <2>2, <3>1, <3>3, <1>5
  <2> QED
    BY <2>1, <2>2
<1>13. ASSUME NEW e \in 0 .. h, NEW k \in Int, at[e][k] # n
       PROVE  /\ at2[e][k] = at[e][k]
              /\ g2[at[e][k]] = g[at[e][k]]
              /\ \A l \in Int : Turn(g2, at[e][k], l) = Turn(g, at[e][k], l)
              /\ \A l \in Int : Kid(g2, at[e][k], l) = Kid(g, at[e][k], l)
  <2>1. at2[e][k] = at[e][k] /\ g2[at[e][k]] = g[at[e][k]]
    BY <1>5, <1>13
  <2> QED
    BY <2>1 DEF Turn, Kid
<1>14. ASSUME NEW e \in 0 .. h - 1, NEW k \in Int, at[e][k] = n
       PROVE  e = d /\ ~g[n].leaf /\ WaysDivided(g, g2, n, r, p, c)
  <2>1. e \in 0 .. h /\ e # h
    BY <1>4
  <2>2. ~g[n].leaf
    BY <2>1, <1>1, <1>14 DEF LeavesAtBottom
  <2> QED
    BY <2>1, <2>2, <1>8, <1>14
<1>15. Nested(g2, h, at2)
  <2> SUFFICES ASSUME NEW e \in 0 .. h - 1, NEW k \in Int, NEW l \in Int,
                      at2[e + 1][k] = at2[e + 1][l]
               PROVE  /\ at2[e][k] = at2[e][l]
                      /\ Turn(g2, at2[e][k], k) = Turn(g2, at2[e][k], l)
    BY DEF Nested
  <2>0. e \in 0 .. h /\ e + 1 \in 0 .. h
    BY <1>4
  <2>1. at[e + 1][k] = at[e + 1][l]
    BY <2>0, <1>5
  <2>2. at[e][k] = at[e][l] /\ Turn(g, at[e][k], k) = Turn(g, at[e][k], l)
    BY <2>1, <1>2 DEF Nested
  <2>3. CASE at[e][k] # n
    BY <2>0, <2>2, <2>3, <1>13
  <2>4. CASE at[e][k] = n
    <3>1. e = d /\ WaysDivided(g, g2, n, r, p, c)
      BY <2>4, <1>14
    <3>2. Turn(g, n, k) = Turn(g, n, l) /\ at[e][l] = n
      BY <2>2, <2>4
    <3>3. k < p <=> l < p
      BY ONLY <3>1, <3>2, k \in Int, l \in Int DEF WaysDivided
    <3>4. CASE k < p
      <4>1. at2[e][k] = n /\ at2[e][l] = n
        BY ONLY <3>1, <3>2, <3>3, <3>4, <2>4, <1>5, <2>0,
                k \in Int, l \in Int, p \in Int
      <4>2. Turn(g2, n, k) = Turn(g2, n, l)
        BY ONLY <3>1, <3>2, <3>3, <3>4, k \in Int, l \in Int DEF WaysDivided
      <4> QED
        BY <4>1, <4>2
    <3>5. CASE ~(k < p)
      <4>1. at2[e][k] = r /\ at2[e][l] = r
        BY ONLY <3>1, <3>2, <3>3, <3>5, <2>4, <1>5, <2>0,
                k \in Int, l \in Int, p \in Int
      <4>2. Turn(g2, r, k) = Turn(g2, r, l)
        <5>1. k >= p /\ l >= p
          BY ONLY <3>3, <3>5, k \in Int, l \in Int, p \in Int
        <5>2. \A j \in Int : j >= p => Turn(g2, r, j) = Turn(g, n, j) - c
          BY ONLY <3>1 DEF WaysDivided
        <5> QED
          BY ONLY <3>2, <5>1, <5>2, k \in Int, l \in Int
      <4> QED
        BY <4>1, <4>2
    <3> QED
      BY <3>4, <3>5
  <2> QED
    BY <2>3, <2>4
<1>16. Served(g2, h, at2)
  <2> SUFFICES ASSUME NEW e \in 0 .. h - 1, NEW k \in Int,
                      NEW i \in 1 .. Len(g2[at2[e][k]].kids)
               PROVE  \E l \in Int : /\ at2[e][l] = at2[e][k]
                                     /\ Turn(g2, at2[e][k], l) = i
    BY DEF Served
  <2>0. e \in 0 .. h
    BY <1>4
  <2>1. CASE at[e][k] # n
    <3>1. Len(g[at[e][k]].kids) = Len(g2[at2[e][k]].kids)
      BY <2>0, <2>1, <1>13
    <3>2. PICK l \in Int : at[e][l] = at[e][k] /\ Turn(g, at[e][k], l) = i
      BY ONLY <3>1, <1>2, e \in 0 .. h - 1, k \in Int,
              i \in 1 .. Len(g2[at2[e][k]].kids) DEF Served
    <3>3. at2[e][l] = at2[e][k] /\ Turn(g2, at2[e][k], l) = i
      BY <2>0, <2>1, <3>2, <1>13
    <3> QED
      BY <3>3
  <2>2. CASE at[e][k] = n
    <3>1. e = d /\ WaysDivided(g, g2, n, r, p, c)
      BY <2>2, <1>14
    <3>2. \A l \in Int : at[e][l] = n => at2[e][l] = IF l >= p THEN r ELSE n
      BY <2>0, <3>1, <1>5
    <3>3. ASSUME NEW j \in 1 .. Len(g[n].kids)
          PROVE  \E l \in Int : at[e][l] = n /\ Turn(g, n, l) = j
      <4>1. j \in 1 .. Len(g[at[e][k]].kids)
        BY <2>2
      <4> QED
        BY ONLY <4>1, <2>2, <1>2, e \in 0 .. h - 1, k \in Int DEF Served
    <3>w. /\ \A l \in Int : Turn(g, n, l) <= c <=> l < p
          /\ \A l \in Int : l < p => Turn(g2, n, l) = Turn(g, n, l)
          /\ \A l \in Int : l >= p => Turn(g2, r, l) = Turn(g, n, l) - c
      BY ONLY <3>1 DEF WaysDivided
    <3>4. CASE k < p
      <4>0. at2[e][k] = n
        BY ONLY <3>2, <3>4, <2>2, k \in Int, p \in Int
      <4>m. /\ Len(g2[n].kids) = c
            /\ Len(g2[r].kids) \in Nat /\ Len(g[n].kids) = c + Len(g2[r].kids)
        BY ONLY <3>1 DEF WaysDivided
      <4>a. i \in 1 .. c
        BY ONLY <4>0, <4>m, i \in 1 .. Len(g2[at2[e][k]].kids)
      <4>1. i \in 1 .. Len(g[n].kids)
        BY ONLY <4>a, <4>m, c \in Nat
      <4>2. PICK l \in Int : at[e][l] = n /\ Turn(g, n, l) = i
        BY <4>1, <3>3
      <4>b. l < p
        BY ONLY <3>w, <4>a, <4>2, l \in Int, p \in Int, c \in Nat
      <4>3. l < p /\ Turn(g2, n, l) = i
        BY ONLY <3>w, <4>2, <4>b, l \in Int
      <4> QED
        BY <4>0, <4>2, <4>3, <3>2
    <3>5. CASE ~(k < p)
      <4>0. at2[e][k] = r
        BY ONLY <3>2, <3>5, <2>2, k \in Int, p \in Int
      <4>a. i \in 1 .. Len(g2[r].kids)
        BY ONLY <4>0, i \in 1 .. Len(g2[at2[e][k]].kids)
      <4>b. Len(g2[r].kids) \in Nat /\ Len(g[n].kids) = c + Len(g2[r].kids)
        BY ONLY <3>1 DEF WaysDivided
      <4>c. i + c \in 1 .. c + Len(g2[r].kids)
        BY ONLY <4>a, <4>b, c \in Nat
      <4>1. i \in Nat /\ i + c \in 1 .. Len(g[n].kids)
        BY <4>a, <4>b, <4>c
      <4>2. PICK l \in Int : at[e][l] = n /\ Turn(g, n, l) = i + c
        BY <4>1, <3>3
      <4>3. i >= 1
        OBVIOUS
      <4>4. l >= p
        BY ONLY <3>w, <4>1, <4>2, <4>3, l \in Int, p \in Int, c \in Nat
      <4>5. Turn(g2, r, l) = i
        BY ONLY <3>w, <4>1, <4>2, <4>4, l \in Int, p \in Int, c \in Nat
      <4> QED
        BY <4>0, <4>2, <4>4, <4>5, <3>2
    <3> QED
      BY <3>4, <3>5
  <2> QED
    BY <2>1, <2>2
<1>17. Skeleton(g2, h, at2)
  BY <1>7, <1>9, <1>10, <1>11, <1>12, <1>15, <1>16 DEF Skeleton
<1>18. at2[d][p - 1] = n /\ at2[d][p] = r
  BY <1>5
<1>19. \A k \in Int : at2[0][k] = IF d = 0 /\ k >= p THEN r ELSE rt
  BY <1>3, <1>4, <1>5
<1>20. ASSUME NEW e \in 0 .. h - 1, NEW k \in Int
       PROVE  at2[e + 1][k] = IF d = e + 1 /\ Kid(g2, at2[e][k], k) = n /\ k >= p
                                THEN r ELSE Kid(g2, at2[e][k], k)
  <2>0. e \in 0 .. h /\ e + 1 \in 0 .. h /\ at[e + 1][k] = Kid(g, at[e][k], k)
    BY <1>3, <1>4
  <2>1. Kid(g2, at2[e][k], k) = at[e + 1][k]
    <3>1. CASE at[e][k] # n
      BY <2>0, <3>1, <1>13
    <3>2. CASE at[e][k] = n
      <4>1. e = d /\ WaysDivided(g, g2, n, r, p, c)
        BY <3>2, <1>14
      <4>2. at2[e][k] = IF k >= p THEN r ELSE n
        BY ONLY <2>0, <3>2, <4>1, <1>5, k \in Int
      <4>a. /\ k < p => Kid(g2, n, k) = Kid(g, n, k)
            /\ k >= p => Kid(g2, r, k) = Kid(g, n, k)
        BY ONLY <4>1, k \in Int DEF WaysDivided
      <4>3. Kid(g2, at2[e][k], k) = Kid(g, n, k)
        BY ONLY <4>a, <4>2, k \in Int, p \in Int
      <4> QED
        BY <2>0, <3>2, <4>3
    <3> QED
      BY <3>1, <3>2
  <2> QED
    BY <2>0, <2>1, <1>5
<1>21. ASSUME NEW e \in 0 .. h - 1, d = e + 1
       PROVE  /\ at2[e][p] = at2[e][p - 1]
              /\ Turn(g2, at2[e][p], p) = Turn(g2, at2[e][p], p - 1)
              /\ Kid(g2, at2[e][p], p) = n
  <2>0. e \in 0 .. h /\ e # d /\ p - 1 \in Int
    BY <1>4, <1>21
  <2>1. at[e + 1][p] = at[e + 1][p - 1] /\ at[e + 1][p] = n
    BY <1>21
  <2>2. at[e][p] = at[e][p - 1] /\ Turn(g, at[e][p], p) = Turn(g, at[e][p], p - 1)
    BY <2>0, <2>1, <1>2 DEF Nested
  <2>3. at[e][p] # n
    BY <2>0, <1>8
  <2>4. at2[e][p] = at[e][p] /\ at2[e][p - 1] = at[e][p - 1]
    BY <2>0, <1>5
  <2>5. Turn(g2, at2[e][p], p) = Turn(g2, at2[e][p], p - 1)
    BY <2>0, <2>2, <2>3, <2>4, <1>13
  <2>6. Kid(g2, at2[e][p], p) = Kid(g, at[e][p], p)
    BY <2>0, <2>3, <2>4, <1>13
  <2> QED
    BY <2>1, <2>2, <2>4, <2>5, <2>6, <1>3
<1> QED
  BY <1>6, <1>17, <1>18, <1>19, <1>20, <1>21 DEF Parted

(* A way from q to r is opened for the ids from p on that took way s.      *)
WayOpened(g, g2, q, s, p, r) ==
    /\ Len(g[q].kids) \in Nat /\ Len(g2[q].kids) = Len(g[q].kids) + 1
    /\ \A k \in Int : Turn(g, q, k) \in 1 .. Len(g[q].kids)
    /\ \A k \in Int : Turn(g, q, k) < s \/ (Turn(g, q, k) = s /\ k < p) =>
          Turn(g2, q, k) = Turn(g, q, k) /\ Kid(g2, q, k) = Kid(g, q, k)
    /\ \A k \in Int : Turn(g, q, k) = s /\ k >= p =>
          Turn(g2, q, k) = s + 1 /\ Kid(g2, q, k) = r
    /\ \A k \in Int : Turn(g, q, k) > s =>
          Turn(g2, q, k) = Turn(g, q, k) + 1 /\ Kid(g2, q, k) = Kid(g, q, k)

(* The right half in flight is linked to its parent: every id keeps its    *)
(* route, and the tree is whole again.                                     *)
LEMMA LinkTree ==
    ASSUME NEW g, NEW g2, NEW rt, NEW h, NEW at, NEW d, NEW left, NEW p, NEW r,
           Parted(g, rt, h, at, d + 1, left, p, r), d \in 0 .. h - 1,
           NEW q, q = at[d][p], DOMAIN g2 = DOMAIN g,
           \A a \in DOMAIN g : a # q => g2[a] = g[a],
           g2[q].leaf <=> g[q].leaf,
           \A x \in Int : OwnKey(g2, q, x) => OwnKey(g, q, x) \/ x = p,
           WayOpened(g, g2, q, Turn(g, q, p), p, r)
    PROVE  Whole(g2, rt, h, at)
<1>1. Levels(g, h, at) /\ LeavesAtBottom(g, h, at) /\ OneLevel(h, at)
  BY DEF Parted, Skeleton
<1>2. Convex(h, at) /\ OwnKeys(g, h, at) /\ Nested(g, h, at) /\ Served(g, h, at)
  BY DEF Parted, Skeleton
<1>3. h \in Nat /\ at \in [0 .. h -> [Int -> DOMAIN g]] /\ d \in 0 .. h
  BY <1>1 DEF Levels
<1>4. /\ p \in Int /\ left # r
      /\ at[d + 1][p - 1] = left /\ at[d + 1][p] = r
      /\ \A k \in Int : at[0][k] = IF d + 1 = 0 /\ k >= p THEN r ELSE rt
  BY DEF Parted
<1>5. \A e \in 0 .. h - 1 : \A k \in Int :
         at[e + 1][k] = IF d + 1 = e + 1 /\ Kid(g, at[e][k], k) = left /\ k >= p
                          THEN r ELSE Kid(g, at[e][k], k)
  BY DEF Parted
<1>6. /\ at[d][p - 1] = q
      /\ Turn(g, q, p) = Turn(g, q, p - 1)
      /\ Kid(g, q, p) = left
  BY DEF Parted
<1> DEFINE s == Turn(g, q, p)
<1>7. /\ Len(g[q].kids) \in Nat /\ Len(g2[q].kids) = Len(g[q].kids) + 1
      /\ \A k \in Int : Turn(g, q, k) \in Nat
      /\ s \in 1 .. Len(g[q].kids)
  <2>1. /\ Len(g[q].kids) \in Nat /\ Len(g2[q].kids) = Len(g[q].kids) + 1
        /\ \A k \in Int : Turn(g, q, k) \in 1 .. Len(g[q].kids)
    BY DEF WayOpened
  <2>2. s \in 1 .. Len(g[q].kids)
    BY <2>1, <1>4
  <2>3. \A k \in Int : Turn(g, q, k) \in Nat
    <3>1. \A n \in Nat : \A t \in 1 .. n : t \in Nat
      OBVIOUS
    <3> QED
      BY ONLY <2>1, <3>1
  <2> QED
    BY ONLY <2>1, <2>2, <2>3
<1>8. /\ \A k \in Int : Turn(g, q, k) < s \/ (Turn(g, q, k) = s /\ k < p) =>
            Turn(g2, q, k) = Turn(g, q, k) /\ Kid(g2, q, k) = Kid(g, q, k)
      /\ \A k \in Int : Turn(g, q, k) = s /\ k >= p =>
            Turn(g2, q, k) = s + 1 /\ Kid(g2, q, k) = r
      /\ \A k \in Int : Turn(g, q, k) > s =>
            Turn(g2, q, k) = Turn(g, q, k) + 1 /\ Kid(g2, q, k) = Kid(g, q, k)
  BY DEF WayOpened
<1>9. s = Turn(g, q, p - 1)
  BY <1>6
<1> HIDE DEF s
<1>10. \A e \in 0 .. h : \A k \in Int : at[e][k] = q => e = d
  BY <1>1, <1>3, <1>4 DEF OneLevel
<1>11. q \in DOMAIN g /\ ~g[q].leaf
  <2>1. at[d][p] \in DOMAIN g
    BY <1>3, <1>4
  <2>2. d # h
    BY <1>3
  <2> QED
    BY <2>1, <2>2, <1>1, <1>3, <1>4 DEF LeavesAtBottom
<1>12. ASSUME NEW e \in 0 .. h, NEW k \in Int, at[e][k] # q
       PROVE  /\ g2[at[e][k]] = g[at[e][k]]
              /\ \A l \in Int : Turn(g2, at[e][k], l) = Turn(g, at[e][k], l)
              /\ \A l \in Int : Kid(g2, at[e][k], l) = Kid(g, at[e][k], l)
  <2>1. at[e][k] \in DOMAIN g
    BY <1>3
  <2>2. g2[at[e][k]] = g[at[e][k]]
    BY <1>12, <2>1
  <2> QED
    BY <2>2 DEF Turn, Kid
(* The ids of way s are those that the left half or the right half takes.  *)
<1>13. ASSUME NEW k \in Int, at[d][k] = q
       PROVE  /\ Kid(g, q, k) = left <=> Turn(g, q, k) = s
              /\ at[d + 1][k] = IF Turn(g, q, k) = s /\ k >= p THEN r ELSE Kid(g, q, k)
  <2>1. at[d + 1][k] = IF Kid(g, q, k) = left /\ k >= p THEN r ELSE Kid(g, q, k)
    BY <1>5, <1>13
  <2>2. Turn(g, q, k) = s => Kid(g, q, k) = left
    BY <1>6 DEF Kid, s
  <2>3. ASSUME Kid(g, q, k) = left PROVE Turn(g, q, k) = s
    <3>1. at[d + 1][k] = at[d + 1][p - 1] \/ at[d + 1][k] = at[d + 1][p]
      BY <2>1, <2>3, <1>4
    <3>2. p - 1 \in Int
      BY <1>4
    <3>3. Turn(g, q, k) = Turn(g, q, p - 1) \/ Turn(g, q, k) = Turn(g, q, p)
      BY <3>1, <3>2, <1>2, <1>4, <1>13 DEF Nested
    <3> QED
      BY <3>3, <1>9 DEF s
  <2> QED
    BY <2>1, <2>2, <2>3
<1>14. Levels(g2, h, at)
  BY <1>3 DEF Levels
<1>15. LeavesAtBottom(g2, h, at)
  <2> SUFFICES ASSUME NEW e \in 0 .. h, NEW k \in Int
               PROVE  g2[at[e][k]].leaf <=> e = h
    BY DEF LeavesAtBottom
  <2>1. g[at[e][k]].leaf <=> e = h
    BY <1>1 DEF LeavesAtBottom
  <2> QED
    BY <2>1, <1>12
<1>16. OwnKeys(g2, h, at)
  <2> SUFFICES ASSUME NEW e \in 0 .. h, NEW k \in Int, NEW x \in Int,
                      OwnKey(g2, at[e][k], x)
               PROVE  at[e][x] = at[e][k]
    BY DEF OwnKeys
  <2>1. CASE at[e][k] = q
    <3>1. OwnKey(g, q, x) \/ x = p
      BY <2>1
    <3>2. e = d
      BY <2>1, <1>10
    <3>3. OwnKey(g, q, x) => at[e][x] = at[e][k]
      BY <2>1, <1>2 DEF OwnKeys
    <3> QED
      BY <2>1, <3>1, <3>2, <3>3
  <2>2. CASE at[e][k] # q
    <3>1. OwnKey(g, at[e][k], x)
      BY <2>2, <1>12 DEF OwnKey
    <3> QED
      BY <3>1, <1>2 DEF OwnKeys
  <2> QED
    BY <2>1, <2>2
<1>17. Nested(g2, h, at)
  <2> SUFFICES ASSUME NEW e \in 0 .. h - 1, NEW k \in Int, NEW l \in Int,
                      at[e + 1][k] = at[e + 1][l]
               PROVE  /\ at[e][k] = at[e][l]
                      /\ Turn(g2, at[e][k], k) = Turn(g2, at[e][k], l)
    BY DEF Nested
  <2>0. e \in 0 .. h
    BY <1>3
  <2>1. at[e][k] = at[e][l] /\ Turn(g, at[e][k], k) = Turn(g, at[e][k], l)
    BY <1>2 DEF Nested
  <2>2. CASE at[e][k] # q
    BY <2>0, <2>1, <2>2, <1>12
  <2>3. CASE at[e][k] = q
    <3>1. e = d /\ at[d][k] = q /\ at[d][l] = q /\ at[d + 1][k] = at[d + 1][l]
      BY <2>0, <2>1, <2>3, <1>10
    <3>2. Turn(g, q, k) = Turn(g, q, l)
      BY <2>1, <2>3
    <3>3. /\ at[d + 1][k] = IF Turn(g, q, k) = s /\ k >= p THEN r ELSE Kid(g, q, k)
          /\ at[d + 1][l] = IF Turn(g, q, l) = s /\ l >= p THEN r ELSE Kid(g, q, l)
      BY <3>1, <1>13
    <3>4. Turn(g, q, k) = s => Kid(g, q, k) = left /\ Kid(g, q, l) = left
      BY <3>1, <3>2, <1>13
    <3>5. Turn(g, q, k) = s => (k >= p <=> l >= p)
      BY ONLY <3>1, <3>2, <3>3, <3>4, <1>4
    <3>6. Turn(g2, q, k) = Turn(g2, q, l)
      <4>1. CASE Turn(g, q, k) = s /\ k >= p
        BY <4>1, <3>2, <3>5, <1>8
      <4>2. CASE Turn(g, q, k) = s /\ k < p
        <5>1. l < p /\ Turn(g, q, l) = s
          BY ONLY <4>2, <3>2, <3>5, k \in Int, l \in Int, <1>4
        <5> QED
          BY ONLY <4>2, <5>1, <1>8, k \in Int, l \in Int
      <4>3. CASE Turn(g, q, k) < s
        BY ONLY <4>3, <3>2, <1>8, k \in Int, l \in Int
      <4>4. CASE Turn(g, q, k) > s
        BY ONLY <4>4, <3>2, <1>8, k \in Int, l \in Int
      <4> QED
        BY ONLY <4>1, <4>2, <4>3, <4>4, <1>4, <1>7, k \in Int
    <3> QED
      BY <2>1, <2>3, <3>6
  <2> QED
    BY <2>2, <2>3
<1>18. Served(g2, h, at)
  <2> SUFFICES ASSUME NEW e \in 0 .. h - 1, NEW k \in Int,
                      NEW i \in 1 .. Len(g2[at[e][k]].kids)
               PROVE  \E l \in Int : /\ at[e][l] = at[e][k]
                                     /\ Turn(g2, at[e][k], l) = i
    BY DEF Served
  <2>0. e \in 0 .. h
    BY <1>3
  <2>1. CASE at[e][k] # q
    <3>1. Len(g[at[e][k]].kids) = Len(g2[at[e][k]].kids)
      BY <2>0, <2>1, <1>12
    <3>2. PICK l \in Int : at[e][l] = at[e][k] /\ Turn(g, at[e][k], l) = i
      BY ONLY <3>1, <1>2, e \in 0 .. h - 1, k \in Int,
              i \in 1 .. Len(g2[at[e][k]].kids) DEF Served
    <3>3. Turn(g2, at[e][k], l) = i
      BY <2>0, <2>1, <3>2, <1>12
    <3> QED
      BY <3>2, <3>3
  <2>2. CASE at[e][k] = q
    <3>1. e = d /\ i \in 1 .. Len(g[q].kids) + 1
      BY <2>0, <2>2, <1>7, <1>10
    <3>2. ASSUME NEW j \in 1 .. Len(g[q].kids)
          PROVE  \E l \in Int : at[e][l] = q /\ Turn(g, q, l) = j
      <4>1. j \in 1 .. Len(g[at[e][k]].kids)
        BY <2>2
      <4> QED
        BY ONLY <4>1, <2>2, <1>2, e \in 0 .. h - 1, k \in Int DEF Served
    <3> SUFFICES \E l \in Int : at[e][l] = q /\ Turn(g2, q, l) = i
      BY <2>2
    <3>3. CASE i < s
      <4>1. i \in 1 .. Len(g[q].kids)
        <5>1. \A n \in Nat : \A t \in 1 .. n : \A j \in 1 .. n + 1 :
                j < t => j \in 1 .. n
          OBVIOUS
        <5> QED
          BY ONLY <5>1, <3>1, <3>3, <1>7
      <4>2. PICK l \in Int : at[e][l] = q /\ Turn(g, q, l) = i
        BY <4>1, <3>2
      <4>3. Turn(g2, q, l) = i
        BY ONLY <4>2, <3>3, <1>8, l \in Int
      <4> QED
        BY <4>2, <4>3
    <3>4. CASE i = s
      <4>1. p - 1 \in Int /\ p - 1 < p
        BY <1>4
      <4>2. Turn(g2, q, p - 1) = i
        BY ONLY <4>1, <3>4, <1>8, <1>9
      <4> QED
        BY <4>1, <4>2, <1>6, <3>1
    <3>5. CASE i = s + 1
      <4>1. Turn(g2, q, p) = i
        BY ONLY <3>5, <1>8, <1>4 DEF s
      <4> QED
        BY <4>1, <1>4, <3>1
    <3>6. CASE i > s + 1
      <4>1. i - 1 \in 1 .. Len(g[q].kids) /\ i - 1 > s /\ (i - 1) + 1 = i
        BY ONLY <3>1, <3>6, <1>7
      <4>2. PICK l \in Int : at[e][l] = q /\ Turn(g, q, l) = i - 1
        BY <4>1, <3>2
      <4>3. Turn(g2, q, l) = i
        BY ONLY <4>1, <4>2, <1>8, l \in Int
      <4> QED
        BY <4>2, <4>3
    <3> QED
      BY ONLY <3>1, <3>3, <3>4, <3>5, <3>6, <1>7
  <2> QED
    BY <2>1, <2>2
<1>19. ASSUME NEW e \in 0 .. h - 1, NEW k \in Int
       PROVE  at[e + 1][k] = Kid(g2, at[e][k], k)
  <2>0. e \in 0 .. h
    BY <1>3
  <2>1. CASE at[e][k] # q
    <3>1. Kid(g2, at[e][k], k) = Kid(g, at[e][k], k)
      BY <2>0, <2>1, <1>12
    <3>2. ASSUME d + 1 = e + 1, Kid(g, at[e][k], k) = left, k >= p PROVE FALSE
      <4>1. e = d /\ at[d + 1][k] = r
        BY <3>2, <1>3, <1>5
      <4>2. at[d + 1][k] = at[d + 1][p]
        BY <4>1, <1>4
      <4>3. at[d][k] = at[d][p]
        BY <4>2, <1>2, <1>4 DEF Nested
      <4> QED
        BY <4>1, <4>3, <2>1
    <3> QED
      BY <3>1, <3>2, <1>5
  <2>2. CASE at[e][k] = q
    <3>1. e = d /\ at[d][k] = q
      BY <2>0, <2>2, <1>10
    <3>2. at[d + 1][k] = IF Turn(g, q, k) = s /\ k >= p THEN r ELSE Kid(g, q, k)
      BY <3>1, <1>13
    <3>3. CASE Turn(g, q, k) = s /\ k >= p
      BY <3>1, <3>2, <3>3, <1>8
    <3>4. CASE ~(Turn(g, q, k) = s /\ k >= p)
      <4>1. Turn(g, q, k) < s \/ (Turn(g, q, k) = s /\ k < p) \/ Turn(g, q, k) > s
        BY ONLY <3>4, <1>4, <1>7, k \in Int
      <4>2. Kid(g2, q, k) = Kid(g, q, k)
        BY ONLY <4>1, <1>8, k \in Int
      <4> QED
        BY <3>1, <3>2, <3>4, <4>2
    <3> QED
      BY <3>3, <3>4
  <2> QED
    BY <2>1, <2>2
<1>20. \A k \in Int : at[0][k] = rt
  <2>1. d + 1 # 0
    BY <1>3
  <2> QED
    BY <2>1, <1>4
<1>21. Skeleton(g2, h, at)
  BY <1>1, <1>2, <1>14, <1>15, <1>16, <1>17, <1>18 DEF Skeleton
<1> QED
  BY <1>19, <1>20, <1>21 DEF Whole

(* A new root above the two halves of the old one.                         *)
Raised(h, at, f) ==
    [d \in 0 .. h + 1 |-> IF d = 0 THEN [k \in Int |-> f] ELSE at[d - 1]]

LEMMA GrowTree ==
    ASSUME NEW g, NEW g2, NEW rt, NEW h, NEW at, NEW p, NEW r,
           Parted(g, rt, h, at, 0, rt, p, r),
           NEW f, f \notin DOMAIN g, DOMAIN g2 = DOMAIN g \union {f},
           \A a \in DOMAIN g : g2[a] = g[a],
           ~g2[f].leaf, Len(g2[f].kids) = 2,
           \A k \in Int : k < p => Turn(g2, f, k) = 1 /\ Kid(g2, f, k) = rt,
           \A k \in Int : k >= p => Turn(g2, f, k) = 2 /\ Kid(g2, f, k) = r,
           NEW at2, at2 = Raised(h, at, f)
    PROVE  Whole(g2, f, h + 1, at2)
<1>1. Levels(g, h, at) /\ LeavesAtBottom(g, h, at) /\ OneLevel(h, at)
  BY DEF Parted, Skeleton
<1>2. Convex(h, at) /\ OwnKeys(g, h, at) /\ Nested(g, h, at) /\ Served(g, h, at)
  BY DEF Parted, Skeleton
<1>3. h \in Nat /\ at \in [0 .. h -> [Int -> DOMAIN g]]
  BY <1>1 DEF Levels
<1>4. /\ p \in Int /\ rt # r
      /\ \A k \in Int : at[0][k] = IF k >= p THEN r ELSE rt
  BY DEF Parted
<1>5. \A d \in 0 .. h - 1 : \A k \in Int : at[d + 1][k] = Kid(g, at[d][k], k)
  <2>1. \A d \in 0 .. h - 1 : 0 # d + 1
    BY <1>3
  <2> QED
    BY <2>1 DEF Parted
<1>0. at2 = [d \in 0 .. h + 1 |-> IF d = 0 THEN [k \in Int |-> f] ELSE at[d - 1]]
  BY DEF Raised
<1>6. /\ \A k \in Int : at2[0][k] = f
      /\ \A d \in 0 .. h : at2[d + 1] = at[d]
      /\ at2 \in [0 .. h + 1 -> [Int -> DOMAIN g2]]
  <2>1. \A d \in 0 .. h : d + 1 \in 0 .. h + 1 /\ d + 1 # 0 /\ (d + 1) - 1 = d
    BY <1>3
  <2>2. \A d \in 0 .. h : at2[d + 1] = at[d]
    BY ONLY <1>0, <2>1
  <2>3. \A d \in 0 .. h + 1 : d # 0 => d - 1 \in 0 .. h
    BY <1>3
  <2>4. \A d \in 0 .. h : at[d] \in [Int -> DOMAIN g2]
    BY <1>3
  <2>5. [k \in Int |-> f] \in [Int -> DOMAIN g2]
    OBVIOUS
  <2>6. at2 \in [0 .. h + 1 -> [Int -> DOMAIN g2]]
    BY <1>0, <2>3, <2>4, <2>5
  <2>7. 0 \in 0 .. h + 1
    BY <1>3
  <2>8. \A k \in Int : at2[0][k] = f
    BY <1>0, <2>7
  <2> QED
    BY <2>2, <2>6, <2>8
<1>7. \A d \in 0 .. h : \A k \in Int : at[d][k] \in DOMAIN g /\ at[d][k] # f
  BY <1>3
<1>8. \A e \in 0 .. h + 1 : e = 0 \/ \E d \in 0 .. h : e = d + 1
  <2>1. \A e \in 0 .. h + 1 : e # 0 => e - 1 \in 0 .. h /\ e = (e - 1) + 1
    BY <1>3
  <2> QED
    BY <2>1
<1>9. ASSUME NEW d \in 0 .. h, NEW k \in Int
      PROVE  /\ g2[at[d][k]] = g[at[d][k]]
             /\ \A l \in Int : Turn(g2, at[d][k], l) = Turn(g, at[d][k], l)
             /\ \A l \in Int : Kid(g2, at[d][k], l) = Kid(g, at[d][k], l)
  <2>1. g2[at[d][k]] = g[at[d][k]]
    BY <1>7
  <2> QED
    BY <2>1 DEF Turn, Kid
<1>10. Levels(g2, h + 1, at2)
  BY <1>3, <1>6 DEF Levels
<1>11. LeavesAtBottom(g2, h + 1, at2)
  <2> SUFFICES ASSUME NEW e \in 0 .. h + 1, NEW k \in Int
               PROVE  g2[at2[e][k]].leaf <=> e = h + 1
    BY DEF LeavesAtBottom
  <2>1. CASE e = 0
    BY <2>1, <1>3, <1>6
  <2>2. ASSUME NEW d \in 0 .. h, e = d + 1
        PROVE  g2[at2[e][k]].leaf <=> e = h + 1
    <3>1. g[at[d][k]].leaf <=> d = h
      BY <1>1 DEF LeavesAtBottom
    <3>2. d = h <=> e = h + 1
      BY <2>2, <1>3
    <3> QED
      BY <3>1, <3>2, <2>2, <1>6, <1>9
  <2> QED
    BY <2>1, <2>2, <1>8
<1>12. OneLevel(h + 1, at2)
  <2> SUFFICES ASSUME NEW d \in 0 .. h + 1, NEW e \in 0 .. h + 1,
                      NEW k \in Int, NEW l \in Int, at2[d][k] = at2[e][l]
               PROVE  d = e
    BY DEF OneLevel
  <2>1. CASE d = 0 \/ e = 0
    BY <2>1, <1>6, <1>7, <1>8
  <2>2. ASSUME NEW a \in 0 .. h, NEW b \in 0 .. h, d = a + 1, e = b + 1
        PROVE  d = e
    BY <2>2, <1>1, <1>6 DEF OneLevel
  <2> QED
    BY <2>1, <2>2, <1>8
<1>13. Convex(h + 1, at2)
  <2> SUFFICES ASSUME NEW e \in 0 .. h + 1, NEW j \in Int, NEW k \in Int,
                      NEW l \in Int, j <= k, k <= l, at2[e][j] = at2[e][l]
               PROVE  at2[e][k] = at2[e][j]
    BY DEF Convex
  <2>1. CASE e = 0
    BY <2>1, <1>6
  <2>2. ASSUME NEW d \in 0 .. h, e = d + 1 PROVE at2[e][k] = at2[e][j]
    BY <2>2, <1>2, <1>6 DEF Convex
  <2> QED
    BY <2>1, <2>2, <1>8
<1>14. OwnKeys(g2, h + 1, at2)
  <2> SUFFICES ASSUME NEW e \in 0 .. h + 1, NEW k \in Int, NEW x \in Int,
                      OwnKey(g2, at2[e][k], x)
               PROVE  at2[e][x] = at2[e][k]
    BY DEF OwnKeys
  <2>1. CASE e = 0
    BY <2>1, <1>6
  <2>2. ASSUME NEW d \in 0 .. h, e = d + 1 PROVE at2[e][x] = at2[e][k]
    <3>1. OwnKey(g, at[d][k], x)
      BY <2>2, <1>6, <1>9 DEF OwnKey
    <3> QED
      BY <3>1, <2>2, <1>2, <1>6 DEF OwnKeys
  <2> QED
    BY <2>1, <2>2, <1>8
<1>15. \A e \in 0 .. (h + 1) - 1 : e \in 0 .. h
  BY <1>3
<1>16. ASSUME NEW d \in 0 .. h, d + 1 \in 0 .. h PROVE d \in 0 .. h - 1
  BY <1>3, <1>16
<1>17. Nested(g2, h + 1, at2)
  <2> SUFFICES ASSUME NEW e \in 0 .. h, NEW k \in Int, NEW l \in Int,
                      at2[e + 1][k] = at2[e + 1][l]
               PROVE  /\ at2[e][k] = at2[e][l]
                      /\ Turn(g2, at2[e][k], k) = Turn(g2, at2[e][k], l)
    BY <1>15 DEF Nested
  <2>0. at[e][k] = at[e][l] /\ e \in 0 .. h + 1
    BY <1>3, <1>6
  <2>1. CASE e = 0
    <3>1. k < p <=> l < p
      BY <2>0, <2>1, <1>4
    <3>2. at2[e][k] = f /\ at2[e][l] = f
      BY <2>1, <1>6
    <3>3. Turn(g2, f, k) = Turn(g2, f, l)
      BY <3>1, <1>4
    <3> QED
      BY <3>2, <3>3
  <2>2. ASSUME NEW d \in 0 .. h, e = d + 1
        PROVE  /\ at2[e][k] = at2[e][l]
               /\ Turn(g2, at2[e][k], k) = Turn(g2, at2[e][k], l)
    <3>1. d \in 0 .. h - 1 /\ at[d + 1][k] = at[d + 1][l]
      BY <2>0, <2>2, <1>16
    <3>2. at[d][k] = at[d][l] /\ Turn(g, at[d][k], k) = Turn(g, at[d][k], l)
      BY <3>1, <1>2 DEF Nested
    <3> QED
      BY <3>2, <2>2, <1>6, <1>9
  <2> QED
    BY <2>0, <2>1, <2>2, <1>8
<1>18. Served(g2, h + 1, at2)
  <2> SUFFICES ASSUME NEW e \in 0 .. h, NEW k \in Int,
                      NEW i \in 1 .. Len(g2[at2[e][k]].kids)
               PROVE  \E l \in Int : /\ at2[e][l] = at2[e][k]
                                     /\ Turn(g2, at2[e][k], l) = i
    BY <1>15 DEF Served
  <2>0. e \in 0 .. h + 1
    BY <1>3
  <2>1. CASE e = 0
    <3>1. i \in 1 .. 2 /\ \A l \in Int : at2[e][l] = f
      BY <2>1, <1>6
    <3>2. Turn(g2, f, p - 1) = 1 /\ Turn(g2, f, p) = 2
      BY <1>4
    <3>3. i = 1 \/ i = 2
      BY ONLY <3>1
    <3>4. p - 1 \in Int /\ p \in Int
      BY <1>4
    <3> QED
      BY ONLY <3>1, <3>2, <3>3, <3>4, k \in Int
  <2>2. ASSUME NEW d \in 0 .. h, e = d + 1
        PROVE  \E l \in Int : at2[e][l] = at2[e][k] /\ Turn(g2, at2[e][k], l) = i
    <3>1. d \in 0 .. h - 1
      BY <2>2, <1>16
    <3>2. i \in 1 .. Len(g[at[d][k]].kids)
      <4>1. at2[e][k] = at[d][k] /\ g2[at[d][k]] = g[at[d][k]]
        BY <2>2, <1>6, <1>9
      <4> QED
        BY ONLY <4>1, i \in 1 .. Len(g2[at2[e][k]].kids)
    <3>3. PICK l \in Int : at[d][l] = at[d][k] /\ Turn(g, at[d][k], l) = i
      BY ONLY <3>1, <3>2, <1>2, k \in Int DEF Served
    <3> QED
      BY <3>3, <2>2, <1>6, <1>9
  <2> QED
    BY <2>0, <2>1, <2>2, <1>8
<1>19. ASSUME NEW e \in 0 .. h, NEW k \in Int
       PROVE  at2[e + 1][k] = Kid(g2, at2[e][k], k)
  <2>0. e \in 0 .. h + 1 /\ at2[e + 1][k] = at[e][k]
    BY <1>3, <1>6
  <2>1. CASE e = 0
    <3>1. at2[e][k] = f /\ at[0][k] = IF k >= p THEN r ELSE rt
      BY <2>1, <1>4, <1>6
    <3>2. Kid(g2, f, k) = IF k >= p THEN r ELSE rt
      BY <1>4
    <3> QED
      BY <3>1, <3>2, <2>0, <2>1
  <2>2. ASSUME NEW d \in 0 .. h, e = d + 1
        PROVE  at2[e + 1][k] = Kid(g2, at2[e][k], k)
    <3>1. d \in 0 .. h - 1
      BY <2>2, <1>16
    <3>2. at[e][k] = Kid(g, at[d][k], k)
      BY <3>1, <2>2, <1>5
    <3> QED
      BY <3>2, <2>0, <2>2, <1>6, <1>9
  <2> QED
    BY <2>0, <2>1, <2>2, <1>8
<1>20. Skeleton(g2, h + 1, at2)
  BY <1>10, <1>11, <1>12, <1>13, <1>14, <1>17, <1>18 DEF Skeleton
<1>21. \A k \in Int : at2[0][k] = f
  BY <1>6
<1> QED
  BY <1>15, <1>19, <1>20, <1>21 DEF Whole

(* One leaf is a tree.                                                     *)
LEMMA LeafTree ==
    ASSUME NEW g, NEW f, f \in DOMAIN g, g[f].leaf
    PROVE  Whole(g, f, 0, [d \in 0 .. 0 |-> [k \in Int |-> f]])
<1> DEFINE at == [d \in 0 .. 0 |-> [k \in Int |-> f]]
<1>1. at \in [0 .. 0 -> [Int -> DOMAIN g]] /\ \A d \in 0 .. 0 : \A k \in Int : at[d][k] = f
  OBVIOUS
<1>2. \A d \in 0 .. 0 : d = 0
  OBVIOUS
<1>3. 0 .. 0 - 1 = {} /\ 0 \in 0 .. 0
  OBVIOUS
<1> HIDE DEF at
<1>4. Levels(g, 0, at)
  BY <1>1 DEF Levels
<1>5. LeavesAtBottom(g, 0, at)
  BY <1>1, <1>2 DEF LeavesAtBottom
<1>6. OneLevel(0, at) /\ Convex(0, at)
  BY <1>1, <1>2 DEF OneLevel, Convex
<1>7. OwnKeys(g, 0, at)
  BY <1>1 DEF OwnKeys
<1>8. Nested(g, 0, at) /\ Served(g, 0, at)
  BY <1>3 DEF Nested, Served
<1>9. Skeleton(g, 0, at)
  BY <1>4, <1>5, <1>6, <1>7, <1>8 DEF Skeleton
<1>10. Whole(g, f, 0, at)
  BY <1>1, <1>3, <1>9 DEF Whole
<1> QED
  BY <1>10 DEF at

(* Ids that pass one node passed one node at every level above.            *)
LEMMA NestedToRoot ==
    ASSUME NEW g, NEW h \in Nat, NEW at, Nested(g, h, at),
           NEW k \in Int, NEW l \in Int, at[0][k] # at[0][l]
    PROVE  \A d \in 0 .. h : at[d][k] # at[d][l]
<1> DEFINE S == {d \in Nat : d <= h => at[d][k] # at[d][l]}
<1>1. 0 \in S
  OBVIOUS
<1>2. ASSUME NEW d \in Nat, d \in S PROVE d + 1 \in S
  <2>1. ASSUME d + 1 <= h, at[d + 1][k] = at[d + 1][l] PROVE FALSE
    <3>1. d \in 0 .. h - 1
      BY <2>1
    <3>2. at[d][k] = at[d][l]
      BY <2>1, <3>1 DEF Nested
    <3> QED
      BY <1>2, <2>1, <3>2
  <2> QED
    BY <2>1
<1>3. Nat \subseteq S
  <2> HIDE DEF S
  <2> QED
    BY ONLY <1>1, <1>2, ByInduction
<1> QED
  BY <1>3

(* A key above all keys of a node takes the last way.                      *)
LEMMA TurnAbove ==
    ASSUME NEW ks \in Seq(Keys), NEW p \in Int, NEW k \in Int, k >= p,
           \A i \in 1 .. Len(ks) : ks[i] < p
    PROVE  ChildIndex(ks, k) = ChildIndex(ks, p - 1)
<1>1. Len(ks) \in Nat /\ \A i \in 1 .. Len(ks) : ks[i] \in Int
  BY KeyNumbers
<1> DEFINE c == ChildIndex(ks, p - 1)
<1>2. Slot(ks, Len(ks), p - 1, c)
  BY ChildIndexSlot
<1> HIDE DEF c
<1>3. c \in 1 .. Len(ks) + 1 /\ ~(c <= Len(ks))
  BY ONLY <1>1, <1>2, \A i \in 1 .. Len(ks) : ks[i] < p, p \in Int DEF Slot
<1>4. \A j \in 1 .. c - 1 : ks[j] <= k
  BY ONLY <1>1, <1>3, \A i \in 1 .. Len(ks) : ks[i] < p, p \in Int, k \in Int, k >= p
<1>5. Slot(ks, Len(ks), k, c)
  BY <1>3, <1>4 DEF Slot
<1>6. ChildIndex(ks, k) = c
  BY ONLY <1>5, SlotIsChildIndex, ks \in Seq(Keys), k \in Int
<1> QED
  BY <1>6 DEF c

(* The right half of the old root is lost: the ids from p on take the      *)
(* route of the last id below p.                                           *)
Lowered(h, at, p) ==
    [d \in 0 .. h |-> [k \in Int |-> at[d][IF k < p THEN k ELSE p - 1]]]

LEMMA LoseTree ==
    ASSUME NEW g, NEW rt, NEW h, NEW at, NEW p, NEW r,
           Parted(g, rt, h, at, 0, rt, p, r),
           \A a \in DOMAIN g : g[a].keys \in Seq(Keys),
           NEW at2, at2 = Lowered(h, at, p)
    PROVE  Whole(g, rt, h, at2)
<1>1. Levels(g, h, at) /\ LeavesAtBottom(g, h, at) /\ OneLevel(h, at)
  BY DEF Parted, Skeleton
<1>2. Convex(h, at) /\ OwnKeys(g, h, at) /\ Nested(g, h, at) /\ Served(g, h, at)
  BY DEF Parted, Skeleton
<1>3. h \in Nat /\ at \in [0 .. h -> [Int -> DOMAIN g]]
  BY <1>1 DEF Levels
<1>4. /\ p \in Int /\ p - 1 \in Int /\ rt # r
      /\ \A k \in Int : at[0][k] = IF k >= p THEN r ELSE rt
  BY DEF Parted
<1>5. \A d \in 0 .. h - 1 : \A k \in Int : at[d + 1][k] = Kid(g, at[d][k], k)
  <2>1. \A d \in 0 .. h - 1 : 0 # d + 1
    BY <1>3
  <2> QED
    BY <2>1 DEF Parted
<1> DEFINE low(k) == IF k < p THEN k ELSE p - 1
<1>6. /\ \A k \in Int : low(k) \in Int /\ low(k) < p /\ (k < p => low(k) = k)
      /\ \A k, l \in Int : k <= l => low(k) <= low(l)
      /\ \A k \in Int : k >= p => low(k) = p - 1
  BY <1>4
<1> HIDE DEF low
<1>7. /\ at2 \in [0 .. h -> [Int -> DOMAIN g]]
      /\ \A d \in 0 .. h : \A k \in Int : at2[d][k] = at[d][low(k)]
  <2>1. at2 = [d \in 0 .. h |-> [k \in Int |-> at[d][low(k)]]]
    BY DEF low, Lowered
  <2> QED
    BY <2>1, <1>3, <1>6
<1>8. \A d \in 0 .. h : at[d][p - 1] # at[d][p]
  <2>1. at[0][p - 1] # at[0][p]
    BY <1>4
  <2> QED
    BY <2>1, <1>2, <1>3, <1>4, NestedToRoot
<1>9. ASSUME NEW d \in 0 .. h, NEW k \in Int, NEW x \in Int, k < p,
             at[d][x] = at[d][k]
      PROVE  x < p
  <2>1. CASE x >= p
    <3>1. k <= p - 1 /\ p - 1 <= x /\ k <= p /\ p <= x
      BY <1>4, <1>9, <2>1
    <3>2. at[d][p - 1] = at[d][k] /\ at[d][p] = at[d][k]
      BY <3>1, <1>2, <1>4, <1>9 DEF Convex
    <3> QED
      BY <3>2, <1>8
  <2> QED
    BY <2>1, <1>4
<1>10. ASSUME NEW d \in 0 .. h, NEW k \in Int
       PROVE  Turn(g, at2[d][k], k) = Turn(g, at2[d][k], low(k))
  <2>1. CASE k < p
    BY <2>1, <1>6
  <2>2. CASE ~(k < p)
    <3>1. at2[d][k] = at[d][p - 1] /\ low(k) = p - 1 /\ k >= p
      BY <2>2, <1>4, <1>6, <1>7
    <3> DEFINE n == at[d][p - 1]
    <3>2. g[n].keys \in Seq(Keys)
      BY <1>3, <1>4
    <3>3. ASSUME NEW i \in 1 .. Len(g[n].keys) PROVE g[n].keys[i] < p
      <4>1. OwnKey(g, n, g[n].keys[i]) /\ g[n].keys[i] \in Int
        BY <3>2, KeyNumbers DEF OwnKey
      <4>2. at[d][g[n].keys[i]] = n
        BY <4>1, <1>2, <1>4 DEF OwnKeys
      <4>3. p - 1 < p /\ at[d][g[n].keys[i]] = at[d][p - 1]
        BY <4>2, <1>4
      <4> QED
        BY ONLY <4>1, <4>3, <1>4, <1>9, d \in 0 .. h
    <3> HIDE DEF n
    <3>4. ChildIndex(g[n].keys, k) = ChildIndex(g[n].keys, p - 1)
      BY <3>1, <3>2, <3>3, <1>4, TurnAbove
    <3> QED
      BY <3>1, <3>4 DEF Turn, n
  <2> QED
    BY <2>1, <2>2
<1>11. Levels(g, h, at2)
  BY <1>3, <1>7 DEF Levels
<1>12. LeavesAtBottom(g, h, at2)
  <2>1. LeavesAtBottom(g, h, at)
    BY ONLY <1>1
  <2> QED
    BY ONLY <2>1, <1>6, <1>7 DEF LeavesAtBottom
<1>13. OneLevel(h, at2)
  BY <1>1, <1>6, <1>7 DEF OneLevel
<1>14. Convex(h, at2)
  <2> SUFFICES ASSUME NEW e \in 0 .. h, NEW j \in Int, NEW k \in Int, NEW l \in Int,
                      j <= k, k <= l, at2[e][j] = at2[e][l]
               PROVE  at2[e][k] = at2[e][j]
    BY DEF Convex
  <2>1. low(j) <= low(k) /\ low(k) <= low(l) /\ at[e][low(j)] = at[e][low(l)]
    BY <1>6, <1>7
  <2> QED
    BY <2>1, <1>2, <1>6, <1>7 DEF Convex
<1>15. OwnKeys(g, h, at2)
  <2> SUFFICES ASSUME NEW e \in 0 .. h, NEW k \in Int, NEW x \in Int,
                      OwnKey(g, at2[e][k], x)
               PROVE  at2[e][x] = at2[e][k]
    BY DEF OwnKeys
  <2>1. at[e][x] = at[e][low(k)]
    BY <1>2, <1>6, <1>7 DEF OwnKeys
  <2>2. x < p
    BY <2>1, <1>6, <1>9
  <2> QED
    BY <2>1, <2>2, <1>6, <1>7
<1>16. Nested(g, h, at2)
  <2> SUFFICES ASSUME NEW e \in 0 .. h - 1, NEW k \in Int, NEW l \in Int,
                      at2[e + 1][k] = at2[e + 1][l]
               PROVE  /\ at2[e][k] = at2[e][l]
                      /\ Turn(g, at2[e][k], k) = Turn(g, at2[e][k], l)
    BY DEF Nested
  <2>0. e \in 0 .. h /\ e + 1 \in 0 .. h
    BY <1>3
  <2>1. at[e + 1][low(k)] = at[e + 1][low(l)]
    BY <2>0, <1>7
  <2>2. /\ at[e][low(k)] = at[e][low(l)]
        /\ Turn(g, at[e][low(k)], low(k)) = Turn(g, at[e][low(k)], low(l))
    BY <2>1, <1>2, <1>6 DEF Nested
  <2>3. at2[e][k] = at[e][low(k)] /\ at2[e][l] = at[e][low(l)]
    BY <2>0, <1>7
  <2>4. /\ Turn(g, at2[e][k], k) = Turn(g, at2[e][k], low(k))
        /\ Turn(g, at2[e][l], l) = Turn(g, at2[e][l], low(l))
    BY <2>0, <1>10
  <2> QED
    BY <2>2, <2>3, <2>4
<1>17. Served(g, h, at2)
  <2> SUFFICES ASSUME NEW e \in 0 .. h - 1, NEW k \in Int,
                      NEW i \in 1 .. Len(g[at2[e][k]].kids)
               PROVE  \E l \in Int : /\ at2[e][l] = at2[e][k]
                                     /\ Turn(g, at2[e][k], l) = i
    BY DEF Served
  <2>0. e \in 0 .. h /\ low(k) \in Int /\ at2[e][k] = at[e][low(k)]
    BY <1>3, <1>6, <1>7
  <2>1. i \in 1 .. Len(g[at[e][low(k)]].kids)
    BY <2>0
  <2>2. PICK l \in Int : /\ at[e][l] = at[e][low(k)]
                         /\ Turn(g, at[e][low(k)], l) = i
    BY ONLY <2>0, <2>1, <1>2, e \in 0 .. h - 1 DEF Served
  <2>3. l < p
    BY <2>0, <2>2, <1>6, <1>9
  <2> QED
    BY <2>0, <2>2, <2>3, <1>6, <1>7
<1>18. Skeleton(g, h, at2)
  BY <1>11, <1>12, <1>13, <1>14, <1>15, <1>16, <1>17 DEF Skeleton
<1>19. \A k \in Int : at2[0][k] = rt
  <2>1. 0 \in 0 .. h
    BY <1>3
  <2> SUFFICES ASSUME NEW k \in Int PROVE at2[0][k] = rt
    OBVIOUS
  <2>2. at2[0][k] = at[0][low(k)] /\ ~(low(k) >= p)
    BY <2>1, <1>4, <1>6, <1>7
  <2> QED
    BY <2>2, <1>4, <1>6
<1>20. ASSUME NEW e \in 0 .. h - 1, NEW k \in Int
       PROVE  at2[e + 1][k] = Kid(g, at2[e][k], k)
  <2>0. e \in 0 .. h /\ e + 1 \in 0 .. h
    BY <1>3
  <2>1. at2[e + 1][k] = at[e + 1][low(k)] /\ at2[e][k] = at[e][low(k)]
    BY <2>0, <1>7
  <2>2. at[e + 1][low(k)] = Kid(g, at[e][low(k)], low(k))
    BY <1>5, <1>6
  <2> QED
    BY <2>0, <2>1, <2>2, <1>10 DEF Kid
<1> QED
  BY <1>18, <1>19, <1>20 DEF Whole

-----------------------------------------------------------------------------
(* What insert_into_leaf and insert_into_internal do to the arrays of a    *)
(* node, in terms of the ways of the ids.                                  *)

(* An internal node, or the keys of any node.                              *)
Branch(n) ==
    /\ n.keys \in Seq(Keys) /\ Ascends(n.keys, Len(n.keys))
    /\ n.kids \in Seq(Addr) /\ Len(n.kids) = Len(n.keys) + 1

LEMMA TurnSlot ==
    ASSUME NEW g, NEW n, g[n].keys \in Seq(Keys), NEW k \in Int
    PROVE  /\ Slot(g[n].keys, Len(g[n].keys), k, Turn(g, n, k))
           /\ Turn(g, n, k) \in 1 .. Len(g[n].keys) + 1
<1>1. Slot(g[n].keys, Len(g[n].keys), k, Turn(g, n, k))
  BY ChildIndexSlot DEF Turn
<1>2. Turn(g, n, k) \in 1 .. Len(g[n].keys) + 1
  BY <1>1 DEF Slot
<1> QED
  BY <1>1, <1>2

LEMMA SlotIsTurn ==
    ASSUME NEW g, NEW n, g[n].keys \in Seq(Keys), NEW k \in Int, NEW i,
           Slot(g[n].keys, Len(g[n].keys), k, i)
    PROVE  Turn(g, n, k) = i
BY SlotIsChildIndex DEF Turn

(* The new separator and the new child are shifted in behind the left one. *)
LEMMA LinkOpensWay ==
    ASSUME NEW g, NEW g2, NEW q, NEW p \in Keys, NEW r \in Addr,
           Branch(g[q]), NEW s, s = Turn(g, q, p), s = Turn(g, q, p - 1),
           g2[q].keys = InsertAt(g[q].keys, s, p),
           g2[q].kids = InsertAt(g[q].kids, s + 1, r)
    PROVE  /\ Branch(g2[q])
           /\ Len(g2[q].keys) = Len(g[q].keys) + 1
           /\ WayOpened(g, g2, q, s, p, r)
           /\ \A x \in Int : OwnKey(g2, q, x) => OwnKey(g, q, x) \/ x = p
<1>1. /\ g[q].keys \in Seq(Keys) /\ Ascends(g[q].keys, Len(g[q].keys))
      /\ g[q].kids \in Seq(Addr) /\ Len(g[q].kids) = Len(g[q].keys) + 1
  BY DEF Branch
<1>p. p \in Int
  BY KeysAssumption
<1> DEFINE ks == g[q].keys
           ks2 == g2[q].keys
           cs == g[q].kids
           cs2 == g2[q].kids
           n == Len(ks)
<1>2. n \in Nat /\ \A j \in 1 .. n : ks[j] \in Int
  BY <1>1, KeyNumbers
<1>3. Slot(ks, n, p, s) /\ s \in 1 .. n + 1
  BY <1>1, <1>p, TurnSlot
<1>4. Slot(ks, n, p - 1, s)
  <2>1. p - 1 \in Int
    BY <1>p
  <2> QED
    BY <2>1, <1>1, TurnSlot
<1>5. ks2 \in Seq(Keys) /\ Len(ks2) = n + 1 /\ Opened(ks, ks2, n, s, p)
  <2>1. ks \in Seq(Keys) /\ s \in 1 .. Len(ks) + 1
    BY <1>1, <1>3
  <2> QED
    BY <2>1, OpenedByInsert
<1>6. cs2 \in Seq(Addr) /\ Len(cs2) = n + 2 /\ Opened(cs, cs2, n + 1, s + 1, r)
  <2>1. cs \in Seq(Addr) /\ s + 1 \in 1 .. Len(cs) + 1 /\ Len(cs) = n + 1
    BY <1>1, <1>2, <1>3
  <2>2. /\ cs2 \in Seq(Addr) /\ Len(cs2) = Len(cs) + 1
        /\ Opened(cs, cs2, Len(cs), s + 1, r)
    BY <2>1, OpenedByInsert
  <2>3. Len(cs) + 1 = n + 2
    BY <2>1, <1>2
  <2> QED
    BY <2>1, <2>2, <2>3
<1>7. Ascends(ks, n) /\ Len(cs) = n + 1
  BY <1>1
<1>8. cs2 = g2[q].kids /\ ks2 = g2[q].keys /\ cs = g[q].kids /\ ks = g[q].keys
      /\ n = Len(g[q].keys)
  OBVIOUS
<1>9. \A k \in Int : Slot(ks, n, k, Turn(g, q, k)) /\ Turn(g, q, k) \in 1 .. n + 1
  BY <1>1, TurnSlot
<1> HIDE DEF ks, ks2, cs, cs2, n
<1>10. (\A j \in 1 .. s - 1 : ks[j] < p) /\ (s <= n => p < ks[s])
  <2>1. \A j \in 1 .. s - 1 : ks[j] <= p - 1 /\ ks[j] \in Int
    BY <1>2, <1>3, <1>4 DEF Slot
  <2> QED
    BY <2>1, <1>p, <1>3 DEF Slot
<1>11. Ascends(ks2, n + 1)
  BY <1>2, <1>p, <1>3, <1>5, <1>7, <1>10, OpenedAscends
<1>12. ASSUME NEW k \in Int
       PROVE  LET t == Turn(g, q, k) IN
              /\ t < s \/ (t = s /\ k < p) =>
                   Turn(g2, q, k) = t /\ Kid(g2, q, k) = Kid(g, q, k)
              /\ t = s /\ k >= p => Turn(g2, q, k) = s + 1 /\ Kid(g2, q, k) = r
              /\ t > s => Turn(g2, q, k) = t + 1 /\ Kid(g2, q, k) = Kid(g, q, k)
  <2> DEFINE t == Turn(g, q, k)
  <2>1. Slot(ks, n, k, t) /\ t \in 1 .. n + 1
    BY <1>9
  <2>2. /\ t < s \/ (t = s /\ k < p) => Slot(ks2, n + 1, k, t)
        /\ t > s \/ (t = s /\ k >= p) => Slot(ks2, n + 1, k, t + 1)
    <3> HIDE DEF t
    <3> QED
      BY <2>1, <1>p, <1>2, <1>3, <1>5, OpenedSlot
  <2>3. \A i : Slot(ks2, n + 1, k, i) => Turn(g2, q, k) = i
    BY <1>5, <1>8, SlotIsTurn
  <2>4. Kid(g, q, k) = cs[t] /\ Kid(g2, q, k) = cs2[Turn(g2, q, k)]
    BY <1>8 DEF Kid
  <2> HIDE DEF t
  <2>5. ASSUME t < s \/ (t = s /\ k < p)
        PROVE  Turn(g2, q, k) = t /\ Kid(g2, q, k) = Kid(g, q, k)
    <3>1. Turn(g2, q, k) = t
      BY <2>2, <2>3, <2>5
    <3>2. t \in 1 .. (s + 1) - 1
      BY <2>1, <2>5, <1>3
    <3>3. cs2[t] = cs[t]
      BY <3>2, <1>6 DEF Opened
    <3> QED
      BY <3>1, <3>3, <2>4
  <2>6. ASSUME t = s, k >= p
        PROVE  Turn(g2, q, k) = s + 1 /\ Kid(g2, q, k) = r
    BY <2>2, <2>3, <2>4, <2>6, <1>6 DEF Opened
  <2>7. ASSUME t > s
        PROVE  Turn(g2, q, k) = t + 1 /\ Kid(g2, q, k) = Kid(g, q, k)
    <3>1. Turn(g2, q, k) = t + 1
      BY <2>2, <2>3, <2>7
    <3>2. t \in s + 1 .. n + 1
      BY <2>1, <2>7, <1>3
    <3>3. cs2[t + 1] = cs[t]
      BY <3>2, <1>6 DEF Opened
    <3> QED
      BY <3>1, <3>3, <2>4
  <2> QED
    BY <2>5, <2>6, <2>7 DEF t
<1>13. WayOpened(g, g2, q, s, p, r)
  <2>1. Len(g[q].kids) = n + 1 /\ Len(g2[q].kids) = n + 2
    BY <1>6, <1>7, <1>8
  <2>2. n + 1 \in Nat /\ n + 2 = (n + 1) + 1
    BY <1>2
  <2> QED
    BY ONLY <2>1, <2>2, <1>9, <1>12 DEF WayOpened
<1>14. ASSUME NEW x \in Int, OwnKey(g2, q, x) PROVE OwnKey(g, q, x) \/ x = p
  <2>1. PICK i \in 1 .. n + 1 : ks2[i] = x
    BY <1>5, <1>8, <1>14 DEF OwnKey
  <2>2. CASE i < s
    <3>0. i \in 1 .. s - 1 /\ i \in 1 .. n
      BY ONLY <2>2, <1>2, <1>3, i \in 1 .. n + 1
    <3>1. i \in 1 .. n /\ ks[i] = x
      BY <2>1, <3>0, <1>5 DEF Opened
    <3> QED
      BY <3>1, <1>8 DEF OwnKey
  <2>3. CASE i = s
    BY <2>1, <2>3, <1>5 DEF Opened
  <2>4. CASE i > s
    <3>0. i - 1 \in s .. n /\ (i - 1) + 1 = i /\ i - 1 \in 1 .. n
      BY ONLY <2>4, <1>2, <1>3, i \in 1 .. n + 1
    <3>1. ks2[(i - 1) + 1] = ks[i - 1]
      BY ONLY <3>0, <1>5 DEF Opened
    <3>2. i - 1 \in 1 .. n /\ ks[i - 1] = x
      BY <3>0, <3>1, <2>1
    <3> QED
      BY <3>1, <3>2, <2>1, <1>8 DEF OwnKey
  <2> QED
    BY <2>1, <2>2, <2>3, <2>4, <1>3
<1>15. Branch(g2[q])
  <2>1. Len(cs2) = Len(ks2) + 1
    BY <1>2, <1>5, <1>6
  <2> QED
    BY <2>1, <1>5, <1>6, <1>8, <1>11 DEF Branch
<1> QED
  BY <1>5, <1>8, <1>13, <1>14, <1>15

(* The slice of c elements behind the first b.                             *)
Slice(t, s, b, c) == t = SubSeq(s, b + 1, b + c)

LEMMA SliceBehind ==
    ASSUME NEW S, NEW s \in Seq(S), NEW b \in Nat, NEW c \in Nat, b + c <= Len(s),
           NEW t, Slice(t, s, b, c)
    PROVE  /\ t \in Seq(S) /\ Len(t) = c
           /\ \A i \in 1 .. c : t[i] = s[b + i]
<1> DEFINE a == b + 1
           e == b + c
<1>1. a \in 1 .. Len(s) + 1 /\ e \in a - 1 .. Len(s) /\ e - a + 1 = c
  OBVIOUS
<1>2. /\ t \in Seq(S) /\ Len(t) = e - a + 1
      /\ \A i \in 1 .. e - a + 1 : t[i] = s[a + i - 1]
  <2>1. t = SubSeq(s, a, e)
    BY DEF Slice
  <2> HIDE DEF a, e
  <2> QED
    BY <1>1, <2>1, SliceElements
<1>3. ASSUME NEW i \in 1 .. c PROVE t[i] = s[b + i]
  <2>1. t[i] = s[a + i - 1]
    BY <1>1, <1>2
  <2>2. a + i - 1 = b + i
    OBVIOUS
  <2> QED
    BY <2>1, <2>2
<1> QED
  BY <1>1, <1>2, <1>3

LEMMA KidsBehind ==
    ASSUME NEW cs \in Seq(Addr), NEW b \in Nat, NEW c \in Nat, b + c <= Len(cs),
           NEW t, Slice(t, cs, b, c)
    PROVE  /\ t \in Seq(Addr) /\ Len(t) = c
           /\ \A i \in 1 .. c : t[i] = cs[b + i]
BY SliceBehind

LEMMA KeysBehind ==
    ASSUME NEW ks \in Seq(Keys), NEW n \in Nat, n = Len(ks), Ascends(ks, n),
           NEW b \in Nat, NEW c \in Nat, b + c <= n,
           NEW t, Slice(t, ks, b, c)
    PROVE  /\ t \in Seq(Keys) /\ Len(t) = c /\ Ascends(t, c)
           /\ \A i \in 1 .. c : t[i] = ks[b + i]
<1>1. t \in Seq(Keys) /\ Len(t) = c /\ \A i \in 1 .. c : t[i] = ks[b + i]
  <2>1. b + c <= Len(ks)
    OBVIOUS
  <2> QED
    BY <2>1, SliceBehind
<1>2. Ascends(t, c)
  BY ONLY <1>1, SliceAscends, Ascends(ks, n), n \in Nat, b \in Nat, c \in Nat, b + c <= n
<1> QED
  BY <1>1, <1>2

(* The first m of the keys are below the m+1st, and the others are not.    *)
LEMMA KeysAround ==
    ASSUME NEW ks, NEW n \in Nat, \A j \in 1 .. n : ks[j] \in Int,
           Ascends(ks, n), NEW m \in Nat, m + 1 <= n
    PROVE  /\ \A j \in 1 .. m : ks[j] < ks[m + 1]
           /\ \A j \in m + 1 .. n : ks[j] >= ks[m + 1]
<1>1. m + 1 \in 1 .. n
  OBVIOUS
<1>2. \A j \in 1 .. m : ks[j] < ks[m + 1]
  BY <1>1 DEF Ascends
<1>3. ASSUME NEW j \in m + 1 .. n PROVE ks[j] >= ks[m + 1]
  <2>1. j \in 1 .. n /\ (j = m + 1 \/ m + 1 < j)
    OBVIOUS
  <2> QED
    BY <2>1, <1>1 DEF Ascends
<1> QED
  BY <1>2, <1>3

(* Both halves of a split: the first m keys, and the r keys behind the     *)
(* first b, where b is m in a leaf and m + 1 in an internal node.          *)
Halves(ks, n, m, b, r, lo, hi, p) ==
    /\ ks \in Seq(Keys) /\ n \in Nat /\ n = Len(ks) /\ Ascends(ks, n)
    /\ m \in Nat /\ 1 <= m /\ m + 1 <= n
    /\ b \in Nat /\ m <= b /\ b <= m + 1 /\ r \in Nat /\ n = b + r
    /\ Slice(lo, ks, 0, m) /\ Slice(hi, ks, b, r)
    /\ p = ks[m + 1]

LEMMA HalvesOfKeys ==
    ASSUME NEW ks, NEW n, NEW m, NEW b, NEW r, NEW lo, NEW hi, NEW p,
           Halves(ks, n, m, b, r, lo, hi, p)
    PROVE  /\ lo \in Seq(Keys) /\ Len(lo) = m /\ Ascends(lo, m)
           /\ hi \in Seq(Keys) /\ Len(hi) = r /\ Ascends(hi, r)
           /\ p \in Int
           /\ \A i \in 1 .. m : lo[i] = ks[i] /\ lo[i] < p
           /\ \A i \in 1 .. r : hi[i] = ks[b + i] /\ hi[i] >= p
<1> SUFFICES ASSUME ks \in Seq(Keys), n \in Nat, n = Len(ks), Ascends(ks, n),
                    m \in Nat, 1 <= m, m + 1 <= n,
                    b \in Nat, m <= b, b <= m + 1, r \in Nat, n = b + r,
                    Slice(lo, ks, 0, m), Slice(hi, ks, b, r), p = ks[m + 1]
             PROVE  /\ lo \in Seq(Keys) /\ Len(lo) = m /\ Ascends(lo, m)
                    /\ hi \in Seq(Keys) /\ Len(hi) = r /\ Ascends(hi, r)
                    /\ p \in Int
                    /\ \A i \in 1 .. m : lo[i] = ks[i] /\ lo[i] < p
                    /\ \A i \in 1 .. r : hi[i] = ks[b + i] /\ hi[i] >= p
  BY DEF Halves
<1>1. \A j \in 1 .. n : ks[j] \in Int
  BY KeyNumbers
<1>2. /\ lo \in Seq(Keys) /\ Len(lo) = m /\ Ascends(lo, m)
      /\ \A i \in 1 .. m : lo[i] = ks[i]
  <2>1. 0 \in Nat /\ 0 + m <= n /\ \A i \in 1 .. m : 0 + i = i
    OBVIOUS
  <2>2. /\ lo \in Seq(Keys) /\ Len(lo) = m /\ Ascends(lo, m)
        /\ \A i \in 1 .. m : lo[i] = ks[0 + i]
    BY ONLY <2>1, KeysBehind, ks \in Seq(Keys), n \in Nat, n = Len(ks),
            Ascends(ks, n), m \in Nat, Slice(lo, ks, 0, m)
  <2> QED
    BY ONLY <2>1, <2>2
<1>3. /\ hi \in Seq(Keys) /\ Len(hi) = r /\ Ascends(hi, r)
      /\ \A i \in 1 .. r : hi[i] = ks[b + i]
  <2>1. b + r <= n
    OBVIOUS
  <2> QED
    BY ONLY <2>1, KeysBehind, ks \in Seq(Keys), n \in Nat, n = Len(ks),
            Ascends(ks, n), b \in Nat, r \in Nat, Slice(hi, ks, b, r)
<1>4. m + 1 \in 1 .. n /\ p \in Int
  BY <1>1
<1>5. /\ \A j \in 1 .. m : ks[j] < p
      /\ \A j \in m + 1 .. n : ks[j] >= p
  BY ONLY <1>1, KeysAround, Ascends(ks, n), n \in Nat, m \in Nat, m + 1 <= n,
          p = ks[m + 1]
<1>6. \A i \in 1 .. r : b + i \in m + 1 .. n
  OBVIOUS
<1>7. \A i \in 1 .. r : hi[i] >= p
  BY ONLY <1>3, <1>5, <1>6
<1>8. \A i \in 1 .. m : lo[i] < p
  BY ONLY <1>2, <1>5
<1> QED
  BY <1>2, <1>3, <1>4, <1>7, <1>8

(* What a split does to the keys of a node n and its new right half r.     *)
KeysDivided(g, g2, n, r, p) ==
    /\ p \in Int
    /\ OwnKey(g, n, p)
    /\ \E x \in Int : OwnKey(g, n, x) /\ x < p
    /\ \A x \in Int : OwnKey(g2, n, x) => OwnKey(g, n, x) /\ x < p
    /\ \A x \in Int : OwnKey(g2, r, x) => OwnKey(g, n, x) /\ x >= p

LEMMA HalvesDivideKeys ==
    ASSUME NEW g, NEW g2, NEW n, NEW r, NEW t, NEW m, NEW b, NEW c, NEW p,
           Halves(g[n].keys, t, m, b, c, g2[n].keys, g2[r].keys, p)
    PROVE  KeysDivided(g, g2, n, r, p)
<1>h. Len(g2[n].keys) = m /\ Len(g2[r].keys) = c
  BY HalvesOfKeys
<1>l. \A i \in 1 .. m : g2[n].keys[i] = g[n].keys[i] /\ g2[n].keys[i] < p
  BY HalvesOfKeys
<1>u. \A i \in 1 .. c : g2[r].keys[i] = g[n].keys[b + i] /\ g2[r].keys[i] >= p
  BY HalvesOfKeys
<1>i. \A i \in 1 .. Len(g[n].keys) : g[n].keys[i] \in Int
  <2>1. g[n].keys \in Seq(Keys)
    BY DEF Halves
  <2> QED
    BY ONLY <2>1, KeyNumbers
<1> SUFFICES ASSUME t \in Nat, m \in Nat, b \in Nat, c \in Nat,
                    1 <= m, m + 1 <= t, t = b + c,
                    Len(g[n].keys) = t, Len(g2[n].keys) = m, Len(g2[r].keys) = c,
                    \A i \in 1 .. t : g[n].keys[i] \in Int,
                    p = g[n].keys[m + 1],
                    \A i \in 1 .. m : g2[n].keys[i] = g[n].keys[i] /\ g2[n].keys[i] < p,
                    \A i \in 1 .. c : /\ g2[r].keys[i] = g[n].keys[b + i]
                                      /\ g2[r].keys[i] >= p
             PROVE  KeysDivided(g, g2, n, r, p)
  <2>1. t = Len(g[n].keys)
    BY DEF Halves
  <2> QED
    BY <1>h, <1>l, <1>u, <1>i, <2>1 DEF Halves
<1>1. m + 1 \in 1 .. t /\ 1 \in 1 .. m /\ 1 \in 1 .. t
  OBVIOUS
<1>2. p \in Int /\ OwnKey(g, n, p)
  BY <1>1 DEF OwnKey
<1>3. \E x \in Int : OwnKey(g, n, x) /\ x < p
  <2>1. OwnKey(g, n, g[n].keys[1]) /\ g[n].keys[1] \in Int /\ g[n].keys[1] < p
    BY <1>1 DEF OwnKey
  <2> QED
    BY <2>1
<1>4. ASSUME NEW x \in Int, OwnKey(g2, n, x) PROVE OwnKey(g, n, x) /\ x < p
  <2>1. PICK i \in 1 .. m : g2[n].keys[i] = x
    BY <1>4 DEF OwnKey
  <2>2. i \in 1 .. t
    BY ONLY i \in 1 .. m, m \in Nat, t \in Nat, m + 1 <= t
  <2>3. g[n].keys[i] = x /\ x < p
    BY <2>1
  <2> QED
    BY <2>2, <2>3 DEF OwnKey
<1>5. ASSUME NEW x \in Int, OwnKey(g2, r, x) PROVE OwnKey(g, n, x) /\ x >= p
  <2>1. PICK i \in 1 .. c : g2[r].keys[i] = x
    BY <1>5 DEF OwnKey
  <2>2. b + i \in 1 .. t
    BY ONLY i \in 1 .. c, t = b + c, b \in Nat, c \in Nat
  <2>3. g[n].keys[b + i] = x /\ x >= p
    BY <2>1
  <2> QED
    BY <2>2, <2>3 DEF OwnKey
<1> QED
  BY <1>2, <1>3, <1>4, <1>5 DEF KeysDivided

(* The halves of an internal node: its separator m + 1 moves up.           *)
LEMMA HalvesDivideWays ==
    ASSUME NEW g, NEW g2, NEW n, NEW r, Branch(g[n]), Branch(g2[n]), Branch(g2[r]),
           NEW t, NEW m, NEW b, NEW c, NEW u, NEW p, b = m + 1, u = c + 1,
           Halves(g[n].keys, t, m, b, c, g2[n].keys, g2[r].keys, p),
           Slice(g2[n].kids, g[n].kids, 0, b), Slice(g2[r].kids, g[n].kids, b, u)
    PROVE  WaysDivided(g, g2, n, r, p, m + 1)
<1>h. Len(g2[n].keys) = m /\ Len(g2[r].keys) = c
  BY HalvesOfKeys
<1>d. \A i \in 1 .. m : g2[n].keys[i] = g[n].keys[i]
  BY HalvesOfKeys
<1>e. \A i \in 1 .. c : g2[r].keys[i] = g[n].keys[b + i]
  BY HalvesOfKeys
<1>j. t \in Nat /\ m \in Nat /\ c \in Nat /\ 1 <= m /\ t = b + c /\ t = Len(g[n].keys)
      /\ p = g[n].keys[m + 1]
  BY DEF Halves
<1>l. u \in Nat /\ t = (m + 1) + c
  BY ONLY <1>j, u = c + 1, b = m + 1
<1> SUFFICES ASSUME t \in Nat, m \in Nat, c \in Nat, u \in Nat,
                    1 <= m, t = (m + 1) + c, u = c + 1,
                    Len(g[n].keys) = t, Len(g2[n].keys) = m, Len(g2[r].keys) = c,
                    \A i \in 1 .. m : g2[n].keys[i] = g[n].keys[i],
                    \A i \in 1 .. c : g2[r].keys[i] = g[n].keys[(m + 1) + i],
                    Slice(g2[n].kids, g[n].kids, 0, m + 1),
                    Slice(g2[r].kids, g[n].kids, m + 1, u),
                    p = g[n].keys[m + 1]
             PROVE  WaysDivided(g, g2, n, r, p, m + 1)
  BY <1>h, <1>d, <1>e, <1>j, <1>l
<1>1. /\ g[n].keys \in Seq(Keys) /\ Ascends(g[n].keys, t)
      /\ g2[n].keys \in Seq(Keys) /\ g2[r].keys \in Seq(Keys)
      /\ g[n].kids \in Seq(Addr) /\ Len(g[n].kids) = t + 1
  BY DEF Branch
<1>s. g[n].kids \in Seq(Addr)
  BY <1>1
<1>2. /\ \A i \in 1 .. m + 1 : g2[n].kids[i] = g[n].kids[i]
      /\ Len(g2[n].kids) = m + 1
  <2>0. PICK v \in Nat : v = m + 1
    OBVIOUS
  <2>1. 0 \in Nat /\ 0 + v <= Len(g[n].kids)
    BY <2>0, <1>1
  <2>a. \A i \in 1 .. v : 0 + i = i
    OBVIOUS
  <2>2. Slice(g2[n].kids, g[n].kids, 0, v)
    BY <2>0
  <2>3. /\ Len(g2[n].kids) = v
        /\ \A i \in 1 .. v : g2[n].kids[i] = g[n].kids[0 + i]
    BY ONLY <2>1, <2>2, <1>s, KidsBehind, v \in Nat
  <2> QED
    BY ONLY <2>0, <2>a, <2>3
<1>3. /\ \A i \in 1 .. u : g2[r].kids[i] = g[n].kids[(m + 1) + i]
      /\ Len(g2[r].kids) = u
  <2>0. PICK v \in Nat : v = m + 1
    OBVIOUS
  <2>1. v + u <= Len(g[n].kids)
    BY <2>0, <1>1
  <2>2. Slice(g2[r].kids, g[n].kids, v, u)
    BY <2>0
  <2>3. /\ Len(g2[r].kids) = u
        /\ \A i \in 1 .. u : g2[r].kids[i] = g[n].kids[v + i]
    BY ONLY <2>1, <2>2, <1>s, KidsBehind, u \in Nat, v \in Nat
  <2> QED
    BY ONLY <2>0, <2>3
<1>4. \A i \in 1 .. t : g[n].keys[i] \in Int
  BY <1>1, KeyNumbers
<1>5. p \in Int /\ m + 1 <= t
  <2>1. m + 1 \in 1 .. t
    OBVIOUS
  <2> QED
    BY <2>1, <1>4
<1>6. \A k \in Int : /\ Slot(g[n].keys, t, k, Turn(g, n, k))
                     /\ Turn(g, n, k) \in 1 .. t + 1
  BY <1>1, TurnSlot
<1>11. \A k \in Int : Turn(g, n, k) \in Nat
  <2>1. \A i \in 1 .. t + 1 : i \in Nat
    OBVIOUS
  <2> QED
    BY ONLY <2>1, <1>6
<1>7. /\ \A k \in Int : \A i : Slot(g2[n].keys, m, k, i) => Turn(g2, n, k) = i
      /\ \A k \in Int : \A i : Slot(g2[r].keys, c, k, i) => Turn(g2, r, k) = i
  BY <1>1, SlotIsTurn
<1>8. ASSUME NEW k \in Int, k < p
      PROVE  /\ Turn(g, n, k) <= m + 1
             /\ Turn(g2, n, k) = Turn(g, n, k) /\ Kid(g2, n, k) = Kid(g, n, k)
  <2>0. PICK x \in Nat : x = Turn(g, n, k) /\ x \in 1 .. t + 1
    BY ONLY <1>6, <1>11, k \in Int
  <2>1. Slot(g[n].keys, t, k, x)
    BY <2>0, <1>6
  <2>2. x <= m + 1 /\ Slot(g2[n].keys, m, k, x)
    BY ONLY <2>1, <1>4, <1>5, <1>8, LowerSlot, t \in Nat, m \in Nat, k \in Int,
            \A i \in 1 .. m : g2[n].keys[i] = g[n].keys[i], p = g[n].keys[m + 1]
  <2>3. Turn(g2, n, k) = x
    BY <2>2, <1>7
  <2>4. x \in 1 .. m + 1
    BY ONLY <2>0, <2>2, m \in Nat
  <2> QED
    BY <2>0, <2>2, <2>3, <2>4, <1>2 DEF Kid
<1>9. ASSUME NEW k \in Int, k >= p
      PROVE  /\ Turn(g, n, k) > m + 1
             /\ Turn(g2, r, k) = Turn(g, n, k) - (m + 1)
             /\ Kid(g2, r, k) = Kid(g, n, k)
  <2>0. PICK x \in Nat : x = Turn(g, n, k) /\ x \in 1 .. t + 1
    BY ONLY <1>6, <1>11, k \in Int
  <2>1. Slot(g[n].keys, t, k, x)
    BY <2>0, <1>6
  <2>2. c = t - (m + 1)
    OBVIOUS
  <2>3. x > m + 1 /\ Slot(g2[r].keys, c, k, x - (m + 1))
    BY ONLY <2>1, <2>2, <1>1, <1>4, <1>5, <1>9, UpperSlot, t \in Nat, m \in Nat,
            c \in Nat, k \in Int,
            \A i \in 1 .. c : g2[r].keys[i] = g[n].keys[(m + 1) + i],
            p = g[n].keys[m + 1]
  <2>4. Turn(g2, r, k) = x - (m + 1)
    BY <2>3, <1>7
  <2>5. x - (m + 1) \in 1 .. u /\ (m + 1) + (x - (m + 1)) = x
    <3>1. PICK s \in Nat : s = m + 1
      OBVIOUS
    <3>2. PICK v \in Nat : v = u
      OBVIOUS
    <3>3. x \in 1 .. s + v /\ x > s
      BY <2>0, <2>3, <3>1, <3>2, t + 1 = (m + 1) + u
    <3>4. x - s \in 1 .. v /\ s + (x - s) = x
      BY ONLY <3>3, x \in Nat, s \in Nat, v \in Nat
    <3> QED
      BY <3>1, <3>2, <3>4
  <2>6. g2[r].kids[x - (m + 1)] = g[n].kids[x]
    BY <2>5, <1>3
  <2> QED
    BY <2>0, <2>3, <2>4, <2>6 DEF Kid
<1>10. /\ Len(g2[n].kids) = m + 1 /\ Len(g2[r].kids) \in Nat
       /\ Len(g[n].kids) = (m + 1) + Len(g2[r].kids)
  BY <1>1, <1>2, <1>3
<1>12. \A k \in Int : Turn(g, n, k) <= m + 1 <=> k < p
  <2> TAKE k \in Int
  <2>1. CASE k < p
    BY <2>1, <1>8
  <2>2. CASE ~(k < p)
    <3>1. Turn(g, n, k) > m + 1
      BY <2>2, <1>5, <1>9
    <3> QED
      BY ONLY <3>1, <2>2, <1>11, m \in Nat, k \in Int
  <2> QED
    BY <2>1, <2>2
<1> QED
  BY ONLY <1>8, <1>9, <1>10, <1>11, <1>12 DEF WaysDivided
=============================================================================
