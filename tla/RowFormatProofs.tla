-------------------------- MODULE RowFormatProofs ---------------------------
(***************************************************************************)
(* Theorems about RowFormat: whatever the schema files, their edits, the   *)
(* literals and the sizes of the machine, the columns loaded are those the *)
(* file describes, a row comes back as it was given, a SELECT prints what  *)
(* it means, by the index as by a scan, and undefined behaviour needs one  *)
(* of three causes.                                                        *)
(***************************************************************************)
EXTENDS RowFormatInv, FiniteSetTheorems, TLAPS

(* The library's induction theorems take an operator; this takes a set.    *)
LEMMA LeastNatural ==
    ASSUME NEW N \in SUBSET Nat, N # {}
    PROVE  \E m \in N : \A k \in N : m <= k
<1> DEFINE T == {0 .. k : k \in N}
           R == StrictSubsetOrdering(Nat)
           F == FiniteSubsetsOf(Nat)
<1>1. T \subseteq F
  <2> SUFFICES ASSUME NEW k \in N PROVE 0 .. k \in F
    OBVIOUS
  <2>1. 0 .. k \in SUBSET Nat
    OBVIOUS
  <2>2. IsFiniteSet(0 .. k)
    BY FS_Interval
  <2> QED
    BY <2>1, <2>2 DEF FiniteSubsetsOf
<1>2. T # {}
  OBVIOUS
<1>3. IsWellFoundedOn(R, F)
  BY FS_StrictSubsetOrderingWellFounded
<1>4. PICK X \in T : \A Y \in T : ~(<<Y, X>> \in R)
  <2> HIDE DEF T, R, F
  <2> QED
    BY <1>1, <1>2, <1>3, WFMin
<1>5. PICK m \in N : X = 0 .. m
  OBVIOUS
<1>6. ASSUME NEW k \in N, k < m PROVE FALSE
  <2>1. 0 .. k \subseteq 0 .. m /\ m \in 0 .. m /\ m \notin 0 .. k
    BY <1>6
  <2>2. 0 .. k \in SUBSET Nat /\ X \in SUBSET Nat
    BY <1>5
  <2>3. <<0 .. k, X>> \in R
    BY <2>1, <2>2, <1>5 DEF StrictSubsetOrdering
  <2> QED
    BY <2>3, <1>4
<1> QED
  BY <1>6

-----------------------------------------------------------------------------
LEMMA Induction ==
    ASSUME NEW n \in Nat, NEW T, 0 \in T,
           \A i \in 0 .. n - 1 : i \in T => i + 1 \in T
    PROVE  \A i \in 0 .. n : i \in T
<1> SUFFICES ASSUME NEW k \in 0 .. n, k \notin T PROVE FALSE
  OBVIOUS
<1> DEFINE N == {i \in 0 .. n : i \notin T}
<1>1. N \in SUBSET Nat /\ N # {}
  OBVIOUS
<1>2. PICK m \in N : \A i \in N : m <= i
  BY <1>1, LeastNatural
<1>3. m \in 0 .. n /\ m \notin T /\ m # 0
  OBVIOUS
<1>4. m - 1 \in 0 .. n - 1 /\ m - 1 \notin N
  BY <1>2, <1>3
<1>5. m - 1 \in T
  BY <1>4
<1> QED
  BY <1>3, <1>4, <1>5

(* The functions on 0 .. n with the value base at 0 and, at i, what h[i]    *)
(* makes of the value before: there is one.                                *)
Recursive(n, V, base, h) ==
    {f \in [0 .. n -> V] : f[0] = base /\ \A i \in 1 .. n : f[i] = h[i][f[i - 1]]}

LEMMA Recursion ==
    ASSUME NEW n \in Nat, NEW V, NEW base \in V, NEW h \in [1 .. n -> [V -> V]]
    PROVE  Recursive(n, V, base, h) # {}
<1> DEFINE Good(m, f) == f \in [0 .. m -> V] /\ f[0] = base
                         /\ \A i \in 1 .. m : f[i] = h[i][f[i - 1]]
           T == {m \in 0 .. n : \E f : Good(m, f)}
<1>1. 0 \in T
  <2>1. Good(0, [i \in 0 .. 0 |-> base])
    OBVIOUS
  <2> HIDE DEF Good
  <2> QED
    BY <2>1
<1>2. ASSUME NEW m \in 0 .. n - 1, m \in T PROVE m + 1 \in T
  <2>1. PICK f : Good(m, f)
    BY <1>2
  <2> DEFINE g == [i \in 0 .. m + 1 |-> IF i <= m THEN f[i] ELSE h[m + 1][f[m]]]
  <2>2. f[m] \in V /\ m + 1 \in 1 .. n
    BY <2>1
  <2>3. h[m + 1][f[m]] \in V
    BY <2>2
  <2>4. g \in [0 .. m + 1 -> V]
    BY <2>1, <2>3
  <2>5. g[0] = base
    BY <2>1
  <2>6. ASSUME NEW i \in 1 .. m + 1 PROVE g[i] = h[i][g[i - 1]]
    <3>1. CASE i <= m
      <4>1. g[i] = f[i] /\ g[i - 1] = f[i - 1]
        BY <3>1
      <4> QED
        BY <3>1, <4>1, <2>1
    <3>2. CASE i = m + 1
      <4>1. g[i] = h[m + 1][f[m]] /\ g[i - 1] = f[m]
        BY <3>2
      <4> QED
        BY <3>2, <4>1
    <3> QED
      BY <3>1, <3>2
  <2>7. Good(m + 1, g)
    BY <2>4, <2>5, <2>6
  <2> HIDE DEF Good, g
  <2> QED
    BY <2>7
<1>3. n \in T
  <2> HIDE DEF T
  <2>1. \A i \in 0 .. n : i \in T
    BY <1>1, <1>2, Induction
  <2> QED
    BY <2>1
<1>4. PICK f : Good(n, f)
  BY <1>3
<1> QED
  BY <1>4 DEF Recursive

-----------------------------------------------------------------------------
(* The powers of Base.                                                     *)

LEMMA PowerFacts ==
    /\ Power \in [0 .. IntBytes -> Nat \ {0}]
    /\ Power[0] = 1
    /\ \A i \in 1 .. IntBytes : Power[i] = Base * Power[i - 1]
<1> DEFINE h == [i \in 1 .. IntBytes |-> [v \in Nat \ {0} |-> Base * v]]
<1>0. IntBytes \in Nat /\ Base \in Nat \ {0}
  BY MachineAssumption
<1>1. h \in [1 .. IntBytes -> [Nat \ {0} -> Nat \ {0}]]
  BY <1>0
<1>2. Recursive(IntBytes, Nat \ {0}, 1, h) # {}
  <2>1. PICK V : V = Nat \ {0}
    OBVIOUS
  <2>2. 1 \in V
    BY <2>1
  <2>3. h \in [1 .. IntBytes -> [V -> V]]
    BY <1>1, <2>1
  <2> HIDE DEF h
  <2>4. Recursive(IntBytes, V, 1, h) # {}
    BY <1>0, <2>2, <2>3, Recursion
  <2> QED
    BY <2>1, <2>4
<1>3. PICK f \in [0 .. IntBytes -> Nat \ {0}] :
        f[0] = 1 /\ \A i \in 1 .. IntBytes : f[i] = h[i][f[i - 1]]
  BY <1>2 DEF Recursive
<1>4. \A i \in 1 .. IntBytes : f[i] = Base * f[i - 1]
  <2> SUFFICES ASSUME NEW i \in 1 .. IntBytes PROVE f[i] = Base * f[i - 1]
    OBVIOUS
  <2>1. f[i - 1] \in Nat \ {0}
    BY <1>0
  <2> QED
    BY <2>1, <1>3
<1>5. f = [i \in 0 .. IntBytes |-> IF i = 0 THEN 1 ELSE Base * f[i - 1]]
  BY <1>3, <1>4, <1>0
<1>6. Power = [i \in 0 .. IntBytes |-> IF i = 0 THEN 1 ELSE Base * Power[i - 1]]
  <2> DEFINE P == CHOOSE p : p = [i \in 0 .. IntBytes |-> IF i = 0 THEN 1 ELSE Base * p[i - 1]]
  <2>1. P = [i \in 0 .. IntBytes |-> IF i = 0 THEN 1 ELSE Base * P[i - 1]]
    BY <1>5
  <2>2. Power = P
    BY DEF Power
  <2> QED
    BY <2>1, <2>2
<1>7. Power[0] = 1 /\ \A i \in 1 .. IntBytes : Power[i] = Base * Power[i - 1]
  BY <1>6, <1>0
<1>8. \A i \in 0 .. IntBytes : i \in {j \in 0 .. IntBytes : Power[j] \in Nat \ {0}}
  <2> DEFINE T == {j \in 0 .. IntBytes : Power[j] \in Nat \ {0}}
  <2>1. 0 \in T
    BY <1>7, <1>0
  <2>2. \A i \in 0 .. IntBytes - 1 : i \in T => i + 1 \in T
    <3> SUFFICES ASSUME NEW i \in 0 .. IntBytes - 1, i \in T PROVE i + 1 \in T
      OBVIOUS
    <3>1. i + 1 \in 1 .. IntBytes /\ (i + 1) - 1 = i
      BY <1>0
    <3>2. Power[i + 1] = Base * Power[i]
      BY <1>7, <3>1
    <3>3. Power[i] \in Nat \ {0}
      OBVIOUS
    <3>4. Base * Power[i] \in Nat \ {0}
      BY <3>3, <1>0
    <3> QED
      BY <3>1, <3>2, <3>4
  <2> HIDE DEF T
  <2>3. \A i \in 0 .. IntBytes : i \in T
    BY <2>1, <2>2, <1>0, Induction
  <2> QED
    BY <2>3 DEF T
<1>9. \A i \in 0 .. IntBytes : Power[i] \in Nat \ {0}
  BY <1>8
<1>10. Power \in [0 .. IntBytes -> Nat \ {0}]
  BY <1>6, <1>9
<1> QED
  BY <1>7, <1>10

LEMMA IntMaxFacts ==
    /\ IntMax \in Nat
    /\ Power[IntBytes] = 2 * IntMax + 2
<1>0. IntBytes \in Nat /\ IntBytes > 0 /\ Base \in Nat /\ Base % 2 = 0
  BY MachineAssumption
<1>1. PICK p \in Nat \ {0} : p = Power[IntBytes - 1]
  BY <1>0, PowerFacts
<1>2. Power[IntBytes] = Base * p
  BY <1>0, <1>1, PowerFacts
<1>3. PICK b \in Nat : Base = 2 * b
  BY <1>0
<1>4. b > 0
  BY <1>3, MachineAssumption
<1>5. Base * p = 2 * (b * p) /\ b * p \in Nat /\ b * p > 0
  BY <1>1, <1>3, <1>4
<1>6. PICK x \in Nat \ {0} : Base * p = 2 * x
  BY <1>5
<1>7. Power[IntBytes] \div 2 = x
  BY <1>2, <1>6
<1> QED
  BY <1>2, <1>6, <1>7 DEF IntMax

-----------------------------------------------------------------------------
(* Parts of sequences.                                                     *)

LEMMA Slice ==
    ASSUME NEW Elem, NEW s \in Seq(Elem), NEW a \in Int, NEW b \in Int, a >= 1, b <= Len(s)
    PROVE  /\ SubSeq(s, a, b) \in Seq(Elem)
           /\ Len(SubSeq(s, a, b)) = IF a <= b THEN b - a + 1 ELSE 0
           /\ \A i \in 1 .. Len(SubSeq(s, a, b)) : SubSeq(s, a, b)[i] = s[a + i - 1]
<1>1. Len(s) \in Nat
  OBVIOUS
<1>2. CASE a <= b
  BY <1>1, <1>2
<1>3. CASE ~(a <= b)
  BY <1>1, <1>3
<1> QED
  BY <1>2, <1>3

LEMMA Joined ==
    ASSUME NEW Elem, NEW a \in Seq(Elem), NEW b \in Seq(Elem)
    PROVE  /\ a \o b \in Seq(Elem) /\ Len(a \o b) = Len(a) + Len(b)
           /\ \A i \in 1 .. Len(a) : (a \o b)[i] = a[i]
           /\ \A i \in Len(a) + 1 .. Len(a) + Len(b) : (a \o b)[i] = b[i - Len(a)]
OBVIOUS

LEMMA SameSequence ==
    ASSUME NEW R, NEW S, NEW s \in Seq(R), NEW t \in Seq(S), Len(s) = Len(t),
           \A i \in 1 .. Len(s) : s[i] = t[i]
    PROVE  s = t
OBVIOUS

LEMMA EmptySequence ==
    ASSUME NEW S
    PROVE  << >> \in Seq(S)
OBVIOUS

LEMMA EmptyIsEmpty ==
    ASSUME NEW S, NEW s \in Seq(S), Len(s) = 0
    PROVE  s = << >>
OBVIOUS

-----------------------------------------------------------------------------
(* The bytes of an int.                                                    *)

LEMMA Shift ==
    ASSUME NEW v \in Int, NEW p \in Nat \ {0}, NEW b \in Nat \ {0}
    PROVE  v % (p * b) = (v % p) + ((v \div p) % b) * p
OBVIOUS

LEMMA EncodeFacts ==
    ASSUME NEW v \in Int
    PROVE  /\ EncodeInt(v) \in Seq(Bytes)
           /\ Len(EncodeInt(v)) = IntBytes
           /\ \A i \in 1 .. IntBytes : EncodeInt(v)[i] = (v \div Power[i - 1]) % Base
<1>0. IntBytes \in Nat /\ Base \in Nat \ {0}
  BY MachineAssumption
<1>1. \A i \in 1 .. IntBytes : (v \div Power[i - 1]) % Base \in 0 .. Base - 1
  <2> SUFFICES ASSUME NEW i \in 1 .. IntBytes
               PROVE  (v \div Power[i - 1]) % Base \in 0 .. Base - 1
    OBVIOUS
  <2>1. PICK p \in Nat \ {0} : p = Power[i - 1]
    BY <1>0, PowerFacts
  <2>2. v \div p \in Int
    BY <2>1
  <2> QED
    BY <1>0, <2>1, <2>2
<1> QED
  BY <1>0, <1>1 DEF EncodeInt, Bytes

(* The sums that DecodeInt goes through.                                   *)
Sums(b) ==
    {s \in [0 .. IntBytes -> Int] :
        s[0] = 0 /\ \A i \in 1 .. IntBytes : s[i] = s[i - 1] + b[i] * Power[i - 1]}

Signed(n) == IF n > IntMax THEN n - Power[IntBytes] ELSE n

LEMMA DecodeSums ==
    ASSUME NEW b, \A i \in 1 .. IntBytes : b[i] \in Int
    PROVE  \E s \in Sums(b) : DecodeInt(b) = Signed(s[IntBytes])
<1>0. IntBytes \in Nat
  BY MachineAssumption
<1> DEFINE h == [i \in 1 .. IntBytes |-> [v \in Int |-> v + b[i] * Power[i - 1]]]
           G(f) == [i \in 0 .. IntBytes |->
                     IF i = 0 THEN 0 ELSE f[i - 1] + b[i] * Power[i - 1]]
<1>1. \A i \in 1 .. IntBytes : Power[i - 1] \in Int
  BY <1>0, PowerFacts
<1>2. h \in [1 .. IntBytes -> [Int -> Int]]
  BY <1>1
<1>3. Recursive(IntBytes, Int, 0, h) # {}
  <2>1. PICK V : V = Int
    OBVIOUS
  <2>2. 0 \in V /\ h \in [1 .. IntBytes -> [V -> V]]
    BY <1>2, <2>1
  <2> HIDE DEF h
  <2>3. Recursive(IntBytes, V, 0, h) # {}
    BY <1>0, <2>2, Recursion
  <2> QED
    BY <2>1, <2>3
<1>4. PICK f \in [0 .. IntBytes -> Int] :
        f[0] = 0 /\ \A i \in 1 .. IntBytes : f[i] = h[i][f[i - 1]]
  BY <1>3 DEF Recursive
<1>5. \A i \in 1 .. IntBytes : f[i] = f[i - 1] + b[i] * Power[i - 1]
  <2> SUFFICES ASSUME NEW i \in 1 .. IntBytes
               PROVE  f[i] = f[i - 1] + b[i] * Power[i - 1]
    OBVIOUS
  <2>1. f[i - 1] \in Int
    BY <1>0
  <2> QED
    BY <2>1, <1>4
<1>6. f = G(f)
  BY <1>4, <1>5, <1>0
<1> DEFINE s == CHOOSE g : g = G(g)
<1>7. s = G(s)
  BY <1>6
<1>8. DecodeInt(b) = Signed(s[IntBytes])
  BY DEF DecodeInt, Signed
<1>9. s[0] = 0 /\ \A i \in 1 .. IntBytes : s[i] = s[i - 1] + b[i] * Power[i - 1]
  <2> HIDE DEF s
  <2> QED
    BY <1>7, <1>0
<1>10. \A i \in 0 .. IntBytes : i \in {j \in 0 .. IntBytes : s[j] \in Int}
  <2> HIDE DEF s
  <2> DEFINE T == {j \in 0 .. IntBytes : s[j] \in Int}
  <2>1. 0 \in T
    BY <1>9, <1>0
  <2>2. \A i \in 0 .. IntBytes - 1 : i \in T => i + 1 \in T
    <3> SUFFICES ASSUME NEW i \in 0 .. IntBytes - 1, i \in T PROVE i + 1 \in T
      OBVIOUS
    <3>1. i + 1 \in 1 .. IntBytes /\ (i + 1) - 1 = i
      BY <1>0
    <3>2. s[i + 1] = s[i] + b[i + 1] * Power[i]
      BY <1>9, <3>1
    <3>3. s[i] \in Int /\ b[i + 1] \in Int /\ Power[i] \in Int
      BY <1>1, <3>1
    <3> QED
      BY <3>1, <3>2, <3>3
  <2> HIDE DEF T
  <2>3. \A i \in 0 .. IntBytes : i \in T
    BY <2>1, <2>2, <1>0, Induction
  <2> QED
    BY <2>3 DEF T
<1>11. s \in [0 .. IntBytes -> Int]
  <2> HIDE DEF s
  <2> QED
    BY <1>7, <1>10
<1> HIDE DEF s
<1>12. s \in Sums(b)
  BY <1>9, <1>11 DEF Sums
<1> QED
  BY <1>8, <1>12

LEMMA DecodeRange ==
    ASSUME NEW b, \A i \in 1 .. IntBytes : b[i] \in Bytes
    PROVE  DecodeInt(b) \in -IntMax - 1 .. IntMax
<1>0. IntBytes \in Nat /\ Base \in Nat \ {0}
  BY MachineAssumption
<1>1. \A i \in 1 .. IntBytes : b[i] \in Int
  BY <1>0 DEF Bytes
<1>2. PICK s \in Sums(b) : DecodeInt(b) = Signed(s[IntBytes])
  BY <1>1, DecodeSums
<1>3. s[0] = 0 /\ \A i \in 1 .. IntBytes : s[i] = s[i - 1] + b[i] * Power[i - 1]
  BY DEF Sums
<1> DEFINE T == {i \in 0 .. IntBytes : s[i] \in 0 .. Power[i] - 1}
<1>4. 0 \in T
  BY <1>0, <1>3, PowerFacts
<1>5. ASSUME NEW i \in 0 .. IntBytes - 1, i \in T PROVE i + 1 \in T
  <2>1. i + 1 \in 1 .. IntBytes /\ (i + 1) - 1 = i
    BY <1>0
  <2>2. PICK p \in Nat \ {0} : p = Power[i] /\ Power[i + 1] = Base * p
    <3>1. Power[i] \in Nat \ {0}
      BY <1>0, PowerFacts
    <3>2. Power[i + 1] = Base * Power[i]
      BY <2>1, PowerFacts
    <3> QED
      BY <3>1, <3>2
  <2>3. PICK c \in 0 .. Base - 1 : c = b[i + 1]
    BY <2>1 DEF Bytes
  <2>4. PICK r \in 0 .. p - 1 : r = s[i]
    BY <1>5, <2>2
  <2>5. s[i + 1] = r + c * p
    BY <2>1, <2>2, <2>3, <2>4, <1>3
  <2>6. c * p >= 0 /\ c * p <= (Base - 1) * p
    BY <2>2, <2>3, <1>0
  <2>7. (Base - 1) * p = Base * p - p
    BY <1>0, <2>2
  <2>8. c * p \in Int /\ Base * p \in Int
    BY <1>0, <2>2, <2>3
  <2>9. r + c * p \in 0 .. Base * p - 1
    BY <2>4, <2>6, <2>7, <2>8
  <2> QED
    BY <2>1, <2>2, <2>5, <2>9
<1>6. IntBytes \in T
  <2> HIDE DEF T
  <2>1. \A i \in 0 .. IntBytes : i \in T
    BY <1>0, <1>4, <1>5, Induction
  <2> QED
    BY <1>0, <2>1
<1> QED
  BY <1>2, <1>6, IntMaxFacts DEF Signed

LEMMA RoundTrip ==
    ASSUME NEW v \in -IntMax - 1 .. IntMax
    PROVE  DecodeInt(EncodeInt(v)) = v
<1>0. IntBytes \in Nat /\ Base \in Nat \ {0} /\ IntMax \in Nat
  BY MachineAssumption, IntMaxFacts
<1>1. v \in Int
  BY <1>0
<1> DEFINE b == EncodeInt(v)
<1>2. \A i \in 1 .. IntBytes : b[i] = (v \div Power[i - 1]) % Base
  BY <1>1, EncodeFacts
<1>3. \A i \in 1 .. IntBytes : b[i] \in Int
  <2>1. b \in Seq(Bytes) /\ Len(b) = IntBytes
    BY <1>1, EncodeFacts
  <2> HIDE DEF b
  <2> QED
    BY <2>1, <1>0 DEF Bytes
<1> HIDE DEF b
<1>4. PICK s \in Sums(b) : DecodeInt(b) = Signed(s[IntBytes])
  BY <1>3, DecodeSums
<1>5. s[0] = 0 /\ \A i \in 1 .. IntBytes : s[i] = s[i - 1] + b[i] * Power[i - 1]
  BY DEF Sums
<1> DEFINE T == {i \in 0 .. IntBytes : s[i] = v % Power[i]}
<1>6. 0 \in T
  BY <1>0, <1>1, <1>5, PowerFacts
<1>7. ASSUME NEW i \in 0 .. IntBytes - 1, i \in T PROVE i + 1 \in T
  <2>1. i + 1 \in 1 .. IntBytes /\ (i + 1) - 1 = i
    BY <1>0
  <2>2. PICK p \in Nat \ {0} : p = Power[i] /\ Power[i + 1] = Base * p
    <3>1. Power[i] \in Nat \ {0}
      BY <1>0, PowerFacts
    <3>2. Power[i + 1] = Base * Power[i]
      BY <2>1, PowerFacts
    <3> QED
      BY <3>1, <3>2
  <2>3. s[i + 1] = (v % p) + ((v \div p) % Base) * p
    BY <2>1, <2>2, <1>2, <1>5, <1>7
  <2>4. v % (p * Base) = (v % p) + ((v \div p) % Base) * p
    BY <1>0, <1>1, Shift
  <2>5. p * Base = Base * p
    BY <1>0
  <2> QED
    BY <2>1, <2>2, <2>3, <2>4, <2>5
<1>8. IntBytes \in T
  <2> HIDE DEF T
  <2>1. \A i \in 0 .. IntBytes : i \in T
    BY <1>0, <1>6, <1>7, Induction
  <2> QED
    BY <1>0, <2>1
<1>9. s[IntBytes] = v % (2 * IntMax + 2)
  BY <1>8, IntMaxFacts
<1>10. Signed(s[IntBytes]) = v
  <2>1. CASE v >= 0
    <3>1. v % (2 * IntMax + 2) = v
      BY <1>0, <2>1
    <3> QED
      BY <1>0, <1>9, <3>1 DEF Signed
  <2>2. CASE v < 0
    <3>1. v % (2 * IntMax + 2) = v + (2 * IntMax + 2)
      BY <1>0, <2>2
    <3> QED
      BY <1>0, <1>9, <3>1, <2>2, IntMaxFacts DEF Signed
  <2> QED
    BY <1>0, <2>1, <2>2
<1> QED
  BY <1>4, <1>10 DEF b

LEMMA IntValueFacts ==
    ASSUME NEW lit, lit.num \in Int
    PROVE  /\ IntValue(lit) \in -IntMax - 1 .. IntMax
           /\ lit.num \in -IntMax - 1 .. IntMax => IntValue(lit) = lit.num
<1>0. IntBytes \in Nat /\ Base \in Nat /\ IntMax \in Nat /\ LongMax \in Nat /\ LongMax >= IntMax
  BY MachineAssumption, IntMaxFacts, LongAssumption
<1>1. ToLong(lit.num) \in Int
  BY <1>0 DEF ToLong
<1>2. \A i \in 1 .. IntBytes : EncodeInt(ToLong(lit.num))[i] \in Bytes
  <2>1. EncodeInt(ToLong(lit.num)) \in Seq(Bytes) /\ Len(EncodeInt(ToLong(lit.num))) = IntBytes
    BY <1>1, EncodeFacts
  <2> QED
    BY <2>1, <1>0
<1>3. IntValue(lit) \in -IntMax - 1 .. IntMax
  BY <1>2, DecodeRange DEF IntValue
<1>4. ASSUME lit.num \in -IntMax - 1 .. IntMax PROVE IntValue(lit) = lit.num
  <2>1. ToLong(lit.num) = lit.num
    BY <1>0, <1>4 DEF ToLong
  <2> QED
    BY <2>1, <1>4, RoundTrip DEF IntValue
<1> QED
  BY <1>3, <1>4

-----------------------------------------------------------------------------
(* The inductive invariant.                                                *)

ColumnSet == [name : Names, type : {"INT", "CHAR"}, size : Nat \ {0}, offset : Nat]

(* The columns lie one behind the other in a row that ends at end.         *)
Tiles(cols, end) ==
    /\ cols \in Seq(ColumnSet) /\ end \in Nat
    /\ \A i \in DOMAIN cols : cols[i].offset + cols[i].size <= end
    /\ \A i, j \in DOMAIN cols : i < j => cols[i].offset + cols[i].size <= cols[j].offset
    /\ cols # << >> => cols[1].offset = 0

(* The schema file and the part of it that has been read: its lines that   *)
(* are not empty describe the columns so far, and when the array is full   *)
(* the line read last was one of them.                                     *)
ReadSoFar == SubSeq(Body, 1, next - 2)

Describes(lines) ==
    /\ \A i \in DOMAIN lines :
         lines[i].parts = 3 /\ lines[i].type \in {"INT", "CHAR"} /\ lines[i].size > 0
    /\ columns = Described(lines)
    /\ offset = SumTo(lines, Len(lines))

(* What load_table_meta accepts.                                           *)
Loadable == Readable /\ ~EmptyBehindFull

LoadInv ==
    /\ pc \in {"idle", "reading", "refused", "loaded", "ready", "undefined"}
    /\ open = (pc = "reading")
    /\ schema \in Seq(Lines) \union {NoSchema}
    /\ Tiles(columns, offset) /\ Len(columns) <= MaxColumns /\ offset <= IntMax
    /\ pc = "reading" =>
         /\ schema \in Seq(Lines) /\ next \in 2 .. Len(schema) + 1
         /\ Describes(Filled(ReadSoFar))
         /\ Len(columns) = MaxColumns => next > 2 /\ Body[next - 2].parts # 0
    /\ pc = "loaded" =>
         /\ Loadable /\ Describes(Given)
         /\ columns # << >> /\ offset <= MaxRowSize
    /\ pc = "refused" => ~Loadable

(* A loaded context has the columns of some table with an id, in a row     *)
(* that fits the buffer.                                                   *)
TableInv ==
    /\ DOMAIN ctx = {"loaded", "columns", "rowSize", "index", "count"}
    /\ ctx.loaded \in BOOLEAN
    /\ pc = "ready" => ctx.loaded
    /\ ctx.loaded =>
         /\ Tiles(ctx.columns, ctx.rowSize)
         /\ Len(ctx.columns) \in 1 .. MaxColumns /\ ctx.rowSize \in 1 .. MaxRowSize
         /\ IdColumn(ctx.columns[1])
         /\ ctx.count \in Nat

(* While the file is a whole number of rows: the index leads from the ids  *)
(* of the counted rows to their offsets, a row behind them has an id that  *)
(* it met there, and once there is such a row the next id is met as well.  *)
Indexed(rows) ==
    /\ ctx.count <= Len(rows)
    /\ DOMAIN ctx.index = {RowId(rows[i]) : i \in 1 .. ctx.count}
    /\ \A i \in 1 .. ctx.count : ctx.index[RowId(rows[i])] = (i - 1) * ctx.rowSize
    /\ \A i \in DOMAIN rows : RowId(rows[i]) \in DOMAIN ctx.index
    /\ ctx.count < Len(rows) => ctx.count + 1 \in DOMAIN ctx.index

(* The bytes of a row are those of the values, if none of them is written  *)
(* over the next one.                                                      *)
RowHas(row, lits) ==
    ProperInts =>
      \A c \in 2 .. Len(ctx.columns) :
        LET bytes == ValueBytes(ctx.columns[c], lits[c - 1])
        IN  \A k \in 1 .. Len(bytes) : row[ctx.columns[c].offset + k] = bytes[k]

(* The last rows are those that were given, and if these are all the ids   *)
(* are their positions.                                                    *)
RowsHold(rows) ==
    /\ Indexed(rows)
    /\ Len(given) <= Len(rows)
    /\ \A i \in DOMAIN given : RowHas(rows[Len(rows) - Len(given) + i], given[i])
    /\ Len(given) = Len(rows) =>
         /\ ctx.count = Len(rows)
         /\ \A i \in DOMAIN rows : RowId(rows[i]) = i

StoreInv ==
    /\ data = NoFile \/ data \in Seq(Bytes)
    /\ edits \in 0 .. MaxEdits
    /\ given \in Seq(ValueLists)
    /\ ~ctx.loaded => given = << >>
    /\ ctx.loaded => \A i \in DOMAIN given : AllAccepted(given[i])
    /\ ctx.loaded /\ Aligned => RowsHold(Rows)

(* The kinds of answers, and the causes of undefined behaviour.            *)
CauseInv ==
    /\ answer.kind \in {"none", "load", "insert", "select"}
    /\ UndefinedNeedsCause

IInv == LoadInv /\ TableInv /\ StoreInv /\ CauseInv /\ SelectsByMeaning

-----------------------------------------------------------------------------
(* Kept and SumTo, step by step.                                           *)

KeptSteps(s, T, S) ==
    {k \in [0 .. Len(s) -> Seq(S)] :
        /\ k[0] = << >>
        /\ \A i \in 1 .. Len(s) :
             k[i] = IF i \in T THEN Append(k[i - 1], s[i]) ELSE k[i - 1]}

LEMMA KeptRuns ==
    ASSUME NEW S, NEW s \in Seq(S), NEW T
    PROVE  \E k \in KeptSteps(s, T, S) : Kept(s, T) = k[Len(s)]
<1>0. Len(s) \in Nat /\ \A i \in 1 .. Len(s) : s[i] \in S
  OBVIOUS
<1> DEFINE h == [i \in 1 .. Len(s) |->
                   [v \in Seq(S) |-> IF i \in T THEN Append(v, s[i]) ELSE v]]
           G(f) == [i \in 0 .. Len(s) |->
                     IF i = 0 THEN << >>
                     ELSE IF i \in T THEN Append(f[i - 1], s[i]) ELSE f[i - 1]]
<1>2. h \in [1 .. Len(s) -> [Seq(S) -> Seq(S)]]
  BY <1>0
<1>3. Recursive(Len(s), Seq(S), << >>, h) # {}
  <2>1. PICK V : V = Seq(S)
    OBVIOUS
  <2>2. PICK e \in V : e = << >>
    BY <2>1, EmptySequence, Zenon
  <2>3. h \in [1 .. Len(s) -> [V -> V]]
    BY <1>2, <2>1
  <2> HIDE DEF h
  <2>4. Recursive(Len(s), V, e, h) # {}
    BY <1>0, <2>2, <2>3, Recursion
  <2> QED
    BY <2>1, <2>2, <2>4
<1>4. PICK f \in [0 .. Len(s) -> Seq(S)] :
        f[0] = << >> /\ \A i \in 1 .. Len(s) : f[i] = h[i][f[i - 1]]
  <2> HIDE DEF h
  <2> QED
    BY <1>3 DEF Recursive
<1>5. \A i \in 1 .. Len(s) : f[i] = IF i \in T THEN Append(f[i - 1], s[i]) ELSE f[i - 1]
  <2> SUFFICES ASSUME NEW i \in 1 .. Len(s)
               PROVE  f[i] = IF i \in T THEN Append(f[i - 1], s[i]) ELSE f[i - 1]
    OBVIOUS
  <2>1. f[i - 1] \in Seq(S)
    BY <1>0
  <2> QED
    BY <2>1, <1>4
<1>6. f = G(f)
  <2>1. \A i \in 0 .. Len(s) :
          f[i] = IF i = 0 THEN << >>
                 ELSE IF i \in T THEN Append(f[i - 1], s[i]) ELSE f[i - 1]
    <3> SUFFICES ASSUME NEW i \in 0 .. Len(s)
                 PROVE  f[i] = IF i = 0 THEN << >>
                               ELSE IF i \in T THEN Append(f[i - 1], s[i]) ELSE f[i - 1]
      OBVIOUS
    <3>1. CASE i = 0
      BY ONLY <3>1, <1>4, Zenon
    <3>2. CASE i # 0
      <4>1. i \in 1 .. Len(s)
        BY <3>2, <1>0
      <4> QED
        BY ONLY <3>2, <4>1, <1>5, Zenon
    <3> QED
      BY ONLY <3>1, <3>2, Zenon
  <2>2. DOMAIN f = 0 .. Len(s) /\ f = [i \in DOMAIN f |-> f[i]]
    BY ONLY <1>4, Zenon
  <2> QED
    BY ONLY <2>1, <2>2, Zenon
<1> DEFINE k == CHOOSE g : g = G(g)
<1>7. k = G(k)
  BY <1>6
<1>8. Kept(s, T) = k[Len(s)]
  BY DEF Kept
<1>9. k[0] = << >> /\ \A i \in 1 .. Len(s) :
        k[i] = IF i \in T THEN Append(k[i - 1], s[i]) ELSE k[i - 1]
  <2> HIDE DEF k
  <2>1. \A i \in 0 .. Len(s) :
          k[i] = IF i = 0 THEN << >>
                 ELSE IF i \in T THEN Append(k[i - 1], s[i]) ELSE k[i - 1]
    BY ONLY <1>7, Zenon
  <2>2. 0 \in 0 .. Len(s) /\ \A i \in 1 .. Len(s) : i \in 0 .. Len(s) /\ i # 0
    BY <1>0
  <2> QED
    BY ONLY <2>1, <2>2, Zenon
<1>10. \A i \in 0 .. Len(s) : k[i] \in Seq(S)
  <2> HIDE DEF k
  <2> DEFINE N == {j \in 0 .. Len(s) : k[j] \in Seq(S)}
  <2>1. 0 \in N
    <3>1. k[0] \in Seq(S)
      BY <1>9, EmptySequence, Zenon
    <3> QED
      BY <3>1, <1>0
  <2>2. \A i \in 0 .. Len(s) - 1 : i \in N => i + 1 \in N
    <3> SUFFICES ASSUME NEW i \in 0 .. Len(s) - 1, i \in N PROVE i + 1 \in N
      OBVIOUS
    <3>1. i + 1 \in 1 .. Len(s) /\ (i + 1) - 1 = i
      BY <1>0
    <3>2. k[i + 1] = IF i + 1 \in T THEN Append(k[i], s[i + 1]) ELSE k[i]
      <4>1. k[i + 1] = IF i + 1 \in T THEN Append(k[(i + 1) - 1], s[i + 1])
                       ELSE k[(i + 1) - 1]
        BY ONLY <1>9, <3>1, Zenon
      <4> QED
        BY ONLY <4>1, <3>1, Zenon
    <3>3. k[i] \in Seq(S) /\ s[i + 1] \in S
      BY <1>0, <3>1
    <3>4. Append(k[i], s[i + 1]) \in Seq(S)
      BY <3>3
    <3>5. k[i + 1] \in Seq(S)
      BY ONLY <3>2, <3>3, <3>4, Zenon
    <3> QED
      BY <3>1, <3>5
  <2> HIDE DEF N
  <2>3. \A i \in 0 .. Len(s) : i \in N
    BY <2>1, <2>2, <1>0, Induction
  <2> QED
    BY <2>3 DEF N
<1>11. k \in [0 .. Len(s) -> Seq(S)]
  <2> HIDE DEF k
  <2> QED
    BY <1>7, <1>10
<1> HIDE DEF k
<1>12. k \in KeptSteps(s, T, S)
  BY <1>9, <1>11 DEF KeptSteps
<1> QED
  BY <1>8, <1>12

(* One position more.                                                      *)
LEMMA KeptStep ==
    ASSUME NEW S, NEW s \in Seq(S), NEW t \in Seq(S), NEW T, NEW U,
           Len(t) = Len(s) + 1,
           \A i \in 1 .. Len(s) : t[i] = s[i] /\ (i \in T <=> i \in U)
    PROVE  /\ Kept(s, T) \in Seq(S) /\ Kept(t, U) \in Seq(S)
           /\ Len(t) \in U => Kept(t, U) = Append(Kept(s, T), t[Len(t)])
           /\ Len(t) \notin U => Kept(t, U) = Kept(s, T)
<1>0. Len(s) \in Nat /\ Len(t) \in Nat
  OBVIOUS
<1>1. PICK k \in KeptSteps(s, T, S) : Kept(s, T) = k[Len(s)]
  BY KeptRuns
<1>2. PICK m \in KeptSteps(t, U, S) : Kept(t, U) = m[Len(t)]
  BY KeptRuns
<1>3. /\ k \in [0 .. Len(s) -> Seq(S)] /\ k[0] = << >>
      /\ \A i \in 1 .. Len(s) :
           k[i] = IF i \in T THEN Append(k[i - 1], s[i]) ELSE k[i - 1]
  BY DEF KeptSteps
<1>4. /\ m \in [0 .. Len(t) -> Seq(S)] /\ m[0] = << >>
      /\ \A i \in 1 .. Len(t) :
           m[i] = IF i \in U THEN Append(m[i - 1], t[i]) ELSE m[i - 1]
  BY DEF KeptSteps
<1> DEFINE N == {i \in 0 .. Len(s) : m[i] = k[i]}
<1>5. 0 \in N
  BY <1>0, <1>3, <1>4
<1>6. \A i \in 0 .. Len(s) - 1 : i \in N => i + 1 \in N
  <2> SUFFICES ASSUME NEW i \in 0 .. Len(s) - 1, i \in N PROVE i + 1 \in N
    OBVIOUS
  <2>1. i + 1 \in 1 .. Len(s) /\ i + 1 \in 1 .. Len(t) /\ (i + 1) - 1 = i
    BY <1>0
  <2>2. k[i + 1] = IF i + 1 \in T THEN Append(k[i], s[i + 1]) ELSE k[i]
    BY <1>3, <2>1
  <2>3. m[i + 1] = IF i + 1 \in U THEN Append(m[i], t[i + 1]) ELSE m[i]
    BY <1>4, <2>1
  <2> QED
    BY <2>1, <2>2, <2>3
<1>7. Len(s) \in N
  <2> HIDE DEF N
  <2>1. \A i \in 0 .. Len(s) : i \in N
    BY <1>0, <1>5, <1>6, Induction
  <2> QED
    BY <1>0, <2>1
<1>8. m[Len(t)] = IF Len(t) \in U THEN Append(m[Len(s)], t[Len(t)]) ELSE m[Len(s)]
  <2>1. Len(t) \in 1 .. Len(t) /\ Len(t) - 1 = Len(s)
    BY <1>0
  <2> QED
    BY <2>1, <1>4
<1> QED
  BY <1>0, <1>1, <1>2, <1>3, <1>4, <1>7, <1>8

LEMMA KeptNothing ==
    ASSUME NEW T
    PROVE  Kept(<< >>, T) = << >>
<1>1. << >> \in Seq({})
  OBVIOUS
<1>2. PICK k \in KeptSteps(<< >>, T, {}) : Kept(<< >>, T) = k[Len(<< >>)]
  BY <1>1, KeptRuns
<1> QED
  BY <1>2 DEF KeptSteps

(* The kept elements are those at the kept positions.                      *)
LEMMA KeptMap ==
    ASSUME NEW S, NEW s \in Seq(S), NEW T
    PROVE  LET p == Kept([i \in 1 .. Len(s) |-> i], T)
           IN  /\ Kept(s, T) \in Seq(S)
               /\ p \in Seq(1 .. Len(s))
               /\ Len(Kept(s, T)) = Len(p)
               /\ \A r \in 1 .. Len(p) : p[r] \in 1 .. Len(s) /\ Kept(s, T)[r] = s[p[r]]
<1>0. Len(s) \in Nat
  OBVIOUS
<1> DEFINE t == [i \in 1 .. Len(s) |-> i]
<1>1. t \in Seq(1 .. Len(s)) /\ Len(t) = Len(s) /\ \A i \in 1 .. Len(s) : t[i] = i
  BY <1>0
<1> HIDE DEF t
<1>2. PICK k \in KeptSteps(s, T, S) : Kept(s, T) = k[Len(s)]
  BY KeptRuns
<1>3. PICK m \in KeptSteps(t, T, 1 .. Len(s)) : Kept(t, T) = m[Len(t)]
  <2>1. PICK R : R = 1 .. Len(s)
    OBVIOUS
  <2>2. t \in Seq(R)
    BY <1>1, <2>1
  <2>3. \E m \in KeptSteps(t, T, R) : Kept(t, T) = m[Len(t)]
    BY <2>2, KeptRuns
  <2> QED
    BY <2>1, <2>3
<1>4. /\ k \in [0 .. Len(s) -> Seq(S)] /\ k[0] = << >>
      /\ \A i \in 1 .. Len(s) :
           k[i] = IF i \in T THEN Append(k[i - 1], s[i]) ELSE k[i - 1]
  BY DEF KeptSteps
<1>5. /\ m \in [0 .. Len(s) -> Seq(1 .. Len(s))] /\ m[0] = << >>
      /\ \A i \in 1 .. Len(s) :
           m[i] = IF i \in T THEN Append(m[i - 1], i) ELSE m[i - 1]
  BY <1>1 DEF KeptSteps
<1> DEFINE Same(i) == /\ Len(k[i]) = Len(m[i])
                      /\ \A r \in 1 .. Len(m[i]) :
                           m[i][r] \in 1 .. Len(s) /\ k[i][r] = s[m[i][r]]
           N == {i \in 0 .. Len(s) : Same(i)}
<1>6. 0 \in N
  BY <1>0, <1>4, <1>5
<1>7. \A i \in 0 .. Len(s) - 1 : i \in N => i + 1 \in N
  <2> SUFFICES ASSUME NEW i \in 0 .. Len(s) - 1, Same(i) PROVE Same(i + 1)
    BY <1>0
  <2>1. i + 1 \in 1 .. Len(s) /\ (i + 1) - 1 = i
    BY <1>0
  <2>2. k[i + 1] = IF i + 1 \in T THEN Append(k[i], s[i + 1]) ELSE k[i]
    BY <1>4, <2>1
  <2>3. m[i + 1] = IF i + 1 \in T THEN Append(m[i], i + 1) ELSE m[i]
    BY <1>5, <2>1
  <2>4. k[i] \in Seq(S) /\ m[i] \in Seq(1 .. Len(s)) /\ s[i + 1] \in S
    <3>1. i \in 0 .. Len(s) /\ s[i + 1] \in S
      BY <1>0, <2>1
    <3> QED
      BY ONLY <3>1, <1>4, <1>5, Zenon
  <2>5. CASE i + 1 \notin T
    BY <2>2, <2>3, <2>5
  <2>6. CASE i + 1 \in T
    <3>1. k[i + 1] = Append(k[i], s[i + 1]) /\ m[i + 1] = Append(m[i], i + 1)
      BY <2>2, <2>3, <2>6
    <3>2. Len(k[i + 1]) = Len(k[i]) + 1 /\ Len(m[i + 1]) = Len(m[i]) + 1
      BY ONLY <3>1, <2>4
    <3>3. ASSUME NEW r \in 1 .. Len(m[i + 1])
          PROVE  m[i + 1][r] \in 1 .. Len(s) /\ k[i + 1][r] = s[m[i + 1][r]]
      <4>1. CASE r <= Len(m[i])
        <5>1. m[i + 1][r] = m[i][r] /\ k[i + 1][r] = k[i][r]
          BY <3>1, <2>4, <4>1
        <5> QED
          BY <5>1, <4>1, <2>4
      <4>2. CASE r = Len(m[i]) + 1
        <5>1. m[i + 1][r] = i + 1 /\ k[i + 1][r] = s[i + 1]
          BY <3>1, <2>4, <4>2
        <5> QED
          BY <5>1, <2>1
      <4> QED
        BY <4>1, <4>2, <3>2, <2>4
    <3> QED
      BY <3>2, <3>3
  <2> QED
    BY <2>5, <2>6
<1>8. Len(s) \in N
  <2> HIDE DEF N
  <2>1. \A i \in 0 .. Len(s) : i \in N
    BY <1>0, <1>6, <1>7, Induction
  <2> QED
    BY <1>0, <2>1
<1>9. Kept(t, T) = m[Len(s)]
  BY <1>1, <1>3
<1>10. Len(s) \in 0 .. Len(s)
  BY <1>0
<1>11. k[Len(s)] \in Seq(S) /\ m[Len(s)] \in Seq(1 .. Len(s))
  BY ONLY <1>4, <1>5, <1>10, Zenon
<1>12. Same(Len(s))
  BY ONLY <1>8, Zenon
<1> HIDE DEF Same, N
<1>13. /\ Kept(s, T) \in Seq(S)
       /\ Kept(t, T) \in Seq(1 .. Len(s))
       /\ Len(Kept(s, T)) = Len(Kept(t, T))
       /\ \A r \in 1 .. Len(Kept(t, T)) :
            Kept(t, T)[r] \in 1 .. Len(s) /\ Kept(s, T)[r] = s[Kept(t, T)[r]]
  BY ONLY <1>2, <1>9, <1>11, <1>12, Zenon DEF Same
<1> QED
  BY ONLY <1>13, Zenon DEF t

SumSteps(lines, n) ==
    {f \in [0 .. n -> Int] :
        f[0] = 0 /\ \A i \in 1 .. n : f[i] = f[i - 1] + lines[i].size}

LEMMA SumRuns ==
    ASSUME NEW n \in Nat, NEW lines, \A i \in 1 .. n : lines[i].size \in Int
    PROVE  \E f \in SumSteps(lines, n) : SumTo(lines, n) = f[n]
<1> DEFINE h == [i \in 1 .. n |-> [v \in Int |-> v + lines[i].size]]
           G(f) == [i \in 0 .. n |-> IF i = 0 THEN 0 ELSE f[i - 1] + lines[i].size]
<1>2. h \in [1 .. n -> [Int -> Int]]
  OBVIOUS
<1>3. Recursive(n, Int, 0, h) # {}
  <2>1. PICK V : V = Int
    OBVIOUS
  <2>2. 0 \in V /\ h \in [1 .. n -> [V -> V]]
    BY <1>2, <2>1
  <2> HIDE DEF h
  <2>3. Recursive(n, V, 0, h) # {}
    BY <2>2, Recursion
  <2> QED
    BY <2>1, <2>3
<1>4. PICK f \in [0 .. n -> Int] :
        f[0] = 0 /\ \A i \in 1 .. n : f[i] = h[i][f[i - 1]]
  BY <1>3 DEF Recursive
<1>5. \A i \in 1 .. n : f[i] = f[i - 1] + lines[i].size
  <2> SUFFICES ASSUME NEW i \in 1 .. n PROVE f[i] = f[i - 1] + lines[i].size
    OBVIOUS
  <2>1. f[i - 1] \in Int
    OBVIOUS
  <2> QED
    BY <2>1, <1>4
<1>6. f = G(f)
  BY <1>4, <1>5
<1> DEFINE s == CHOOSE g : g = G(g)
<1>7. s = G(s)
  BY <1>6
<1>8. SumTo(lines, n) = s[n]
  BY DEF SumTo
<1>9. s[0] = 0 /\ \A i \in 1 .. n : s[i] = s[i - 1] + lines[i].size
  <2> HIDE DEF s
  <2> QED
    BY <1>7
<1>10. \A i \in 0 .. n : s[i] \in Int
  <2> HIDE DEF s
  <2> DEFINE T == {j \in 0 .. n : s[j] \in Int}
  <2>1. 0 \in T
    BY <1>9
  <2>2. \A i \in 0 .. n - 1 : i \in T => i + 1 \in T
    <3> SUFFICES ASSUME NEW i \in 0 .. n - 1, i \in T PROVE i + 1 \in T
      OBVIOUS
    <3>1. i + 1 \in 1 .. n /\ (i + 1) - 1 = i
      OBVIOUS
    <3>2. s[i + 1] = s[i] + lines[i + 1].size
      BY <1>9, <3>1
    <3> QED
      BY <3>1, <3>2
  <2> HIDE DEF T
  <2>3. \A i \in 0 .. n : i \in T
    BY <2>1, <2>2, Induction
  <2> QED
    BY <2>3 DEF T
<1>11. s \in [0 .. n -> Int]
  <2> HIDE DEF s
  <2> QED
    BY <1>7, <1>10
<1> HIDE DEF s
<1>12. s \in SumSteps(lines, n)
  BY <1>9, <1>11 DEF SumSteps
<1> QED
  BY <1>8, <1>12

LEMMA SumStep ==
    ASSUME NEW n \in Nat, NEW lines, NEW more,
           \A i \in 1 .. n + 1 : more[i].size \in Int,
           \A i \in 1 .. n : lines[i].size = more[i].size
    PROVE  /\ SumTo(lines, n) \in Int
           /\ SumTo(more, n) = SumTo(lines, n)
           /\ SumTo(more, n + 1) = SumTo(lines, n) + more[n + 1].size
<1>1. PICK f \in SumSteps(lines, n) : SumTo(lines, n) = f[n]
  BY SumRuns
<1>2. PICK g \in SumSteps(more, n) : SumTo(more, n) = g[n]
  BY SumRuns
<1>3. PICK m \in SumSteps(more, n + 1) : SumTo(more, n + 1) = m[n + 1]
  <2>1. n + 1 \in Nat
    OBVIOUS
  <2>2. PICK k \in Nat : k = n + 1
    BY <2>1
  <2>3. \E m \in SumSteps(more, k) : SumTo(more, k) = m[k]
    BY <2>2, SumRuns
  <2> QED
    BY <2>2, <2>3
<1>4. f[0] = 0 /\ \A i \in 1 .. n : f[i] = f[i - 1] + lines[i].size
  BY DEF SumSteps
<1>5. g[0] = 0 /\ \A i \in 1 .. n : g[i] = g[i - 1] + more[i].size
  BY DEF SumSteps
<1>6. m[0] = 0 /\ \A i \in 1 .. n + 1 : m[i] = m[i - 1] + more[i].size
  BY DEF SumSteps
<1> DEFINE T == {i \in 0 .. n : g[i] = f[i] /\ m[i] = f[i]}
<1>7. 0 \in T
  BY <1>4, <1>5, <1>6
<1>8. \A i \in 0 .. n - 1 : i \in T => i + 1 \in T
  <2> SUFFICES ASSUME NEW i \in 0 .. n - 1, i \in T PROVE i + 1 \in T
    OBVIOUS
  <2>1. i + 1 \in 1 .. n /\ i + 1 \in 1 .. n + 1 /\ (i + 1) - 1 = i
    OBVIOUS
  <2>2. f[i + 1] = f[i] + lines[i + 1].size
    BY <1>4, <2>1
  <2>3. g[i + 1] = g[i] + more[i + 1].size
    BY <1>5, <2>1
  <2>4. m[i + 1] = m[i] + more[i + 1].size
    BY <1>6, <2>1
  <2> QED
    BY <2>1, <2>2, <2>3, <2>4
<1>9. n \in T
  <2> HIDE DEF T
  <2>1. \A i \in 0 .. n : i \in T
    BY <1>7, <1>8, Induction
  <2> QED
    BY <2>1
<1>10. m[n + 1] = m[n] + more[n + 1].size
  <2>1. n + 1 \in 1 .. n + 1 /\ (n + 1) - 1 = n
    OBVIOUS
  <2> QED
    BY <2>1, <1>6
<1>11. f[n] \in Int
  BY DEF SumSteps
<1> QED
  BY <1>1, <1>2, <1>3, <1>9, <1>10, <1>11

-----------------------------------------------------------------------------
(* The lines of a schema file that describe columns.                       *)

LEMMA FilledStep ==
    ASSUME NEW ls \in Seq(Lines), NEW m \in 0 .. Len(ls) - 1
    PROVE  LET f == Filled(SubSeq(ls, 1, m))
               g == Filled(SubSeq(ls, 1, m + 1))
           IN  /\ f \in Seq(Lines) /\ g \in Seq(Lines)
               /\ ls[m + 1].parts # 0 => g = Append(f, ls[m + 1])
               /\ ls[m + 1].parts = 0 => g = f
<1> DEFINE s == SubSeq(ls, 1, m)
           t == SubSeq(ls, 1, m + 1)
           T == {i \in DOMAIN s : s[i].parts # 0}
           U == {i \in DOMAIN t : t[i].parts # 0}
<1>1. /\ s \in Seq(Lines) /\ Len(s) = m /\ DOMAIN s = 1 .. m
      /\ \A i \in 1 .. m : s[i] = ls[i]
  OBVIOUS
<1>2. /\ t \in Seq(Lines) /\ Len(t) = m + 1 /\ DOMAIN t = 1 .. m + 1
      /\ \A i \in 1 .. m + 1 : t[i] = ls[i]
  OBVIOUS
<1> HIDE DEF s, t
<1>3. Len(t) = Len(s) + 1
  BY <1>1, <1>2
<1>4. \A i \in 1 .. Len(s) : t[i] = s[i] /\ (i \in T <=> i \in U)
  BY <1>1, <1>2
<1>5. Len(t) \in U <=> ls[m + 1].parts # 0
  BY <1>2
<1>6. t[Len(t)] = ls[m + 1]
  BY <1>2
<1> HIDE DEF T, U
<1>7. /\ Kept(s, T) \in Seq(Lines) /\ Kept(t, U) \in Seq(Lines)
      /\ Len(t) \in U => Kept(t, U) = Append(Kept(s, T), t[Len(t)])
      /\ Len(t) \notin U => Kept(t, U) = Kept(s, T)
  <2>1. s \in Seq(Lines) /\ t \in Seq(Lines)
    BY <1>1, <1>2
  <2> QED
    BY ONLY <1>3, <1>4, <2>1, KeptStep
<1>8. Kept(s, T) = Filled(SubSeq(ls, 1, m)) /\ Kept(t, U) = Filled(SubSeq(ls, 1, m + 1))
  BY DEF Filled, s, t, T, U
<1> QED
  BY ONLY <1>5, <1>6, <1>7, <1>8, Zenon

LEMMA FilledNothing ==
    ASSUME NEW ls \in Seq(Lines)
    PROVE  Filled(SubSeq(ls, 1, 0)) = << >>
<1>1. SubSeq(ls, 1, 0) \in Seq(Lines) /\ Len(SubSeq(ls, 1, 0)) = 0
  OBVIOUS
<1>2. SubSeq(ls, 1, 0) = << >>
  BY <1>1, EmptyIsEmpty
<1>3. \A T : Kept(<< >>, T) = << >>
  BY KeptNothing
<1> QED
  BY ONLY <1>2, <1>3, Zenon DEF Filled

LEMMA FilledType ==
    ASSUME NEW ls \in Seq(Lines), NEW m \in 0 .. Len(ls)
    PROVE  Filled(SubSeq(ls, 1, m)) \in Seq(Lines)
<1>1. CASE m = 0
  BY ONLY <1>1, FilledNothing, EmptySequence, Zenon
<1>2. CASE m # 0
  <2>1. m - 1 \in 0 .. Len(ls) - 1 /\ (m - 1) + 1 = m
    BY <1>2
  <2>2. PICK k \in 0 .. Len(ls) - 1 : k + 1 = m
    BY <2>1
  <2>3. Filled(SubSeq(ls, 1, k + 1)) \in Seq(Lines)
    BY FilledStep
  <2> QED
    BY ONLY <2>2, <2>3, Zenon
<1> QED
  BY <1>1, <1>2

(* What the first m lines fill is the beginning of what the first n fill.  *)
LEMMA FilledGrows ==
    ASSUME NEW ls \in Seq(Lines), NEW m \in 0 .. Len(ls), NEW n \in m .. Len(ls)
    PROVE  LET f == Filled(SubSeq(ls, 1, m))
               g == Filled(SubSeq(ls, 1, n))
           IN  /\ f \in Seq(Lines) /\ g \in Seq(Lines)
               /\ Len(f) <= Len(g)
               /\ \A i \in 1 .. Len(f) : g[i] = f[i]
               /\ (m < n /\ Len(f) = Len(g)) => ls[n].parts = 0
<1> DEFINE f == Filled(SubSeq(ls, 1, m))
           F(k) == Filled(SubSeq(ls, 1, k))
           Good(k) == /\ Len(f) <= Len(F(k))
                      /\ \A i \in 1 .. Len(f) : F(k)[i] = f[i]
                      /\ (m < k /\ Len(f) = Len(F(k))) => ls[k].parts = 0
           T == {d \in 0 .. n - m : Good(m + d)}
<1>1. \A k \in 0 .. Len(ls) : F(k) \in Seq(Lines)
  BY FilledType
<1>2. f \in Seq(Lines) /\ m \in Nat /\ n \in Nat /\ n - m \in Nat
  BY <1>1
<1>3. 0 \in T
  <2>1. F(m) = f
    OBVIOUS
  <2> HIDE DEF F, f
  <2>2. Good(m)
    BY <1>2, <2>1
  <2>3. m + 0 = m
    BY <1>2
  <2> HIDE DEF Good
  <2> QED
    BY <1>2, <2>2, <2>3
<1>4. ASSUME NEW d \in 0 .. (n - m) - 1, d \in T PROVE d + 1 \in T
  <2>1. PICK k \in 0 .. Len(ls) - 1 : k = m + d
    BY <1>2
  <2>2. Good(k)
    BY <1>4, <2>1
  <2>3. F(k) \in Seq(Lines) /\ F(k + 1) \in Seq(Lines)
    BY <1>1
  <2>4. /\ ls[k + 1].parts # 0 => F(k + 1) = Append(F(k), ls[k + 1])
        /\ ls[k + 1].parts = 0 => F(k + 1) = F(k)
    BY FilledStep
  <2> HIDE DEF F, f
  <2>5. Good(k + 1)
    <3>1. CASE ls[k + 1].parts = 0
      BY <2>2, <2>4, <3>1
    <3>2. CASE ls[k + 1].parts # 0
      <4>1. F(k + 1) = Append(F(k), ls[k + 1])
        BY <2>4, <3>2
      <4>2. Len(F(k + 1)) = Len(F(k)) + 1
        BY <2>3, <4>1
      <4>3. \A i \in 1 .. Len(F(k)) : F(k + 1)[i] = F(k)[i]
        BY ONLY <2>3, <4>1
      <4>4. Len(f) <= Len(F(k)) /\ Len(f) \in Nat /\ Len(F(k)) \in Nat
        BY <1>2, <2>2, <2>3
      <4>5. \A i \in 1 .. Len(f) : F(k + 1)[i] = f[i]
        BY <2>2, <4>3, <4>4
      <4> QED
        BY <4>2, <4>4, <4>5
    <3> QED
      BY <3>1, <3>2
  <2>6. m + (d + 1) = k + 1 /\ d + 1 \in 0 .. n - m
    BY <1>2, <2>1
  <2> HIDE DEF Good
  <2> QED
    BY <2>5, <2>6
<1>5. n - m \in T
  <2> HIDE DEF T
  <2>1. \A d \in 0 .. n - m : d \in T
    BY <1>2, <1>3, <1>4, Induction
  <2> QED
    BY <1>2, <2>1
<1>6. Good(n)
  <2>1. m + (n - m) = n
    BY <1>2
  <2> HIDE DEF Good
  <2> QED
    BY <1>5, <2>1
<1>7. F(n) \in Seq(Lines)
  BY <1>1, <1>2
<1> HIDE DEF T
<1> QED
  BY <1>2, <1>6, <1>7

LEMMA FilledHas ==
    ASSUME NEW ls \in Seq(Lines), NEW n \in 0 .. Len(ls), NEW k \in 1 .. n,
           ls[k].parts # 0
    PROVE  \E j \in DOMAIN Filled(SubSeq(ls, 1, n)) : Filled(SubSeq(ls, 1, n))[j] = ls[k]
<1> DEFINE f == Filled(SubSeq(ls, 1, k))
           g == Filled(SubSeq(ls, 1, n))
<1>1. PICK m \in 0 .. Len(ls) - 1 : m + 1 = k
  <2>1. k - 1 \in 0 .. Len(ls) - 1 /\ (k - 1) + 1 = k
    OBVIOUS
  <2> QED
    BY <2>1
<1>2. PICK e \in Seq(Lines) : e = Filled(SubSeq(ls, 1, m)) /\ f = Append(e, ls[k])
  <2>1. /\ Filled(SubSeq(ls, 1, m)) \in Seq(Lines)
        /\ ls[m + 1].parts # 0 => Filled(SubSeq(ls, 1, m + 1))
                                    = Append(Filled(SubSeq(ls, 1, m)), ls[m + 1])
    BY FilledStep
  <2> QED
    BY ONLY <2>1, <1>1, ls[k].parts # 0, Zenon
<1>3. /\ f \in Seq(Lines) /\ g \in Seq(Lines) /\ Len(f) <= Len(g)
      /\ \A i \in 1 .. Len(f) : g[i] = f[i]
  <2>1. k \in 0 .. Len(ls) /\ n \in k .. Len(ls)
    OBVIOUS
  <2> QED
    BY <2>1, FilledGrows
<1> HIDE DEF f, g
<1>4. f[Len(e) + 1] = ls[k] /\ Len(f) = Len(e) + 1
  BY <1>2
<1>5. Len(e) + 1 \in 1 .. Len(f) /\ Len(e) + 1 \in DOMAIN g
  BY <1>3, <1>4
<1>6. g[Len(e) + 1] = ls[k]
  BY <1>3, <1>4, <1>5
<1>7. \E j \in DOMAIN g : g[j] = ls[k]
  BY <1>5, <1>6
<1> QED
  BY ONLY <1>7, Zenon DEF g

LEMMA SumNothing ==
    ASSUME NEW lines
    PROVE  SumTo(lines, 0) = 0
<1>1. PICK z \in Nat : z = 0
  OBVIOUS
<1>2. \E f \in SumSteps(lines, z) : SumTo(lines, z) = f[z]
  BY <1>1, SumRuns
<1> QED
  BY <1>1, <1>2 DEF SumSteps

(* One column more.                                                        *)
LEMMA DescribedStep ==
    ASSUME NEW f \in Seq(Lines), NEW l \in Lines,
           \A i \in 1 .. Len(f) : f[i].size \in Int, l.size \in Int
    PROVE  LET g == Append(f, l)
           IN  /\ SumTo(f, Len(f)) \in Int
               /\ SumTo(g, Len(g)) = SumTo(f, Len(f)) + l.size
               /\ Described(g) = Append(Described(f),
                     [name |-> KeptName[l.name], type |-> l.type, size |-> l.size,
                      offset |-> SumTo(f, Len(f))])
<1> DEFINE g == Append(f, l)
           c == [name |-> KeptName[l.name], type |-> l.type, size |-> l.size,
                 offset |-> SumTo(f, Len(f))]
<1>1. /\ Len(f) \in Nat /\ Len(g) = Len(f) + 1
      /\ \A i \in 1 .. Len(f) : g[i] = f[i]
      /\ g[Len(f) + 1] = l
      /\ DOMAIN g = 1 .. Len(f) + 1 /\ DOMAIN f = 1 .. Len(f)
  OBVIOUS
<1> HIDE DEF g
<1>2. \A i \in 1 .. Len(f) + 1 : g[i].size \in Int
  BY <1>1
<1>3. /\ SumTo(f, Len(f)) \in Int
      /\ SumTo(g, Len(f)) = SumTo(f, Len(f))
      /\ SumTo(g, Len(f) + 1) = SumTo(f, Len(f)) + g[Len(f) + 1].size
  BY <1>1, <1>2, SumStep
<1>4. ASSUME NEW i \in 1 .. Len(f) PROVE SumTo(g, i - 1) = SumTo(f, i - 1)
  <2>1. PICK n \in Nat : n = i - 1
    OBVIOUS
  <2>2. \A j \in 1 .. n + 1 : g[j].size \in Int
    BY <1>1, <1>2, <2>1
  <2>3. \A j \in 1 .. n : f[j].size = g[j].size
    BY <1>1, <2>1
  <2>4. SumTo(g, n) = SumTo(f, n)
    BY <2>2, <2>3, SumStep
  <2> QED
    BY <2>1, <2>4
<1> DEFINE D(x, i) == [name |-> KeptName[x[i].name], type |-> x[i].type,
                       size |-> x[i].size, offset |-> SumTo(x, i - 1)]
           V == {D(f, i) : i \in 1 .. Len(f)} \union {c}
<1>5. Described(f) = [i \in 1 .. Len(f) |-> D(f, i)]
  BY <1>1 DEF Described
<1>6. Described(g) = [i \in 1 .. Len(f) + 1 |-> D(g, i)]
  BY <1>1 DEF Described
<1>7. \A i \in 1 .. Len(f) : D(g, i) = D(f, i)
  BY <1>1, <1>4
<1>8. D(g, Len(f) + 1) = c
  <2>1. (Len(f) + 1) - 1 = Len(f)
    BY <1>1
  <2> QED
    BY <1>1, <1>3, <2>1
<1>9. Described(f) \in Seq(V) /\ Len(Described(f)) = Len(f)
  <2>1. \A i \in 1 .. Len(f) : D(f, i) \in V
    OBVIOUS
  <2> HIDE DEF D, V
  <2> QED
    BY <1>1, <1>5, <2>1
<1>10. c \in V
  OBVIOUS
<1> HIDE DEF D, V, c
<1>11. \A i \in 1 .. Len(f) + 1 :
         Append(Described(f), c)[i] = IF i <= Len(f) THEN D(f, i) ELSE c
  BY <1>1, <1>5, <1>9, <1>10
<1>12. Append(Described(f), c) \in Seq(V) /\ Len(Append(Described(f), c)) = Len(f) + 1
  BY <1>9, <1>10
<1>13. Described(g) \in Seq(V) /\ Len(Described(g)) = Len(f) + 1
  <2>1. \A i \in 1 .. Len(f) + 1 : D(g, i) \in V
    <3>1. \A i \in 1 .. Len(f) : D(f, i) \in V
      BY <1>5, <1>9, <1>1
    <3> QED
      BY <1>1, <1>7, <1>8, <1>10, <3>1
  <2> QED
    BY <1>1, <1>6, <2>1
<1>14. \A i \in 1 .. Len(f) + 1 : Described(g)[i] = Append(Described(f), c)[i]
  <2> SUFFICES ASSUME NEW i \in 1 .. Len(f) + 1
               PROVE  Described(g)[i] = Append(Described(f), c)[i]
    OBVIOUS
  <2>1. Described(g)[i] = D(g, i)
    BY <1>6
  <2>0. Len(f) \in Nat
    OBVIOUS
  <2>2. CASE i \in 1 .. Len(f)
    <3>1. i <= Len(f) /\ D(g, i) = D(f, i)
      BY <2>0, <2>2, <1>7
    <3>2. Append(Described(f), c)[i] = D(f, i)
      BY <3>1, <1>11
    <3> QED
      BY ONLY <2>1, <3>1, <3>2, Zenon
  <2>3. CASE i = Len(f) + 1
    <3>1. ~(i <= Len(f))
      BY <1>1, <2>3
    <3>2. Append(Described(f), c)[i] = c
      BY <1>11, <3>1
    <3>3. D(g, i) = c
      BY ONLY <2>3, <1>8, Zenon
    <3> QED
      BY ONLY <2>1, <3>2, <3>3, Zenon
  <2>4. i \in 1 .. Len(f) \/ i = Len(f) + 1
    BY <2>0
  <2> QED
    BY ONLY <2>2, <2>3, <2>4, Zenon
<1>15. Described(g) = Append(Described(f), c)
  BY <1>12, <1>13, <1>14
<1> QED
  BY <1>1, <1>3, <1>15 DEF g, c

LEMMA DescribedNothing == Described(<< >>) = << >>
<1>1. DOMAIN << >> = {}
  OBVIOUS
<1>2. Described(<< >>) = [i \in {} |-> i]
  BY ONLY <1>1, Zenon DEF Described
<1>3. << >> = [i \in {} |-> i]
  OBVIOUS
<1> QED
  BY <1>2, <1>3

-----------------------------------------------------------------------------
(* load_table_meta keeps LoadInv.                                          *)

LEMMA LineFacts ==
    ASSUME NEW l \in Lines
    PROVE  /\ l.parts \in 0 .. 3
           /\ l.parts = 3 => KeptName[l.name] \in Names /\ l.size \in Int
BY SchemaAssumption, IntMaxFacts

LEMMA BodyFacts ==
    ASSUME schema \in Seq(Lines), Len(schema) >= 1
    PROVE  /\ Body \in Seq(Lines) /\ Len(Body) = Len(schema) - 1
           /\ \A i \in 1 .. Len(Body) : Body[i] = schema[i + 1]
           /\ SubSeq(Body, 1, Len(Body)) = Body
<1>1. /\ Body \in Seq(Lines) /\ Len(Body) = Len(schema) - 1
      /\ \A i \in 1 .. Len(Body) : Body[i] = schema[i + 1]
  <2>1. /\ Body \in Seq(Lines)
        /\ Len(Body) = IF 2 <= Len(schema) THEN Len(schema) - 2 + 1 ELSE 0
        /\ \A i \in 1 .. Len(Body) : Body[i] = schema[2 + i - 1]
    BY Slice DEF Body
  <2>2. Len(schema) \in Nat
    OBVIOUS
  <2>3. Len(Body) = Len(schema) - 1
    <3>1. PICK n \in Nat : n = Len(schema) /\ n >= 1
      BY <2>2
    <3>2. Len(Body) = IF 2 <= n THEN n - 2 + 1 ELSE 0
      BY ONLY <2>1, <3>1, Zenon
    <3>3. Len(Body) = n - 1
      BY ONLY <3>1, <3>2
    <3> QED
      BY ONLY <3>1, <3>3, Zenon
  <2>4. ASSUME NEW i \in 1 .. Len(Body) PROVE Body[i] = schema[i + 1]
    <3>1. 2 + i - 1 = i + 1
      BY <2>2, <2>3
    <3>2. Body[i] = schema[2 + i - 1]
      BY ONLY <2>1, <2>4, Zenon
    <3> QED
      BY ONLY <3>1, <3>2, Zenon
  <2> QED
    BY ONLY <2>1, <2>3, <2>4, Zenon
<1>2. SubSeq(Body, 1, Len(Body)) = Body
  BY <1>1
<1> QED
  BY <1>1, <1>2

LEMMA SameSchema ==
    ASSUME schema' = schema
    PROVE  Body' = Body /\ Given' = Given /\ Loadable' = Loadable
<1>1. Body' = Body
  BY DEF Body
<1>2. Given' = Given
  BY <1>1 DEF Given, Filled
<1> QED
  BY <1>1, <1>2 DEF Loadable, Readable, EmptyBehindFull

LEMMA InitLoads == TableInit => LoadInv
<1> SUFFICES ASSUME TableInit PROVE LoadInv
  OBVIOUS
<1>1. /\ pc = "idle" /\ columns = << >> /\ offset = 0 /\ open = FALSE
      /\ schema \in Seq(Lines) \union {NoSchema}
  BY RowFormatAssumption DEF TableInit, Init
<1>2. Tiles(columns, offset)
  <2>1. << >> \in Seq(ColumnSet) /\ DOMAIN << >> = {}
    BY EmptySequence
  <2> QED
    BY <1>1, <2>1 DEF Tiles
<1>3. Len(columns) <= MaxColumns /\ offset <= IntMax
  BY <1>1, SchemaAssumption, IntMaxFacts
<1> QED
  BY <1>1, <1>2, <1>3 DEF LoadInv

(* Steps that neither load a schema file nor refuse it.                    *)
LEMMA Elsewhere ==
    ASSUME LoadInv, UNCHANGED <<columns, offset>>,
           pc' \in {"idle", "ready", "undefined"}, open' = FALSE,
           schema' \in Seq(Lines) \union {NoSchema}
    PROVE  LoadInv'
<1>1. Tiles(columns, offset)' /\ (Len(columns) <= MaxColumns)' /\ (offset <= IntMax)'
  BY DEF LoadInv, Tiles
<1>2. (open = (pc = "reading"))'
  OBVIOUS
<1> QED
  BY <1>1, <1>2 DEF LoadInv

LEMMA OpenKeeps == ASSUME LoadInv, Open, UNCHANGED schema PROVE LoadInv'
<1>1. schema \in Seq(Lines) /\ schema # << >>
  BY DEF LoadInv, Open
<1>2. /\ pc' = "reading" /\ next' = 2 /\ columns' = << >> /\ offset' = 0 /\ open' = TRUE
      /\ schema' = schema
  BY DEF Open
<1>3. Tiles(columns, offset)'
  <2>1. << >> \in Seq(ColumnSet) /\ DOMAIN << >> = {}
    BY EmptySequence
  <2> QED
    BY <1>2, <2>1 DEF Tiles
<1>4. Len(schema) >= 1
  BY <1>1, EmptyIsEmpty
<1>5. Filled(ReadSoFar)' = << >>
  <2>1. Body' = Body
    BY <1>2, SameSchema
  <2>2. Filled(SubSeq(Body, 1, 0)) = << >>
    BY <1>1, <1>4, BodyFacts, FilledNothing
  <2>3. next' - 2 = 0
    BY <1>2
  <2> QED
    BY <2>1, <2>2, <2>3 DEF ReadSoFar, Filled
<1>6. Describes(Filled(ReadSoFar))'
  <2>1. Describes(<< >>)'
    <3>1. SumTo(<< >>, 0) = 0 /\ Described(<< >>) = << >>
      BY SumNothing, DescribedNothing
    <3>2. DOMAIN << >> = {} /\ Len(<< >>) = 0
      OBVIOUS
    <3> QED
      BY <1>2, <3>1, <3>2 DEF Describes
  <2> QED
    BY <1>5, <2>1 DEF Describes
<1>7. MaxColumns > 0
  BY SchemaAssumption
<1>8. (Len(columns) <= MaxColumns)' /\ (offset <= IntMax)' /\ ~(Len(columns) = MaxColumns)'
  BY <1>2, <1>7, IntMaxFacts, SchemaAssumption
<1>9. next' \in 2 .. Len(schema') + 1 /\ schema' \in Seq(Lines)
  BY <1>1, <1>2, <1>4
<1>10. (open = (pc = "reading"))'
  BY <1>2
<1> QED
  BY <1>2, <1>3, <1>6, <1>8, <1>9, <1>10 DEF LoadInv

(* The line that is read next, and what was read before it.                *)
LEMMA ReadingFacts ==
    ASSUME LoadInv, pc = "reading"
    PROVE  /\ schema \in Seq(Lines) /\ schema # << >> /\ schema # NoSchema
           /\ Body \in Seq(Lines) /\ SubSeq(Body, 1, Len(Body)) = Body
           /\ Len(Body) = Len(schema) - 1 /\ Len(Body) \in Nat
           /\ next \in Nat /\ next - 2 \in 0 .. Len(Body)
           /\ Filled(ReadSoFar) \in Seq(Lines)
           /\ Describes(Filled(ReadSoFar))
           /\ Len(columns) = Len(Filled(ReadSoFar))
           /\ columns \in Seq(ColumnSet)
           /\ offset \in Nat
<1>1. schema \in Seq(Lines) /\ next \in 2 .. Len(schema) + 1 /\ Describes(Filled(ReadSoFar))
  BY DEF LoadInv
<1>2. Len(schema) \in Nat /\ Len(schema) >= 1
  BY <1>1
<1>3. schema # << >>
  BY <1>2
<1>4. schema # NoSchema
  BY <1>1, SchemaAssumption
<1>5. /\ Body \in Seq(Lines) /\ SubSeq(Body, 1, Len(Body)) = Body
      /\ Len(Body) = Len(schema) - 1
  BY <1>1, <1>2, BodyFacts
<1>6. Len(Body) \in Nat /\ next \in Nat /\ next - 2 \in 0 .. Len(Body)
  BY <1>1, <1>2, <1>5
<1>7. Filled(ReadSoFar) \in Seq(Lines)
  BY <1>5, <1>6, FilledType DEF ReadSoFar
<1>8. columns \in Seq(ColumnSet) /\ offset \in Nat
  BY DEF LoadInv, Tiles
<1>9. Len(columns) = Len(Filled(ReadSoFar))
  <2>1. columns = Described(Filled(ReadSoFar))
    BY <1>1 DEF Describes
  <2>2. DOMAIN columns = DOMAIN Filled(ReadSoFar)
    BY ONLY <2>1, Zenon DEF Described
  <2> QED
    BY <1>7, <1>8, <2>2
<1> QED
  BY ONLY <1>1, <1>3, <1>4, <1>5, <1>6, <1>7, <1>8, <1>9, Zenon

LEMMA LineIsNext ==
    ASSUME LoadInv, Reading
    PROVE  /\ next - 2 \in 0 .. Len(Body) - 1
           /\ next - 1 \in 1 .. Len(Body) /\ next - 1 = (next - 2) + 1
           /\ Line = Body[next - 1] /\ Line \in Lines
<1>1. pc = "reading" /\ next <= Len(schema)
  BY DEF Reading
<1>2. /\ schema \in Seq(Lines) /\ Len(Body) = Len(schema) - 1 /\ Len(Body) \in Nat
      /\ next \in Nat /\ next - 2 \in 0 .. Len(Body)
  BY <1>1, ReadingFacts
<1>3. next - 2 \in 0 .. Len(Body) - 1 /\ next - 1 \in 1 .. Len(Body) /\ next - 1 = (next - 2) + 1
  BY <1>1, <1>2
<1>4. Len(schema) >= 1
  BY <1>2
<1>5. Body[next - 1] = schema[(next - 1) + 1]
  BY <1>2, <1>3, <1>4, BodyFacts
<1>6. (next - 1) + 1 = next /\ next \in 1 .. Len(schema)
  BY <1>1, <1>2
<1>7. Line = Body[next - 1] /\ Line \in Lines
  BY <1>2, <1>5, <1>6 DEF Line
<1> QED
  BY <1>3, <1>7

(* What has been read is the beginning of the whole, and the line read     *)
(* next is in it unless it is empty.                                       *)
LEMMA GivenGoesOn ==
    ASSUME LoadInv, Reading
    PROVE  /\ Given \in Seq(Lines)
           /\ Len(columns) <= Len(Given)
           /\ Len(columns) = Len(Given) => Body[Len(Body)].parts = 0
           /\ Line.parts # 0 => \E j \in DOMAIN Given : Given[j] = Line
<1>0. pc = "reading"
  BY DEF Reading
<1>1. /\ Body \in Seq(Lines) /\ SubSeq(Body, 1, Len(Body)) = Body /\ Len(Body) \in Nat
      /\ Len(columns) = Len(Filled(ReadSoFar))
  BY <1>0, ReadingFacts
<1>2. /\ next - 2 \in 0 .. Len(Body) - 1 /\ next - 1 \in 1 .. Len(Body)
      /\ Line = Body[next - 1]
  BY LineIsNext
<1> DEFINE m == next - 2
           n == Len(Body)
           k == next - 1
<1>3. m \in 0 .. n /\ n \in m .. Len(Body) /\ k \in 1 .. n /\ m < n /\ n \in 0 .. Len(Body)
  BY <1>1, <1>2
<1>4. Filled(SubSeq(Body, 1, m)) = Filled(ReadSoFar) /\ Filled(SubSeq(Body, 1, n)) = Given
  BY ONLY <1>1, Zenon DEF ReadSoFar, Given, m, n
<1>30. m = next - 2 /\ n = Len(Body) /\ k = next - 1
  OBVIOUS
<1> HIDE DEF m, n, k
<1>5. /\ Filled(SubSeq(Body, 1, n)) \in Seq(Lines)
      /\ Len(Filled(SubSeq(Body, 1, m))) <= Len(Filled(SubSeq(Body, 1, n)))
      /\ (m < n /\ Len(Filled(SubSeq(Body, 1, m))) = Len(Filled(SubSeq(Body, 1, n))))
           => Body[n].parts = 0
  BY <1>1, <1>3, <1>30, FilledGrows
<1>6. ASSUME Line.parts # 0 PROVE \E j \in DOMAIN Given : Given[j] = Line
  <2>1. Body[k].parts # 0
    BY ONLY <1>2, <1>30, <1>6, Zenon
  <2>2. \E j \in DOMAIN Filled(SubSeq(Body, 1, n)) : Filled(SubSeq(Body, 1, n))[j] = Body[k]
    BY <1>1, <1>3, <2>1, FilledHas
  <2> QED
    BY ONLY <1>2, <1>30, <1>4, <2>2, Zenon
<1> QED
  BY ONLY <1>1, <1>3, <1>30, <1>4, <1>5, <1>6, Zenon

LEMMA RefusalKeeps ==
    ASSUME LoadInv, ~Loadable, Close("refused") \/ (pc' = "refused" /\ open' = FALSE
             /\ UNCHANGED <<columns, offset>>), schema' = schema
    PROVE  LoadInv'
<1>1. pc' = "refused" /\ open' = FALSE /\ columns' = columns /\ offset' = offset
  BY DEF Close
<1>2. Loadable' = Loadable
  BY SameSchema
<1>3. Tiles(columns, offset)' /\ (Len(columns) <= MaxColumns)' /\ (offset <= IntMax)'
  BY <1>1 DEF LoadInv, Tiles
<1>4. (open = (pc = "reading"))'
  BY <1>1
<1>5. schema' \in Seq(Lines) \union {NoSchema}
  BY DEF LoadInv
<1> QED
  BY <1>1, <1>2, <1>3, <1>4, <1>5 DEF LoadInv

LEMMA OpenFailsKeeps == ASSUME LoadInv, OpenFails, UNCHANGED schema PROVE LoadInv'
<1>1. ~Loadable
  BY DEF OpenFails, Loadable, Readable, EmptyBehindFull
<1>2. pc' = "refused" /\ columns' = << >> /\ offset' = offset /\ open' = open /\ schema' = schema
  BY DEF OpenFails
<1>3. open = FALSE /\ schema \in Seq(Lines) \union {NoSchema}
  BY DEF LoadInv, OpenFails
<1>4. Tiles(columns, offset)'
  <2>1. << >> \in Seq(ColumnSet) /\ DOMAIN << >> = {} /\ offset \in Nat
    BY EmptySequence DEF LoadInv, Tiles
  <2> QED
    BY <1>2, <2>1 DEF Tiles
<1>5. (Len(columns) <= MaxColumns)' /\ (offset <= IntMax)'
  BY <1>2, SchemaAssumption DEF LoadInv
<1>6. (open = (pc = "reading"))'
  BY <1>2, <1>3
<1>7. ~Loadable'
  BY <1>1, <1>2, SameSchema
<1> QED
  BY <1>2, <1>3, <1>4, <1>5, <1>6, <1>7 DEF LoadInv

LEMMA RefusedLines ==
    ASSUME LoadInv, UNCHANGED schema,
           TooManyColumns \/ BadParts \/ BadType \/ BadSize
    PROVE  LoadInv'
<1>1. Reading /\ Close("refused")
  BY DEF TooManyColumns, BadParts, BadType, BadSize, Typed
<1>2. /\ Given \in Seq(Lines) /\ Len(columns) <= Len(Given)
      /\ Len(columns) = Len(Given) => Body[Len(Body)].parts = 0
      /\ Line.parts # 0 => \E j \in DOMAIN Given : Given[j] = Line
  BY <1>1, GivenGoesOn
<1>3. Len(columns) \in Nat /\ Line \in Lines
  BY <1>1, ReadingFacts, LineIsNext DEF Reading
<1>4. CASE TooManyColumns
  <2>1. Len(columns) >= MaxColumns /\ MaxColumns \in Nat
    BY <1>4, SchemaAssumption DEF TooManyColumns, Full
  <2>2. SUFFICES ASSUME Loadable PROVE FALSE
    BY <1>1, RefusalKeeps
  <2>3. Len(Given) <= MaxColumns /\ (Len(Given) = MaxColumns => Body[Len(Body)].parts # 0)
    BY <2>2 DEF Loadable, Readable, EmptyBehindFull
  <2>4. Len(Given) = MaxColumns /\ Len(columns) = Len(Given)
    BY <1>2, <1>3, <2>1, <2>3
  <2> QED
    BY <1>2, <2>3, <2>4
<1>5. CASE BadParts \/ BadType \/ BadSize
  <2>1. /\ Line.parts # 0
        /\ ~(Line.parts = 3 /\ Line.type \in {"INT", "CHAR"} /\ Line.size > 0)
    <3>1. CASE BadParts
      BY <3>1 DEF BadParts
    <3>2. CASE BadType
      BY <3>2 DEF BadType
    <3>3. CASE BadSize
      <4>1. Line.parts = 3 /\ Line.size <= 0
        BY <3>3 DEF BadSize, Typed
      <4>2. Line.size \in Int
        BY <1>3, <4>1, LineFacts
      <4> QED
        BY <4>1, <4>2
    <3> QED
      BY <1>5, <3>1, <3>2, <3>3
  <2>2. PICK j \in DOMAIN Given : Given[j] = Line
    BY <1>2, <2>1
  <2>3. ~Loadable
    BY <2>1, <2>2 DEF Loadable, Readable, EmptyBehindFull
  <2> QED
    BY <1>1, <2>3, RefusalKeeps
<1> QED
  BY <1>4, <1>5

(* One line further: the lines read so far.                                *)
LEMMA NextRead ==
    ASSUME LoadInv, Reading, next' = next + 1, schema' = schema
    PROVE  /\ next' \in 2 .. Len(schema') + 1 /\ next' > 2
           /\ Body' = Body /\ Body[next' - 2] = Line
           /\ Line.parts # 0 => Filled(ReadSoFar)' = Append(Filled(ReadSoFar), Line)
           /\ Line.parts = 0 => Filled(ReadSoFar)' = Filled(ReadSoFar)
<1>1. /\ next - 2 \in 0 .. Len(Body) - 1 /\ next - 1 \in 1 .. Len(Body)
      /\ next - 1 = (next - 2) + 1 /\ Line = Body[next - 1]
  BY LineIsNext
<1>2. Body \in Seq(Lines) /\ Len(Body) = Len(schema) - 1 /\ Len(Body) \in Nat /\ next \in Nat
  BY ReadingFacts DEF Reading
<1>3. Body' = Body
  BY SameSchema
<1>4. next' - 2 = next - 1 /\ next' > 2 /\ next' \in 2 .. Len(schema') + 1
  BY <1>1, <1>2
<1>5. Filled(ReadSoFar)' = Filled(SubSeq(Body, 1, next - 1))
  BY ONLY <1>3, <1>4, Zenon DEF ReadSoFar, Filled
<1>6. PICK m \in 0 .. Len(Body) - 1 : m = next - 2 /\ m + 1 = next - 1
  BY <1>1
<1>7. Filled(ReadSoFar) = Filled(SubSeq(Body, 1, m))
  BY ONLY <1>6, Zenon DEF ReadSoFar
<1>8. /\ Body[m + 1].parts # 0 => Filled(SubSeq(Body, 1, m + 1))
                                    = Append(Filled(SubSeq(Body, 1, m)), Body[m + 1])
      /\ Body[m + 1].parts = 0 => Filled(SubSeq(Body, 1, m + 1)) = Filled(SubSeq(Body, 1, m))
  BY <1>2, FilledStep
<1> QED
  BY ONLY <1>1, <1>3, <1>4, <1>5, <1>6, <1>7, <1>8, Zenon

LEMMA SkipEmptyLineKeeps == ASSUME LoadInv, SkipEmptyLine, UNCHANGED schema PROVE LoadInv'
<1>1. /\ Reading /\ ~Full /\ Line.parts = 0 /\ next' = next + 1 /\ schema' = schema
      /\ pc' = pc /\ columns' = columns /\ offset' = offset /\ open' = open
  BY DEF SkipEmptyLine
<1>2. /\ next' \in 2 .. Len(schema') + 1
      /\ Filled(ReadSoFar)' = Filled(ReadSoFar)
  BY <1>1, NextRead
<1>3. pc = "reading" /\ Len(columns) # MaxColumns
  <2>1. Len(columns) \in Nat
    BY <1>1, ReadingFacts DEF Reading
  <2> QED
    BY <1>1, <2>1, SchemaAssumption DEF Reading, Full
<1>4. Describes(Filled(ReadSoFar))'
  <2>1. Describes(Filled(ReadSoFar))
    BY <1>3 DEF LoadInv
  <2> QED
    BY <1>1, <1>2, <2>1 DEF Describes
<1>5. Tiles(columns, offset)' /\ (Len(columns) <= MaxColumns)' /\ (offset <= IntMax)'
  BY <1>1 DEF LoadInv, Tiles
<1>6. (open = (pc = "reading"))'
  BY <1>1 DEF LoadInv
<1>7. schema' \in Seq(Lines)
  BY <1>1, <1>3 DEF LoadInv
<1> QED
  BY <1>1, <1>2, <1>3, <1>4, <1>5, <1>6, <1>7 DEF LoadInv

LEMMA TilesStep ==
    ASSUME NEW cols, NEW end, Tiles(cols, end),
           NEW c \in ColumnSet, c.offset = end, cols = << >> => end = 0
    PROVE  Tiles(Append(cols, c), end + c.size)
<1>1. cols \in Seq(ColumnSet) /\ end \in Nat /\ c.size \in Nat /\ c.size > 0
  BY DEF Tiles, ColumnSet
<1>2. /\ Append(cols, c) \in Seq(ColumnSet) /\ Len(Append(cols, c)) = Len(cols) + 1
      /\ DOMAIN Append(cols, c) = 1 .. Len(cols) + 1 /\ DOMAIN cols = 1 .. Len(cols)
      /\ \A i \in 1 .. Len(cols) : Append(cols, c)[i] = cols[i]
      /\ Append(cols, c)[Len(cols) + 1] = c
      /\ Len(cols) \in Nat
  BY <1>1
<1> DEFINE d == Append(cols, c)
<1> HIDE DEF d
<1>3. ASSUME NEW i \in 1 .. Len(cols)
      PROVE  cols[i].offset \in Nat /\ cols[i].size \in Nat
  <2>1. cols[i] \in ColumnSet
    BY <1>1
  <2> QED
    BY <2>1 DEF ColumnSet
<1>4. \A i \in 1 .. Len(cols) : cols[i].offset + cols[i].size <= end
  BY <1>2 DEF Tiles
<1>5. ASSUME NEW i \in DOMAIN d PROVE d[i].offset + d[i].size <= end + c.size
  <2>1. CASE i \in 1 .. Len(cols)
    BY <1>1, <1>2, <1>3, <1>4, <2>1 DEF d
  <2>2. CASE i = Len(cols) + 1
    BY <1>1, <1>2, <2>2 DEF d
  <2> QED
    BY <1>2, <2>1, <2>2 DEF d
<1>6. ASSUME NEW i \in DOMAIN d, NEW j \in DOMAIN d, i < j
      PROVE  d[i].offset + d[i].size <= d[j].offset
  <2>1. i \in 1 .. Len(cols) /\ d[i] = cols[i]
    BY <1>2, <1>6 DEF d
  <2>2. CASE j \in 1 .. Len(cols)
    <3>1. d[j] = cols[j]
      BY <1>2, <2>2 DEF d
    <3>2. \A x, y \in DOMAIN cols : x < y => cols[x].offset + cols[x].size <= cols[y].offset
      BY DEF Tiles
    <3> QED
      BY <1>2, <1>6, <2>1, <2>2, <3>1, <3>2
  <2>3. CASE j = Len(cols) + 1
    <3>1. d[j] = c
      BY <1>2, <2>3 DEF d
    <3> QED
      BY <1>4, <2>1, <3>1
  <2>4. j \in 1 .. Len(cols) \/ j = Len(cols) + 1
    BY <1>2 DEF d
  <2> QED
    BY <2>2, <2>3, <2>4
<1>7. d[1].offset = 0
  <2>1. CASE cols = << >>
    <3>1. Len(cols) = 0 /\ end = 0
      BY <1>1, <2>1
    <3>2. d[1] = c
      BY <1>2, <3>1 DEF d
    <3> QED
      BY <3>1, <3>2
  <2>2. CASE cols # << >>
    <3>1. 1 \in 1 .. Len(cols)
      BY <1>1, <2>2
    <3> QED
      BY <1>2, <2>2, <3>1 DEF Tiles, d
  <2> QED
    BY <2>1, <2>2
<1>8. d \in Seq(ColumnSet) /\ end + c.size \in Nat
  BY <1>1, <1>2 DEF d
<1>9. Tiles(d, end + c.size)
  BY <1>5, <1>6, <1>7, <1>8 DEF Tiles
<1> QED
  BY ONLY <1>9, Zenon DEF d

LEMMA AddColumnKeeps == ASSUME LoadInv, AddColumn, UNCHANGED schema PROVE LoadInv'
<1>1. /\ Reading /\ ~Full /\ Line.parts = 3 /\ Line.type \in {"INT", "CHAR"}
      /\ Line.size > 0 /\ offset + Line.size <= IntMax
      /\ columns' = Append(columns, Column(Line)) /\ offset' = offset + Line.size
      /\ next' = next + 1 /\ pc' = pc /\ open' = open /\ schema' = schema
  BY DEF AddColumn, Typed, NextOffset
<1>2. pc = "reading"
  BY <1>1 DEF Reading
<1> DEFINE f == Filled(ReadSoFar)
           g == Append(f, Line)
<1>3. /\ schema \in Seq(Lines) /\ f \in Seq(Lines) /\ Describes(f)
      /\ Len(columns) = Len(f) /\ columns \in Seq(ColumnSet) /\ offset \in Nat
  BY <1>2, ReadingFacts
<1>4. Line \in Lines
  BY <1>1, LineIsNext
<1>5. KeptName[Line.name] \in Names /\ Line.size \in Int
  BY <1>1, <1>4, LineFacts
<1>6. /\ next' \in 2 .. Len(schema') + 1 /\ next' > 2
      /\ Body' = Body /\ Body[next' - 2] = Line
      /\ Filled(ReadSoFar)' = g
  <2>1. Line.parts # 0
    BY <1>1
  <2> QED
    BY <1>1, <2>1, NextRead
<1> HIDE DEF f
<1>7. /\ \A i \in DOMAIN f :
           f[i].parts = 3 /\ f[i].type \in {"INT", "CHAR"} /\ f[i].size > 0
      /\ columns = Described(f) /\ offset = SumTo(f, Len(f))
  BY <1>3 DEF Describes
<1>8. \A i \in 1 .. Len(f) : f[i].size \in Int
  <2> SUFFICES ASSUME NEW i \in 1 .. Len(f) PROVE f[i].size \in Int
    OBVIOUS
  <2>1. f[i] \in Lines /\ i \in DOMAIN f
    BY <1>3
  <2>2. f[i].parts = 3
    BY <1>7, <2>1
  <2> QED
    BY <2>1, <2>2, LineFacts
<1>9. /\ SumTo(g, Len(g)) = offset + Line.size
      /\ Described(g) = Append(columns, Column(Line))
  <2>1. /\ SumTo(g, Len(g)) = SumTo(f, Len(f)) + Line.size
        /\ Described(g) = Append(Described(f),
             [name |-> KeptName[Line.name], type |-> Line.type, size |-> Line.size,
              offset |-> SumTo(f, Len(f))])
    BY <1>3, <1>4, <1>5, <1>8, DescribedStep
  <2> QED
    BY ONLY <1>7, <2>1, Zenon DEF Column
<1>10. \A i \in DOMAIN g :
         g[i].parts = 3 /\ g[i].type \in {"INT", "CHAR"} /\ g[i].size > 0
  <2>1. /\ Len(f) \in Nat /\ DOMAIN f = 1 .. Len(f) /\ DOMAIN g = 1 .. Len(f) + 1
        /\ \A i \in 1 .. Len(f) : g[i] = f[i]
        /\ g[Len(f) + 1] = Line
    BY <1>3, <1>4
  <2> HIDE DEF g
  <2> SUFFICES ASSUME NEW i \in DOMAIN g
               PROVE  g[i].parts = 3 /\ g[i].type \in {"INT", "CHAR"} /\ g[i].size > 0
    OBVIOUS
  <2>2. CASE i \in 1 .. Len(f)
    BY <1>7, <2>1, <2>2
  <2>3. CASE i = Len(f) + 1
    BY <1>1, <2>1, <2>3
  <2> QED
    BY <2>1, <2>2, <2>3
<1>11. Describes(Filled(ReadSoFar))'
  <2> HIDE DEF g
  <2>1. columns' = Described(g) /\ offset' = SumTo(g, Len(g))
    BY <1>1, <1>9
  <2>2. Described(Filled(ReadSoFar))' = Described(g) /\ SumTo(Filled(ReadSoFar), Len(Filled(ReadSoFar)))' = SumTo(g, Len(g))
    BY <1>6
  <2> QED
    BY <1>6, <1>10, <2>1, <2>2 DEF Describes
<1>12. Column(Line) \in ColumnSet /\ Column(Line).offset = offset /\ Column(Line).size = Line.size
  BY <1>1, <1>3, <1>5 DEF Column, ColumnSet
<1>13. Tiles(columns, offset)'
  <2>1. Tiles(columns, offset)
    BY DEF LoadInv
  <2>2. columns = << >> => offset = 0
    <3>1. SUFFICES ASSUME columns = << >> PROVE offset = 0
      OBVIOUS
    <3>2. Len(f) = 0
      BY <1>3, <3>1
    <3> QED
      BY <1>7, <3>2, SumNothing
  <2>3. Tiles(Append(columns, Column(Line)), offset + Column(Line).size)
    BY <1>12, <2>1, <2>2, TilesStep
  <2> QED
    BY <1>1, <1>12, <2>3 DEF Tiles
<1>14. (Len(columns) <= MaxColumns)'
  <2>1. Len(Append(columns, Column(Line))) = Len(columns) + 1 /\ Len(columns) \in Nat
    BY <1>3, <1>12
  <2>2. Len(columns) < MaxColumns
    BY <1>1, <2>1, SchemaAssumption DEF Full
  <2> QED
    BY <1>1, <2>1, <2>2, SchemaAssumption
<1>15. (offset <= IntMax)'
  BY <1>1
<1>16. (open = (pc = "reading"))'
  BY <1>1 DEF LoadInv
<1>17. Body'[next' - 2].parts # 0
  BY <1>1, <1>6
<1> QED
  BY <1>1, <1>2, <1>3, <1>6, <1>11, <1>13, <1>14, <1>15, <1>16, <1>17 DEF LoadInv

LEMMA EndFacts ==
    ASSUME LoadInv, AtEnd
    PROVE  /\ pc = "reading" /\ next - 2 = Len(Body) /\ next = Len(schema) + 1
           /\ Given = Filled(ReadSoFar) /\ Given \in Seq(Lines)
           /\ Describes(Given) /\ Len(columns) = Len(Given)
<1>1. pc = "reading" /\ next > Len(schema)
  BY DEF AtEnd
<1>2. /\ schema \in Seq(Lines)
      /\ Body \in Seq(Lines) /\ SubSeq(Body, 1, Len(Body)) = Body
      /\ Len(Body) = Len(schema) - 1 /\ Len(Body) \in Nat
      /\ next \in Nat /\ next - 2 \in 0 .. Len(Body)
      /\ Filled(ReadSoFar) \in Seq(Lines)
      /\ Describes(Filled(ReadSoFar))
      /\ Len(columns) = Len(Filled(ReadSoFar))
  BY <1>1, ReadingFacts
<1>3. Len(schema) \in Nat
  BY <1>2
<1>4. next - 2 = Len(Body) /\ next = Len(schema) + 1
  BY <1>1, <1>2, <1>3
<1>5. Given = Filled(ReadSoFar)
  BY ONLY <1>2, <1>4, Zenon DEF Given, ReadSoFar
<1> QED
  BY ONLY <1>1, <1>2, <1>4, <1>5, Zenon

LEMMA LoadFailsKeeps == ASSUME LoadInv, LoadFails, UNCHANGED schema PROVE LoadInv'
<1>1. AtEnd /\ (columns = << >> \/ ~RowFits) /\ Close("refused")
  BY DEF LoadFails
<1>2. /\ Given \in Seq(Lines) /\ Describes(Given) /\ Len(columns) = Len(Given)
  BY <1>1, EndFacts
<1>3. ~Loadable
  <2>1. CASE columns = << >>
    <3>1. Len(Given) = 0
      BY <1>2, <2>1
    <3>2. Given = << >>
      BY <1>2, <3>1, EmptyIsEmpty
    <3> QED
      BY <3>2 DEF Loadable, Readable, EmptyBehindFull
  <2>2. CASE ~RowFits
    <3>1. offset = SumTo(Given, Len(Given))
      BY <1>2 DEF Describes
    <3> QED
      BY <2>2, <3>1 DEF Loadable, Readable, EmptyBehindFull, RowFits
  <2> QED
    BY <1>1, <2>1, <2>2
<1> QED
  BY <1>1, <1>3, RefusalKeeps

LEMMA LoadedKeeps == ASSUME LoadInv, Loaded, UNCHANGED schema PROVE LoadInv'
<1>1. /\ AtEnd /\ columns # << >> /\ offset <= MaxRowSize
      /\ pc' = "loaded" /\ open' = FALSE /\ next' = next /\ columns' = columns /\ offset' = offset
      /\ schema' = schema
  BY DEF Loaded, RowFits, Close
<1>2. /\ pc = "reading" /\ next - 2 = Len(Body)
      /\ Given \in Seq(Lines) /\ Describes(Given) /\ Len(columns) = Len(Given)
  BY <1>1, EndFacts
<1>3. /\ schema # << >> /\ schema # NoSchema /\ columns \in Seq(ColumnSet)
      /\ schema \in Seq(Lines)
  BY <1>2, ReadingFacts
<1>4. Loadable
  <2>1. Given # << >>
    <3>1. Len(columns) # 0
      BY <1>1, <1>3
    <3> QED
      BY <1>2, <3>1
  <2>2. Len(Given) <= MaxColumns
    BY <1>2 DEF LoadInv
  <2>3. Len(Given) = MaxColumns => Body[Len(Body)].parts # 0
    BY <1>2 DEF LoadInv
  <2>4. SumTo(Given, Len(Given)) <= MaxRowSize
    BY <1>1, <1>2 DEF Describes
  <2>5. \A i \in DOMAIN Given :
          Given[i].parts = 3 /\ Given[i].type \in {"INT", "CHAR"} /\ Given[i].size > 0
    BY <1>2 DEF Describes
  <2> QED
    BY ONLY <1>3, <2>1, <2>2, <2>3, <2>4, <2>5, Zenon DEF Loadable, Readable, EmptyBehindFull
<1>5. Loadable' /\ Given' = Given
  BY <1>1, <1>4, SameSchema
<1>6. Describes(Given)'
  BY <1>1, <1>2, <1>5 DEF Describes
<1>7. Tiles(columns, offset)' /\ (Len(columns) <= MaxColumns)' /\ (offset <= IntMax)'
  BY <1>1 DEF LoadInv, Tiles
<1>8. (open = (pc = "reading"))'
  BY <1>1
<1> QED
  BY <1>1, <1>3, <1>5, <1>6, <1>7, <1>8 DEF LoadInv

LEMMA LoadKeeps == ASSUME LoadInv, Load, UNCHANGED schema PROVE LoadInv'
<1>1. CASE OffsetOverflows
  <2>1. /\ pc' = "undefined" /\ open' = FALSE /\ UNCHANGED <<columns, offset>>
    BY <1>1 DEF OffsetOverflows, Close
  <2>2. schema' \in Seq(Lines) \union {NoSchema}
    BY DEF LoadInv
  <2> QED
    BY <2>1, <2>2, Elsewhere
<1> QED
  BY <1>1, OpenKeeps, OpenFailsKeeps, RefusedLines, SkipEmptyLineKeeps, AddColumnKeeps,
     LoadFailsKeeps, LoadedKeeps DEF Load

-----------------------------------------------------------------------------
(* Literals, and the bytes that are written for them.                      *)

Chars == 1 .. Base - 1

LEMMA LiteralFacts ==
    ASSUME NEW lit \in Literal
    PROVE  /\ lit.type \in {"number", "string"} /\ lit.text \in Seq(Chars) /\ lit.num \in Int
           /\ Len(lit.text) \in Nat
           /\ lit.type = "number" => Len(lit.text) > 0 /\ lit.text[1] # Quote
           /\ lit.type = "string" => /\ Len(lit.text) >= 2 /\ lit.text[1] = Quote
                                     /\ lit.text[Len(lit.text)] = Quote
<1>1. /\ lit \in [type : {"number", "string"}, text : Seq(1 .. Base - 1), num : Int]
      /\ IF lit.type = "number" THEN Len(lit.text) > 0 /\ lit.text[1] # Quote
         ELSE /\ Len(lit.text) >= 2
              /\ lit.text[1] = Quote /\ lit.text[Len(lit.text)] = Quote
  BY DEF Literal
<1>2. lit.text \in Seq(Chars)
  BY <1>1 DEF Chars
<1> QED
  BY <1>1, <1>2

LEMMA CopiedFacts ==
    ASSUME NEW s \in Seq(Chars)
    PROVE  /\ Copied(s) \in Seq(Chars) /\ Len(Copied(s)) <= TempSize - 1
           /\ Len(s) < TempSize => Copied(s) = s
           /\ \A i \in 1 .. Len(Copied(s)) : Copied(s)[i] = s[i]
           /\ Len(s) >= 1 => Len(Copied(s)) >= 1
<1> DEFINE n == Least(Len(s), TempSize - 1)
<1>1. Len(s) \in Nat /\ TempSize \in Nat /\ TempSize > 1
  BY MachineAssumption
<1>2. /\ n \in Nat /\ n <= Len(s) /\ n <= TempSize - 1 /\ (Len(s) < TempSize => n = Len(s))
      /\ (Len(s) >= 1 => n >= 1)
  BY <1>1 DEF Least
<1> HIDE DEF n
<1>3. /\ SubSeq(s, 1, n) \in Seq(Chars) /\ Len(SubSeq(s, 1, n)) = n
      /\ \A i \in 1 .. n : SubSeq(s, 1, n)[i] = s[i]
  BY <1>1, <1>2
<1>4. Copied(s) = SubSeq(s, 1, n)
  BY DEF Copied, n
<1>5. ASSUME Len(s) < TempSize PROVE Copied(s) = s
  <2>1. n = Len(s)
    BY <1>2, <1>5
  <2> QED
    BY <1>3, <1>4, <2>1
<1> QED
  BY <1>2, <1>3, <1>4, <1>5

LEMMA StripFacts ==
    ASSUME NEW s \in Seq(Chars)
    PROVE  StripQuotes(s) \in Seq(Chars) /\ Len(StripQuotes(s)) <= Len(s)
<1>1. CASE Len(s) >= 2 /\ s[1] = Quote /\ s[Len(s)] = Quote
  <2>1. StripQuotes(s) = SubSeq(s, 2, Len(s) - 1)
    BY <1>1 DEF StripQuotes
  <2>2. Len(s) \in Nat
    OBVIOUS
  <2>3. /\ SubSeq(s, 2, Len(s) - 1) \in Seq(Chars)
        /\ Len(SubSeq(s, 2, Len(s) - 1)) = IF 2 <= Len(s) - 1 THEN (Len(s) - 1) - 2 + 1 ELSE 0
    BY <2>2, Slice
  <2> QED
    BY <2>1, <2>2, <2>3
<1>2. CASE ~(Len(s) >= 2 /\ s[1] = Quote /\ s[Len(s)] = Quote)
  BY <1>2 DEF StripQuotes
<1> QED
  BY <1>1, <1>2

LEMMA CharTextFacts ==
    ASSUME NEW lit \in Literal
    PROVE  /\ CharText(lit) \in Seq(Chars)
           /\ Len(CharText(lit)) \in Nat /\ Len(CharText(lit)) <= TempSize - 1
<1>1. lit.text \in Seq(Chars)
  BY LiteralFacts
<1>2. Copied(lit.text) \in Seq(Chars) /\ Len(Copied(lit.text)) <= TempSize - 1
  BY <1>1, CopiedFacts
<1>3. StripQuotes(Copied(lit.text)) \in Seq(Chars)
      /\ Len(StripQuotes(Copied(lit.text))) <= Len(Copied(lit.text))
  BY <1>2, StripFacts
<1>4. CharText(lit) \in {StripQuotes(Copied(lit.text)), Copied(lit.text)}
  BY DEF CharText
<1>5. TempSize \in Nat
  BY MachineAssumption
<1> QED
  BY <1>2, <1>3, <1>4, <1>5

(* What a WHERE compares a column with is what an INSERT wrote into it.    *)
LEMMA ComparedAsWritten ==
    ASSUME NEW lit \in Literal
    PROVE  StripQuotes(Copied(lit.text)) = CharText(lit)
<1>1. CASE lit.type = "string"
  BY <1>1 DEF CharText
<1>2. CASE lit.type = "number"
  <2>1. lit.text \in Seq(Chars) /\ Len(lit.text) >= 1 /\ lit.text[1] # Quote
    BY <1>2, LiteralFacts
  <2>2. Len(Copied(lit.text)) >= 1 /\ Copied(lit.text)[1] = lit.text[1]
    <3>1. /\ Copied(lit.text) \in Seq(Chars)
          /\ \A i \in 1 .. Len(Copied(lit.text)) : Copied(lit.text)[i] = lit.text[i]
          /\ Len(lit.text) >= 1 => Len(Copied(lit.text)) >= 1
      BY <2>1, CopiedFacts
    <3> QED
      BY <2>1, <3>1
  <2>3. StripQuotes(Copied(lit.text)) = Copied(lit.text)
    BY <2>1, <2>2 DEF StripQuotes
  <2>4. lit.type # "string"
    BY <1>2
  <2>5. CharText(lit) = Copied(lit.text)
    BY <2>4 DEF CharText
  <2> QED
    BY <2>3, <2>5
<1> QED
  BY <1>1, <1>2, LiteralFacts

LEMMA ZerosFacts ==
    ASSUME NEW n \in Nat
    PROVE  Zeros(n) \in Seq(Bytes) /\ Len(Zeros(n)) = n /\ \A i \in 1 .. n : Zeros(n)[i] = 0
BY MachineAssumption DEF Zeros, Bytes

LEMMA CharsAreBytes ==
    ASSUME NEW s \in Seq(Chars)
    PROVE  s \in Seq(Bytes) /\ \A i \in 1 .. Len(s) : s[i] # 0
<1>1. Chars \subseteq Bytes /\ 0 \notin Chars
  BY MachineAssumption DEF Chars, Bytes
<1>2. s \in Seq(Bytes)
  BY <1>1
<1> QED
  BY <1>1, <1>2

LEMMA ValueBytesFacts ==
    ASSUME NEW lit \in Literal, NEW col \in ColumnSet, Accepts(col, lit)
    PROVE  /\ ValueBytes(col, lit) \in Seq(Bytes)
           /\ col.type = "INT" => Len(ValueBytes(col, lit)) = IntBytes
           /\ col.type # "INT" =>
                /\ Len(ValueBytes(col, lit)) = col.size
                /\ Len(CharText(lit)) <= col.size
                /\ \A k \in 1 .. Len(CharText(lit)) : ValueBytes(col, lit)[k] = CharText(lit)[k]
                /\ \A k \in Len(CharText(lit)) + 1 .. col.size : ValueBytes(col, lit)[k] = 0
<1>1. CASE col.type = "INT"
  <2>1. IntValue(lit) \in Int
    <3>1. lit.num \in Int /\ IntMax \in Nat
      BY LiteralFacts, IntMaxFacts
    <3> QED
      BY <3>1, IntValueFacts
  <2> QED
    BY <1>1, <2>1, EncodeFacts DEF ValueBytes
<1>2. CASE col.type # "INT"
  <2> DEFINE s == CharText(lit)
             z == Zeros(col.size - Len(s))
  <2>1. s \in Seq(Bytes) /\ Len(s) \in Nat
    BY CharTextFacts, CharsAreBytes
  <2>2. Len(s) <= col.size /\ col.size \in Nat
    BY <1>2 DEF Accepts, ColumnSet
  <2>3. col.size - Len(s) \in Nat
    BY <2>1, <2>2
  <2>4. /\ z \in Seq(Bytes) /\ Len(z) = col.size - Len(s)
        /\ \A i \in 1 .. col.size - Len(s) : z[i] = 0
    BY <2>3, ZerosFacts
  <2> HIDE DEF s, z
  <2>5. /\ s \o z \in Seq(Bytes) /\ Len(s \o z) = Len(s) + Len(z)
        /\ \A i \in 1 .. Len(s) : (s \o z)[i] = s[i]
        /\ \A i \in Len(s) + 1 .. Len(s) + Len(z) : (s \o z)[i] = z[i - Len(s)]
    BY <2>1, <2>4, Joined
  <2>6. Len(s \o z) = col.size
    BY <2>1, <2>2, <2>4, <2>5
  <2>7. ASSUME NEW k \in Len(s) + 1 .. col.size PROVE (s \o z)[k] = 0
    <3>1. k \in Len(s) + 1 .. Len(s) + Len(z) /\ k - Len(s) \in 1 .. col.size - Len(s)
      BY <2>1, <2>2, <2>4
    <3> QED
      BY <2>4, <2>5, <3>1
  <2>8. ValueBytes(col, lit) = s \o z
    BY <1>2 DEF ValueBytes, PaddedBytes, s, z
  <2> QED
    BY ONLY <1>2, <2>2, <2>5, <2>6, <2>7, <2>8, Zenon DEF s
<1> QED
  BY <1>1, <1>2

LEMMA OverwriteFacts ==
    ASSUME NEW row \in Seq(Bytes), NEW bytes \in Seq(Bytes), NEW n \in Nat
    PROVE  /\ Overwrite(row, n, bytes) \in Seq(Bytes)
           /\ Len(Overwrite(row, n, bytes)) = Len(row)
           /\ \A i \in 1 .. Len(row) : i \notin n + 1 .. n + Len(bytes) =>
                Overwrite(row, n, bytes)[i] = row[i]
           /\ \A k \in 1 .. Len(bytes) : n + k <= Len(row) =>
                Overwrite(row, n, bytes)[n + k] = bytes[k]
<1> DEFINE V(i) == IF i \in n + 1 .. n + Len(bytes) THEN bytes[i - n] ELSE row[i]
<1>1. Len(row) \in Nat /\ Len(bytes) \in Nat
  OBVIOUS
<1>2. ASSUME NEW i \in 1 .. Len(row) PROVE V(i) \in Bytes
  <2>1. CASE i \in n + 1 .. n + Len(bytes)
    <3>1. i - n \in 1 .. Len(bytes)
      BY <1>1, <2>1
    <3> QED
      BY <2>1, <3>1
  <2>2. CASE i \notin n + 1 .. n + Len(bytes)
    BY <2>2
  <2> QED
    BY <2>1, <2>2
<1>3. Overwrite(row, n, bytes) = [i \in 1 .. Len(row) |-> V(i)]
  BY DEF Overwrite
<1>4. \A i \in 1 .. Len(row) : Overwrite(row, n, bytes)[i] = V(i)
  BY <1>3
<1>5. Overwrite(row, n, bytes) \in Seq(Bytes) /\ Len(Overwrite(row, n, bytes)) = Len(row)
  <2> HIDE DEF V
  <2> QED
    BY <1>1, <1>2, <1>3
<1>6. ASSUME NEW k \in 1 .. Len(bytes), n + k <= Len(row)
      PROVE  Overwrite(row, n, bytes)[n + k] = bytes[k]
  <2>1. n + k \in 1 .. Len(row) /\ n + k \in n + 1 .. n + Len(bytes) /\ (n + k) - n = k
    BY <1>1, <1>6
  <2>2. V(n + k) = bytes[k]
    BY <2>1
  <2> QED
    BY <1>4, <2>1, <2>2
<1>7. \A i \in 1 .. Len(row) : i \notin n + 1 .. n + Len(bytes) =>
        Overwrite(row, n, bytes)[i] = row[i]
  BY <1>4
<1> QED
  BY <1>5, <1>6, <1>7

-----------------------------------------------------------------------------
(* The row that an INSERT appends.                                         *)

LEMMA ColumnFacts ==
    ASSUME TableInv, ctx.loaded
    PROVE  /\ ctx.columns \in Seq(ColumnSet) /\ Len(ctx.columns) \in 1 .. MaxColumns
           /\ Len(ctx.columns) \in Nat
           /\ ctx.rowSize \in Nat /\ IntBytes <= ctx.rowSize /\ ctx.rowSize <= MaxRowSize
           /\ \A c \in 1 .. Len(ctx.columns) :
                /\ ctx.columns[c] \in ColumnSet
                /\ ctx.columns[c].offset \in Nat /\ ctx.columns[c].size \in Nat \ {0}
                /\ ctx.columns[c].type \in {"INT", "CHAR"}
                /\ ctx.columns[c].offset + ctx.columns[c].size <= ctx.rowSize
           /\ \A c \in 2 .. Len(ctx.columns) : ctx.columns[c].offset >= IntBytes
           /\ ctx.columns[1].type = "INT" /\ ctx.columns[1].offset = 0
           /\ ctx.columns[1].name = "id" /\ ctx.columns[1].size = IntBytes
           /\ ctx.count \in Nat
<1>0. IntBytes \in Nat /\ MaxRowSize \in Nat /\ MaxColumns \in Nat
  BY MachineAssumption, SchemaAssumption
<1>1. /\ Tiles(ctx.columns, ctx.rowSize) /\ Len(ctx.columns) \in 1 .. MaxColumns
      /\ ctx.rowSize \in 1 .. MaxRowSize /\ IdColumn(ctx.columns[1]) /\ ctx.count \in Nat
  BY DEF TableInv
<1>2. PICK cols : cols = ctx.columns
  OBVIOUS
<1>3. PICK end : end = ctx.rowSize
  OBVIOUS
<1>4. /\ cols \in Seq(ColumnSet)
      /\ \A i \in DOMAIN cols : cols[i].offset + cols[i].size <= end
      /\ \A i, j \in DOMAIN cols : i < j => cols[i].offset + cols[i].size <= cols[j].offset
      /\ cols # << >> => cols[1].offset = 0
  BY <1>1, <1>2, <1>3 DEF Tiles
<1>5. /\ Len(cols) \in Nat /\ Len(cols) >= 1 /\ Len(cols) \in 1 .. MaxColumns /\ end \in Nat /\ end <= MaxRowSize
      /\ cols[1].type = "INT" /\ cols[1].size = IntBytes /\ cols[1].name = "id"
  BY <1>0, <1>1, <1>2, <1>3 DEF IdColumn
<1>6. cols # << >>
  BY <1>4, <1>5
<1>7. cols[1].offset = 0
  BY <1>4, <1>6
<1>8. \A c \in 1 .. Len(cols) :
        /\ cols[c] \in ColumnSet /\ cols[c].offset \in Nat /\ cols[c].size \in Nat \ {0}
        /\ cols[c].type \in {"INT", "CHAR"} /\ cols[c].offset + cols[c].size <= end
  <2> SUFFICES ASSUME NEW c \in 1 .. Len(cols)
               PROVE  /\ cols[c] \in ColumnSet /\ cols[c].offset \in Nat /\ cols[c].size \in Nat \ {0}
                      /\ cols[c].type \in {"INT", "CHAR"} /\ cols[c].offset + cols[c].size <= end
    OBVIOUS
  <2>1. c \in DOMAIN cols
    BY <1>4
  <2>2. cols[c] \in ColumnSet /\ cols[c].offset + cols[c].size <= end
    BY <1>4, <2>1
  <2> QED
    BY <2>2 DEF ColumnSet
<1>9. IntBytes <= end
  <2>1. 1 \in 1 .. Len(cols)
    BY <1>5
  <2> QED
    BY <1>5, <1>7, <1>8, <2>1
<1>10. \A c \in 2 .. Len(cols) : cols[c].offset >= IntBytes
  <2> SUFFICES ASSUME NEW c \in 2 .. Len(cols) PROVE cols[c].offset >= IntBytes
    OBVIOUS
  <2>1. 1 \in DOMAIN cols /\ c \in DOMAIN cols /\ 1 < c
    BY <1>4, <1>5
  <2>2. cols[1].offset + cols[1].size <= cols[c].offset
    BY <1>4, <2>1
  <2> QED
    BY <1>0, <1>5, <1>7, <2>2
<1> QED
  BY ONLY <1>1, <1>2, <1>3, <1>4, <1>5, <1>7, <1>8, <1>9, <1>10, Zenon

LEMMA LaterColumns ==
    ASSUME TableInv, ctx.loaded, NEW c \in 1 .. Len(ctx.columns), NEW d \in 1 .. Len(ctx.columns),
           c < d
    PROVE  ctx.columns[c].offset + ctx.columns[c].size <= ctx.columns[d].offset
<1>1. Tiles(ctx.columns, ctx.rowSize)
  BY DEF TableInv
<1>2. PICK cols : cols = ctx.columns
  OBVIOUS
<1>3. \A i, j \in DOMAIN cols : i < j => cols[i].offset + cols[i].size <= cols[j].offset
  BY <1>1, <1>2 DEF Tiles
<1>4. cols \in Seq(ColumnSet)
  BY <1>1, <1>2 DEF Tiles
<1> QED
  BY <1>2, <1>3, <1>4

(* The bytes of the i-th value.                                            *)
Written(lits, i) == ValueBytes(ctx.columns[i + 1], lits[i])

LEMMA WrittenFacts ==
    ASSUME TableInv, ctx.loaded, NEW lits \in Seq(Literal), AllAccepted(lits)
    PROVE  /\ Len(lits) \in Nat /\ Len(ctx.columns) = Len(lits) + 1
           /\ \A i \in 1 .. Len(lits) :
                /\ Written(lits, i) \in Seq(Bytes)
                /\ ProperInts => Len(Written(lits, i)) <= ctx.columns[i + 1].size
<1>1. Len(lits) \in Nat /\ Len(ctx.columns) = Len(lits) + 1
  <2>1. Len(ctx.columns) \in Nat /\ Len(lits) = Len(ctx.columns) - 1
    BY ColumnFacts DEF AllAccepted
  <2> QED
    BY <2>1
<1>2. ASSUME NEW i \in 1 .. Len(lits)
      PROVE  /\ Written(lits, i) \in Seq(Bytes)
             /\ ProperInts => Len(Written(lits, i)) <= ctx.columns[i + 1].size
  <2>1. i + 1 \in 1 .. Len(ctx.columns) /\ i \in DOMAIN lits
    BY <1>1
  <2>2. PICK col \in ColumnSet : col = ctx.columns[i + 1]
    BY <2>1, ColumnFacts
  <2>3. PICK lit \in Literal : lit = lits[i]
    BY <2>1
  <2>4. Accepts(col, lit)
    BY <2>1, <2>2, <2>3 DEF AllAccepted, Accepted
  <2>5. /\ ValueBytes(col, lit) \in Seq(Bytes)
        /\ col.type = "INT" => Len(ValueBytes(col, lit)) = IntBytes
        /\ col.type # "INT" => Len(ValueBytes(col, lit)) = col.size
    BY <2>4, ValueBytesFacts
  <2>6. Written(lits, i) = ValueBytes(col, lit)
    BY <2>2, <2>3 DEF Written
  <2>7. col.size \in Nat /\ IntBytes \in Nat
    BY MachineAssumption DEF ColumnSet
  <2>8. ASSUME ProperInts, col.type = "INT" PROVE IntBytes <= col.size
    <3>1. i + 1 \in DOMAIN ctx.columns
      BY <2>1, ColumnFacts
    <3>2. ctx.columns[i + 1].type = "INT" => ctx.columns[i + 1].size >= IntBytes
      BY <2>8, <3>1 DEF ProperInts
    <3> QED
      BY <2>2, <2>7, <2>8, <3>2
  <2>9. ProperInts => Len(ValueBytes(col, lit)) <= col.size
    BY <2>5, <2>7, <2>8
  <2> QED
    BY <2>2, <2>5, <2>6, <2>9
<1> QED
  BY <1>1, <1>2

(* The row buffer as it fills.                                             *)
FirstBytes == Overwrite(Zeros(MaxRowSize), 0, EncodeInt(ctx.count + 1))

RowSteps(lits) ==
    {f \in [0 .. Len(lits) -> Seq(Bytes)] :
        /\ f[0] = FirstBytes
        /\ \A i \in 1 .. Len(lits) :
             f[i] = Overwrite(f[i - 1], ctx.columns[i + 1].offset, Written(lits, i))}

LEMMA FirstBytesFacts ==
    ASSUME TableInv, ctx.loaded
    PROVE  /\ FirstBytes \in Seq(Bytes) /\ Len(FirstBytes) = MaxRowSize
           /\ \A k \in 1 .. IntBytes : FirstBytes[k] = EncodeInt(ctx.count + 1)[k]
<1>1. MaxRowSize \in Nat /\ IntBytes \in Nat /\ IntBytes <= MaxRowSize
  BY MachineAssumption
<1>2. ctx.count + 1 \in Int
  BY ColumnFacts
<1>3. PICK z : z = Zeros(MaxRowSize)
  OBVIOUS
<1>4. z \in Seq(Bytes) /\ Len(z) = MaxRowSize
  BY <1>1, <1>3, ZerosFacts
<1>5. PICK e : e = EncodeInt(ctx.count + 1)
  OBVIOUS
<1>6. e \in Seq(Bytes) /\ Len(e) = IntBytes
  BY <1>2, <1>5, EncodeFacts
<1>7. 0 \in Nat
  OBVIOUS
<1>8. /\ Overwrite(z, 0, e) \in Seq(Bytes) /\ Len(Overwrite(z, 0, e)) = Len(z)
      /\ \A k \in 1 .. Len(e) : 0 + k <= Len(z) => Overwrite(z, 0, e)[0 + k] = e[k]
  BY <1>4, <1>6, <1>7, OverwriteFacts
<1>9. FirstBytes = Overwrite(z, 0, e)
  BY <1>3, <1>5 DEF FirstBytes
<1> HIDE DEF FirstBytes
<1>10. \A k \in 1 .. IntBytes : Overwrite(z, 0, e)[k] = e[k]
  BY <1>1, <1>4, <1>6, <1>8
<1> QED
  BY <1>4, <1>5, <1>8, <1>9, <1>10

LEMMA RowRuns ==
    ASSUME TableInv, ctx.loaded, NEW lits \in Seq(Literal), AllAccepted(lits)
    PROVE  \E f \in RowSteps(lits) : NewRow(lits) = SubSeq(f[Len(lits)], 1, ctx.rowSize)
<1> DEFINE n == Len(lits)
           V == Seq(Bytes)
           h == [i \in 1 .. n |-> [r \in V |->
                    Overwrite(r, ctx.columns[i + 1].offset, Written(lits, i))]]
           G(f) == [i \in 0 .. n |->
                     IF i = 0 THEN FirstBytes
                     ELSE Overwrite(f[i - 1], ctx.columns[i + 1].offset, Written(lits, i))]
<1>1. n \in Nat /\ Len(ctx.columns) = n + 1
  BY WrittenFacts
<1>2. \A i \in 1 .. n : Written(lits, i) \in V /\ ctx.columns[i + 1].offset \in Nat
  <2> SUFFICES ASSUME NEW i \in 1 .. n
               PROVE  Written(lits, i) \in V /\ ctx.columns[i + 1].offset \in Nat
    OBVIOUS
  <2>1. i + 1 \in 1 .. Len(ctx.columns)
    BY <1>1
  <2>2. ctx.columns[i + 1].offset \in Nat
    BY <2>1, ColumnFacts
  <2> QED
    BY <2>2, WrittenFacts
<1>3. h \in [1 .. n -> [V -> V]]
  <2> SUFFICES ASSUME NEW i \in 1 .. n, NEW r \in V
               PROVE  Overwrite(r, ctx.columns[i + 1].offset, Written(lits, i)) \in V
    OBVIOUS
  <2> QED
    BY <1>2, OverwriteFacts
<1>4. FirstBytes \in V
  BY FirstBytesFacts
<1>5. Recursive(n, V, FirstBytes, h) # {}
  <2> HIDE DEF n, V, h
  <2> QED
    BY <1>1, <1>3, <1>4, Recursion
<1>6. PICK f \in [0 .. n -> V] : f[0] = FirstBytes /\ \A i \in 1 .. n : f[i] = h[i][f[i - 1]]
  <2> HIDE DEF n, V, h
  <2> QED
    BY <1>5 DEF Recursive
<1>7. \A i \in 1 .. n : f[i] = Overwrite(f[i - 1], ctx.columns[i + 1].offset, Written(lits, i))
  <2> SUFFICES ASSUME NEW i \in 1 .. n
               PROVE  f[i] = Overwrite(f[i - 1], ctx.columns[i + 1].offset, Written(lits, i))
    OBVIOUS
  <2>1. f[i - 1] \in V
    <3>1. i - 1 \in 0 .. n
      BY <1>1
    <3> QED
      BY <3>1
  <2> QED
    BY <2>1, <1>6
<1>8. f = G(f)
  <2>1. \A i \in 0 .. n : f[i] = G(f)[i]
    BY <1>1, <1>6, <1>7
  <2>2. DOMAIN f = 0 .. n
    OBVIOUS
  <2> QED
    BY <2>1, <2>2
<1> DEFINE k == CHOOSE g : g = G(g)
<1>9. k = G(k)
  BY <1>8
<1>10. NewRow(lits) = SubSeq(k[n], 1, ctx.rowSize)
  BY DEF NewRow, FirstBytes, Written
<1> HIDE DEF k
<1>11. /\ k[0] = FirstBytes
       /\ \A i \in 1 .. n : k[i] = Overwrite(k[i - 1], ctx.columns[i + 1].offset, Written(lits, i))
  <2>1. \A i \in 0 .. n : k[i] = G(k)[i]
    BY ONLY <1>9, Zenon
  <2>2. 0 \in 0 .. n /\ \A i \in 1 .. n : i \in 0 .. n /\ i # 0
    BY <1>1
  <2>3. k[0] = FirstBytes
    BY ONLY <2>1, <2>2, Zenon
  <2>4. ASSUME NEW i \in 1 .. n
        PROVE  k[i] = Overwrite(k[i - 1], ctx.columns[i + 1].offset, Written(lits, i))
    BY ONLY <2>1, <2>2, Zenon
  <2> QED
    BY ONLY <2>3, <2>4, Zenon
<1>12. \A i \in 0 .. n : i \in {j \in 0 .. n : k[j] \in V}
  <2> DEFINE T == {j \in 0 .. n : k[j] \in V}
  <2>1. 0 \in T
    BY <1>1, <1>4, <1>11
  <2>2. ASSUME NEW i \in 0 .. n - 1, i \in T PROVE i + 1 \in T
    <3>1. i + 1 \in 1 .. n /\ (i + 1) - 1 = i /\ i + 1 \in 0 .. n
      BY <1>1
    <3>2. PICK r \in V : r = k[i]
      BY <2>2
    <3>3. PICK o \in Nat : o = ctx.columns[(i + 1) + 1].offset
      BY <1>2, <3>1
    <3>4. PICK w \in V : w = Written(lits, i + 1)
      BY <1>2, <3>1
    <3>5. k[i + 1] = Overwrite(r, o, w)
      BY <1>11, <3>1, <3>2, <3>3, <3>4
    <3>6. Overwrite(r, o, w) \in V
      BY OverwriteFacts
    <3> QED
      BY <3>1, <3>5, <3>6
  <2> HIDE DEF T, n
  <2>3. \A i \in 0 .. n : i \in T
    BY <1>1, <2>1, <2>2, Induction
  <2> QED
    BY <2>3 DEF T
<1>13. k \in [0 .. n -> V]
  BY <1>9, <1>12
<1>14. k \in RowSteps(lits)
  BY <1>11, <1>13 DEF RowSteps
<1> QED
  BY <1>10, <1>14

(* After i values the id is there, and so is each of them, if no int is    *)
(* written over the column behind its own.                                 *)
LEMMA RowBytes ==
    ASSUME TableInv, ctx.loaded, NEW lits \in Seq(Literal), AllAccepted(lits),
           NEW f \in RowSteps(lits), NEW i \in 0 .. Len(lits)
    PROVE  /\ f[i] \in Seq(Bytes) /\ Len(f[i]) = MaxRowSize
           /\ \A k \in 1 .. IntBytes : f[i][k] = EncodeInt(ctx.count + 1)[k]
           /\ ProperInts => \A v \in 1 .. i : \A k \in 1 .. Len(Written(lits, v)) :
                f[i][ctx.columns[v + 1].offset + k] = Written(lits, v)[k]
<1> DEFINE Done(j) ==
              /\ f[j] \in Seq(Bytes) /\ Len(f[j]) = MaxRowSize
              /\ \A k \in 1 .. IntBytes : f[j][k] = EncodeInt(ctx.count + 1)[k]
              /\ ProperInts => \A v \in 1 .. j : \A k \in 1 .. Len(Written(lits, v)) :
                   f[j][ctx.columns[v + 1].offset + k] = Written(lits, v)[k]
           T == {j \in 0 .. Len(lits) : Done(j)}
<1>0. /\ MaxRowSize \in Nat /\ IntBytes \in Nat /\ IntBytes <= MaxRowSize
      /\ Len(lits) \in Nat /\ Len(ctx.columns) = Len(lits) + 1
  BY MachineAssumption, WrittenFacts
<1>1. 0 \in T
  <2>1. f[0] = FirstBytes
    BY DEF RowSteps
  <2>2. Done(0)
    BY <2>1, FirstBytesFacts
  <2> QED
    BY <1>0, <2>2
<1>2. ASSUME NEW j \in 0 .. Len(lits) - 1, j \in T PROVE j + 1 \in T
  <2>1. /\ j + 1 \in 1 .. Len(lits) /\ (j + 1) - 1 = j /\ j + 1 \in 0 .. Len(lits)
        /\ (j + 1) + 1 \in 2 .. Len(ctx.columns) /\ (j + 1) + 1 \in 1 .. Len(ctx.columns)
    BY <1>0
  <2>2. Done(j)
    BY <1>2
  <2>3. PICK r \in Seq(Bytes) : r = f[j] /\ Len(r) = MaxRowSize
    BY <2>2
  <2>4. PICK o \in Nat : o = ctx.columns[(j + 1) + 1].offset /\ o >= IntBytes
    BY <2>1, ColumnFacts
  <2>5. PICK w \in Seq(Bytes) : w = Written(lits, j + 1)
    BY <2>1, WrittenFacts
  <2>6. f[j + 1] = Overwrite(r, o, w)
    BY <2>1, <2>3, <2>4, <2>5 DEF RowSteps
  <2>7. /\ Overwrite(r, o, w) \in Seq(Bytes)
        /\ Len(Overwrite(r, o, w)) = Len(r)
        /\ \A m \in 1 .. Len(r) : m \notin o + 1 .. o + Len(w) => Overwrite(r, o, w)[m] = r[m]
        /\ \A k \in 1 .. Len(w) : o + k <= Len(r) => Overwrite(r, o, w)[o + k] = w[k]
    BY OverwriteFacts
  <2>8. PICK s \in Seq(Bytes) :
            /\ s = f[j + 1] /\ Len(s) = MaxRowSize
            /\ \A m \in 1 .. MaxRowSize : m \notin o + 1 .. o + Len(w) => s[m] = r[m]
            /\ \A k \in 1 .. Len(w) : o + k <= MaxRowSize => s[o + k] = w[k]
    BY <2>3, <2>6, <2>7
  <2>9. \A k \in 1 .. IntBytes : s[k] = EncodeInt(ctx.count + 1)[k]
    <3> SUFFICES ASSUME NEW k \in 1 .. IntBytes PROVE s[k] = EncodeInt(ctx.count + 1)[k]
      OBVIOUS
    <3>1. k <= IntBytes /\ k \in Nat /\ k <= o /\ k >= 1
      <4>1. PICK q \in Nat : q = IntBytes /\ q <= o
        BY <1>0, <2>4
      <4>2. k \in 1 .. q
        BY ONLY <4>1, k \in 1 .. IntBytes, Zenon
      <4> QED
        BY ONLY <4>1, <4>2
    <3>2. k \in 1 .. MaxRowSize /\ k \notin o + 1 .. o + Len(w)
      BY <1>0, <3>1
    <3>3. s[k] = r[k]
      BY <2>8, <3>2
    <3> QED
      BY <2>2, <2>3, <3>3
  <2>10. ASSUME ProperInts, NEW v \in 1 .. j + 1, NEW k \in 1 .. Len(Written(lits, v))
         PROVE  s[ctx.columns[v + 1].offset + k] = Written(lits, v)[k]
    <3>1. v \in 1 .. Len(lits) /\ v + 1 \in 1 .. Len(ctx.columns)
      BY <1>0
    <3>2. PICK x \in Seq(Bytes) : x = Written(lits, v)
      BY <3>1, WrittenFacts
    <3>3. Len(x) \in Nat /\ Len(x) <= ctx.columns[v + 1].size
      <4>1. Len(Written(lits, v)) <= ctx.columns[v + 1].size
        BY <2>10, <3>1, WrittenFacts
      <4>2. Len(x) \in Nat
        OBVIOUS
      <4> QED
        BY ONLY <3>2, <4>1, <4>2, Zenon
    <3>4. PICK p \in Nat : p = ctx.columns[v + 1].offset
      BY <3>1, ColumnFacts
    <3>0. PICK z \in Nat : z = ctx.columns[v + 1].size
      BY <3>1, ColumnFacts
    <3>5. p + z <= MaxRowSize
      <4>1. PICK e \in Nat : e = ctx.rowSize /\ e <= MaxRowSize
        BY ColumnFacts
      <4>2. p + z <= e
        BY <3>0, <3>1, <3>4, <4>1, ColumnFacts
      <4> QED
        BY <1>0, <4>1, <4>2
    <3>6. k \in 1 .. Len(x)
      BY <3>2
    <3>7. p + k <= MaxRowSize /\ p + k \in 1 .. MaxRowSize /\ p + k <= p + z
      <4>1. k \in Nat /\ k >= 1 /\ k <= z
        <5>1. PICK m \in Nat : m = Len(x)
          BY <3>3
        <5>2. m <= z
          BY ONLY <3>0, <3>3, <5>1, Zenon
        <5>3. k \in 1 .. m
          BY ONLY <3>6, <5>1, Zenon
        <5> QED
          BY ONLY <5>2, <5>3
      <4> QED
        BY <1>0, <3>5, <4>1
    <3>8. CASE v = j + 1
      <4>1. x = w /\ p = o
        BY <3>8, <3>2, <3>4, <2>4, <2>5
      <4>2. s[o + k] = w[k]
        BY <2>8, <3>6, <3>7, <4>1
      <4> QED
        BY <3>2, <3>4, <4>1, <4>2
    <3>9. CASE v # j + 1
      <4>1. v \in 1 .. j /\ v + 1 < (j + 1) + 1
        BY <3>9
      <4>2. p + z <= o
        BY <3>0, <2>1, <2>4, <3>1, <3>4, <4>1, LaterColumns
      <4>3. p + k \in Nat /\ p + k <= o
        BY <3>7, <4>2
      <4>4. p + k \notin o + 1 .. o + Len(w)
        BY <4>3
      <4>5. s[p + k] = r[p + k]
        BY <2>8, <3>7, <4>4
      <4>6. r[p + k] = x[k]
        BY <2>2, <2>3, <2>10, <3>2, <3>4, <3>6, <4>1
      <4> QED
        BY <3>2, <3>4, <4>5, <4>6
    <3> QED
      BY <3>8, <3>9
  <2>11. Done(j + 1)
    BY <2>8, <2>9, <2>10
  <2> HIDE DEF Done
  <2> QED
    BY <2>1, <2>11
<1>3. \A j \in 0 .. Len(lits) : j \in T
  <2>1. PICK n \in Nat : n = Len(lits)
    BY <1>0
  <2>2. \A j \in 0 .. n - 1 : j \in T => j + 1 \in T
    BY <1>2, <2>1
  <2> HIDE DEF T
  <2>3. \A j \in 0 .. n : j \in T
    BY <1>1, <2>2, Induction
  <2> QED
    BY <2>1, <2>3
<1>4. Done(i)
  BY <1>3
<1> QED
  BY <1>4

LEMMA NewRowFacts ==
    ASSUME TableInv, ctx.loaded, NEW lits \in Seq(Literal), AllAccepted(lits)
    PROVE  /\ NewRow(lits) \in Seq(Bytes) /\ Len(NewRow(lits)) = ctx.rowSize
           /\ ctx.count + 1 <= IntMax => RowId(NewRow(lits)) = ctx.count + 1
           /\ RowHas(NewRow(lits), lits)
<1>0. /\ MaxRowSize \in Nat /\ IntBytes \in Nat
      /\ Len(lits) \in Nat /\ Len(ctx.columns) = Len(lits) + 1
      /\ ctx.rowSize \in Nat /\ IntBytes <= ctx.rowSize /\ ctx.rowSize <= MaxRowSize
      /\ ctx.count \in Nat /\ IntMax \in Nat
  BY MachineAssumption, WrittenFacts, ColumnFacts, IntMaxFacts
<1>1. PICK f \in RowSteps(lits) : NewRow(lits) = SubSeq(f[Len(lits)], 1, ctx.rowSize)
  BY RowRuns
<1>2. Len(lits) \in 0 .. Len(lits)
  BY <1>0
<1>3. /\ f[Len(lits)] \in Seq(Bytes) /\ Len(f[Len(lits)]) = MaxRowSize
      /\ \A k \in 1 .. IntBytes : f[Len(lits)][k] = EncodeInt(ctx.count + 1)[k]
      /\ ProperInts => \A v \in 1 .. Len(lits) : \A k \in 1 .. Len(Written(lits, v)) :
           f[Len(lits)][ctx.columns[v + 1].offset + k] = Written(lits, v)[k]
  BY <1>2, RowBytes
<1>4. PICK s \in Seq(Bytes) : s = f[Len(lits)] /\ Len(s) = MaxRowSize
  BY <1>3
<1>5. PICK e \in Nat : e = ctx.rowSize
  BY <1>0
<1>6. /\ SubSeq(s, 1, e) \in Seq(Bytes) /\ Len(SubSeq(s, 1, e)) = e
      /\ \A i \in 1 .. e : SubSeq(s, 1, e)[i] = s[i]
  BY <1>0, <1>4, <1>5
<1>7. PICK r \in Seq(Bytes) : r = NewRow(lits) /\ Len(r) = e /\ \A i \in 1 .. e : r[i] = s[i]
  BY <1>1, <1>4, <1>5, <1>6
<1>8. ASSUME ctx.count + 1 <= IntMax PROVE RowId(r) = ctx.count + 1
  <2>1. PICK b : b = EncodeInt(ctx.count + 1)
    OBVIOUS
  <2>2. ctx.count + 1 \in -IntMax - 1 .. IntMax /\ ctx.count + 1 \in Int
    BY <1>0, <1>8
  <2>3. b \in Seq(Bytes) /\ Len(b) = IntBytes
    BY <2>1, <2>2, EncodeFacts
  <2>4. /\ SubSeq(r, 1, IntBytes) \in Seq(Bytes) /\ Len(SubSeq(r, 1, IntBytes)) = IntBytes
        /\ \A i \in 1 .. IntBytes : SubSeq(r, 1, IntBytes)[i] = r[i]
    BY <1>0, <1>5, <1>7
  <2>5. \A i \in 1 .. IntBytes : SubSeq(r, 1, IntBytes)[i] = b[i]
    <3> SUFFICES ASSUME NEW i \in 1 .. IntBytes PROVE SubSeq(r, 1, IntBytes)[i] = b[i]
      OBVIOUS
    <3>1. i \in 1 .. e
      BY <1>0, <1>5
    <3>2. r[i] = s[i]
      BY <1>7, <3>1
    <3>3. s[i] = b[i]
      BY <1>3, <1>4, <2>1
    <3> QED
      BY ONLY <2>4, <3>2, <3>3, Zenon
  <2>6. SubSeq(r, 1, IntBytes) = b
    BY <2>3, <2>4, <2>5, SameSequence
  <2>7. DecodeInt(b) = ctx.count + 1
    BY <2>1, <2>2, RoundTrip
  <2> QED
    BY <2>6, <2>7 DEF RowId
<1>9. RowHas(r, lits)
  <2> SUFFICES ASSUME ProperInts, NEW c \in 2 .. Len(ctx.columns),
                      NEW k \in 1 .. Len(ValueBytes(ctx.columns[c], lits[c - 1]))
               PROVE  r[ctx.columns[c].offset + k] = ValueBytes(ctx.columns[c], lits[c - 1])[k]
    BY DEF RowHas
  <2>1. c - 1 \in 1 .. Len(lits) /\ (c - 1) + 1 = c /\ c \in 1 .. Len(ctx.columns)
    BY <1>0
  <2>2. PICK v \in 1 .. Len(lits) : v = c - 1 /\ v + 1 = c
    BY <2>1
  <2>3. Written(lits, v) = ValueBytes(ctx.columns[c], lits[c - 1])
    BY <2>2 DEF Written
  <2>4. s[ctx.columns[c].offset + k] = Written(lits, v)[k]
    BY <1>3, <1>4, <2>2, <2>3
  <2>5. PICK p \in Nat : p = ctx.columns[c].offset /\ p + ctx.columns[c].size <= e
    BY <2>1, <1>5, ColumnFacts
  <2>6. Len(Written(lits, v)) \in Nat /\ Len(Written(lits, v)) <= ctx.columns[c].size
        /\ ctx.columns[c].size \in Nat
    <3>1. Written(lits, v) \in Seq(Bytes) /\ Len(Written(lits, v)) <= ctx.columns[v + 1].size
      BY WrittenFacts
    <3>2. ctx.columns[c].size \in Nat
      BY <2>1, ColumnFacts
    <3>3. Len(Written(lits, v)) \in Nat
      BY <3>1
    <3> QED
      BY ONLY <2>2, <3>1, <3>2, <3>3, Zenon
  <2>7. k \in 1 .. Len(Written(lits, v))
    BY <2>3
  <2>8. p + k \in 1 .. e
    <3>1. PICK z \in Nat : z = ctx.columns[c].size
      BY <2>6
    <3>2. k \in Nat /\ k >= 1 /\ k <= z
      BY <2>6, <2>7, <3>1
    <3>3. p + z <= e
      BY <2>5, <3>1
    <3> QED
      BY <3>2, <3>3
  <2>9. r[p + k] = s[p + k]
    BY <1>7, <2>8
  <2> QED
    BY <2>3, <2>4, <2>5, <2>9
<1> QED
  BY <1>5, <1>7, <1>8, <1>9

-----------------------------------------------------------------------------
(* The rows of the data file.                                              *)

Chop(content, size) ==
    [i \in 1 .. Len(content) \div size |-> SubSeq(content, (i - 1) * size + 1, i * size)]

LEMMA ChopIsRows == \A size : RowsOf(size) = Chop(Content, size)
BY DEF RowsOf, Chop

LEMMA Quotient ==
    ASSUME NEW n \in Nat, NEW z \in Nat \ {0}
    PROVE  /\ n \div z \in Nat /\ (n \div z) * z <= n /\ n \div z <= n
           /\ \A i \in 1 .. n \div z : (i - 1) * z \in Nat /\ (i - 1) * z + z = i * z /\ i * z <= n
           /\ n % z = 0 => /\ (n \div z) * z = n /\ (n + z) \div z = n \div z + 1
                           /\ (n + z) % z = 0
<1>1. PICK q \in Nat : q = n \div z
  OBVIOUS
<1>2. PICK r \in 0 .. z - 1 : r = n % z
  OBVIOUS
<1>3. n = q * z + r
  BY <1>1, <1>2
<1>4. q * z \in Nat /\ q <= q * z
  <2>1. q * z = q * (z - 1) + q /\ q * (z - 1) >= 0
    OBVIOUS
  <2> QED
    BY <2>1
<1>5. ASSUME NEW i \in 1 .. q PROVE (i - 1) * z \in Nat /\ (i - 1) * z + z = i * z /\ i * z <= n
  <2>1. (q - i) * z >= 0 /\ (q - i) * z = q * z - i * z /\ i * z \in Nat
    OBVIOUS
  <2>2. (i - 1) * z \in Nat /\ (i - 1) * z + z = i * z
    OBVIOUS
  <2> QED
    BY <1>3, <1>4, <2>1, <2>2
<1>6. ASSUME n % z = 0
      PROVE  q * z = n /\ (n + z) \div z = q + 1 /\ (n + z) % z = 0
  <2>1. q * z = n
    BY <1>2, <1>3, <1>4, <1>6
  <2>2. n + z = (q + 1) * z
    BY <2>1
  <2>3. ((q + 1) * z) \div z = q + 1 /\ ((q + 1) * z) % z = 0
    OBVIOUS
  <2> QED
    BY <2>1, <2>2, <2>3
<1>7. q * z <= n /\ q <= n
  BY <1>3, <1>4
<1> QED
  BY ONLY <1>1, <1>5, <1>6, <1>7, Zenon

LEMMA ChopFacts ==
    ASSUME NEW content \in Seq(Bytes), NEW size \in Nat \ {0}
    PROVE  /\ Chop(content, size) \in Seq(Seq(Bytes))
           /\ Len(Chop(content, size)) = Len(content) \div size
           /\ Len(content) \div size \in Nat
           /\ DOMAIN Chop(content, size) = 1 .. Len(content) \div size
           /\ \A i \in 1 .. Len(content) \div size :
                /\ Chop(content, size)[i] = SubSeq(content, (i - 1) * size + 1, i * size)
                /\ Chop(content, size)[i] \in Seq(Bytes)
                /\ Len(Chop(content, size)[i]) = size
                /\ \A k \in 1 .. size : Chop(content, size)[i][k] = content[(i - 1) * size + k]
<1>1. PICK n \in Nat : n = Len(content)
  OBVIOUS
<1>2. PICK q \in Nat : q = n \div size
  BY Quotient
<1>3. ASSUME NEW i \in 1 .. q
      PROVE  LET s == SubSeq(content, (i - 1) * size + 1, i * size)
             IN  /\ s \in Seq(Bytes) /\ Len(s) = size
                 /\ \A k \in 1 .. size : s[k] = content[(i - 1) * size + k]
  <2>1. PICK a \in Nat : a = (i - 1) * size /\ a + size = i * size /\ i * size <= n
    BY <1>2, Quotient
  <2>2. a + 1 \in Int /\ a + size \in Int /\ a + 1 >= 1 /\ a + size <= Len(content)
    BY <1>1, <2>1
  <2>3. PICK s : s = SubSeq(content, a + 1, a + size)
    OBVIOUS
  <2>4. /\ s \in Seq(Bytes)
        /\ Len(s) = IF a + 1 <= a + size THEN (a + size) - (a + 1) + 1 ELSE 0
        /\ \A k \in 1 .. Len(s) : s[k] = content[(a + 1) + k - 1]
    BY <2>2, <2>3, Slice
  <2>5. Len(s) = size
    BY <2>4
  <2>6. \A k \in 1 .. size : s[k] = content[a + k]
    <3> SUFFICES ASSUME NEW k \in 1 .. size PROVE s[k] = content[a + k]
      OBVIOUS
    <3>1. (a + 1) + k - 1 = a + k
      OBVIOUS
    <3> QED
      BY <2>4, <2>5, <3>1
  <2> QED
    BY <2>1, <2>3, <2>4, <2>5, <2>6
<1>4. Chop(content, size) = [i \in 1 .. q |-> SubSeq(content, (i - 1) * size + 1, i * size)]
  BY <1>1, <1>2 DEF Chop
<1>5. \A i \in 1 .. q : Chop(content, size)[i] = SubSeq(content, (i - 1) * size + 1, i * size)
  BY <1>4
<1>6. Chop(content, size) \in Seq(Seq(Bytes)) /\ Len(Chop(content, size)) = q
      /\ DOMAIN Chop(content, size) = 1 .. q
  <2> DEFINE E(i) == SubSeq(content, (i - 1) * size + 1, i * size)
  <2>1. \A i \in 1 .. q : E(i) \in Seq(Bytes)
    BY <1>3
  <2>2. Chop(content, size) = [i \in 1 .. q |-> E(i)]
    BY <1>4
  <2> HIDE DEF E
  <2>3. PICK V : V = Seq(Bytes)
    OBVIOUS
  <2>4. [i \in 1 .. q |-> E(i)] \in Seq(V) /\ Len([i \in 1 .. q |-> E(i)]) = q
        /\ DOMAIN [i \in 1 .. q |-> E(i)] = 1 .. q
    BY <2>1, <2>3
  <2> QED
    BY <2>2, <2>3, <2>4
<1>7. ASSUME NEW i \in 1 .. q
      PROVE  /\ Chop(content, size)[i] \in Seq(Bytes) /\ Len(Chop(content, size)[i]) = size
             /\ \A k \in 1 .. size : Chop(content, size)[i][k] = content[(i - 1) * size + k]
  BY <1>3, <1>5
<1> QED
  BY ONLY <1>1, <1>2, <1>5, <1>6, <1>7, Zenon

LEMMA ChopMore ==
    ASSUME NEW content \in Seq(Bytes), NEW size \in Nat \ {0}, Len(content) % size = 0,
           NEW row \in Seq(Bytes), Len(row) = size
    PROVE  /\ Chop(content \o row, size) = Append(Chop(content, size), row)
           /\ Len(content \o row) % size = 0
<1>1. PICK n \in Nat : n = Len(content)
  OBVIOUS
<1>2. PICK q \in Nat : q = n \div size /\ q * size = n
  BY <1>1, Quotient
<1>3. PICK more \in Seq(Bytes) :
          /\ more = content \o row /\ Len(more) = n + size
          /\ \A i \in 1 .. n : more[i] = content[i]
          /\ \A i \in n + 1 .. n + size : more[i] = row[i - n]
  <2>1. /\ content \o row \in Seq(Bytes) /\ Len(content \o row) = Len(content) + Len(row)
        /\ \A i \in 1 .. Len(content) : (content \o row)[i] = content[i]
        /\ \A i \in Len(content) + 1 .. Len(content) + Len(row) :
             (content \o row)[i] = row[i - Len(content)]
    BY ONLY content \in Seq(Bytes), row \in Seq(Bytes), Joined
  <2>2. Len(content) = n /\ Len(row) = size
    BY <1>1
  <2>3. /\ content \o row \in Seq(Bytes) /\ Len(content \o row) = n + size
        /\ \A i \in 1 .. n : (content \o row)[i] = content[i]
        /\ \A i \in n + 1 .. n + size : (content \o row)[i] = row[i - n]
    BY ONLY <2>1, <2>2, Zenon
  <2> QED
    BY ONLY <2>3, Zenon
<1>4. (n + size) \div size = q + 1 /\ (n + size) % size = 0
  BY <1>1, <1>2, Quotient
<1>5. PICK old \in Seq(Seq(Bytes)) :
          /\ old = Chop(content, size) /\ Len(old) = q
          /\ \A i \in 1 .. q : /\ old[i] \in Seq(Bytes) /\ Len(old[i]) = size
                               /\ \A k \in 1 .. size : old[i][k] = content[(i - 1) * size + k]
  <2>1. Len(content) \div size = q
    BY <1>1, <1>2
  <2> DEFINE Is(rows, c) ==
               /\ rows \in Seq(Seq(Bytes)) /\ Len(rows) = Len(c) \div size
               /\ \A i \in 1 .. Len(c) \div size :
                    /\ rows[i] \in Seq(Bytes) /\ Len(rows[i]) = size
                    /\ \A k \in 1 .. size : rows[i][k] = c[(i - 1) * size + k]
  <2>3. \A c \in Seq(Bytes) : Is(Chop(c, size), c)
    <3> SUFFICES ASSUME NEW c \in Seq(Bytes) PROVE Is(Chop(c, size), c)
      OBVIOUS
    <3> QED
      BY ONLY c \in Seq(Bytes), size \in Nat \ {0}, ChopFacts, Zenon
  <2>2. Is(Chop(content, size), content)
    <3> HIDE DEF Is
    <3> QED
      BY <2>3
  <2> QED
    BY ONLY <2>1, <2>2, Zenon
<1>6. PICK new \in Seq(Seq(Bytes)) :
          /\ new = Chop(more, size) /\ Len(new) = q + 1
          /\ \A i \in 1 .. q + 1 :
               /\ new[i] \in Seq(Bytes) /\ Len(new[i]) = size
               /\ \A k \in 1 .. size : new[i][k] = more[(i - 1) * size + k]
  <2>1. Len(more) \div size = q + 1
    BY <1>3, <1>4
  <2>2. q + 1 = q + 1
    OBVIOUS
  <2>3. /\ Chop(more, size) \in Seq(Seq(Bytes))
        /\ Len(Chop(more, size)) = Len(more) \div size
        /\ \A i \in 1 .. Len(more) \div size :
             /\ Chop(more, size)[i] \in Seq(Bytes) /\ Len(Chop(more, size)[i]) = size
             /\ \A k \in 1 .. size : Chop(more, size)[i][k] = more[(i - 1) * size + k]
    BY ONLY more \in Seq(Bytes), size \in Nat \ {0}, ChopFacts, Zenon
  <2> QED
    <3>1. /\ Chop(more, size) \in Seq(Seq(Bytes)) /\ Len(Chop(more, size)) = q + 1
          /\ \A i \in 1 .. q + 1 :
               /\ Chop(more, size)[i] \in Seq(Bytes) /\ Len(Chop(more, size)[i]) = size
               /\ \A k \in 1 .. size : Chop(more, size)[i][k] = more[(i - 1) * size + k]
      BY ONLY <2>1, <2>3, Zenon
    <3> QED
      BY ONLY <3>1, Zenon
<1>7. ASSUME NEW i \in 1 .. q PROVE new[i] = old[i]
  <2>1. i \in 1 .. q + 1
    OBVIOUS
  <2>2. PICK a \in Nat : a = (i - 1) * size /\ a + size = i * size /\ i * size <= n
    <3>1. i \in 1 .. n \div size
      BY <1>2
    <3>2. (i - 1) * size \in Nat /\ (i - 1) * size + size = i * size /\ i * size <= n
      BY ONLY <3>1, n \in Nat, size \in Nat \ {0}, Quotient, Zenon
    <3> QED
      BY <3>2
  <2>3. PICK s \in Seq(Bytes) : /\ s = new[i] /\ Len(s) = size
                                /\ \A k \in 1 .. size : s[k] = more[a + k]
    BY <1>6, <2>1, <2>2
  <2>4. PICK t \in Seq(Bytes) : /\ t = old[i] /\ Len(t) = size
                                /\ \A k \in 1 .. size : t[k] = content[a + k]
    BY <1>5, <2>2
  <2>5. \A k \in 1 .. Len(s) : s[k] = t[k]
    <3> SUFFICES ASSUME NEW k \in 1 .. size PROVE s[k] = t[k]
      BY <2>3
    <3>1. a + size <= n
      BY <2>2
    <3>2. a + k \in 1 .. n
      BY <3>1
    <3>3. s[k] = more[a + k] /\ t[k] = content[a + k]
      BY <2>3, <2>4
    <3> QED
      BY <1>3, <3>2, <3>3
  <2>6. Len(s) = Len(t)
    BY <2>3, <2>4
  <2>7. s = t
    BY <2>5, <2>6, SameSequence
  <2> QED
    BY <2>3, <2>4, <2>7
<1>8. new[q + 1] = row
  <2>1. q + 1 \in 1 .. q + 1 /\ ((q + 1) - 1) * size = n
    BY <1>2
  <2>2. PICK s \in Seq(Bytes) : /\ s = new[q + 1] /\ Len(s) = size
                                /\ \A k \in 1 .. size : s[k] = more[n + k]
    <3>1. PICK p \in 1 .. q + 1 : p = q + 1 /\ (p - 1) * size = n
      BY <2>1
    <3>2. /\ new[p] \in Seq(Bytes) /\ Len(new[p]) = size
          /\ \A k \in 1 .. size : new[p][k] = more[(p - 1) * size + k]
      BY <1>6
    <3>3. \A k \in 1 .. size : new[p][k] = more[n + k]
      BY <3>1, <3>2
    <3> QED
      BY <3>1, <3>2, <3>3
  <2>3. \A k \in 1 .. Len(s) : s[k] = row[k]
    <3> SUFFICES ASSUME NEW k \in 1 .. size PROVE s[k] = row[k]
      BY <2>2
    <3>1. n + k \in n + 1 .. n + size /\ (n + k) - n = k
      OBVIOUS
    <3> QED
      BY <1>3, <2>2, <3>1
  <2>4. Len(s) = Len(row)
    BY <2>2
  <2>5. s = row
    BY <2>3, <2>4, SameSequence
  <2> QED
    BY <2>2, <2>5
<1>9. new = Append(old, row)
  <2>1. /\ Append(old, row) \in Seq(Seq(Bytes)) /\ Len(Append(old, row)) = q + 1
        /\ \A i \in 1 .. q : Append(old, row)[i] = old[i]
        /\ Append(old, row)[q + 1] = row
    BY <1>5
  <2>2. \A i \in 1 .. Len(new) : new[i] = Append(old, row)[i]
    <3> SUFFICES ASSUME NEW i \in 1 .. q + 1 PROVE new[i] = Append(old, row)[i]
      BY <1>6
    <3>1. i \in 1 .. q \/ i = q + 1
      OBVIOUS
    <3> QED
      BY <1>7, <1>8, <2>1, <3>1
  <2>3. Len(new) = Len(Append(old, row))
    BY <1>6, <2>1
  <2>4. Append(old, row) \in Seq(Seq(Bytes))
    BY <2>1
  <2> QED
    BY ONLY <2>2, <2>3, <2>4, new \in Seq(Seq(Bytes)), SameSequence
<1> QED
  BY <1>3, <1>4, <1>5, <1>6, <1>9

LEMMA RowIdFacts ==
    ASSUME NEW row \in Seq(Bytes), Len(row) >= IntBytes
    PROVE  RowId(row) \in -IntMax - 1 .. IntMax
<1>1. IntBytes \in Nat
  BY MachineAssumption
<1>2. /\ SubSeq(row, 1, IntBytes) \in Seq(Bytes) /\ Len(SubSeq(row, 1, IntBytes)) = IntBytes
  BY <1>1
<1>3. \A i \in 1 .. IntBytes : SubSeq(row, 1, IntBytes)[i] \in Bytes
  BY <1>1, <1>2
<1> QED
  BY <1>3, DecodeRange DEF RowId

LEMMA ContentFacts ==
    ASSUME data = NoFile \/ data \in Seq(Bytes)
    PROVE  Content \in Seq(Bytes) /\ Len(Content) \in Nat
<1>1. Content \in Seq(Bytes)
  <2>1. CASE data = NoFile
    <3>1. Content = << >>
      BY <2>1 DEF Content
    <3> QED
      BY <3>1, EmptySequence
  <2>2. CASE data # NoFile
    BY <2>2 DEF Content
  <2> QED
    BY <2>1, <2>2
<1> QED
  BY <1>1

(* The rows of a loaded table.                                             *)
LEMMA RowFacts ==
    ASSUME TableInv, StoreInv, ctx.loaded
    PROVE  /\ Rows \in Seq(Seq(Bytes)) /\ Rows = Chop(Content, ctx.rowSize)
           /\ Len(Rows) = Len(Content) \div ctx.rowSize /\ Len(Rows) \in Nat
           /\ DOMAIN Rows = 1 .. Len(Rows)
           /\ \A i \in 1 .. Len(Rows) :
                /\ Rows[i] \in Seq(Bytes) /\ Len(Rows[i]) = ctx.rowSize
                /\ RowId(Rows[i]) \in -IntMax - 1 .. IntMax
<1>1. Content \in Seq(Bytes)
  BY ContentFacts DEF StoreInv
<1>2. PICK z \in Nat \ {0} : z = ctx.rowSize /\ IntBytes <= z
  <2>1. ctx.rowSize \in 1 .. MaxRowSize
    BY DEF TableInv
  <2> QED
    BY <2>1, ColumnFacts
<1>3. Rows = Chop(Content, z)
  BY <1>2, ChopIsRows DEF Rows
<1>4. PICK q \in Nat : q = Len(Content) \div z
  BY <1>1
<1>5. PICK rows \in Seq(Seq(Bytes)) :
        /\ rows = Chop(Content, z) /\ Len(rows) = q /\ DOMAIN rows = 1 .. q
        /\ \A i \in 1 .. q : rows[i] \in Seq(Bytes) /\ Len(rows[i]) = z
  <2>1. PICK content \in Seq(Bytes) : content = Content
    BY <1>1
  <2>2. /\ Chop(content, z) \in Seq(Seq(Bytes))
        /\ Len(Chop(content, z)) = Len(content) \div z
        /\ DOMAIN Chop(content, z) = 1 .. Len(content) \div z
        /\ \A i \in 1 .. Len(content) \div z :
             Chop(content, z)[i] \in Seq(Bytes) /\ Len(Chop(content, z)[i]) = z
    BY ChopFacts
  <2> QED
    BY ONLY <1>4, <2>1, <2>2, Zenon
<1>6. \A i \in 1 .. q : RowId(rows[i]) \in -IntMax - 1 .. IntMax
  BY <1>2, <1>5, RowIdFacts
<1> QED
  BY ONLY <1>2, <1>3, <1>4, <1>5, <1>6, Zenon

-----------------------------------------------------------------------------
(* Every step keeps LoadInv, TableInv and StoreInv.                        *)

SelectStep == \E list \in Lists, where \in Wheres : Select(list, where)
InsertStep == \E lits \in ValueLists : Insert(lits)
InsertFails == \E lits \in ValueLists : InsertUndefined(lits) \/ InsertRefused(lits)

LEMMA Steps ==
    ASSUME Next
    PROVE  \/ LoadSchema \/ Refuse \/ Reuse \/ Rebuild \/ RebuildFails
           \/ InsertFails \/ InsertStep \/ SelectStep \/ Edit \/ Restart
BY DEF Next, SelectStep, InsertStep, InsertFails

LEMMA SelectCases ==
    ASSUME SelectStep
    PROVE  /\ pc = "ready" /\ pc' \in {"idle", "undefined"}
           /\ UNCHANGED <<schema, loading, ctx, data, given, edits>>
<1>1. PICK list \in Lists, where \in Wheres : Select(list, where)
  BY DEF SelectStep
<1>2. CASE SelectUndefined(list, where)
  BY <1>2 DEF SelectUndefined, Undefined
<1>3. CASE SelectFails(list, where)
  BY <1>3 DEF SelectFails, Return
<1>4. CASE SelectById(list, where)
  BY <1>4 DEF SelectById, Return, Selecting
<1>5. CASE SelectScan(list, where)
  BY <1>5 DEF SelectScan, Return, Selecting
<1> QED
  BY <1>1, <1>2, <1>3, <1>4, <1>5 DEF Select

LEMMA InsertFailsCases ==
    ASSUME InsertFails
    PROVE  /\ pc = "ready" /\ pc' \in {"idle", "undefined"}
           /\ UNCHANGED <<schema, loading, ctx, data, given, edits>>
BY DEF InsertFails, InsertUndefined, InsertRefused, Undefined, Return

LEMMA QuietCases ==
    ASSUME Next, ~LoadSchema
    PROVE  /\ pc # "reading" /\ UNCHANGED <<columns, offset, open>>
           /\ pc' \in {"idle", "ready", "undefined"}
           /\ schema' \in {schema} \union Edits
<1>1. CASE Refuse
  BY <1>1 DEF Refuse, Return, loading
<1>2. CASE Reuse
  BY <1>2 DEF Reuse, loading
<1>3. CASE Rebuild
  BY <1>3 DEF Rebuild, loading
<1>4. CASE RebuildFails
  BY <1>4 DEF RebuildFails, Return, loading
<1>5. CASE InsertFails
  BY <1>5, InsertFailsCases DEF loading
<1>6. CASE InsertStep
  BY <1>6 DEF InsertStep, Insert, Return, loading
<1>7. CASE SelectStep
  BY <1>7, SelectCases DEF loading
<1>8. CASE Edit
  BY <1>8 DEF Edit, loading
<1>9. CASE Restart
  BY <1>9 DEF Restart, loading
<1> QED
  BY <1>1, <1>2, <1>3, <1>4, <1>5, <1>6, <1>7, <1>8, <1>9, Steps

LEMMA LoadInvSteps == LoadInv /\ [Next]_vars => LoadInv'
<1> SUFFICES ASSUME LoadInv, [Next]_vars PROVE LoadInv'
  OBVIOUS
<1>1. CASE LoadSchema
  BY <1>1, LoadKeeps DEF LoadSchema
<1>2. CASE Next /\ ~LoadSchema
  <2>1. open' = FALSE
    BY <1>2, QuietCases DEF LoadInv
  <2>2. schema' \in Seq(Lines) \union {NoSchema}
    BY <1>2, QuietCases, RowFormatAssumption DEF LoadInv
  <2> QED
    BY <1>2, <2>1, <2>2, QuietCases, Elsewhere
<1>3. CASE UNCHANGED vars
  <2>1. UNCHANGED <<schema, pc, next, columns, offset, open>>
    BY <1>3 DEF vars, loading
  <2>2. Body' = Body /\ Given' = Given /\ Loadable' = Loadable
    BY <2>1, SameSchema
  <2>3. Filled(ReadSoFar)' = Filled(ReadSoFar)
    BY <2>1, <2>2 DEF ReadSoFar, Filled
  <2>4. Tiles(columns, offset)' /\ (Len(columns) <= MaxColumns)' /\ (offset <= IntMax)'
    BY <2>1 DEF LoadInv, Tiles
  <2>5. (open = (pc = "reading"))'
    BY <2>1 DEF LoadInv
  <2>6. /\ pc \in {"idle", "reading", "refused", "loaded", "ready", "undefined"}
        /\ schema \in Seq(Lines) \union {NoSchema}
    BY DEF LoadInv
  <2>7. pc = "reading" =>
          /\ schema \in Seq(Lines) /\ next \in 2 .. Len(schema) + 1
          /\ Describes(Filled(ReadSoFar))
          /\ Len(columns) = MaxColumns => next > 2 /\ Body[next - 2].parts # 0
    BY DEF LoadInv
  <2>8. /\ pc = "loaded" =>
             /\ Loadable /\ Describes(Given)
             /\ columns # << >> /\ offset <= MaxRowSize
        /\ pc = "refused" => ~Loadable
    BY DEF LoadInv
  <2>9. Describes(Filled(ReadSoFar))' = Describes(Filled(ReadSoFar))
    BY <2>1, <2>3 DEF Describes
  <2>10. Describes(Given)' = Describes(Given)
    BY <2>1, <2>2 DEF Describes
  <2>11. (pc = "reading" =>
          /\ schema \in Seq(Lines) /\ next \in 2 .. Len(schema) + 1
          /\ Describes(Filled(ReadSoFar))
          /\ Len(columns) = MaxColumns => next > 2 /\ Body[next - 2].parts # 0)'
    BY <2>1, <2>2, <2>7, <2>9
  <2>12. (/\ pc = "loaded" =>
             /\ Loadable /\ Describes(Given)
             /\ columns # << >> /\ offset <= MaxRowSize
          /\ pc = "refused" => ~Loadable)'
    BY <2>1, <2>2, <2>8, <2>10
  <2> QED
    BY <2>1, <2>4, <2>5, <2>6, <2>11, <2>12 DEF LoadInv
<1> QED
  BY <1>1, <1>2, <1>3

-----------------------------------------------------------------------------
(* The context.                                                            *)

LEMMA InitStores == TableInit => TableInv /\ StoreInv
<1> SUFFICES ASSUME TableInit PROVE TableInv /\ StoreInv
  OBVIOUS
<1>1. ctx = NoContext /\ data = NoFile /\ given = << >> /\ edits = 0 /\ pc = "idle"
  BY DEF TableInit, Init
<1>2. DOMAIN NoContext = {"loaded", "columns", "rowSize", "index", "count"}
      /\ NoContext.loaded = FALSE
  BY DEF NoContext
<1>3. TableInv
  BY <1>1, <1>2 DEF TableInv
<1>4. << >> \in Seq(ValueLists)
  BY EmptySequence
<1>5. 0 \in 0 .. MaxEdits
  BY RowFormatAssumption
<1>6. StoreInv
  BY <1>1, <1>2, <1>4, <1>5 DEF StoreInv
<1> QED
  BY <1>3, <1>6

LEMMA SameTableInv ==
    ASSUME TableInv, ctx' = ctx, pc' = "ready" => ctx.loaded
    PROVE  TableInv'
BY DEF TableInv, Tiles, IdColumn

LEMMA NoContextKeeps ==
    ASSUME StoreInv, ctx' = NoContext, given' = << >>, UNCHANGED <<data, edits>>, pc' = "idle"
    PROVE  TableInv' /\ StoreInv'
<1>1. DOMAIN NoContext = {"loaded", "columns", "rowSize", "index", "count"}
      /\ NoContext.loaded = FALSE
  BY DEF NoContext
<1>2. << >> \in Seq(ValueLists)
  BY EmptySequence
<1>3. TableInv'
  BY <1>1 DEF TableInv
<1>4. StoreInv'
  BY <1>1, <1>2 DEF StoreInv
<1> QED
  BY <1>3, <1>4

LEMMA SameStoreInv ==
    ASSUME StoreInv, UNCHANGED <<ctx, data, given>>, edits' \in 0 .. MaxEdits
    PROVE  StoreInv'
<1>1. Content' = Content /\ Rows' = Rows /\ Aligned' = Aligned
  BY DEF Content, Rows, RowsOf, Aligned
<1>2. RowsHold(Rows)' = RowsHold(Rows)
  <2>1. Indexed(Rows)' = Indexed(Rows)
    BY <1>1 DEF Indexed
  <2>2. ProperInts' = ProperInts
    BY DEF ProperInts
  <2>3. \A i \in DOMAIN given : RowHas(Rows[Len(Rows) - Len(given) + i], given[i])'
                              = RowHas(Rows[Len(Rows) - Len(given) + i], given[i])
    BY <1>1, <2>2 DEF RowHas
  <2> QED
    BY <1>1, <2>1, <2>3 DEF RowsHold
<1>3. \A i \in DOMAIN given : AllAccepted(given[i])' = AllAccepted(given[i])
  BY DEF AllAccepted, Accepted
<1>4. ctx.loaded => \A i \in DOMAIN given : AllAccepted(given[i])
  BY DEF StoreInv
<1>5. (ctx.loaded => \A i \in DOMAIN given : AllAccepted(given[i]))'
  BY <1>3, <1>4
<1>6. (ctx.loaded /\ Aligned => RowsHold(Rows))'
  BY <1>1, <1>2 DEF StoreInv
<1>7. (/\ data = NoFile \/ data \in Seq(Bytes)
       /\ given \in Seq(ValueLists)
       /\ ~ctx.loaded => given = << >>)'
  BY DEF StoreInv
<1> QED
  BY <1>5, <1>6, <1>7 DEF StoreInv

LEMMA RebuildFacts ==
    ASSUME LoadInv, Rebuild
    PROVE  /\ DOMAIN ctx' = {"loaded", "columns", "rowSize", "index", "count"}
           /\ ctx'.loaded = TRUE /\ ctx'.columns = columns /\ ctx'.rowSize = offset
           /\ ctx'.count = Len(RowsOf(offset))
           /\ ctx'.index = [id \in {RowId(RowsOf(offset)[i]) : i \in DOMAIN RowsOf(offset)} |->
                ((CHOOSE i \in DOMAIN RowsOf(offset) : RowId(RowsOf(offset)[i]) = id) - 1)
                  * offset]
           /\ offset \in Nat \ {0} /\ offset \in 1 .. MaxRowSize
           /\ Len(columns) \in 1 .. MaxColumns
<1>1. /\ pc = "loaded" /\ Tiles(columns, offset) /\ Len(columns) <= MaxColumns
      /\ columns # << >> /\ offset <= MaxRowSize
  BY DEF LoadInv, Rebuild
<1>2. columns \in Seq(ColumnSet) /\ offset \in Nat
  BY <1>1 DEF Tiles
<1>3. Len(columns) \in Nat /\ Len(columns) >= 1 /\ MaxColumns \in Nat /\ MaxRowSize \in Nat
  <2>1. Len(columns) # 0
    BY <1>1, <1>2, EmptyIsEmpty
  <2> QED
    BY <1>2, <2>1, SchemaAssumption, MachineAssumption
<1>4. offset >= 1
  <2>1. 1 \in DOMAIN columns
    BY <1>2, <1>3
  <2>2. columns[1] \in ColumnSet /\ columns[1].offset + columns[1].size <= offset
    BY <1>1, <1>2, <2>1 DEF Tiles
  <2>3. columns[1].offset \in Nat /\ columns[1].size \in Nat \ {0}
    BY <2>2 DEF ColumnSet
  <2> QED
    BY <1>2, <2>2, <2>3
<1> DEFINE rows == RowsOf(offset)
           at(id) == ((CHOOSE i \in DOMAIN rows : RowId(rows[i]) = id) - 1) * offset
<1>5. ctx' = [loaded |-> TRUE, columns |-> columns, rowSize |-> offset, count |-> Len(rows),
              index |-> [id \in {RowId(rows[i]) : i \in DOMAIN rows} |-> at(id)]]
  BY DEF Rebuild
<1> HIDE DEF rows, at
<1>6. /\ DOMAIN ctx' = {"loaded", "columns", "rowSize", "index", "count"}
      /\ ctx'.loaded = TRUE /\ ctx'.columns = columns /\ ctx'.rowSize = offset
      /\ ctx'.count = Len(rows)
      /\ ctx'.index = [id \in {RowId(rows[i]) : i \in DOMAIN rows} |-> at(id)]
  BY <1>5
<1> QED
  BY <1>2, <1>3, <1>4, <1>6, <1>1 DEF rows, at

LEMMA RebuildKeeps ==
    ASSUME LoadInv, StoreInv, Rebuild
    PROVE  TableInv' /\ StoreInv'
<1> DEFINE rows == RowsOf(offset)
           first(id) == CHOOSE i \in DOMAIN rows : RowId(rows[i]) = id
<1>1. /\ DOMAIN ctx' = {"loaded", "columns", "rowSize", "index", "count"}
      /\ ctx'.loaded = TRUE /\ ctx'.columns = columns /\ ctx'.rowSize = offset
      /\ ctx'.count = Len(rows)
      /\ ctx'.index = [id \in {RowId(rows[i]) : i \in DOMAIN rows} |-> (first(id) - 1) * offset]
      /\ offset \in Nat \ {0} /\ offset \in 1 .. MaxRowSize
      /\ Len(columns) \in 1 .. MaxColumns
  BY RebuildFacts
<1>2. /\ pc' = "ready" /\ given' = << >> /\ data' = data /\ edits' = edits
      /\ IdColumn(columns[1]) /\ DistinctIds(rows) /\ Tiles(columns, offset)
  BY DEF Rebuild, LoadInv
<1>3. Content \in Seq(Bytes) /\ Content' = Content
  BY <1>2, ContentFacts DEF StoreInv, Content
<1>4. /\ Len(rows) \in Nat /\ DOMAIN rows = 1 .. Len(rows)
  <2>1. PICK content \in Seq(Bytes) : content = Content
    BY <1>3
  <2>2. rows = Chop(content, offset)
    BY <2>1, ChopIsRows
  <2> HIDE DEF rows
  <2>3. /\ Len(Chop(content, offset)) = Len(content) \div offset
        /\ Len(content) \div offset \in Nat
        /\ DOMAIN Chop(content, offset) = 1 .. Len(content) \div offset
    BY <1>1, ChopFacts
  <2> QED
    BY <2>2, <2>3
<1>5. Rows' = rows
  BY <1>1, <1>3 DEF Rows, RowsOf
<1> HIDE DEF rows, first
<1>6. TableInv'
  <2>1. Tiles(columns, offset)' = Tiles(columns, offset)
    BY DEF Rebuild, loading, Tiles
  <2>2. Tiles(ctx.columns, ctx.rowSize)'
    BY <1>1, <1>2 DEF Tiles
  <2>3. IdColumn(ctx.columns[1])'
    BY <1>1, <1>2 DEF IdColumn
  <2>4. (ctx.count \in Nat)' /\ (ctx.loaded = TRUE)'
    BY <1>1, <1>4
  <2>5. (Len(ctx.columns) \in 1 .. MaxColumns /\ ctx.rowSize \in 1 .. MaxRowSize)'
    BY <1>1
  <2> QED
    BY <1>1, <2>2, <2>3, <2>4, <2>5 DEF TableInv
<1>7. ASSUME NEW i \in 1 .. Len(rows) PROVE first(RowId(rows[i])) = i
  <2>1. i \in DOMAIN rows
    BY <1>4
  <2>2. first(RowId(rows[i])) \in DOMAIN rows
        /\ RowId(rows[first(RowId(rows[i]))]) = RowId(rows[i])
    BY <2>1 DEF first
  <2> QED
    BY <1>2, <2>1, <2>2 DEF DistinctIds
<1>0. PICK r : r = rows
  OBVIOUS
<1>8. Indexed(r)'
  <2>2. DOMAIN ctx'.index = {RowId(rows[i]) : i \in 1 .. Len(rows)}
    BY <1>1, <1>4
  <2>3. \A i \in 1 .. Len(rows) : RowId(rows[i]) \in DOMAIN ctx'.index
    BY <2>2
  <2>4. \A i \in 1 .. Len(rows) : ctx'.index[RowId(rows[i])] = (i - 1) * ctx'.rowSize
    <3> SUFFICES ASSUME NEW i \in 1 .. Len(rows)
                 PROVE  ctx'.index[RowId(rows[i])] = (i - 1) * offset
      BY <1>1
    <3>1. RowId(rows[i]) \in {RowId(rows[j]) : j \in DOMAIN rows}
      BY <1>4
    <3>2. ctx'.index[RowId(rows[i])] = (first(RowId(rows[i])) - 1) * offset
      BY <1>1, <3>1
    <3> QED
      BY <1>7, <3>2
  <2>5. ~(ctx'.count < Len(rows)) /\ ctx'.count <= Len(rows)
    BY <1>1, <1>4
  <2> QED
    <3>1. ctx'.count = Len(r) /\ ctx'.count <= Len(r) /\ ~(ctx'.count < Len(r))
      BY <1>0, <1>1, <2>5
    <3>2. DOMAIN ctx'.index = {RowId(r[i]) : i \in 1 .. ctx'.count}
      BY <1>0, <2>2, <3>1
    <3>3. \A i \in 1 .. ctx'.count : ctx'.index[RowId(r[i])] = (i - 1) * ctx'.rowSize
      BY <1>0, <2>4, <3>1
    <3>4. \A i \in DOMAIN r : RowId(r[i]) \in DOMAIN ctx'.index
      BY <1>0, <1>4, <2>3
    <3> QED
      BY ONLY <3>1, <3>2, <3>3, <3>4, Zenon DEF Indexed
<1>9. RowsHold(Rows)'
  <2>3. Indexed(Rows)'
    BY <1>0, <1>5, <1>8 DEF Indexed
  <2>4. Len(given') = 0 /\ DOMAIN given' = {}
    BY <1>2
  <2>5. Len(given') <= Len(Rows')
    BY <1>4, <1>5, <2>4
  <2>6. ASSUME Len(given') = Len(Rows')
        PROVE  ctx'.count = Len(Rows') /\ DOMAIN Rows' = {}
    <3>1. Len(rows) = 0
      BY <1>5, <2>4, <2>6
    <3> QED
      BY <1>1, <1>4, <1>5, <3>1
  <2> QED
    BY <2>3, <2>4, <2>5, <2>6 DEF RowsHold
<1>10. << >> \in Seq(ValueLists) /\ DOMAIN << >> = {}
  BY EmptySequence
<1>11. StoreInv'
  BY <1>1, <1>2, <1>9, <1>10 DEF StoreInv
<1> QED
  BY <1>6, <1>11

(* The literals of the statements.                                         *)
LEMMA ValueListFacts ==
    ASSUME NEW lits \in ValueLists
    PROVE  lits \in Seq(Literal)
BY StatementAssumption

LEMMA InsertFacts ==
    ASSUME TableInv, StoreInv, NEW lits \in ValueLists, Insert(lits)
    PROVE  /\ ctx.loaded /\ AllAccepted(lits) /\ pc' = "idle" /\ edits' = edits
           /\ data' = Content \o NewRow(lits) /\ given' = Append(given, lits)
           /\ Len(Content) + ctx.rowSize <= MaxData
           /\ DOMAIN ctx' = DOMAIN ctx
           /\ ctx'.loaded = ctx.loaded /\ ctx'.columns = ctx.columns
           /\ ctx'.rowSize = ctx.rowSize
           /\ ctx.count + 1 \in DOMAIN ctx.index =>
                ctx'.count = ctx.count /\ ctx'.index = ctx.index
           /\ ctx.count + 1 \notin DOMAIN ctx.index =>
                /\ ctx'.count = ctx.count + 1
                /\ ctx'.index = [k \in DOMAIN ctx.index \union {ctx.count + 1} |->
                     IF k = ctx.count + 1 THEN ctx.count * ctx.rowSize ELSE ctx.index[k]]
<1>1. /\ ctx.loaded /\ AllAccepted(lits) /\ pc' = "idle" /\ edits' = edits
      /\ data' = Content \o NewRow(lits) /\ given' = Append(given, lits)
      /\ Len(Content) + ctx.rowSize <= MaxData
  BY DEF Insert, TableInv, Return
<1>2. ctx.count \in Nat /\ (ctx.count + 1) - 1 = ctx.count
  BY <1>1, ColumnFacts
<1>3. CASE ctx.count + 1 \in DOMAIN ctx.index
  <2>1. ctx' = ctx
    BY <1>3 DEF Insert
  <2> QED
    BY <1>1, <1>3, <2>1
<1>4. CASE ctx.count + 1 \notin DOMAIN ctx.index
  <2> DEFINE ind == [k \in DOMAIN ctx.index \union {ctx.count + 1} |->
                       IF k = ctx.count + 1 THEN ((ctx.count + 1) - 1) * ctx.rowSize
                       ELSE ctx.index[k]]
  <2>1. ctx' = [ctx EXCEPT !.count = ctx.count + 1, !.index = ind]
    BY <1>4 DEF Insert
  <2>2. DOMAIN ctx = {"loaded", "columns", "rowSize", "index", "count"}
    BY DEF TableInv
  <2>3. PICK x : x = ind
    OBVIOUS
  <2>4. ctx' = [ctx EXCEPT !.count = ctx.count + 1, !.index = x]
    BY <2>1, <2>3
  <2>5. /\ DOMAIN ctx' = DOMAIN ctx
        /\ ctx'.loaded = ctx.loaded /\ ctx'.columns = ctx.columns
        /\ ctx'.rowSize = ctx.rowSize /\ ctx'.count = ctx.count + 1 /\ ctx'.index = x
    BY <2>2, <2>4
  <2> QED
    BY <1>1, <1>2, <1>4, <2>3, <2>5
<1> QED
  BY <1>3, <1>4

LEMMA Appended ==
    ASSUME NEW S, NEW s \in Seq(S), NEW e \in S
    PROVE  /\ Append(s, e) \in Seq(S) /\ Len(Append(s, e)) = Len(s) + 1
           /\ DOMAIN Append(s, e) = 1 .. Len(s) + 1
           /\ \A i \in 1 .. Len(s) : Append(s, e)[i] = s[i]
           /\ Append(s, e)[Len(s) + 1] = e
OBVIOUS

(* The record count stays an int.                                          *)
LEMMA CountFits ==
    ASSUME NEW m \in Nat, NEW n \in Nat, NEW z \in Nat \ {0}, NEW b \in Nat, NEW M \in Nat,
           m * z <= n, n + z <= M * b, b <= z
    PROVE  m + 1 <= M
<1>1. M * b <= M * z
  <2>1. M * (z - b) >= 0 /\ M * (z - b) = M * z - M * b
    OBVIOUS
  <2>2. M * b \in Nat /\ M * z \in Nat
    OBVIOUS
  <2> QED
    BY <2>1, <2>2
<1>2. m * z \in Nat /\ M * z \in Nat /\ M * b \in Nat
  OBVIOUS
<1>3. m * z + z <= M * z
  BY <1>1, <1>2
<1>4. ASSUME m >= M PROVE FALSE
  <2>1. (m - M) * z >= 0 /\ (m - M) * z = m * z - M * z
    BY <1>4
  <2> QED
    BY <1>2, <1>3, <2>1
<1> QED
  BY <1>4

LEMMA RemainderStays ==
    ASSUME NEW n \in Nat, NEW z \in Nat \ {0}, (n + z) % z = 0
    PROVE  n % z = 0
<1>1. PICK r \in 0 .. z - 1, q \in Int : n + z = q * z + r
  OBVIOUS
<1>2. r = 0
  <2>1. (q * z + r) % z = r
    OBVIOUS
  <2> QED
    BY <1>1, <2>1
<1>3. n = (q - 1) * z
  BY <1>1, <1>2
<1>4. ((q - 1) * z) % z = 0
  OBVIOUS
<1> QED
  BY <1>3, <1>4

LEMMA NextIdFits ==
    ASSUME TableInv, StoreInv, ctx.loaded, Len(Content) + ctx.rowSize <= MaxData, Aligned
    PROVE  ctx.count + 1 <= IntMax /\ ctx.count <= Len(Rows)
<1>1. PICK m \in Nat : m = Len(Rows)
  BY RowFacts
<1>2. PICK z \in Nat \ {0} : z = ctx.rowSize /\ IntBytes <= z
  <2>1. ctx.rowSize \in 1 .. MaxRowSize
    BY DEF TableInv
  <2> QED
    BY <2>1, ColumnFacts
<1>3. PICK n \in Nat : n = Len(Content)
  BY ContentFacts DEF StoreInv
<1>4. m = n \div z
  BY <1>1, <1>2, <1>3, RowFacts
<1>5. m * z <= n
  BY <1>4, Quotient
<1>6. IntMax \in Nat /\ IntBytes \in Nat
  BY IntMaxFacts, MachineAssumption
<1>7. n + z <= IntMax * IntBytes
  <2>1. IntMax * IntBytes \in Nat /\ MaxData \in 0 .. IntMax * IntBytes
    BY <1>6, RowFormatAssumption
  <2> QED
    BY <1>2, <1>3, <2>1
<1>8. m + 1 <= IntMax
  BY <1>2, <1>5, <1>6, <1>7, CountFits
<1>9. PICK c \in Nat : c = ctx.count
  BY ColumnFacts
<1>10. c <= m
  BY <1>1, <1>9 DEF StoreInv, RowsHold, Indexed
<1> QED
  BY <1>1, <1>6, <1>8, <1>9, <1>10

LEMMA InsertedData ==
    ASSUME TableInv, StoreInv, NEW lits \in ValueLists, Insert(lits)
    PROVE  /\ data' \in Seq(Bytes)
           /\ Aligned' => Aligned /\ Rows' = Append(Rows, NewRow(lits))
<1>1. /\ ctx.loaded /\ AllAccepted(lits) /\ data' = Content \o NewRow(lits)
      /\ ctx'.rowSize = ctx.rowSize
  BY InsertFacts
<1>2. PICK z \in Nat \ {0} : z = ctx.rowSize
  BY <1>1 DEF TableInv
<1>3. PICK content \in Seq(Bytes) : content = Content
  BY ContentFacts DEF StoreInv
<1>4. PICK row \in Seq(Bytes) : row = NewRow(lits) /\ Len(row) = z
  BY <1>1, <1>2, ValueListFacts, NewRowFacts
<1>5. data' = content \o row
  BY <1>1, <1>3, <1>4
<1>6. content \o row \in Seq(Bytes) /\ Len(content \o row) = Len(content) + Len(row)
  BY Joined
<1>7. Content' = content \o row
  <2>1. data' # NoFile
    BY <1>5, <1>6, RowFormatAssumption
  <2> QED
    BY <1>5, <2>1 DEF Content
<1>8. ASSUME Aligned' PROVE Aligned /\ Rows' = Append(Rows, NewRow(lits))
  <2>1. PICK n \in Nat : n = Len(content)
    OBVIOUS
  <2>2. (n + z) % z = 0
    BY <1>1, <1>2, <1>4, <1>6, <1>7, <1>8, <2>1 DEF Aligned
  <2>3. n % z = 0
    BY <2>2, RemainderStays
  <2>4. Len(content) % z = 0
    BY <2>1, <2>3
  <2>5. Aligned
    BY <1>2, <1>3, <2>4 DEF Aligned
  <2>6. Chop(content \o row, z) = Append(Chop(content, z), row)
    BY <1>4, <2>4, ChopMore
  <2>7. Rows = Chop(content, z)
    BY <1>2, <1>3, ChopIsRows DEF Rows
  <2>8. Rows' = Chop(content \o row, z)
    BY <1>1, <1>2, <1>7 DEF Rows, RowsOf, Chop
  <2> QED
    BY <1>4, <2>5, <2>6, <2>7, <2>8
<1> QED
  BY <1>5, <1>6, <1>8

LEMMA InsertIndexed ==
    ASSUME TableInv, StoreInv, NEW lits \in ValueLists, Insert(lits), Aligned'
    PROVE  /\ Indexed(Rows)'
           /\ Len(given') = Len(Rows') =>
                /\ ctx'.count = Len(Rows')
                /\ \A i \in DOMAIN Rows' : RowId(Rows'[i]) = i
<1>1. /\ ctx.loaded /\ AllAccepted(lits) /\ given' = Append(given, lits)
      /\ Len(Content) + ctx.rowSize <= MaxData /\ ctx'.rowSize = ctx.rowSize
      /\ ctx.count + 1 \in DOMAIN ctx.index =>
           ctx'.count = ctx.count /\ ctx'.index = ctx.index
      /\ ctx.count + 1 \notin DOMAIN ctx.index =>
           /\ ctx'.count = ctx.count + 1
           /\ ctx'.index = [k \in DOMAIN ctx.index \union {ctx.count + 1} |->
                IF k = ctx.count + 1 THEN ctx.count * ctx.rowSize ELSE ctx.index[k]]
  BY InsertFacts
<1>2. Aligned /\ Rows' = Append(Rows, NewRow(lits))
  BY InsertedData
<1>3. RowsHold(Rows)
  BY <1>1, <1>2 DEF StoreInv
<1>4. ctx.count + 1 <= IntMax
  BY <1>1, <1>2, NextIdFits
<1>5. PICK row \in Seq(Bytes) : row = NewRow(lits) /\ RowId(row) = ctx.count + 1
  BY <1>1, <1>4, ValueListFacts, NewRowFacts
<1>6. PICK rows \in Seq(Seq(Bytes)) : rows = Rows
  BY <1>1, RowFacts
<1>7. PICK m \in Nat : m = Len(rows) /\ DOMAIN rows = 1 .. m
  BY <1>6
<1>8. PICK c \in Nat : c = ctx.count
  BY <1>1, ColumnFacts
<1>9. PICK ind : ind = ctx.index
  OBVIOUS
<1>10. PICK z \in Nat : z = ctx.rowSize
  BY <1>1, ColumnFacts
<1>11. PICK more \in Seq(Seq(Bytes)) :
         /\ more = Rows' /\ Len(more) = m + 1 /\ DOMAIN more = 1 .. m + 1
         /\ \A i \in 1 .. m : more[i] = rows[i]
         /\ more[m + 1] = row
  <2>1. Rows' = Append(rows, row)
    BY <1>2, <1>5, <1>6
  <2>2. /\ Append(rows, row) \in Seq(Seq(Bytes)) /\ Len(Append(rows, row)) = m + 1
        /\ DOMAIN Append(rows, row) = 1 .. m + 1
        /\ \A i \in 1 .. m : Append(rows, row)[i] = rows[i]
        /\ Append(rows, row)[m + 1] = row
    BY <1>7, Appended
  <2> QED
    BY <2>1, <2>2
<1>12. Indexed(rows)
  BY <1>3, <1>6 DEF RowsHold
<1>13. /\ c <= m
       /\ DOMAIN ind = {RowId(rows[i]) : i \in 1 .. c}
       /\ \A i \in 1 .. c : ind[RowId(rows[i])] = (i - 1) * z
       /\ \A i \in 1 .. m : RowId(rows[i]) \in DOMAIN ind
       /\ c < m => c + 1 \in DOMAIN ind
  BY <1>7, <1>8, <1>9, <1>10, <1>12 DEF Indexed
<1>14. RowId(more[m + 1]) = c + 1
  BY <1>5, <1>8, <1>11
<1>15. ctx'.rowSize = z
  BY <1>1, <1>10
<1>16. CASE c + 1 \in DOMAIN ind
  <2>1. ctx'.count = c /\ ctx'.index = ind
    BY <1>1, <1>8, <1>9, <1>16
  <2>2. c <= Len(more) /\ (c < Len(more) => c + 1 \in DOMAIN ind)
    BY <1>11, <1>13, <1>16
  <2>3. DOMAIN ind = {RowId(more[i]) : i \in 1 .. c}
    <3>1. \A i \in 1 .. c : more[i] = rows[i]
      BY <1>11, <1>13
    <3> QED
      BY <1>13, <3>1
  <2>4. \A i \in 1 .. c : ind[RowId(more[i])] = (i - 1) * z
    <3> SUFFICES ASSUME NEW i \in 1 .. c PROVE ind[RowId(more[i])] = (i - 1) * z
      OBVIOUS
    <3>1. more[i] = rows[i]
      BY <1>11, <1>13
    <3> QED
      BY <1>13, <3>1
  <2>5. \A i \in DOMAIN more : RowId(more[i]) \in DOMAIN ind
    <3> SUFFICES ASSUME NEW i \in 1 .. m + 1 PROVE RowId(more[i]) \in DOMAIN ind
      BY <1>11
    <3>1. CASE i = m + 1
      BY <3>1, <1>14, <1>16
    <3>2. CASE i \in 1 .. m
      BY <3>2, <1>11, <1>13
    <3> QED
      BY <3>1, <3>2
  <2>6. Indexed(more)'
    BY ONLY <1>15, <2>1, <2>2, <2>3, <2>4, <2>5, Zenon DEF Indexed
  <2>7. Indexed(Rows)'
    <3>1. Rows' = more
      BY <1>11
    <3> QED
      BY ONLY <2>6, <3>1, Zenon DEF Indexed
  <2>8. Len(given') # Len(Rows')
    <3> SUFFICES ASSUME Len(given') = Len(Rows') PROVE FALSE
      OBVIOUS
    <3>1. Len(given) \in Nat /\ Len(given') = Len(given) + 1
      BY <1>1 DEF StoreInv
    <3>2. Len(given) = m
      BY <1>11, <3>1
    <3>3. c = m /\ \A i \in 1 .. m : RowId(rows[i]) = i
      BY <1>3, <1>6, <1>7, <1>8, <3>2 DEF RowsHold
    <3>4. PICK i \in 1 .. m : RowId(rows[i]) = m + 1
      BY <1>13, <1>16, <3>3
    <3> QED
      BY <3>3, <3>4
  <2> QED
    BY <2>7, <2>8
<1>17. CASE c + 1 \notin DOMAIN ind
  <2>1. c = m
    BY <1>13, <1>17
  <2>2. /\ ctx'.count = m + 1
        /\ ctx'.index = [k \in DOMAIN ind \union {m + 1} |-> IF k = m + 1 THEN m * z ELSE ind[k]]
    BY <1>1, <1>8, <1>9, <1>10, <1>17, <2>1
  <2>3. \A i \in 1 .. m : more[i] = rows[i] /\ RowId(rows[i]) \in DOMAIN ind
                           /\ RowId(rows[i]) # m + 1 /\ ind[RowId(rows[i])] = (i - 1) * z
    BY <1>11, <1>13, <1>17, <2>1
  <2>4. DOMAIN ctx'.index = DOMAIN ind \union {m + 1}
    BY <2>2
  <2>5. DOMAIN ctx'.index = {RowId(more[i]) : i \in 1 .. m + 1}
    <3>1. DOMAIN ind = {RowId(more[i]) : i \in 1 .. m}
      BY <1>13, <2>1, <2>3
    <3>2. RowId(more[m + 1]) = m + 1
      BY <1>14, <2>1
    <3>3. \A i \in 1 .. m + 1 : i \in 1 .. m \/ i = m + 1
      OBVIOUS
    <3>4. 1 .. m \subseteq 1 .. m + 1 /\ m + 1 \in 1 .. m + 1
      OBVIOUS
    <3> QED
      BY ONLY <2>4, <3>1, <3>2, <3>3, <3>4
  <2>6. \A i \in 1 .. m + 1 : ctx'.index[RowId(more[i])] = (i - 1) * z
    <3> SUFFICES ASSUME NEW i \in 1 .. m + 1
                 PROVE  ctx'.index[RowId(more[i])] = (i - 1) * z
      OBVIOUS
    <3>1. CASE i = m + 1
      <4>1. RowId(more[i]) = m + 1 /\ i - 1 = m
        BY <3>1, <1>14, <2>1
      <4>2. ctx'.index[m + 1] = m * z
        BY <2>2
      <4> QED
        BY <4>1, <4>2
    <3>2. CASE i \in 1 .. m
      <4>1. RowId(more[i]) = RowId(rows[i])
        BY <2>3, <3>2
      <4>2. ctx'.index[RowId(rows[i])] = ind[RowId(rows[i])]
        BY <2>2, <2>3, <3>2
      <4> QED
        BY <2>3, <3>2, <4>1, <4>2
    <3> QED
      BY <3>1, <3>2
  <2>7. \A i \in DOMAIN more : RowId(more[i]) \in DOMAIN ctx'.index
    BY <1>11, <2>5
  <2>8. m + 1 <= Len(more) /\ ~(m + 1 < Len(more))
    BY <1>11
  <2>9. Indexed(more)'
    BY ONLY <1>15, <2>2, <2>5, <2>6, <2>7, <2>8, Zenon DEF Indexed
  <2>10. Indexed(Rows)'
    <3>1. Rows' = more
      BY <1>11
    <3> QED
      BY ONLY <2>9, <3>1, Zenon DEF Indexed
  <2>11. ASSUME Len(given') = Len(Rows')
         PROVE  ctx'.count = Len(Rows') /\ \A i \in DOMAIN Rows' : RowId(Rows'[i]) = i
    <3>1. Len(given) \in Nat /\ Len(given') = Len(given) + 1
      BY <1>1 DEF StoreInv
    <3>2. Len(given) = m
      BY <1>11, <2>11, <3>1
    <3>3. \A i \in 1 .. m : RowId(rows[i]) = i
      BY <1>3, <1>6, <1>7, <3>2 DEF RowsHold
    <3>4. \A i \in 1 .. m + 1 : RowId(more[i]) = i
      <4> SUFFICES ASSUME NEW i \in 1 .. m + 1 PROVE RowId(more[i]) = i
        OBVIOUS
      <4>1. CASE i = m + 1
        BY <4>1, <1>14, <2>1
      <4>2. CASE i \in 1 .. m
        BY <4>2, <2>3, <3>3
      <4> QED
        BY <4>1, <4>2
    <3> QED
      BY <1>11, <2>2, <3>4
  <2> QED
    BY <2>10, <2>11
<1> QED
  BY <1>16, <1>17

LEMMA InsertKeeps ==
    ASSUME TableInv, StoreInv, NEW lits \in ValueLists, Insert(lits)
    PROVE  TableInv' /\ StoreInv'
<1>1. /\ ctx.loaded /\ AllAccepted(lits) /\ pc' = "idle" /\ edits' = edits
      /\ given' = Append(given, lits)
      /\ DOMAIN ctx' = DOMAIN ctx
      /\ ctx'.loaded = ctx.loaded /\ ctx'.columns = ctx.columns
      /\ ctx'.rowSize = ctx.rowSize
      /\ ctx'.count \in {ctx.count, ctx.count + 1}
  BY InsertFacts
<1>2. TableInv'
  <2>1. ctx'.count \in Nat
    BY <1>1, ColumnFacts
  <2>2. Tiles(ctx.columns, ctx.rowSize)' /\ IdColumn(ctx.columns[1])'
    BY <1>1 DEF TableInv, Tiles, IdColumn
  <2> QED
    BY <1>1, <2>1, <2>2 DEF TableInv
<1>3. data' \in Seq(Bytes)
  BY InsertedData
<1>4. given \in Seq(ValueLists)
  BY DEF StoreInv
<1>5. PICK n \in Nat : n = Len(given)
  BY <1>4
<1>6. /\ given' \in Seq(ValueLists) /\ Len(given') = n + 1 /\ DOMAIN given' = 1 .. n + 1
      /\ \A i \in 1 .. n : given'[i] = given[i]
      /\ given'[n + 1] = lits
  BY <1>1, <1>4, <1>5
<1>7. \A i \in DOMAIN given' : AllAccepted(given[i])'
  <2> SUFFICES ASSUME NEW i \in 1 .. n + 1 PROVE AllAccepted(given[i])'
    BY <1>6
  <2>1. \A l \in ValueLists : AllAccepted(l)' = AllAccepted(l)
    BY <1>1 DEF AllAccepted, Accepted
  <2>2. AllAccepted(given'[i])
    <3>1. CASE i = n + 1
      BY <3>1, <1>1, <1>6
    <3>2. CASE i \in 1 .. n
      <4>1. i \in DOMAIN given
        BY <1>4, <1>5, <3>2
      <4> QED
        BY <1>1, <1>6, <3>2, <4>1 DEF StoreInv
    <3> QED
      BY <3>1, <3>2
  <2>3. PICK l \in ValueLists : l = given'[i]
    BY <1>6
  <2>4. AllAccepted(l)'
    BY <2>1, <2>2, <2>3
  <2> QED
    BY <2>3, <2>4 DEF AllAccepted, Accepted
<1>8. ASSUME Aligned' PROVE RowsHold(Rows)'
  <2>1. Aligned /\ Rows' = Append(Rows, NewRow(lits))
    BY <1>8, InsertedData
  <2>2. RowsHold(Rows)
    BY <1>1, <2>1 DEF StoreInv
  <2>3. PICK rows \in Seq(Seq(Bytes)) : rows = Rows
    BY <1>1, RowFacts
  <2>4. PICK m \in Nat : m = Len(rows)
    BY <2>3
  <2>5. PICK row \in Seq(Bytes) : row = NewRow(lits) /\ RowHas(row, lits)
    BY <1>1, ValueListFacts, NewRowFacts
  <2>6. PICK more \in Seq(Seq(Bytes)) :
          /\ more = Rows' /\ Len(more) = m + 1
          /\ \A i \in 1 .. m : more[i] = rows[i]
          /\ more[m + 1] = row
    <3>1. Rows' = Append(rows, row)
      BY <2>1, <2>3, <2>5
    <3>2. /\ Append(rows, row) \in Seq(Seq(Bytes)) /\ Len(Append(rows, row)) = m + 1
          /\ \A i \in 1 .. m : Append(rows, row)[i] = rows[i]
          /\ Append(rows, row)[m + 1] = row
      BY <2>4, Appended
    <3> QED
      BY <3>1, <3>2
  <2>7. n <= m /\ \A i \in 1 .. n : RowHas(rows[m - n + i], given[i])
    <3>1. DOMAIN given = 1 .. n
      BY <1>4, <1>5
    <3> QED
      BY <1>5, <2>2, <2>3, <2>4, <3>1 DEF RowsHold
  <2>8. \A i \in 1 .. n + 1 : RowHas(more[(m + 1) - (n + 1) + i], given'[i])
    <3> SUFFICES ASSUME NEW i \in 1 .. n + 1
                 PROVE  RowHas(more[(m + 1) - (n + 1) + i], given'[i])
      OBVIOUS
    <3>1. CASE i = n + 1
      <4>1. (m + 1) - (n + 1) + i = m + 1
        BY <3>1
      <4> QED
        BY <1>6, <2>5, <2>6, <3>1, <4>1
    <3>2. CASE i \in 1 .. n
      <4>1. (m + 1) - (n + 1) + i = m - n + i /\ m - n + i \in 1 .. m
        BY <2>7, <3>2
      <4> QED
        BY <1>6, <2>6, <2>7, <3>2, <4>1
    <3> QED
      BY <3>1, <3>2
  <2>9. ProperInts' = ProperInts
    BY <1>1 DEF ProperInts
  <2>10. \A r, l : RowHas(r, l)' = RowHas(r, l)
    BY <1>1, <2>9 DEF RowHas
  <2>11. \A i \in DOMAIN given' : RowHas(Rows[Len(Rows) - Len(given) + i], given[i])'
    <3> SUFFICES ASSUME NEW i \in 1 .. n + 1
                 PROVE  RowHas(Rows[Len(Rows) - Len(given) + i], given[i])'
      BY <1>6
    <3>1. PICK r : r = more[(m + 1) - (n + 1) + i]
      OBVIOUS
    <3>2. PICK l : l = given'[i]
      OBVIOUS
    <3>3. RowHas(r, l)'
      BY <2>8, <2>10, <3>1, <3>2
    <3>4. r = Rows'[Len(Rows') - Len(given') + i]
      BY <1>6, <2>6, <3>1
    <3> QED
      BY <3>2, <3>3, <3>4 DEF RowHas
  <2>12. Len(given') <= Len(Rows')
    BY <1>6, <2>6, <2>7
  <2>13. /\ Indexed(Rows)'
         /\ Len(given') = Len(Rows') =>
                /\ ctx'.count = Len(Rows')
                /\ \A i \in DOMAIN Rows' : RowId(Rows'[i]) = i
    BY <1>8, InsertIndexed
  <2> QED
    BY <2>11, <2>12, <2>13 DEF RowsHold
<1>9. StoreInv'
  <2>1. edits' \in 0 .. MaxEdits
    BY <1>1 DEF StoreInv
  <2> QED
    BY <1>1, <1>3, <1>6, <1>7, <1>8, <2>1 DEF StoreInv
<1> QED
  BY <1>2, <1>9

LEMMA StoreSteps == LoadInv /\ TableInv /\ StoreInv /\ [Next]_vars => TableInv' /\ StoreInv'
<1> SUFFICES ASSUME LoadInv, TableInv, StoreInv, [Next]_vars PROVE TableInv' /\ StoreInv'
  OBVIOUS
<1>0. edits \in 0 .. MaxEdits
  BY DEF StoreInv
<1>1. CASE Rebuild
  BY <1>1, RebuildKeeps
<1>2. CASE InsertStep
  BY <1>2, InsertKeeps DEF InsertStep
<1>3. CASE RebuildFails
  BY <1>3, NoContextKeeps DEF RebuildFails, Return
<1>4. CASE Restart
  BY <1>4, NoContextKeeps DEF Restart
<1>5. CASE Reuse
  <2>1. UNCHANGED <<ctx, data, given, edits>> /\ ctx.loaded
    BY <1>5 DEF Reuse, SameTable
  <2> QED
    BY <1>0, <2>1, SameTableInv, SameStoreInv
<1>6. CASE LoadSchema
  <2>1. UNCHANGED <<ctx, data, given, edits>>
    BY <1>6 DEF LoadSchema
  <2>2. pc' # "ready"
    BY <1>6 DEF LoadSchema, Load, Open, OpenFails, TooManyColumns, SkipEmptyLine, BadParts, BadType,
                BadSize, AddColumn, OffsetOverflows, LoadFails, Loaded, Close, Reading, Typed, AtEnd
  <2> QED
    BY <1>0, <2>1, <2>2, SameTableInv, SameStoreInv
<1>7. CASE Refuse
  <2>1. UNCHANGED <<ctx, data, given, edits>> /\ pc' # "ready"
    BY <1>7 DEF Refuse, Return
  <2> QED
    BY <1>0, <2>1, SameTableInv, SameStoreInv
<1>8. CASE InsertFails
  <2>1. UNCHANGED <<ctx, data, given, edits>> /\ pc' # "ready"
    BY <1>8, InsertFailsCases
  <2> QED
    BY <1>0, <2>1, SameTableInv, SameStoreInv
<1>9. CASE SelectStep
  <2>1. UNCHANGED <<ctx, data, given, edits>> /\ pc' # "ready"
    BY <1>9, SelectCases
  <2> QED
    BY <1>0, <2>1, SameTableInv, SameStoreInv
<1>10. CASE Edit
  <2>1. UNCHANGED <<ctx, data, given>> /\ pc' # "ready" /\ edits' \in 0 .. MaxEdits
    <3>1. MaxEdits \in Nat
      BY RowFormatAssumption
    <3> QED
      BY <1>0, <1>10, <3>1 DEF Edit
  <2> QED
    BY <2>1, SameTableInv, SameStoreInv
<1>11. CASE UNCHANGED vars
  <2>1. UNCHANGED <<ctx, data, given, edits, pc>>
    BY <1>11 DEF vars
  <2>2. pc' = "ready" => ctx.loaded
    BY <2>1 DEF TableInv
  <2> QED
    BY <1>0, <2>1, <2>2, SameTableInv, SameStoreInv
<1> QED
  BY <1>1, <1>2, <1>3, <1>4, <1>5, <1>6, <1>7, <1>8, <1>9, <1>10, <1>11, Steps

-----------------------------------------------------------------------------
(* What leads to undefined behaviour.                                      *)

LEMMA FindColumnFacts ==
    ASSUME NEW cols \in Seq(ColumnSet), NEW name
    PROVE  LET k == FindColumn(cols, name)
           IN  /\ k \in 0 .. Len(cols) /\ Len(cols) \in Nat
               /\ k = 0 => \A i \in 1 .. Len(cols) : cols[i].name # name
               /\ k # 0 => /\ k \in 1 .. Len(cols) /\ cols[k].name = name
                           /\ \A i \in 1 .. Len(cols) : cols[i].name = name => k <= i
<1> DEFINE found == {i \in DOMAIN cols : cols[i].name = name}
<1>1. DOMAIN cols = 1 .. Len(cols) /\ Len(cols) \in Nat
  OBVIOUS
<1>2. FindColumn(cols, name) = IF found = {} THEN 0
                               ELSE CHOOSE i \in found : \A j \in found : i <= j
  BY DEF FindColumn
<1>3. CASE found = {}
  <2>1. FindColumn(cols, name) = 0
    BY <1>2, <1>3
  <2>2. \A i \in 1 .. Len(cols) : cols[i].name # name
    BY <1>1, <1>3
  <2> QED
    BY <1>1, <2>1, <2>2
<1>4. CASE found # {}
  <2>1. found \in SUBSET Nat
    BY <1>1
  <2>2. \E m \in found : \A j \in found : m <= j
    <3> HIDE DEF found
    <3> QED
      BY <1>4, <2>1, LeastNatural
  <2> DEFINE m == CHOOSE i \in found : \A j \in found : i <= j
  <2>3. m \in found /\ \A j \in found : m <= j
    <3> HIDE DEF found
    <3> QED
      BY <2>2
  <2>4. FindColumn(cols, name) = m
    BY <1>2, <1>4
  <2> HIDE DEF m
  <2>5. m \in 1 .. Len(cols) /\ cols[m].name = name
    BY <1>1, <2>3
  <2>6. \A i \in 1 .. Len(cols) : cols[i].name = name => m <= i
    BY <1>1, <2>3
  <2>7. m # 0
    BY <2>5
  <2> QED
    BY <1>1, <2>4, <2>5, <2>6, <2>7
<1> QED
  BY <1>3, <1>4

(* The columns that a SELECT reads are columns of the table.               *)
LEMMA ListFacts ==
    ASSUME TableInv, ctx.loaded, NEW list \in Lists
    PROVE  /\ Len(ListColumns(list)) \in Nat
           /\ DOMAIN ListColumns(list) = 1 .. Len(ListColumns(list))
           /\ \A i \in 1 .. Len(ListColumns(list)) :
                ListColumns(list)[i] \in 0 .. Len(ctx.columns)
           /\ Len(ListColumns(list)) <= MaxColumns \/ Len(ListColumns(list)) = Len(list)
<1>1. PICK cols \in Seq(ColumnSet) : cols = ctx.columns
  BY ColumnFacts
<1>2. Len(cols) \in Nat /\ Len(cols) <= MaxColumns /\ DOMAIN cols = 1 .. Len(cols)
      /\ MaxColumns \in Nat
  BY <1>1, ColumnFacts, SchemaAssumption
<1>3. CASE list = <<"*">>
  <2>1. ListColumns(list) = [i \in 1 .. Len(cols) |-> i]
    BY <1>1, <1>2, <1>3 DEF ListColumns
  <2>2. Len([i \in 1 .. Len(cols) |-> i]) = Len(cols)
    BY <1>2
  <2> QED
    BY <1>1, <1>2, <2>1, <2>2
<1>4. CASE list # <<"*">>
  <2>1. PICK s \in Seq(Names \union {"*"}) : s = list
    BY StatementAssumption
  <2>2. PICK n \in Nat : n = Len(s) /\ DOMAIN s = 1 .. n
    BY <2>1
  <2>3. ListColumns(list) = [i \in 1 .. n |-> FindColumn(cols, s[i])]
    BY <1>1, <1>4, <2>1, <2>2 DEF ListColumns
  <2>4. \A i \in 1 .. n : FindColumn(cols, s[i]) \in 0 .. Len(cols)
    BY FindColumnFacts
  <2>5. /\ Len([i \in 1 .. n |-> FindColumn(cols, s[i])]) = n
        /\ DOMAIN [i \in 1 .. n |-> FindColumn(cols, s[i])] = 1 .. n
    OBVIOUS
  <2> QED
    BY <1>1, <2>1, <2>2, <2>3, <2>4, <2>5
<1> QED
  BY <1>3, <1>4

LEMMA ReadsFit ==
    ASSUME TableInv, ctx.loaded, ProperInts, NEW c \in 1 .. Len(ctx.columns)
    PROVE  ReadsWithin(ctx.columns[c])
<1>1. PICK o \in Nat, z \in Nat, e \in Nat :
        /\ o = ctx.columns[c].offset /\ z = ctx.columns[c].size /\ e = ctx.rowSize
  BY ColumnFacts
<1>2. o + z <= e /\ e <= MaxRowSize
  BY <1>1, ColumnFacts
<1>3. MaxRowSize \in Nat /\ IntBytes \in Nat
  BY MachineAssumption
<1>4. ctx.columns[c].type = "INT" => IntBytes <= z
  <2>1. c \in DOMAIN ctx.columns
    BY ColumnFacts
  <2> QED
    BY <1>1, <1>3, <2>1 DEF ProperInts
<1>5. /\ 0 <= o /\ o + z <= MaxRowSize
      /\ ctx.columns[c].type = "INT" => o + IntBytes <= MaxRowSize
  BY <1>2, <1>3, <1>4
<1> QED
  BY <1>1, <1>5 DEF ReadsWithin, Fits

LEMMA OverrunsNeedCause ==
    ASSUME TableInv, ctx.loaded, NEW lits \in ValueLists, Overruns(lits)
    PROVE  ~ProperInts
<1> SUFFICES ASSUME ProperInts PROVE FALSE
  OBVIOUS
<1>1. lits \in Seq(Literal) /\ Len(lits) \in Nat /\ DOMAIN lits = 1 .. Len(lits)
  BY ValueListFacts
<1>2. PICK n \in Nat : n = Len(ctx.columns) /\ n >= 1
  BY ColumnFacts
<1>3. PICK i \in 1 .. Values(lits) :
        /\ \A j \in 1 .. i : Accepted(lits, j)
        /\ ~Fits(ctx.columns[i + 1], Len(ValueBytes(ctx.columns[i + 1], lits[i])))
  BY DEF Overruns
<1>4. i \in 1 .. Len(lits) /\ i + 1 \in 1 .. n /\ i \in 1 .. i
  <2>1. Values(lits) \in Nat /\ Values(lits) <= Len(lits) /\ Values(lits) <= n - 1
    BY <1>1, <1>2 DEF Values, Least
  <2> QED
    BY <1>1, <1>2, <2>1
<1>5. PICK col \in ColumnSet : col = ctx.columns[i + 1]
  BY <1>2, <1>4, ColumnFacts
<1>6. PICK lit \in Literal : lit = lits[i]
  BY <1>1, <1>4
<1>7. Accepts(col, lit)
  BY <1>3, <1>4, <1>5, <1>6 DEF Accepted
<1>8. /\ ValueBytes(col, lit) \in Seq(Bytes)
      /\ col.type = "INT" => Len(ValueBytes(col, lit)) = IntBytes
      /\ col.type # "INT" => Len(ValueBytes(col, lit)) = col.size
  BY <1>7, ValueBytesFacts
<1>9. ReadsWithin(col)
  BY <1>2, <1>4, <1>5, ReadsFit
<1>10. Fits(col, Len(ValueBytes(col, lit)))
  BY <1>8, <1>9 DEF ReadsWithin
<1> QED
  BY <1>3, <1>5, <1>6, <1>10

LEMMA SelectNeedsCause ==
    ASSUME TableInv, ctx.loaded, NEW list \in Lists, NEW where, SelectUndefined(list, where)
    PROVE  ~ProperInts \/ Len(list) > MaxColumns
<1>1. CASE ListOverruns(list)
  <2>1. Len(ListColumns(list)) > MaxColumns
    BY <1>1 DEF ListOverruns
  <2>2. MaxColumns \in Nat
    BY SchemaAssumption
  <2> QED
    BY <2>1, <2>2, ListFacts
<1>2. CASE ~ListOverruns(list)
  <2>1. /\ ~Unknown(list)
        /\ Beyond(Listed(list)) \/ Beyond(Compared(where))
    BY <1>2 DEF SelectUndefined, ReadsBeyond, ScanReadsBeyond
  <2>2. PICK i : /\ i \in Listed(list) \/ i \in Compared(where)
                 /\ ~ReadsWithin(ctx.columns[i])
    BY <2>1 DEF Beyond
  <2>3. i \in 1 .. Len(ctx.columns)
    <3>1. CASE i \in Listed(list)
      <4>1. PICK k \in DOMAIN ListColumns(list) : i = ListColumns(list)[k]
        BY <3>1 DEF Listed
      <4>2. i # 0
        BY <2>1, <4>1 DEF Unknown
      <4>3. i \in 0 .. Len(ctx.columns)
        BY <4>1, ListFacts
      <4> QED
        BY <4>2, <4>3, ColumnFacts
    <3>2. CASE i \in Compared(where)
      <4>1. PICK cols \in Seq(ColumnSet) : cols = ctx.columns
        BY ColumnFacts
      <4>2. FindColumn(cols, where.name) \in 0 .. Len(cols)
        BY FindColumnFacts
      <4>3. i = FindColumn(ctx.columns, where.name) /\ i # 0
        BY <3>2 DEF Compared
      <4>4. i \in 0 .. Len(ctx.columns)
        BY <4>1, <4>2, <4>3
      <4> QED
        BY <4>3, <4>4, ColumnFacts
    <3> QED
      BY <2>2, <3>1, <3>2
  <2> QED
    BY <2>2, <2>3, ReadsFit
<1> QED
  BY <1>1, <1>2

LEMMA AnswerFields ==
    ASSUME NEW kind, NEW ok, NEW list, NEW where, NEW out
    PROVE  LET a == Answer(kind, ok, list, where, out)
           IN  a.kind = kind /\ a.ok = ok /\ a.list = list /\ a.where = where /\ a.out = out
BY DEF Answer

LEMMA InitCause == TableInit => CauseInv
<1>1. NoAnswer.kind = "none"
  BY DEF NoAnswer, Answer
<1> QED
  BY <1>1 DEF TableInit, Init, CauseInv, UndefinedNeedsCause

LEMMA CauseSteps == TableInv /\ CauseInv /\ [Next]_vars => CauseInv'
<1> SUFFICES ASSUME TableInv, CauseInv, [Next]_vars PROVE CauseInv'
  OBVIOUS
<1>0. NoAnswer.kind = "none"
  BY DEF NoAnswer, Answer
<1>1. CASE LoadSchema
  <2>1. answer'.kind = "none" /\ schema' = schema
    BY <1>0, <1>1 DEF LoadSchema
  <2>2. ASSUME pc' = "undefined" PROVE offset' + Line'.size > IntMax
    <3>1. OffsetOverflows
      BY <1>1, <2>2 DEF LoadSchema, Load, Open, OpenFails, TooManyColumns, SkipEmptyLine, BadParts,
          BadType, BadSize, AddColumn, LoadFails, Loaded, Close, Reading, Typed, AtEnd
    <3>2. offset + Line.size > IntMax /\ offset' = offset /\ next' = next
      BY <3>1 DEF OffsetOverflows, NextOffset, Close
    <3> QED
      BY <2>1, <3>2 DEF Line
  <2> QED
    BY <2>1, <2>2 DEF CauseInv, UndefinedNeedsCause
<1>2. CASE Refuse \/ RebuildFails
  <2>1. answer' = Answer("load", FALSE, << >>, NoWhere, << >>) /\ pc' = "idle"
    BY <1>2 DEF Refuse, RebuildFails, Return
  <2>2. answer'.kind = "load"
    BY <2>1 DEF Answer
  <2> QED
    BY <2>1, <2>2 DEF CauseInv, UndefinedNeedsCause
<1>3. CASE Reuse \/ Rebuild
  <2>1. answer' = answer /\ pc' = "ready"
    BY <1>3 DEF Reuse, Rebuild
  <2> QED
    BY <2>1 DEF CauseInv, UndefinedNeedsCause
<1>4. CASE InsertFails
  <2>1. PICK lits \in ValueLists : InsertUndefined(lits) \/ InsertRefused(lits)
    BY <1>4 DEF InsertFails
  <2>2. answer' = Answer("insert", FALSE, << >>, NoWhere, << >>) /\ ctx' = ctx
    BY <2>1 DEF InsertUndefined, InsertRefused, Undefined, Return
  <2>3. answer'.kind = "insert"
    BY <2>2 DEF Answer
  <2>4. ASSUME pc' = "undefined" PROVE ~ProperInts'
    <3>1. InsertUndefined(lits)
      BY <2>1, <2>4 DEF InsertRefused, Return
    <3>2. ctx.loaded /\ Overruns(lits)
      BY <3>1 DEF InsertUndefined, TableInv
    <3>3. ~ProperInts
      BY <3>2, OverrunsNeedCause
    <3> QED
      BY <2>2, <3>3 DEF ProperInts
  <2> QED
    BY <2>3, <2>4 DEF CauseInv, UndefinedNeedsCause
<1>5. CASE InsertStep
  <2>1. PICK lits \in ValueLists : Insert(lits)
    BY <1>5 DEF InsertStep
  <2>2. PICK ok : answer' = Answer("insert", ok, << >>, NoWhere, << >>) /\ pc' = "idle"
    BY <2>1 DEF Insert, Return
  <2>3. answer'.kind = "insert"
    BY <2>2 DEF Answer
  <2> QED
    BY <2>2, <2>3 DEF CauseInv, UndefinedNeedsCause
<1>6. CASE SelectStep
  <2>1. PICK list \in Lists, where \in Wheres : Select(list, where)
    BY <1>6 DEF SelectStep
  <2>2. PICK ok, out : answer' = Answer("select", ok, list, where, out)
    <3>1. CASE SelectUndefined(list, where)
      BY <3>1 DEF SelectUndefined, Undefined
    <3>2. CASE SelectFails(list, where)
      BY <3>2 DEF SelectFails, Return
    <3>3. CASE SelectById(list, where)
      BY <3>3 DEF SelectById, Return
    <3>4. CASE SelectScan(list, where)
      BY <3>4 DEF SelectScan, Return
    <3> QED
      BY <2>1, <3>1, <3>2, <3>3, <3>4 DEF Select
  <2>3. answer'.kind = "select" /\ answer'.list = list
    BY <2>2 DEF Answer
  <2>4. ASSUME pc' = "undefined" PROVE ~ProperInts' \/ Len(answer'.list) > MaxColumns
    <3>1. SelectUndefined(list, where)
      <4>1. ~SelectFails(list, where)
        BY <2>4 DEF SelectFails, Return
      <4>2. ~SelectById(list, where)
        BY <2>4 DEF SelectById, Return
      <4>3. ~SelectScan(list, where)
        BY <2>4 DEF SelectScan, Return
      <4> QED
        BY <2>1, <4>1, <4>2, <4>3 DEF Select
    <3>2. ctx.loaded /\ ctx' = ctx
      BY <3>1 DEF SelectUndefined, TableInv
    <3>3. ~ProperInts \/ Len(list) > MaxColumns
      BY <3>1, <3>2, SelectNeedsCause
    <3> QED
      BY <2>3, <3>2, <3>3 DEF ProperInts
  <2> QED
    BY <2>3, <2>4 DEF CauseInv, UndefinedNeedsCause
<1>7. CASE Edit \/ Restart
  <2>1. answer'.kind = "none" /\ pc' = "idle"
    BY <1>0, <1>7 DEF Edit, Restart
  <2> QED
    BY <2>1 DEF CauseInv, UndefinedNeedsCause
<1>8. CASE UNCHANGED vars
  <2>1. UNCHANGED <<schema, next, offset, pc, ctx, answer>>
    BY <1>8 DEF vars, loading
  <2>2. Line' = Line /\ ProperInts' = ProperInts
    BY <2>1 DEF Line, ProperInts
  <2> QED
    BY <2>1, <2>2 DEF CauseInv, UndefinedNeedsCause
<1> QED
  BY <1>1, <1>2, <1>3, <1>4, <1>5, <1>6, <1>7, <1>8, Steps

-----------------------------------------------------------------------------
(* Reading back what was written.                                          *)

LEMMA TextEnds ==
    ASSUME NEW b \in Seq(Bytes), NEW t \in Seq(Chars), Len(t) <= Len(b),
           \A k \in 1 .. Len(t) : b[k] = t[k],
           \A k \in Len(t) + 1 .. Len(b) : b[k] = 0
    PROVE  CString(b) = t
<1>1. PICK n \in Nat : n = Len(t)
  OBVIOUS
<1>2. PICK m \in Nat : m = Len(b)
  OBVIOUS
<1>3. n <= m /\ n \in 0 .. m
  BY <1>1, <1>2
<1>4. \A k \in 1 .. n : b[k] # 0
  <2>1. \A k \in 1 .. n : t[k] # 0
    BY <1>1, CharsAreBytes
  <2> QED
    BY <1>1, <2>1
<1> DEFINE End(e) == /\ \A i \in 1 .. e : b[i] # 0
                     /\ e < m => b[e + 1] = 0
<1>5. End(n)
  <2>1. n < m => n + 1 \in Len(t) + 1 .. Len(b)
    BY <1>1, <1>2
  <2> QED
    BY <1>4, <2>1
<1>6. \A e \in 0 .. m : End(e) => e = n
  <2> SUFFICES ASSUME NEW e \in 0 .. m, End(e), e # n PROVE FALSE
    OBVIOUS
  <2>1. CASE e < n
    <3>1. e + 1 \in 1 .. n /\ e < m
      BY <1>3, <2>1
    <3> QED
      BY <1>4, <3>1
  <2>2. CASE e > n
    <3>1. n + 1 \in 1 .. e /\ n + 1 \in Len(t) + 1 .. Len(b)
      BY <1>1, <1>2, <2>2
    <3> QED
      BY <3>1
  <2> QED
    BY <2>1, <2>2
<1> DEFINE end == CHOOSE e \in 0 .. m : End(e)
<1>7. end = n
  <2> HIDE DEF End
  <2> QED
    BY <1>3, <1>5, <1>6
<1>8. CString(b) = SubSeq(b, 1, end)
  BY <1>2 DEF CString
<1>9. SubSeq(b, 1, n) = t
  <2>1. /\ SubSeq(b, 1, n) \in Seq(Bytes) /\ Len(SubSeq(b, 1, n)) = n
        /\ \A i \in 1 .. n : SubSeq(b, 1, n)[i] = b[i]
    BY <1>2, <1>3
  <2>2. \A i \in 1 .. Len(SubSeq(b, 1, n)) : SubSeq(b, 1, n)[i] = t[i]
    BY <1>1, <2>1
  <2>3. PICK s \in Seq(Bytes) : s = SubSeq(b, 1, n)
    BY <2>1
  <2>4. Len(s) = Len(t) /\ \A i \in 1 .. Len(s) : s[i] = t[i]
    BY <1>1, <2>1, <2>2, <2>3
  <2> QED
    BY <2>3, <2>4, SameSequence
<1> HIDE DEF end
<1> QED
  BY <1>7, <1>8, <1>9

(* A row buffer that begins with a row that has these values.              *)
Carries(row, lits) ==
    /\ row \in Seq(Bytes) /\ Len(row) >= ctx.rowSize
    /\ lits \in Seq(Literal) /\ AllAccepted(lits)
    /\ RowHas(row, lits)

LEMMA CarriedFacts ==
    ASSUME TableInv, ctx.loaded, ProperInts, NEW row, NEW lits, Carries(row, lits),
           NEW c \in 2 .. Len(ctx.columns)
    PROVE  LET col == ctx.columns[c]
               lit == lits[c - 1]
           IN  /\ col \in ColumnSet /\ lit \in Literal /\ Accepts(col, lit)
               /\ c - 1 \in DOMAIN lits /\ c = (c - 1) + 1 /\ c \in 1 .. Len(ctx.columns)
               /\ \A k \in 1 .. Len(ValueBytes(col, lit)) :
                    row[col.offset + k] = ValueBytes(col, lit)[k]
<1>1. PICK n \in Nat : n = Len(ctx.columns)
  BY ColumnFacts
<1>2. c \in 1 .. n /\ c - 1 \in 1 .. n - 1 /\ c = (c - 1) + 1
  BY <1>1
<1>3. lits \in Seq(Literal) /\ AllAccepted(lits) /\ RowHas(row, lits)
  BY DEF Carries
<1>4. Len(lits) = n - 1 /\ DOMAIN lits = 1 .. n - 1
  BY <1>1, <1>3 DEF AllAccepted
<1>5. c - 1 \in DOMAIN lits
  BY <1>2, <1>4
<1>6. lits[c - 1] \in Literal
  BY <1>3, <1>5
<1>7. Accepts(ctx.columns[c], lits[c - 1])
  BY <1>2, <1>3, <1>5 DEF AllAccepted, Accepted
<1>8. \A k \in 1 .. Len(ValueBytes(ctx.columns[c], lits[c - 1])) :
        row[ctx.columns[c].offset + k] = ValueBytes(ctx.columns[c], lits[c - 1])[k]
  BY <1>3 DEF RowHas
<1>9. ctx.columns[c] \in ColumnSet
  BY <1>1, <1>2, ColumnFacts
<1> QED
  BY <1>1, <1>2, <1>5, <1>6, <1>7, <1>8, <1>9

LEMMA CarriedInt ==
    ASSUME TableInv, ctx.loaded, ProperInts, NEW row, NEW lits, Carries(row, lits),
           NEW c \in 2 .. Len(ctx.columns), ctx.columns[c].type = "INT"
    PROVE  ReadInt(row, ctx.columns[c]) = IntValue(lits[c - 1])
<1>1. PICK col \in ColumnSet : col = ctx.columns[c]
  BY CarriedFacts
<1>2. PICK lit \in Literal : lit = lits[c - 1]
  BY CarriedFacts
<1>3. PICK v \in -IntMax - 1 .. IntMax : v = IntValue(lit)
  BY LiteralFacts, IntValueFacts
<1>4. v \in Int /\ IntMax \in Nat /\ IntBytes \in Nat
  BY IntMaxFacts, MachineAssumption
<1>5. PICK e \in Seq(Bytes) : e = EncodeInt(v) /\ Len(e) = IntBytes
  BY <1>4, EncodeFacts
<1>6. \A k \in 1 .. IntBytes : row[col.offset + k] = e[k]
  <2>1. ValueBytes(col, lit) = e
    BY <1>1, <1>3, <1>5 DEF ValueBytes
  <2>2. \A k \in 1 .. Len(ValueBytes(col, lit)) : row[col.offset + k] = ValueBytes(col, lit)[k]
    BY <1>1, <1>2, CarriedFacts
  <2> QED
    BY <1>5, <2>1, <2>2
<1>7. PICK o \in Nat : o = col.offset /\ o + IntBytes <= Len(row)
  <2>1. PICK z \in Nat, e2 \in Nat, o \in Nat :
          z = col.size /\ e2 = ctx.rowSize /\ o = col.offset /\ o + z <= e2
    BY <1>1, CarriedFacts, ColumnFacts
  <2>2. z >= IntBytes
    <3>1. c \in DOMAIN ctx.columns
      BY CarriedFacts, ColumnFacts
    <3> QED
      BY <1>1, <2>1, <3>1 DEF ProperInts
  <2>3. row \in Seq(Bytes) /\ Len(row) >= e2 /\ Len(row) \in Nat
    BY <2>1 DEF Carries
  <2>4. o + IntBytes <= Len(row)
    BY <1>4, <2>1, <2>2, <2>3
  <2> QED
    BY <2>1, <2>4
<1>8. PICK b : b = SubSeq(row, o + 1, o + IntBytes)
  OBVIOUS
<1>9. /\ b \in Seq(Bytes) /\ Len(b) = IntBytes
      /\ \A k \in 1 .. IntBytes : b[k] = row[o + k]
  <2>1. row \in Seq(Bytes) /\ o + 1 \in Int /\ o + IntBytes \in Int /\ o + 1 >= 1
    BY <1>4 DEF Carries
  <2>2. /\ b \in Seq(Bytes)
        /\ Len(b) = IF o + 1 <= o + IntBytes THEN (o + IntBytes) - (o + 1) + 1 ELSE 0
        /\ \A k \in 1 .. Len(b) : b[k] = row[(o + 1) + k - 1]
    <3>1. o + IntBytes <= Len(row)
      BY <1>7
    <3> QED
      BY ONLY <1>8, <2>1, <3>1, Slice, SMTT(20)
  <2>3. IntBytes > 0
    BY MachineAssumption
  <2>4. Len(b) = IntBytes
    BY <1>4, <2>2, <2>3
  <2>5. \A k \in 1 .. IntBytes : (o + 1) + k - 1 = o + k
    BY <1>4
  <2> QED
    BY <2>2, <2>4, <2>5
<1>10. b = e
  <2>1. \A k \in 1 .. Len(b) : b[k] = e[k]
    BY <1>6, <1>7, <1>9
  <2> QED
    BY <1>5, <1>9, <2>1, SameSequence
<1>11. ReadInt(row, col) = DecodeInt(e)
  BY <1>7, <1>8, <1>10 DEF ReadInt
<1>12. DecodeInt(e) = v
  BY <1>5, RoundTrip
<1> QED
  BY <1>1, <1>2, <1>3, <1>11, <1>12

LEMMA CarriedChar ==
    ASSUME TableInv, ctx.loaded, ProperInts, NEW row, NEW lits, Carries(row, lits),
           NEW c \in 2 .. Len(ctx.columns), ctx.columns[c].type # "INT"
    PROVE  ReadChar(row, ctx.columns[c]) = CharText(lits[c - 1])
<1>1. PICK col \in ColumnSet : col = ctx.columns[c]
  BY CarriedFacts
<1>2. PICK lit \in Literal : lit = lits[c - 1]
  BY CarriedFacts
<1>3. PICK t \in Seq(Chars) : t = CharText(lit) /\ Len(t) <= TempSize - 1
  BY CharTextFacts
<1>4. PICK z \in Nat, e \in Nat, o \in Nat :
        /\ z = col.size /\ e = ctx.rowSize /\ o = col.offset /\ o + z <= e /\ z >= 1
  <2>1. c \in 1 .. Len(ctx.columns)
    BY ColumnFacts
  <2>2. PICK z \in Nat, e \in Nat, o \in Nat :
          z = col.size /\ e = ctx.rowSize /\ o = col.offset /\ z # 0
    BY <1>1, <2>1, ColumnFacts
  <2>3. o + z <= e
    BY <1>1, <2>1, <2>2, ColumnFacts
  <2>4. z >= 1
    BY <2>2
  <2> QED
    BY <2>2, <2>3, <2>4
<1>5. PICK w : w = ValueBytes(col, lit)
  OBVIOUS
<1>6. /\ Len(w) = z /\ Len(t) <= z
      /\ \A k \in 1 .. Len(t) : w[k] = t[k]
      /\ \A k \in Len(t) + 1 .. z : w[k] = 0
  <2>1. Accepts(col, lit) /\ col.type # "INT"
    BY <1>1, <1>2, CarriedFacts
  <2> QED
    BY <1>3, <1>4, <1>5, <2>1, ValueBytesFacts
<1>7. \A k \in 1 .. z : row[o + k] = w[k]
  <2>1. \A k \in 1 .. Len(ValueBytes(col, lit)) : row[col.offset + k] = ValueBytes(col, lit)[k]
    BY <1>1, <1>2, CarriedFacts
  <2> QED
    BY <1>4, <1>5, <1>6, <2>1
<1>8. PICK n \in Nat : n = Len(t) /\ n <= z
  BY <1>6
<1>9. PICK m \in Nat : m = Least(z, TempSize - 1) /\ m <= z /\ n <= m /\ m >= 1
  <2>1. TempSize \in Nat /\ TempSize > 1
    BY MachineAssumption
  <2>2. PICK u \in Nat : u = TempSize - 1 /\ u >= 1
    BY ONLY <2>1
  <2>3. n <= u
    <3>1. Len(t) <= u
      BY <1>3, <2>2
    <3> QED
      BY ONLY <1>8, <3>1, Zenon
  <2>6. n <= z /\ z >= 1
    <3>1. z >= 1
      BY <1>4
    <3> QED
      BY ONLY <1>8, <3>1, Zenon
  <2>4. /\ Least(z, u) \in Nat /\ Least(z, u) <= z /\ n <= Least(z, u) /\ Least(z, u) >= 1
    <3>1. PICK l : l = Least(z, u)
      OBVIOUS
    <3>2. l = IF z < u THEN z ELSE u
      BY <3>1 DEF Least
    <3>3. u >= 1
      BY <2>2
    <3>4. l \in Nat /\ l <= z /\ n <= l /\ l >= 1
      BY ONLY <2>3, <2>6, <3>2, <3>3, n \in Nat, z \in Nat, u \in Nat
    <3> QED
      BY ONLY <3>1, <3>4, Zenon
  <2>5. Least(z, TempSize - 1) = Least(z, u)
    BY ONLY <2>2, Zenon
  <2> QED
    BY ONLY <2>4, <2>5, Zenon
<1>10. PICK b : b = SubSeq(row, o + 1, o + m)
  OBVIOUS
<1>11. /\ b \in Seq(Bytes) /\ Len(b) = m
       /\ \A k \in 1 .. m : b[k] = row[o + k]
  <2>1. row \in Seq(Bytes) /\ Len(row) >= e /\ Len(row) \in Nat
    BY <1>4 DEF Carries
  <2>2. o + 1 \in Int /\ o + m \in Int /\ o + 1 >= 1 /\ o + m <= Len(row)
    <3>1. PICK l \in Nat : l = Len(row) /\ l >= e
      BY <2>1
    <3>2. o + m <= l
      BY <1>4, <1>9, <3>1
    <3> QED
      BY <3>1, <3>2
  <2>3. /\ b \in Seq(Bytes)
        /\ Len(b) = IF o + 1 <= o + m THEN (o + m) - (o + 1) + 1 ELSE 0
        /\ \A k \in 1 .. Len(b) : b[k] = row[(o + 1) + k - 1]
    BY <1>10, <2>1, <2>2, Slice
  <2>4. Len(b) = m
    BY <1>9, <2>3
  <2>5. \A k \in 1 .. m : (o + 1) + k - 1 = o + k
    OBVIOUS
  <2> QED
    BY <2>3, <2>4, <2>5
<1>12. \A k \in 1 .. n : b[k] = t[k]
  BY <1>6, <1>7, <1>8, <1>9, <1>11
<1>13. \A k \in n + 1 .. m : b[k] = 0
  <2> SUFFICES ASSUME NEW k \in n + 1 .. m PROVE b[k] = 0
    OBVIOUS
  <2>1. k \in 1 .. m /\ k \in 1 .. z /\ k \in n + 1 .. z
    BY <1>8, <1>9
  <2>2. b[k] = row[o + k] /\ row[o + k] = w[k] /\ w[k] = 0
    BY <1>6, <1>7, <1>8, <1>11, <2>1
  <2> QED
    BY <2>2
<1>14. CString(b) = t
  BY <1>8, <1>9, <1>11, <1>12, <1>13, TextEnds
<1>15. ReadChar(row, col) = CString(b)
  BY <1>4, <1>9, <1>10 DEF ReadChar
<1> QED
  BY <1>1, <1>2, <1>3, <1>14, <1>15

(* What a faithful literal means is what is read.                          *)
LEMMA FaithfulText ==
    ASSUME NEW lit \in Literal, Len(lit.text) < TempSize
    PROVE  CharText(lit) = IF lit.type = "string" THEN SubSeq(lit.text, 2, Len(lit.text) - 1)
                           ELSE lit.text
<1>1. lit.text \in Seq(Chars)
  BY LiteralFacts
<1>2. Copied(lit.text) = lit.text
  BY <1>1, CopiedFacts
<1>3. CASE lit.type = "string"
  <2>1. /\ Len(lit.text) >= 2 /\ lit.text[1] = Quote
        /\ lit.text[Len(lit.text)] = Quote
    BY <1>3, LiteralFacts
  <2> QED
    BY <1>2, <1>3, <2>1 DEF CharText, StripQuotes
<1>4. CASE lit.type # "string"
  BY <1>2, <1>4 DEF CharText
<1> QED
  BY <1>3, <1>4

LEMMA CarriedCell ==
    ASSUME TableInv, ctx.loaded, ProperInts, NEW row, NEW lits, Carries(row, lits),
           NEW c \in 2 .. Len(ctx.columns), Faithful(ctx.columns[c], lits[c - 1])
    PROVE  Cell(row, ctx.columns[c]) = Value(ctx.columns[c], lits[c - 1])
<1>1. PICK lit \in Literal : lit = lits[c - 1]
  BY CarriedFacts
<1>2. CASE ctx.columns[c].type = "INT"
  <2>1. lit.num \in -IntMax - 1 .. IntMax
    BY <1>1, <1>2 DEF Faithful
  <2>2. IntValue(lit) = lit.num
    BY <2>1, LiteralFacts, IntValueFacts
  <2>3. ReadInt(row, ctx.columns[c]) = lit.num
    BY <1>1, <1>2, <2>2, CarriedInt
  <2> QED
    BY <1>1, <1>2, <2>3 DEF Cell, Value
<1>3. CASE ctx.columns[c].type # "INT"
  <2>1. Len(lit.text) < TempSize
    BY <1>1, <1>3 DEF Faithful
  <2>2. ReadChar(row, ctx.columns[c]) = CharText(lit)
    BY <1>1, <1>3, CarriedChar
  <2>3. CharText(lit) = IF lit.type = "string" THEN SubSeq(lit.text, 2, Len(lit.text) - 1)
                        ELSE lit.text
    BY <2>1, FaithfulText
  <2> QED
    BY <1>1, <1>3, <2>2, <2>3 DEF Cell, Value
<1> QED
  BY <1>2, <1>3

LEMMA StoredCarries ==
    ASSUME TableInv, StoreInv, Settled, NEW i \in DOMAIN given
    PROVE  ctx.loaded /\ ProperInts /\ Carries(Stored(i), given[i])
<1>1. ctx.loaded /\ Aligned /\ ProperInts
  BY DEF Settled
<1>2. RowsHold(Rows) /\ AllAccepted(given[i])
  BY <1>1 DEF StoreInv
<1>3. given \in Seq(ValueLists)
  BY DEF StoreInv
<1>4. given[i] \in Seq(Literal)
  BY <1>3, ValueListFacts
<1>5. RowHas(Stored(i), given[i])
  BY <1>2 DEF RowsHold, Stored
<1>6. PICK m \in Nat, n \in Nat : m = Len(Rows) /\ n = Len(given) /\ n <= m
  BY <1>1, <1>2, <1>3, RowFacts DEF RowsHold
<1>7. m - n + i \in 1 .. m
  BY <1>3, <1>6
<1>8. Stored(i) \in Seq(Bytes) /\ Len(Stored(i)) = ctx.rowSize
  BY <1>1, <1>6, <1>7, RowFacts DEF Stored
<1>9. Len(Stored(i)) >= ctx.rowSize
  BY <1>1, <1>8, ColumnFacts
<1> QED
  BY <1>1, <1>2, <1>4, <1>5, <1>8, <1>9 DEF Carries

LEMMA RowsComeBackHolds == TableInv /\ StoreInv => RowsComeBack
<1> SUFFICES ASSUME TableInv, StoreInv, Settled, NEW i \in DOMAIN given,
                    FaithfulRow(given[i]), NEW c \in 2 .. Len(ctx.columns)
             PROVE  Cell(Stored(i), ctx.columns[c]) = Value(ctx.columns[c], given[i][c - 1])
  BY DEF RowsComeBack
<1>1. ctx.loaded /\ ProperInts /\ Carries(Stored(i), given[i])
  BY StoredCarries
<1>2. c - 1 \in DOMAIN given[i] /\ c = (c - 1) + 1
  BY <1>1, CarriedFacts
<1>3. Faithful(ctx.columns[c], given[i][c - 1])
  BY <1>2 DEF FaithfulRow
<1> QED
  BY <1>1, <1>3, CarriedCell

LEMMA InsertedIsFoundHolds == TableInv /\ StoreInv => InsertedIsFound
<1> SUFFICES ASSUME TableInv, StoreInv, Settled, NEW i \in DOMAIN given,
                    NEW c \in 2 .. Len(ctx.columns),
                    FindColumn(ctx.columns, ctx.columns[c].name) = c
             PROVE  Matches(ctx.columns, Stored(i),
                      [kind |-> "compare", name |-> ctx.columns[c].name, op |-> "=",
                       lit |-> given[i][c - 1]])
  BY DEF InsertedIsFound
<1> DEFINE where == [kind |-> "compare", name |-> ctx.columns[c].name, op |-> "=",
                     lit |-> given[i][c - 1]]
<1>1. ctx.loaded /\ ProperInts /\ Carries(Stored(i), given[i])
  BY StoredCarries
<1>2. PICK lit \in Literal : lit = given[i][c - 1]
  BY <1>1, CarriedFacts
<1>3. /\ where.kind = "compare" /\ where.name = ctx.columns[c].name
      /\ where.op = "=" /\ where.lit = lit
  BY <1>2
<1> HIDE DEF where
<1>4. CASE ctx.columns[c].type = "INT"
  <2>1. ReadInt(Stored(i), ctx.columns[c]) = IntValue(lit)
    BY <1>1, <1>2, <1>4, CarriedInt
  <2>2. IntOrder(ReadInt(Stored(i), ctx.columns[c]), IntValue(lit)) = 0
    <3>1. IntValue(lit) \in Int
      BY LiteralFacts, IntValueFacts, IntMaxFacts
    <3> QED
      BY <2>1, <3>1 DEF IntOrder
  <2>3. Compare(IntOrder(ReadInt(Stored(i), ctx.columns[c]), IntValue(lit)), "=")
    BY <2>2 DEF Compare
  <2>4. Matches(ctx.columns, Stored(i), where)
    BY <1>3, <1>4, <2>3 DEF Matches
  <2> QED
    BY <2>4 DEF where
<1>5. CASE ctx.columns[c].type # "INT"
  <2>1. ReadChar(Stored(i), ctx.columns[c]) = CharText(lit)
    BY <1>1, <1>2, <1>5, CarriedChar
  <2>2. StripQuotes(Copied(lit.text)) = CharText(lit)
    BY ComparedAsWritten
  <2>3. TextOrder(ReadChar(Stored(i), ctx.columns[c]), StripQuotes(Copied(lit.text))) = 0
    BY <2>1, <2>2 DEF TextOrder
  <2>4. Compare(TextOrder(ReadChar(Stored(i), ctx.columns[c]),
                          StripQuotes(Copied(lit.text))), "=")
    BY <2>3 DEF Compare
  <2>5. Matches(ctx.columns, Stored(i), where)
    BY <1>3, <1>5, <2>4 DEF Matches
  <2> QED
    BY <2>5 DEF where
<1> QED
  BY <1>4, <1>5

(* The id of a row is what its first column reads.                         *)
LEMMA FirstColumnIsId ==
    ASSUME TableInv, ctx.loaded
    PROVE  /\ FindColumn(ctx.columns, "id") = 1
           /\ \A row : ReadInt(row, ctx.columns[1]) = RowId(row)
<1>1. PICK cols \in Seq(ColumnSet) :
        /\ cols = ctx.columns /\ 1 \in 1 .. Len(cols)
        /\ cols[1].name = "id" /\ cols[1].offset = 0
  BY ColumnFacts
<1>2. FindColumn(cols, "id") = 1
  <2>1. PICK k : k = FindColumn(cols, "id")
    OBVIOUS
  <2>2. /\ k \in 0 .. Len(cols) /\ Len(cols) \in Nat
        /\ k = 0 => \A i \in 1 .. Len(cols) : cols[i].name # "id"
        /\ k # 0 => /\ k \in 1 .. Len(cols)
                    /\ \A i \in 1 .. Len(cols) : cols[i].name = "id" => k <= i
    BY <2>1, FindColumnFacts
  <2>3. k # 0
    BY <1>1, <2>2
  <2>4. k <= 1 /\ k \in Nat
    BY <1>1, <2>2, <2>3
  <2> QED
    BY <2>1, <2>3, <2>4
<1>3. ASSUME NEW row PROVE ReadInt(row, cols[1]) = RowId(row)
  <2>1. 0 + 1 = 1 /\ 0 + IntBytes = IntBytes
    BY MachineAssumption
  <2> QED
    BY <1>1, <2>1 DEF ReadInt, RowId
<1> QED
  BY <1>1, <1>2, <1>3

LEMMA NumberFacts ==
    ASSUME NEW lit \in Numbers
    PROVE  lit \in Literal /\ lit.type = "number" /\ IntValue(lit) \in Int
<1>1. PICK where \in Wheres : lit \in WhereValues(where) /\ lit.type = "number"
  BY DEF Numbers
<1>2. lit \in Literal
  <2>1. CASE where = NoWhere
    BY <1>1, <2>1 DEF NoWhere, WhereValues
  <2>2. CASE where.kind = "compare" /\ where.lit \in Literal
    BY <1>1, <2>2 DEF WhereValues
  <2>3. CASE where.kind = "between" /\ where.lower \in Literal /\ where.upper \in Literal
    BY <1>1, <2>3 DEF WhereValues
  <2> QED
    BY <2>1, <2>2, <2>3, StatementAssumption
<1>3. IntValue(lit) \in Int
  BY <1>2, LiteralFacts, IntValueFacts, IntMaxFacts
<1> QED
  BY <1>1, <1>2, <1>3

LEMMA IndexAgreesHolds == TableInv /\ StoreInv => IndexAgreesWithScan
<1> SUFFICES ASSUME TableInv, StoreInv, ctx.loaded, Aligned, NEW lit \in Numbers
             PROVE  LET where == [kind |-> "between", name |-> "id", lower |-> lit, upper |-> lit]
                        found == {i \in DOMAIN Rows : Matches(ctx.columns, Rows[i], where)}
                        id == IntValue(lit)
                    IN  IF id \in DOMAIN ctx.index
                          THEN found \intersect 1 .. ctx.count = {ctx.index[id] \div ctx.rowSize + 1}
                        ELSE found = {}
  BY DEF IndexAgreesWithScan
<1> DEFINE where == [kind |-> "between", name |-> "id", lower |-> lit, upper |-> lit]
           found == {i \in DOMAIN Rows : Matches(ctx.columns, Rows[i], where)}
<1>1. PICK id \in Int : id = IntValue(lit)
  BY NumberFacts
<1>2. PICK rows \in Seq(Seq(Bytes)) : rows = Rows
  BY RowFacts
<1>3. PICK m \in Nat : m = Len(rows) /\ DOMAIN rows = 1 .. m
  BY <1>2
<1>4. \A i \in 1 .. m : RowId(rows[i]) \in Int
  <2>1. IntMax \in Nat
    BY IntMaxFacts
  <2>2. \A i \in 1 .. m : RowId(rows[i]) \in -IntMax - 1 .. IntMax
    BY <1>2, <1>3, RowFacts
  <2> QED
    BY <2>1, <2>2
<1>5. \A i \in 1 .. m : Matches(ctx.columns, rows[i], where) <=> RowId(rows[i]) = id
  <2> SUFFICES ASSUME NEW i \in 1 .. m
               PROVE  Matches(ctx.columns, rows[i], where) <=> RowId(rows[i]) = id
    OBVIOUS
  <2>1. where.kind = "between" /\ where.name = "id" /\ where.lower = lit /\ where.upper = lit
    OBVIOUS
  <2> HIDE DEF where
  <2>2. Matches(ctx.columns, rows[i], where) <=>
          Between(ReadInt(rows[i], ctx.columns[FindColumn(ctx.columns, "id")]), where)
    BY <2>1 DEF Matches
  <2>3. ReadInt(rows[i], ctx.columns[FindColumn(ctx.columns, "id")]) = RowId(rows[i])
    BY FirstColumnIsId
  <2>4. Between(RowId(rows[i]), where) <=> RowId(rows[i]) = id
    BY <1>1, <1>4, <2>1 DEF Between
  <2> QED
    BY <2>2, <2>3, <2>4
<1>6. found = {i \in 1 .. m : RowId(rows[i]) = id}
  BY <1>2, <1>3, <1>5
<1> HIDE DEF found
<1>7. PICK c \in Nat : c = ctx.count
  BY ColumnFacts
<1>8. PICK z \in Nat \ {0} : z = ctx.rowSize
  BY DEF TableInv
<1>9. PICK ind : ind = ctx.index
  OBVIOUS
<1>10. /\ c <= m
       /\ DOMAIN ind = {RowId(rows[i]) : i \in 1 .. c}
       /\ \A i \in 1 .. c : ind[RowId(rows[i])] = (i - 1) * z
       /\ \A i \in 1 .. m : RowId(rows[i]) \in DOMAIN ind
  <2>1. Indexed(rows)
    BY <1>2 DEF StoreInv, RowsHold
  <2> QED
    BY <1>3, <1>7, <1>8, <1>9, <2>1 DEF Indexed
<1>11. CASE id \notin DOMAIN ind
  <2>1. found = {}
    BY <1>6, <1>10, <1>11
  <2> QED
    BY <1>1, <1>9, <1>11, <2>1 DEF found
<1>12. CASE id \in DOMAIN ind
  <2>1. PICK j \in 1 .. c : id = RowId(rows[j])
    BY <1>10, <1>12
  <2>2. \A i \in 1 .. c : RowId(rows[i]) = id => i = j
    <3> SUFFICES ASSUME NEW i \in 1 .. c, RowId(rows[i]) = id PROVE i = j
      OBVIOUS
    <3>1. (i - 1) * z = (j - 1) * z
      BY <1>10, <2>1
    <3>2. (i - 1) * z - (j - 1) * z = (i - j) * z
      OBVIOUS
    <3>3. (i - j) * z = 0
      BY <3>1, <3>2
    <3>4. i - j > 0 => (i - j) * z > 0
      OBVIOUS
    <3>5. i - j < 0 => (i - j) * z < 0
      OBVIOUS
    <3> QED
      BY <3>3, <3>4, <3>5
  <2>3. j \in 1 .. m
    BY <1>10
  <2>4. found \intersect 1 .. c = {j}
    BY <1>6, <2>1, <2>2, <2>3
  <2>5. ind[id] \div z + 1 = j
    <3>1. ind[id] = (j - 1) * z
      BY <1>10, <2>1
    <3>2. ((j - 1) * z) \div z = j - 1
      OBVIOUS
    <3> QED
      BY <3>1, <3>2
  <2>6. found \intersect 1 .. ctx.count = {ctx.index[id] \div ctx.rowSize + 1}
    BY <1>7, <1>8, <1>9, <2>4, <2>5
  <2> QED
    BY <1>1, <1>9, <1>12, <2>6 DEF found
<1> QED
  BY <1>11, <1>12

-----------------------------------------------------------------------------
(* The order of texts: the least position where two differ decides.        *)

LEMMA PrecedesIsBefore ==
    ASSUME NEW s \in Seq(Chars), NEW t \in Seq(Chars)
    PROVE  Precedes(s, t) <=> Before(s, t)
<1>1. PICK ls \in Nat, lt \in Nat : ls = Len(s) /\ lt = Len(t)
  OBVIOUS
<1>2. PICK q \in Nat : q = Least(ls, lt) /\ q <= ls /\ q <= lt /\ (q = ls \/ q = lt)
  BY DEF Least
<1>3. \A n \in 0 .. q : /\ SubSeq(s, 1, n) \in Seq(Chars) /\ Len(SubSeq(s, 1, n)) = n
                        /\ SubSeq(t, 1, n) \in Seq(Chars) /\ Len(SubSeq(t, 1, n)) = n
                        /\ \A i \in 1 .. n : SubSeq(s, 1, n)[i] = s[i] /\ SubSeq(t, 1, n)[i] = t[i]
  BY <1>1, <1>2
<1>4. ASSUME Precedes(s, t) PROVE Before(s, t)
  <2>1. PICK i \in 1 .. lt : /\ \A j \in 1 .. i - 1 : j <= ls /\ s[j] = t[j]
                             /\ i > ls \/ s[i] < t[i]
    BY <1>1, <1>4 DEF Precedes
  <2>2. PICK n \in Nat : n = i - 1 /\ n + 1 = i /\ n < lt
    OBVIOUS
  <2>3. n <= ls
    <3>1. CASE n = 0
      BY <3>1
    <3>2. CASE n # 0
      <4>1. n \in 1 .. i - 1
        BY <2>2, <3>2
      <4> QED
        BY <2>1, <4>1
    <3> QED
      BY <3>1, <3>2
  <2>4. n \in 0 .. q
    BY <1>2, <2>2, <2>3
  <2>5. SubSeq(s, 1, n) = SubSeq(t, 1, n)
    <3>1. PICK a \in Seq(Chars), b \in Seq(Chars) :
            /\ a = SubSeq(s, 1, n) /\ b = SubSeq(t, 1, n) /\ Len(a) = n /\ Len(b) = n
            /\ \A k \in 1 .. n : a[k] = s[k] /\ b[k] = t[k]
      BY <1>3, <2>4
    <3>2. \A k \in 1 .. Len(a) : a[k] = b[k]
      BY <2>1, <2>2, <3>1
    <3>3. Len(a) = Len(b)
      BY <3>1
    <3>4. a = b
      BY <3>2, <3>3, SameSequence
    <3> QED
      BY <3>1, <3>4
  <2>6. IF n = ls THEN n < lt ELSE n < lt /\ s[n + 1] < t[n + 1]
    BY <2>1, <2>2, <2>3
  <2>7. /\ n \in 0 .. Least(Len(s), Len(t))
        /\ IF n = Len(s) THEN n < Len(t) ELSE n < Len(t) /\ s[n + 1] < t[n + 1]
    BY <1>1, <1>2, <2>4, <2>6
  <2> QED
    BY <2>5, <2>7 DEF Before
<1>5. ASSUME Before(s, t) PROVE Precedes(s, t)
  <2>1. PICK n \in 0 .. q :
          /\ SubSeq(s, 1, n) = SubSeq(t, 1, n)
          /\ IF n = ls THEN n < lt ELSE n < lt /\ s[n + 1] < t[n + 1]
    BY <1>1, <1>2, <1>5 DEF Before
  <2>2. \A j \in 1 .. n : j <= ls /\ s[j] = t[j]
    BY <1>2, <1>3, <2>1
  <2>3. n + 1 \in 1 .. lt /\ (n + 1) - 1 = n
    BY <1>2, <2>1
  <2>4. n + 1 > ls \/ s[n + 1] < t[n + 1]
    BY <2>1
  <2> QED
    BY <1>1, <2>2, <2>3, <2>4 DEF Precedes
<1> QED
  BY <1>4, <1>5

LEMMA PrecedesIsOrder ==
    ASSUME NEW s \in Seq(Chars), NEW t \in Seq(Chars)
    PROVE  /\ ~(Precedes(s, t) /\ Precedes(t, s))
           /\ s # t => Precedes(s, t) \/ Precedes(t, s)
<1>1. PICK ls \in Nat, lt \in Nat : ls = Len(s) /\ lt = Len(t)
  OBVIOUS
<1>2. /\ \A i \in 1 .. ls : s[i] \in Int
      /\ \A i \in 1 .. lt : t[i] \in Int
  <2>1. Chars \subseteq Int
    BY DEF Chars
  <2>2. /\ \A i \in 1 .. ls : s[i] \in Chars
        /\ \A i \in 1 .. lt : t[i] \in Chars
    BY <1>1
  <2> QED
    BY <2>1, <2>2
<1>3. ASSUME Precedes(s, t), Precedes(t, s) PROVE FALSE
  <2>1. PICK i \in 1 .. lt : /\ \A j \in 1 .. i - 1 : j <= ls /\ s[j] = t[j]
                             /\ i > ls \/ s[i] < t[i]
    BY <1>1, <1>3 DEF Precedes
  <2>2. PICK k \in 1 .. ls : /\ \A j \in 1 .. k - 1 : j <= lt /\ t[j] = s[j]
                             /\ k > lt \/ t[k] < s[k]
    BY <1>1, <1>3 DEF Precedes
  <2>3. CASE i < k
    <3>1. i \in 1 .. k - 1 /\ i \in 1 .. ls
      BY <2>3
    <3> QED
      BY <1>2, <2>1, <2>2, <3>1
  <2>4. CASE k < i
    <3>1. k \in 1 .. i - 1 /\ k \in 1 .. lt
      BY <2>4
    <3> QED
      BY <1>2, <2>1, <2>2, <3>1
  <2>5. CASE i = k
    <3>1. s[i] < t[i] /\ t[i] < s[i] /\ s[i] \in Int /\ t[i] \in Int
      BY <1>2, <2>1, <2>2, <2>5
    <3> QED
      BY <3>1
  <2> QED
    BY <2>3, <2>4, <2>5
<1>4. ASSUME s # t PROVE Precedes(s, t) \/ Precedes(t, s)
  <2> DEFINE D == {i \in 1 .. ls : i <= lt /\ s[i] # t[i]}
  <2>1. CASE D = {}
    <3>1. \A i \in 1 .. ls : i <= lt => s[i] = t[i]
      BY <2>1
    <3>2. CASE ls = lt
      <4>1. Len(s) = Len(t) /\ \A i \in 1 .. Len(s) : s[i] = t[i]
        BY <1>1, <3>1, <3>2
      <4> QED
        BY <1>4, <4>1, SameSequence
    <3>3. CASE ls < lt
      <4>1. ls + 1 \in 1 .. lt /\ ls + 1 > ls /\ (ls + 1) - 1 = ls
        BY <3>3
      <4>2. \A j \in 1 .. ls : j <= ls /\ s[j] = t[j]
        BY <3>1, <3>3
      <4> QED
        BY <1>1, <4>1, <4>2 DEF Precedes
    <3>4. CASE lt < ls
      <4>1. lt + 1 \in 1 .. ls /\ lt + 1 > lt /\ (lt + 1) - 1 = lt
        BY <3>4
      <4>2. \A j \in 1 .. lt : j <= lt /\ t[j] = s[j]
        BY <3>1, <3>4
      <4> QED
        BY <1>1, <4>1, <4>2 DEF Precedes
    <3> QED
      BY <3>2, <3>3, <3>4
  <2>2. CASE D # {}
    <3>1. D \in SUBSET Nat
      OBVIOUS
    <3>2. PICK i \in D : \A j \in D : i <= j
      <4> HIDE DEF D
      <4> QED
        BY <2>2, <3>1, LeastNatural
    <3>3. i \in 1 .. ls /\ i \in 1 .. lt /\ s[i] # t[i] /\ s[i] \in Int /\ t[i] \in Int
      BY <1>2
    <3>4. \A j \in 1 .. i - 1 : j <= ls /\ j <= lt /\ s[j] = t[j]
      <4> SUFFICES ASSUME NEW j \in 1 .. i - 1 PROVE j <= ls /\ j <= lt /\ s[j] = t[j]
        OBVIOUS
      <4>1. j \in 1 .. ls /\ j <= lt /\ ~(i <= j)
        BY <3>3
      <4>2. j \notin D
        BY <3>2, <4>1
      <4> QED
        BY <4>1, <4>2
    <3>5. CASE s[i] < t[i]
      BY <1>1, <3>3, <3>4, <3>5 DEF Precedes
    <3>6. CASE t[i] < s[i]
      BY <1>1, <3>3, <3>4, <3>6 DEF Precedes
    <3> QED
      BY <3>3, <3>5, <3>6
  <2> QED
    BY <2>1, <2>2
<1> QED
  BY <1>3, <1>4

(* What the comparison of the code means, for ints and for texts.          *)
LEMMA IntCompare ==
    ASSUME NEW col, col.type = "INT", NEW l \in Int, NEW r \in Int, NEW op \in Operators
    PROVE  Compare(IntOrder(l, r), op) <=> Holds(col, op, [int |-> l], [int |-> r])
<1>1. PICK v : v = [int |-> l]
  OBVIOUS
<1>2. PICK w : w = [int |-> r]
  OBVIOUS
<1>3. v.int = l /\ w.int = r /\ (v = w <=> l = r)
  BY <1>1, <1>2
<1>4. Less(col, v, w) <=> l < r
  BY <1>3 DEF Less
<1>5. Less(col, w, v) <=> r < l
  BY <1>3 DEF Less
<1>6. op \in {"=", "!=", ">", ">=", "<", "<="}
  BY DEF Operators
<1>7. PICK o \in {-1, 0, 1} : /\ o = IntOrder(l, r) /\ (o < 0 <=> l < r) /\ (o = 0 <=> l = r)
                              /\ (o > 0 <=> r < l)
  BY DEF IntOrder
<1>8. Compare(o, op) <=> Holds(col, op, v, w)
  BY <1>3, <1>4, <1>5, <1>6, <1>7 DEF Compare, Holds
<1> QED
  BY <1>1, <1>2, <1>7, <1>8

LEMMA TextCompare ==
    ASSUME NEW col, col.type # "INT", NEW s \in Seq(Chars), NEW t \in Seq(Chars),
           NEW op \in Operators
    PROVE  Compare(TextOrder(s, t), op) <=> Holds(col, op, [char |-> s], [char |-> t])
<1>1. PICK v : v = [char |-> s]
  OBVIOUS
<1>2. PICK w : w = [char |-> t]
  OBVIOUS
<1>3. v.char = s /\ w.char = t /\ (v = w <=> s = t)
  BY <1>1, <1>2
<1>4. Less(col, v, w) <=> Precedes(s, t)
  BY <1>3, PrecedesIsBefore DEF Less
<1>5. Less(col, w, v) <=> Precedes(t, s)
  BY <1>3, PrecedesIsBefore DEF Less
<1>6. op \in {"=", "!=", ">", ">=", "<", "<="}
  BY DEF Operators
<1>7. PICK o \in {-1, 0, 1} : /\ o = TextOrder(s, t) /\ (o < 0 <=> Precedes(s, t))
                              /\ (o = 0 <=> s = t) /\ (o > 0 <=> Precedes(t, s))
  <2>1. CASE s = t
    <3>1. TextOrder(s, t) = 0
      BY <2>1 DEF TextOrder
    <3>2. ~Precedes(s, t) /\ ~Precedes(t, s)
      BY <2>1, PrecedesIsOrder
    <3> QED
      BY <2>1, <3>1, <3>2
  <2>2. CASE s # t /\ Precedes(s, t)
    <3>1. TextOrder(s, t) = -1
      BY <2>2 DEF TextOrder
    <3>2. ~Precedes(t, s)
      BY <2>2, PrecedesIsOrder
    <3> QED
      BY <2>2, <3>1, <3>2
  <2>3. CASE s # t /\ ~Precedes(s, t)
    <3>1. TextOrder(s, t) = 1
      BY <2>3 DEF TextOrder
    <3>2. Precedes(t, s)
      BY <2>3, PrecedesIsOrder
    <3> QED
      BY <2>3, <3>1, <3>2
  <2> QED
    BY <2>1, <2>2, <2>3
<1>8. Compare(o, op) <=> Holds(col, op, v, w)
  BY <1>3, <1>4, <1>5, <1>6, <1>7 DEF Compare, Holds
<1> QED
  BY <1>1, <1>2, <1>7, <1>8

-----------------------------------------------------------------------------
(* What a SELECT makes of the rows, when this context appended all of them.*)

AllGiven ==
    /\ Settled /\ Len(given) = Len(Rows)
    /\ \A i \in DOMAIN given : FaithfulRow(given[i])

LEMMA BufferFacts ==
    ASSUME NEW row \in Seq(Bytes), NEW b \in Bytes
    PROVE  /\ Buffer(row, b) \in Seq(Bytes) /\ Len(Buffer(row, b)) >= Len(row)
           /\ \A k \in 1 .. Len(row) : Buffer(row, b)[k] = row[k]
<1>1. PICK n \in Nat : n = Len(row)
  OBVIOUS
<1>2. PICK m \in Int : m = MaxRowSize - n
  BY MachineAssumption
<1>3. PICK rest : rest = [i \in 1 .. m |-> b]
  OBVIOUS
<1>4. rest \in Seq(Bytes) /\ Len(rest) \in Nat
  <2>1. CASE m >= 0
    BY <1>3, <2>1
  <2>2. CASE m < 0
    <3>1. 1 .. m = {} /\ 1 .. 0 = {}
      BY <2>2
    <3>2. rest = [i \in 1 .. 0 |-> b]
      BY <1>3, <3>1
    <3> QED
      BY <3>2
  <2> QED
    BY <2>1, <2>2
<1>5. Buffer(row, b) = row \o rest
  BY <1>1, <1>2, <1>3 DEF Buffer
<1>6. /\ row \o rest \in Seq(Bytes) /\ Len(row \o rest) = Len(row) + Len(rest)
      /\ \A i \in 1 .. Len(row) : (row \o rest)[i] = row[i]
  BY <1>4, Joined
<1>7. Len(row \o rest) >= Len(row)
  BY <1>1, <1>4, <1>6
<1> QED
  BY <1>5, <1>6, <1>7

LEMMA BehindFacts == Behind \in SUBSET Bytes
BY MachineAssumption DEF Behind, Bytes

LEMMA SameId ==
    ASSUME NEW row \in Seq(Bytes), NEW buf \in Seq(Bytes), Len(row) >= IntBytes,
           Len(buf) >= Len(row), \A k \in 1 .. Len(row) : buf[k] = row[k]
    PROVE  RowId(buf) = RowId(row)
<1>1. IntBytes \in Nat
  BY MachineAssumption
<1>2. PICK n \in Nat, m \in Nat : n = Len(row) /\ m = Len(buf) /\ IntBytes <= n /\ n <= m
  OBVIOUS
<1>3. PICK a : a = SubSeq(row, 1, IntBytes)
  OBVIOUS
<1>4. PICK c : c = SubSeq(buf, 1, IntBytes)
  OBVIOUS
<1>5. /\ a \in Seq(Bytes) /\ Len(a) = IntBytes
      /\ \A i \in 1 .. IntBytes : a[i] = row[i]
  BY <1>1, <1>2, <1>3
<1>6. /\ c \in Seq(Bytes) /\ Len(c) = IntBytes
      /\ \A i \in 1 .. IntBytes : c[i] = buf[i]
  BY <1>1, <1>2, <1>4
<1>7. \A i \in 1 .. Len(c) : c[i] = a[i]
  BY <1>1, <1>2, <1>5, <1>6
<1>8. c = a
  BY <1>5, <1>6, <1>7, SameSequence
<1> QED
  BY <1>3, <1>4, <1>8 DEF RowId

LEMMA GivenRows ==
    ASSUME TableInv, StoreInv, AllGiven
    PROVE  /\ ctx.loaded /\ ProperInts /\ Aligned
           /\ given \in Seq(ValueLists) /\ Len(given) \in Nat
           /\ DOMAIN given = 1 .. Len(given) /\ Len(Rows) = Len(given)
           /\ DOMAIN Rows = 1 .. Len(given)
           /\ ctx.count = Len(given)
           /\ \A i \in 1 .. Len(given) :
                /\ FaithfulRow(given[i]) /\ Carries(Rows[i], given[i])
                /\ Rows[i] \in Seq(Bytes) /\ Len(Rows[i]) = ctx.rowSize /\ RowId(Rows[i]) = i
<1>1. ctx.loaded /\ ProperInts /\ Aligned /\ Settled
  BY DEF AllGiven, Settled
<1>2. given \in Seq(ValueLists)
  BY DEF StoreInv
<1>3. PICK n \in Nat : n = Len(given) /\ DOMAIN given = 1 .. n
  BY <1>2
<1>4. Len(Rows) = n
  BY <1>3 DEF AllGiven
<1>5. DOMAIN Rows = 1 .. n
  BY <1>1, <1>4, RowFacts
<1>6. RowsHold(Rows)
  BY <1>1 DEF StoreInv
<1>7. ctx.count = n /\ \A i \in 1 .. n : RowId(Rows[i]) = i
  BY <1>3, <1>4, <1>5, <1>6 DEF RowsHold
<1>8. \A i \in 1 .. n : FaithfulRow(given[i])
  BY <1>3 DEF AllGiven
<1>9. \A i \in 1 .. n : Rows[i] \in Seq(Bytes) /\ Len(Rows[i]) = ctx.rowSize
  BY <1>1, <1>4, RowFacts
<1>10. ASSUME NEW i \in 1 .. n PROVE Carries(Rows[i], given[i])
  <2>1. n - n + i = i
    OBVIOUS
  <2>2. Stored(i) = Rows[i]
    BY <1>3, <1>4, <2>1 DEF Stored
  <2>3. Carries(Stored(i), given[i])
    BY <1>1, <1>3, StoredCarries
  <2> QED
    BY <2>2, <2>3
<1> QED
  BY <1>1, <1>2, <1>3, <1>4, <1>5, <1>7, <1>8, <1>9, <1>10

LEMMA BufferCarries ==
    ASSUME TableInv, ctx.loaded, ProperInts, NEW row, NEW lits, Carries(row, lits), NEW b \in Bytes
    PROVE  Carries(Buffer(row, b), lits)
<1>1. PICK n \in Nat : n = Len(row) /\ row \in Seq(Bytes) /\ n >= ctx.rowSize
  BY DEF Carries
<1>2. PICK buf \in Seq(Bytes) : /\ buf = Buffer(row, b) /\ Len(buf) >= n
                                /\ \A k \in 1 .. n : buf[k] = row[k]
  BY <1>1, BufferFacts
<1>3. PICK e \in Nat : e = ctx.rowSize
  BY ColumnFacts
<1>4. Len(buf) >= ctx.rowSize
  <2>1. PICK m \in Nat : m = Len(buf)
    BY <1>2
  <2> QED
    BY <1>1, <1>2, <1>3, <2>1
<1>5. RowHas(buf, lits)
  <2> SUFFICES ASSUME NEW c \in 2 .. Len(ctx.columns),
                      NEW k \in 1 .. Len(ValueBytes(ctx.columns[c], lits[c - 1]))
               PROVE  buf[ctx.columns[c].offset + k] = ValueBytes(ctx.columns[c], lits[c - 1])[k]
    BY DEF RowHas
  <2>1. PICK v \in 1 .. Len(lits) : v = c - 1 /\ v + 1 = c
    <3>1. c - 1 \in DOMAIN lits /\ c = (c - 1) + 1 /\ lits \in Seq(Literal)
      BY CarriedFacts DEF Carries
    <3> QED
      BY <3>1
  <2>2. /\ Written(lits, v) \in Seq(Bytes)
        /\ Len(Written(lits, v)) <= ctx.columns[v + 1].size
    BY WrittenFacts DEF Carries
  <2>3. Written(lits, v) = ValueBytes(ctx.columns[c], lits[c - 1])
    BY <2>1 DEF Written
  <2>4. PICK o \in Nat, z \in Nat : o = ctx.columns[c].offset /\ z = ctx.columns[c].size /\ o + z <= e
    <3>1. c \in 1 .. Len(ctx.columns)
      BY ColumnFacts
    <3> QED
      BY <1>3, <3>1, ColumnFacts
  <2>5. k \in Nat /\ k >= 1 /\ k <= z
    <3>1. PICK x \in Seq(Bytes) : x = Written(lits, v)
      BY <2>2
    <3>2. PICK l \in Nat : l = Len(x) /\ l <= z
      BY <2>1, <2>2, <2>4, <3>1
    <3>3. k \in 1 .. l
      BY <2>3, <3>1, <3>2
    <3> QED
      BY <3>2, <3>3
  <2>6. o + k \in 1 .. n
    <3>1. o + k <= e /\ o + k >= 1
      <4>1. o + z <= e
        BY <2>4
      <4> QED
        BY ONLY <2>5, <4>1, o \in Nat, z \in Nat, e \in Nat
    <3> QED
      BY <1>1, <1>3, <2>5, <3>1
  <2>7. buf[o + k] = row[o + k]
    BY <1>2, <2>6
  <2>8. row[o + k] = ValueBytes(ctx.columns[c], lits[c - 1])[k]
    <3>1. \A j \in 1 .. Len(ValueBytes(ctx.columns[c], lits[c - 1])) :
            row[ctx.columns[c].offset + j] = ValueBytes(ctx.columns[c], lits[c - 1])[j]
      BY CarriedFacts
    <3> QED
      BY <2>4, <3>1
  <2> QED
    BY <2>4, <2>7, <2>8
<1> QED
  BY <1>2, <1>4, <1>5 DEF Carries

(* A cell that is printed is the value that was given.                     *)
LEMMA CellIsGiven ==
    ASSUME TableInv, StoreInv, AllGiven, NEW i \in 1 .. Len(given), NEW b \in Bytes,
           NEW c \in 1 .. Len(ctx.columns)
    PROVE  Cell(Buffer(Rows[i], b), ctx.columns[c]) = GivenValue(i, c)
<1>0. /\ ctx.loaded /\ ProperInts /\ FaithfulRow(given[i]) /\ Carries(Rows[i], given[i])
      /\ Rows[i] \in Seq(Bytes) /\ Len(Rows[i]) = ctx.rowSize /\ RowId(Rows[i]) = i
  BY GivenRows
<1>1. CASE c = 1
  <2>1. ctx.columns[1].type = "INT" /\ IntBytes <= ctx.rowSize
    BY <1>0, ColumnFacts
  <2>2. ReadInt(Buffer(Rows[i], b), ctx.columns[1]) = RowId(Buffer(Rows[i], b))
    BY <1>0, FirstColumnIsId
  <2>3. PICK row \in Seq(Bytes) : row = Rows[i] /\ Len(row) >= IntBytes /\ RowId(row) = i
    BY <1>0, <2>1, ColumnFacts, MachineAssumption
  <2>4. RowId(Buffer(row, b)) = RowId(row)
    BY <2>3, BufferFacts, SameId
  <2> QED
    BY <1>1, <2>1, <2>2, <2>3, <2>4 DEF Cell, GivenValue
<1>2. CASE c # 1
  <2>1. c \in 2 .. Len(ctx.columns)
    BY <1>0, <1>2, ColumnFacts
  <2>2. Carries(Buffer(Rows[i], b), given[i])
    BY <1>0, BufferCarries
  <2>3. c - 1 \in DOMAIN given[i] /\ c = (c - 1) + 1
    BY <1>0, <2>1, CarriedFacts
  <2>4. Faithful(ctx.columns[c], given[i][c - 1])
    BY <1>0, <2>3 DEF FaithfulRow
  <2>5. Cell(Buffer(Rows[i], b), ctx.columns[c]) = Value(ctx.columns[c], given[i][c - 1])
    BY <1>0, <2>1, <2>2, <2>4, CarriedCell
  <2> QED
    BY <1>2, <2>5 DEF GivenValue
<1> QED
  BY <1>1, <1>2

(* A WHERE chooses the rows that it means.                                 *)

LEMMA GivenValueTypes ==
    ASSUME TableInv, StoreInv, AllGiven, NEW i \in 1 .. Len(given), NEW c \in 1 .. Len(ctx.columns)
    PROVE  /\ ctx.columns[c].type = "INT" => \E x \in Int : GivenValue(i, c) = [int |-> x]
           /\ ctx.columns[c].type # "INT" => \E s \in Seq(Chars) : GivenValue(i, c) = [char |-> s]
<1>0. /\ ctx.loaded /\ ProperInts /\ FaithfulRow(given[i]) /\ Carries(Rows[i], given[i])
  BY GivenRows
<1>1. CASE c = 1
  <2>1. ctx.columns[1].type = "INT" /\ i \in Int
    BY <1>0, ColumnFacts
  <2>2. GivenValue(i, c) = [int |-> i]
    BY <1>1 DEF GivenValue
  <2> QED
    BY <1>1, <2>1, <2>2
<1>2. CASE c # 1
  <2>1. c \in 2 .. Len(ctx.columns)
    BY <1>0, <1>2, ColumnFacts
  <2>2. PICK lit \in Literal : lit = given[i][c - 1]
    BY <1>0, <2>1, CarriedFacts
  <2>3. GivenValue(i, c) = Value(ctx.columns[c], lit)
    BY <1>2, <2>2 DEF GivenValue
  <2>4. ASSUME ctx.columns[c].type = "INT" PROVE \E x \in Int : GivenValue(i, c) = [int |-> x]
    BY <2>3, <2>4, LiteralFacts DEF Value
  <2>5. ASSUME ctx.columns[c].type # "INT"
        PROVE  \E s \in Seq(Chars) : GivenValue(i, c) = [char |-> s]
    <3>1. c - 1 \in DOMAIN given[i] /\ c = (c - 1) + 1
      BY <1>0, <2>1, CarriedFacts
    <3>2. Faithful(ctx.columns[c], lit)
      BY <1>0, <2>2, <3>1 DEF FaithfulRow
    <3>3. Len(lit.text) < TempSize
      BY <2>5, <3>2 DEF Faithful
    <3>4. CharText(lit) = IF lit.type = "string" THEN SubSeq(lit.text, 2, Len(lit.text) - 1)
                          ELSE lit.text
      BY <3>3, FaithfulText
    <3>5. CharText(lit) \in Seq(Chars)
      BY CharTextFacts
    <3>6. GivenValue(i, c) = [char |-> CharText(lit)]
      BY <2>3, <2>5, <3>4 DEF Value
    <3> QED
      BY <3>5, <3>6
  <2> QED
    BY <2>4, <2>5
<1> QED
  BY <1>1, <1>2

LEMMA FaithfulNumber ==
    ASSUME NEW col, NEW lit \in Literal, col.type = "INT", Faithful(col, lit)
    PROVE  IntValue(lit) \in Int /\ Value(col, lit) = [int |-> IntValue(lit)]
<1>1. lit.num \in -IntMax - 1 .. IntMax
  BY DEF Faithful
<1>2. IntValue(lit) = lit.num /\ lit.num \in Int
  BY <1>1, LiteralFacts, IntValueFacts
<1> QED
  BY <1>2 DEF Value

LEMMA WhereMeans ==
    ASSUME TableInv, StoreInv, AllGiven, NEW where \in Wheres, FaithfulWhere(where),
           ~WhereFails(ctx.columns, where),
           NEW i \in 1 .. Len(given), NEW b \in Bytes
    PROVE  Matches(ctx.columns, Buffer(Rows[i], b), where) <=> MeantBy(i, where)
<1>1. CASE where.kind = "none"
  BY <1>1 DEF Matches, MeantBy
<1>2. CASE where.kind # "none"
  <2>0. ctx.loaded
    BY GivenRows
  <2>1. PICK c : c = FindColumn(ctx.columns, where.name)
    OBVIOUS
  <2>2. c # 0 /\ \A lit \in WhereValues(where) : Faithful(ctx.columns[c], lit)
    BY <1>2, <2>1 DEF FaithfulWhere
  <2>3. c \in 1 .. Len(ctx.columns)
    <3>1. PICK cols \in Seq(ColumnSet) : cols = ctx.columns
      BY <2>0, ColumnFacts
    <3>2. c = FindColumn(cols, where.name)
      BY <2>1, <3>1
    <3>3. c \in 1 .. Len(cols)
      BY <2>2, <3>2, FindColumnFacts
    <3> QED
      BY <3>1, <3>3
  <2>4. PICK buf : buf = Buffer(Rows[i], b)
    OBVIOUS
  <2>5. PICK col : col = ctx.columns[c]
    OBVIOUS
  <2>6. Cell(buf, col) = GivenValue(i, c)
    BY <2>3, <2>4, <2>5, CellIsGiven
  <2>7. where # NoWhere
    BY <1>2 DEF NoWhere
  <2>8. CASE where.kind = "compare"
    <3>1. PICK lit \in Literal, op \in Operators : lit = where.lit /\ op = where.op
      BY <2>7, <2>8, StatementAssumption
    <3>2. Faithful(col, lit)
      BY <2>2, <2>5, <2>8, <3>1 DEF WhereValues
    <3>3. MeantBy(i, where) <=> Holds(col, op, GivenValue(i, c), Value(col, lit))
      BY <1>2, <2>1, <2>5, <2>8, <3>1 DEF MeantBy
    <3>4. CASE col.type = "INT"
      <4>1. PICK x \in Int : GivenValue(i, c) = [int |-> x]
        BY <2>3, <2>5, <3>4, GivenValueTypes
      <4>2. Cell(buf, col) = [int |-> ReadInt(buf, col)]
        BY <3>4 DEF Cell
      <4>3. ReadInt(buf, col) = x
        <5>1. [int |-> ReadInt(buf, col)].int = [int |-> x].int
          BY <2>6, <4>1, <4>2
        <5> QED
          BY <5>1
      <4>4. PICK y \in Int : y = IntValue(lit) /\ Value(col, lit) = [int |-> y]
        BY <3>2, <3>4, FaithfulNumber
      <4>5. Compare(IntOrder(x, y), op) <=> Holds(col, op, [int |-> x], [int |-> y])
        BY <3>4, IntCompare
      <4>6. Matches(ctx.columns, buf, where) <=> Compare(IntOrder(x, y), op)
        BY <1>2, <2>1, <2>5, <2>8, <3>1, <3>4, <4>3, <4>4 DEF Matches
      <4>7. MeantBy(i, where) <=> Holds(col, op, [int |-> x], [int |-> y])
        BY <3>3, <4>1, <4>4
      <4> QED
        BY ONLY <2>4, <4>5, <4>6, <4>7, Zenon
    <3>5. CASE col.type # "INT"
      <4>1. PICK s \in Seq(Chars) : GivenValue(i, c) = [char |-> s]
        BY <2>3, <2>5, <3>5, GivenValueTypes
      <4>2. Cell(buf, col) = [char |-> ReadChar(buf, col)]
        BY <3>5 DEF Cell
      <4>3. ReadChar(buf, col) = s
        <5>1. [char |-> ReadChar(buf, col)].char = [char |-> s].char
          BY <2>6, <4>1, <4>2
        <5> QED
          BY <5>1
      <4>4. PICK t \in Seq(Chars) : t = CharText(lit)
        BY CharTextFacts
      <4>5. StripQuotes(Copied(lit.text)) = t
        BY <4>4, ComparedAsWritten
      <4>6. Value(col, lit) = [char |-> t]
        <5>1. Len(lit.text) < TempSize
          BY <3>2, <3>5 DEF Faithful
        <5>2. t = IF lit.type = "string" THEN SubSeq(lit.text, 2, Len(lit.text) - 1)
                  ELSE lit.text
          BY <4>4, <5>1, FaithfulText
        <5> QED
          BY <3>5, <5>2 DEF Value
      <4>7. Compare(TextOrder(s, t), op) <=> Holds(col, op, [char |-> s], [char |-> t])
        BY <3>5, TextCompare
      <4>8. Matches(ctx.columns, buf, where) <=> Compare(TextOrder(s, t), op)
        BY <1>2, <2>1, <2>5, <2>8, <3>1, <3>5, <4>3, <4>5 DEF Matches
      <4>9. MeantBy(i, where) <=> Holds(col, op, [char |-> s], [char |-> t])
        BY <3>3, <4>1, <4>6
      <4> QED
        BY ONLY <2>4, <4>7, <4>8, <4>9, Zenon
    <3> QED
      BY <3>4, <3>5
  <2>9. CASE where.kind = "between"
    <3>1. PICK lo \in Literal, hi \in Literal : lo = where.lower /\ hi = where.upper
      BY <2>7, <2>9, StatementAssumption
    <3>2. Faithful(col, lo) /\ Faithful(col, hi)
      BY <2>2, <2>5, <2>9, <3>1 DEF WhereValues
    <3>3. col.type = "INT"
      BY <1>2, <2>1, <2>2, <2>5, <2>9 DEF WhereFails
    <3>4. PICK x \in Int : GivenValue(i, c) = [int |-> x]
      BY <2>3, <2>5, <3>3, GivenValueTypes
    <3>5. ReadInt(buf, col) = x
      <4>1. Cell(buf, col) = [int |-> ReadInt(buf, col)]
        BY <3>3 DEF Cell
      <4>2. [int |-> ReadInt(buf, col)].int = [int |-> x].int
        BY <2>6, <3>4, <4>1
      <4> QED
        BY <4>2
    <3>6. PICK y \in Int : y = IntValue(lo) /\ Value(col, lo) = [int |-> y]
      BY <3>2, <3>3, FaithfulNumber
    <3>7. PICK z \in Int : z = IntValue(hi) /\ Value(col, hi) = [int |-> z]
      BY <3>2, <3>3, FaithfulNumber
    <3>8. Matches(ctx.columns, buf, where) <=> y <= x /\ x <= z
      BY <1>2, <2>1, <2>5, <2>9, <3>1, <3>5, <3>6, <3>7 DEF Matches, Between
    <3>9. MeantBy(i, where) <=>
            /\ Holds(col, ">=", GivenValue(i, c), Value(col, lo))
            /\ Holds(col, "<=", GivenValue(i, c), Value(col, hi))
      BY <1>2, <2>1, <2>5, <2>9, <3>1 DEF MeantBy
    <3>10. PICK v, w, u : v = [int |-> x] /\ w = [int |-> y] /\ u = [int |-> z]
      OBVIOUS
    <3>11. v.int = x /\ w.int = y /\ u.int = z
      BY <3>10
    <3>12. (Less(col, v, w) <=> x < y) /\ (Less(col, u, v) <=> z < x)
      BY <3>3, <3>11 DEF Less
    <3>13. (Holds(col, ">=", v, w) <=> ~Less(col, v, w)) /\ (Holds(col, "<=", v, u) <=> ~Less(col, u, v))
      BY DEF Holds
    <3>14. MeantBy(i, where) <=> ~(x < y) /\ ~(z < x)
      BY <3>4, <3>6, <3>7, <3>9, <3>10, <3>12, <3>13
    <3> QED
      BY <2>4, <3>8, <3>14
  <2> QED
    BY <2>7, <2>8, <2>9, StatementAssumption
<1> QED
  BY <1>1, <1>2

-----------------------------------------------------------------------------
(* A SELECT prints what it means.                                          *)

LEMMA MeantList ==
    ASSUME TableInv, ctx.loaded, NEW list \in Lists, ~Unknown(list)
    PROVE  /\ MeantColumns(list) = ListColumns(list)
           /\ DOMAIN ListColumns(list) = 1 .. Len(ListColumns(list))
           /\ \A k \in DOMAIN ListColumns(list) :
                ListColumns(list)[k] \in 1 .. Len(ctx.columns)
<1>1. PICK cols \in Seq(ColumnSet) : cols = ctx.columns
  BY ColumnFacts
<1>2. DOMAIN cols = 1 .. Len(cols) /\ Len(cols) \in Nat
  OBVIOUS
<1>3. /\ DOMAIN ListColumns(list) = 1 .. Len(ListColumns(list))
      /\ \A k \in 1 .. Len(ListColumns(list)) : ListColumns(list)[k] \in 0 .. Len(cols)
  BY <1>1, ListFacts
<1>4. \A k \in DOMAIN ListColumns(list) : ListColumns(list)[k] # 0
  BY DEF Unknown
<1>5. \A k \in DOMAIN ListColumns(list) : ListColumns(list)[k] \in 1 .. Len(cols)
  BY <1>2, <1>3, <1>4
<1>6. MeantColumns(list) = ListColumns(list)
  <2>1. CASE list = <<"*">>
    BY <2>1 DEF MeantColumns, ListColumns
  <2>2. CASE list # <<"*">>
    <3>1. ListColumns(list) = [k \in DOMAIN list |-> FindColumn(cols, list[k])]
      BY <1>1, <2>2 DEF ListColumns
    <3>2. MeantColumns(list) =
            [k \in DOMAIN list |-> Min({c \in DOMAIN cols : cols[c].name = list[k]})]
      BY <1>1, <2>2 DEF MeantColumns
    <3>3. ASSUME NEW k \in DOMAIN list
          PROVE  FindColumn(cols, list[k]) = Min({c \in DOMAIN cols : cols[c].name = list[k]})
      <4>1. FindColumn(cols, list[k]) # 0
        BY <1>4, <3>1
      <4> DEFINE found == {c \in DOMAIN cols : cols[c].name = list[k]}
      <4>2. FindColumn(cols, list[k]) =
              IF found = {} THEN 0 ELSE CHOOSE i \in found : \A j \in found : i <= j
        BY DEF FindColumn
      <4>3. Min(found) = CHOOSE i \in found : \A j \in found : i <= j
        BY DEF Min
      <4> HIDE DEF found
      <4>4. FindColumn(cols, list[k]) = Min(found)
        BY ONLY <4>1, <4>2, <4>3, Zenon
      <4> QED
        BY <4>4 DEF found
    <3> QED
      BY <3>1, <3>2, <3>3
  <2> QED
    BY <2>1, <2>2
<1> QED
  BY <1>1, <1>3, <1>5, <1>6

MeantRow(i, list) ==
    [k \in DOMAIN MeantColumns(list) |-> GivenValue(i, MeantColumns(list)[k])]

LEMMA PrintedAsMeant ==
    ASSUME TableInv, StoreInv, AllGiven, NEW list \in Lists, ~Unknown(list),
           NEW i \in 1 .. Len(given), NEW b \in Bytes
    PROVE  Printed(Buffer(Rows[i], b), list) = MeantRow(i, list)
<1>0. ctx.loaded
  BY GivenRows
<1>1. PICK lc : lc = ListColumns(list)
  OBVIOUS
<1>2. MeantColumns(list) = lc /\ \A k \in DOMAIN lc : lc[k] \in 1 .. Len(ctx.columns)
  BY <1>0, <1>1, MeantList
<1>3. PICK buf : buf = Buffer(Rows[i], b)
  OBVIOUS
<1>4. \A k \in DOMAIN lc : Cell(buf, ctx.columns[lc[k]]) = GivenValue(i, lc[k])
  BY <1>2, <1>3, CellIsGiven
<1>5. Printed(buf, list) = [k \in DOMAIN lc |-> Cell(buf, ctx.columns[lc[k]])]
  BY <1>1 DEF Printed
<1>6. MeantRow(i, list) = [k \in DOMAIN lc |-> GivenValue(i, lc[k])]
  BY <1>2 DEF MeantRow
<1> QED
  BY <1>3, <1>4, <1>5, <1>6

(* The rows that a WHERE means, as positions in the file.                  *)
MeantRows(where) ==
    Kept([i \in DOMAIN given |-> i], {i \in DOMAIN given : MeantBy(i, where)})

LEMMA MeantAnswerRows ==
    ASSUME NEW list, NEW where
    PROVE  MeantAnswer(list, where) =
             [r \in DOMAIN MeantRows(where) |-> MeantRow(MeantRows(where)[r], list)]
BY DEF MeantAnswer, MeantRows, MeantRow

LEMMA ScanMeans ==
    ASSUME TableInv, StoreInv, AllGiven, NEW list \in Lists, ~Unknown(list),
           NEW where \in Wheres, FaithfulWhere(where),
           Rows = << >> \/ ~WhereFails(ctx.columns, where), NEW b \in Bytes
    PROVE  LET rows == [i \in DOMAIN Rows |-> Buffer(Rows[i], b)]
               found == Kept(rows, {i \in DOMAIN rows : Matches(ctx.columns, rows[i], where)})
           IN  [i \in DOMAIN found |-> Printed(found[i], list)] = MeantAnswer(list, where)
<1>1. PICK n \in Nat : /\ n = Len(given) /\ DOMAIN given = 1 .. n
                       /\ DOMAIN Rows = 1 .. n /\ Len(Rows) = n
  BY GivenRows
<1>2. PICK rows : rows = [i \in 1 .. n |-> Buffer(Rows[i], b)]
  OBVIOUS
<1>3. \A i \in 1 .. n : rows[i] = Buffer(Rows[i], b) /\ rows[i] \in Seq(Bytes)
  BY <1>1, <1>2, GivenRows, BufferFacts
<1>4. rows \in Seq(Seq(Bytes)) /\ DOMAIN rows = 1 .. n /\ Len(rows) = n
  BY <1>2, <1>3
<1>5. PICK T : T = {i \in 1 .. n : Matches(ctx.columns, rows[i], where)}
  OBVIOUS
<1>6. T = {i \in 1 .. n : MeantBy(i, where)}
  <2>1. ASSUME NEW i \in 1 .. n
        PROVE  Matches(ctx.columns, rows[i], where) <=> MeantBy(i, where)
    <3>1. ~WhereFails(ctx.columns, where)
      <4>1. Rows # << >>
        BY <1>1, <2>1
      <4> QED
        BY <4>1
    <3>2. i \in 1 .. Len(given)
      BY <1>1
    <3>3. Matches(ctx.columns, Buffer(Rows[i], b), where) <=> MeantBy(i, where)
      BY <3>1, <3>2, WhereMeans
    <3>4. rows[i] = Buffer(Rows[i], b)
      BY <1>3
    <3> QED
      BY ONLY <3>3, <3>4, Zenon
  <2> QED
    BY <1>5, <2>1
<1>7. PICK p : p = Kept([i \in 1 .. n |-> i], T)
  OBVIOUS
<1>8. PICK found : found = Kept(rows, T)
  OBVIOUS
<1>9. /\ p \in Seq(1 .. n) /\ found \in Seq(Seq(Bytes)) /\ Len(found) = Len(p)
      /\ \A r \in 1 .. Len(p) : p[r] \in 1 .. n /\ found[r] = rows[p[r]]
  <2>1. PICK S : S = Seq(Bytes)
    OBVIOUS
  <2>2. rows \in Seq(S)
    BY <1>4, <2>1
  <2>3. PICK q : q = Kept([i \in 1 .. Len(rows) |-> i], T)
    OBVIOUS
  <2>4. /\ Kept(rows, T) \in Seq(S)
        /\ q \in Seq(1 .. Len(rows))
        /\ Len(Kept(rows, T)) = Len(q)
        /\ \A r \in 1 .. Len(q) : q[r] \in 1 .. Len(rows) /\ Kept(rows, T)[r] = rows[q[r]]
    BY <2>2, <2>3, KeptMap
  <2>5. q = p
    BY ONLY <1>4, <1>7, <2>3, Zenon
  <2> QED
    BY ONLY <1>4, <1>8, <2>1, <2>4, <2>5, Zenon
<1>10. MeantRows(where) = p
  BY <1>1, <1>6, <1>7 DEF MeantRows
<1>11. DOMAIN found = 1 .. Len(p) /\ DOMAIN p = 1 .. Len(p)
  BY <1>9
<1>12. \A r \in 1 .. Len(p) : Printed(found[r], list) = MeantRow(p[r], list)
  <2> SUFFICES ASSUME NEW r \in 1 .. Len(p)
               PROVE  Printed(found[r], list) = MeantRow(p[r], list)
    OBVIOUS
  <2>1. PICK i \in 1 .. n : i = p[r]
    BY <1>9
  <2>2. found[r] = Buffer(Rows[i], b)
    BY <1>3, <1>9, <2>1
  <2>3. Printed(Buffer(Rows[i], b), list) = MeantRow(i, list)
    <3>1. i \in 1 .. Len(given)
      BY <1>1
    <3> QED
      BY <3>1, PrintedAsMeant
  <2> QED
    BY ONLY <2>1, <2>2, <2>3, Zenon
<1>13. MeantAnswer(list, where) = [r \in 1 .. Len(p) |-> MeantRow(p[r], list)]
  BY <1>10, <1>11, MeantAnswerRows
<1>14. [i \in DOMAIN found |-> Printed(found[i], list)] = MeantAnswer(list, where)
  BY <1>11, <1>12, <1>13
<1>15. [i \in DOMAIN Rows |-> Buffer(Rows[i], b)] = rows
  BY <1>1, <1>2
<1>16. {i \in DOMAIN rows : Matches(ctx.columns, rows[i], where)} = T
  BY <1>4, <1>5
<1> QED
  BY ONLY <1>8, <1>14, <1>15, <1>16, Zenon

(* Of the positions 1 .. n only j is kept.                                 *)
LEMMA KeptSingle ==
    ASSUME NEW n \in Nat, NEW T, NEW j \in Int, \A i \in 1 .. n : i \in T <=> i = j
    PROVE  Kept([i \in 1 .. n |-> i], T) = IF j \in 1 .. n THEN <<j>> ELSE << >>
<1> DEFINE P(m) == [i \in 1 .. m |-> i]
           N == {m \in 0 .. n : Kept(P(m), T) = IF j \in 1 .. m THEN <<j>> ELSE << >>}
<1>1. 0 \in N
  <2>1. P(0) = << >> /\ j \notin 1 .. 0
    OBVIOUS
  <2>2. Kept(<< >>, T) = << >>
    BY KeptNothing
  <2> QED
    BY <2>1, <2>2
<1>2. \A m \in 0 .. n - 1 : m \in N => m + 1 \in N
  <2> SUFFICES ASSUME NEW m \in 0 .. n - 1, m \in N PROVE m + 1 \in N
    OBVIOUS
  <2>1. PICK s : s = P(m)
    OBVIOUS
  <2>2. PICK t : t = P(m + 1)
    OBVIOUS
  <2>3. /\ s \in Seq(Int) /\ Len(s) = m /\ t \in Seq(Int) /\ Len(t) = m + 1
        /\ \A i \in 1 .. m : t[i] = s[i]
        /\ t[m + 1] = m + 1
    BY <2>1, <2>2
  <2>4. /\ Len(t) \in T => Kept(t, T) = Append(Kept(s, T), t[Len(t)])
        /\ Len(t) \notin T => Kept(t, T) = Kept(s, T)
    <3>1. \A i \in 1 .. Len(s) : t[i] = s[i] /\ (i \in T <=> i \in T)
      BY <2>3
    <3>2. Len(t) = Len(s) + 1
      BY <2>3
    <3>3. PICK S : S = Int
      OBVIOUS
    <3>4. s \in Seq(S) /\ t \in Seq(S)
      BY <2>3, <3>3
    <3> QED
      BY ONLY <3>1, <3>2, <3>4, KeptStep
  <2>5. Kept(s, T) = IF j \in 1 .. m THEN <<j>> ELSE << >>
    BY <2>1
  <2>6. m + 1 \in T <=> m + 1 = j
    OBVIOUS
  <2>7. CASE m + 1 = j
    <3>1. Kept(s, T) = << >> /\ Kept(t, T) = Append(Kept(s, T), j)
      BY <2>3, <2>4, <2>5, <2>6, <2>7
    <3>2. Append(<< >>, j) = <<j>>
      OBVIOUS
    <3>3. Kept(t, T) = <<j>> /\ j \in 1 .. m + 1
      BY <2>7, <3>1, <3>2
    <3> QED
      BY <2>2, <3>3
  <2>8. CASE m + 1 # j
    <3>1. Kept(t, T) = Kept(s, T)
      BY <2>3, <2>4, <2>6, <2>8
    <3>2. j \in 1 .. m <=> j \in 1 .. m + 1
      BY <2>8
    <3>3. Kept(t, T) = IF j \in 1 .. m + 1 THEN <<j>> ELSE << >>
      BY ONLY <2>5, <3>1, <3>2, Zenon
    <3> QED
      BY <2>2, <3>3
  <2> QED
    BY <2>7, <2>8
<1>3. \A m \in 0 .. n : m \in N
  <2> HIDE DEF N
  <2> QED
    BY <1>1, <1>2, Induction
<1>4. n \in N
  <2> HIDE DEF N
  <2> QED
    BY <1>3
<1> QED
  BY <1>4

LEMMA IdMeans ==
    ASSUME TableInv, StoreInv, AllGiven, NEW list \in Lists, NEW where \in Wheres,
           ById(where), FaithfulWhere(where), NEW id, id = IntValue(where.lit)
    PROVE  /\ id \in DOMAIN ctx.index <=> id \in 1 .. Len(given)
           /\ id \in 1 .. Len(given) => ctx.index[id] = (id - 1) * ctx.rowSize
           /\ MeantAnswer(list, where) =
                IF id \in 1 .. Len(given) THEN <<MeantRow(id, list)>> ELSE << >>
<1>0. ctx.loaded /\ Aligned
  BY GivenRows
<1>1. PICK n \in Nat : /\ n = Len(given) /\ DOMAIN given = 1 .. n
                       /\ DOMAIN Rows = 1 .. n /\ Len(Rows) = n /\ ctx.count = n
                       /\ \A i \in 1 .. n : RowId(Rows[i]) = i
  BY GivenRows
<1>2. where.kind = "compare" /\ where.name = "id" /\ where.op = "=" /\ where.lit.type = "number"
  BY DEF ById
<1>3. PICK lit \in Literal : lit = where.lit
  <2>1. where # NoWhere
    BY <1>2 DEF NoWhere
  <2> QED
    BY <1>2, <2>1, StatementAssumption
<1>4. FindColumn(ctx.columns, "id") = 1
  BY <1>0, FirstColumnIsId
<1>5. PICK col : col = ctx.columns[1] /\ col.type = "INT"
  BY <1>0, ColumnFacts
<1>6. Faithful(col, lit)
  BY <1>2, <1>3, <1>4, <1>5 DEF FaithfulWhere, WhereValues
<1>7. id \in Int /\ Value(col, lit) = [int |-> id]
  BY <1>3, <1>5, <1>6, FaithfulNumber
<1>8. \A i \in 1 .. n : MeantBy(i, where) <=> i = id
  <2> SUFFICES ASSUME NEW i \in 1 .. n PROVE MeantBy(i, where) <=> i = id
    OBVIOUS
  <2>1. GivenValue(i, 1) = [int |-> i]
    BY DEF GivenValue
  <2>2. MeantBy(i, where) <=> Holds(col, "=", GivenValue(i, 1), Value(col, lit))
    BY <1>2, <1>3, <1>4, <1>5 DEF MeantBy
  <2>3. PICK v, w : v = [int |-> i] /\ w = [int |-> id]
    OBVIOUS
  <2>4. Holds(col, "=", v, w) <=> v = w
    BY DEF Holds
  <2>5. v = w <=> i = id
    <3>1. v.int = i /\ w.int = id
      BY <2>3
    <3> QED
      BY <2>3, <3>1
  <2>6. GivenValue(i, 1) = v /\ Value(col, lit) = w
    BY ONLY <1>7, <2>1, <2>3, Zenon
  <2> QED
    BY ONLY <2>2, <2>4, <2>5, <2>6, Zenon
<1>9. PICK T : T = {i \in 1 .. n : MeantBy(i, where)}
  OBVIOUS
<1>10. \A i \in 1 .. n : i \in T <=> i = id
  BY <1>8, <1>9
<1>11. Kept([i \in 1 .. n |-> i], T) = IF id \in 1 .. n THEN <<id>> ELSE << >>
  BY <1>7, <1>10, KeptSingle
<1>12. MeantRows(where) = IF id \in 1 .. n THEN <<id>> ELSE << >>
  <2>1. MeantRows(where) = Kept([i \in 1 .. n |-> i], T)
    BY <1>1, <1>9 DEF MeantRows
  <2> QED
    BY ONLY <1>11, <2>1, Zenon
<1>13. MeantAnswer(list, where) = IF id \in 1 .. n THEN <<MeantRow(id, list)>> ELSE << >>
  <2>1. PICK p : p = MeantRows(where)
    OBVIOUS
  <2>2. MeantAnswer(list, where) = [r \in DOMAIN p |-> MeantRow(p[r], list)]
    BY <2>1, MeantAnswerRows
  <2>3. CASE id \in 1 .. n
    <3>1. p = <<id>>
      BY <1>12, <2>1, <2>3
    <3>2. DOMAIN p = 1 .. 1 /\ p[1] = id
      BY <3>1
    <3>3. MeantAnswer(list, where) = [r \in 1 .. 1 |-> MeantRow(id, list)]
      BY <2>2, <3>2
    <3>4. [r \in 1 .. 1 |-> MeantRow(id, list)] = <<MeantRow(id, list)>>
      OBVIOUS
    <3> QED
      BY <2>3, <3>3, <3>4
  <2>4. CASE id \notin 1 .. n
    <3>1. p = << >>
      BY <1>12, <2>1, <2>4
    <3>2. DOMAIN p = 1 .. 0 /\ 1 .. 0 = {}
      BY <3>1
    <3>3. MeantAnswer(list, where) = << >>
      BY <2>2, <3>2
    <3> QED
      BY <2>4, <3>3
  <2> QED
    BY <2>3, <2>4
<1>14. DOMAIN ctx.index = 1 .. n /\ \A i \in 1 .. n : ctx.index[i] = (i - 1) * ctx.rowSize
  <2>1. Indexed(Rows)
    BY <1>0 DEF StoreInv, RowsHold
  <2>2. /\ DOMAIN ctx.index = {RowId(Rows[i]) : i \in 1 .. n}
        /\ \A i \in 1 .. n : ctx.index[RowId(Rows[i])] = (i - 1) * ctx.rowSize
    BY <1>1, <2>1 DEF Indexed
  <2>3. {RowId(Rows[i]) : i \in 1 .. n} = 1 .. n
    BY <1>1
  <2> QED
    BY <1>1, <2>2, <2>3
<1> QED
  BY <1>1, <1>13, <1>14

LEMMA RowAtOffset ==
    ASSUME TableInv, StoreInv, ctx.loaded, NEW i \in 1 .. Len(Rows),
           NEW at, at = (i - 1) * ctx.rowSize
    PROVE  SubSeq(Content, at + 1, at + ctx.rowSize) = Rows[i]
<1>1. PICK z \in Nat \ {0} : z = ctx.rowSize
  BY DEF TableInv
<1>2. PICK s \in Seq(Bytes) : s = Content
  BY ContentFacts DEF StoreInv
<1>3. Rows = Chop(s, z) /\ Len(Rows) = Len(s) \div z
  BY <1>1, <1>2, RowFacts
<1>4. PICK m \in Nat : m = Len(s) \div z
  BY <1>2, ChopFacts
<1>5. i \in 1 .. m
  BY <1>3, <1>4
<1>6. Chop(s, z)[i] = SubSeq(s, (i - 1) * z + 1, i * z)
  BY <1>4, <1>5, ChopFacts
<1>7. (i - 1) * z + z = i * z
  BY <1>5
<1>8. at = (i - 1) * z
  BY <1>1
<1> QED
  BY ONLY <1>1, <1>2, <1>3, <1>6, <1>7, <1>8, Zenon

(* A definition of its own for what SelectsByMeaning says of an answer.    *)
Meant(list, where, out) ==
    AllGiven /\ FaithfulWhere(where) => out = MeantAnswer(list, where)

LEMMA MeantForm ==
    SelectsByMeaning <=>
      (answer.kind = "select" /\ answer.ok /\ pc = "idle" =>
         Meant(answer.list, answer.where, answer.out))
BY DEF SelectsByMeaning, Meant, AllGiven

LEMMA SelectMeant ==
    ASSUME TableInv, StoreInv, NEW list \in Lists, NEW where \in Wheres,
           Select(list, where), pc' = "idle"
    PROVE  \E ok, out : /\ answer' = Answer("select", ok, list, where, out)
                        /\ ok => Meant(list, where, out)
<1>1. ~SelectUndefined(list, where)
  BY DEF SelectUndefined, Undefined
<1>2. CASE SelectFails(list, where)
  <2>1. answer' = Answer("select", FALSE, list, where, << >>)
    BY <1>2 DEF SelectFails, Return
  <2> QED
    BY <2>1
<1>3. CASE SelectById(list, where)
  <2>0. ctx.loaded /\ ~Unknown(list) /\ ById(where)
    BY <1>3 DEF SelectById, Selecting, TableInv
  <2>1. PICK id : id = IntValue(where.lit)
    OBVIOUS
  <2>2. PICK at : at = ctx.index[id]
    OBVIOUS
  <2>3. CASE id \notin DOMAIN ctx.index
    <3>1. answer' = Answer("select", TRUE, list, where, << >>)
      BY <1>3, <2>1, <2>3 DEF SelectById, Return, InIndex
    <3>2. ASSUME AllGiven, FaithfulWhere(where) PROVE << >> = MeantAnswer(list, where)
      BY <2>0, <2>1, <2>3, <3>2, IdMeans
    <3>3. Meant(list, where, << >>)
      BY <3>2 DEF Meant
    <3> QED
      BY <3>1, <3>3
  <2>4. CASE id \in DOMAIN ctx.index /\ ~(at + ctx.rowSize <= Len(Content))
    <3>1. answer' = Answer("select", FALSE, list, where, << >>)
      BY <1>3, <2>1, <2>2, <2>4 DEF SelectById, Return, InIndex, WholeRow, At
    <3> QED
      BY <3>1
  <2>5. CASE id \in DOMAIN ctx.index /\ at + ctx.rowSize <= Len(Content)
    <3>1. PICK b \in Behind :
            answer' = Answer("select", TRUE, list, where,
              <<Printed(Buffer(SubSeq(Content, at + 1, at + ctx.rowSize), b), list)>>)
      BY <1>3, <2>1, <2>2, <2>5 DEF SelectById, Return, InIndex, WholeRow, At, RowAt
    <3>2. PICK out :
            out = <<Printed(Buffer(SubSeq(Content, at + 1, at + ctx.rowSize), b), list)>>
      OBVIOUS
    <3>3. ASSUME AllGiven, FaithfulWhere(where) PROVE out = MeantAnswer(list, where)
      <4>1. /\ id \in 1 .. Len(given) /\ at = (id - 1) * ctx.rowSize
            /\ MeantAnswer(list, where) = <<MeantRow(id, list)>>
        BY <2>0, <2>1, <2>2, <2>5, <3>3, IdMeans
      <4>2. id \in 1 .. Len(Rows)
        BY <3>3, <4>1 DEF AllGiven
      <4>3. SubSeq(Content, at + 1, at + ctx.rowSize) = Rows[id]
        BY <2>0, <4>1, <4>2, RowAtOffset
      <4>4. b \in Bytes
        BY BehindFacts
      <4>5. Printed(Buffer(Rows[id], b), list) = MeantRow(id, list)
        BY <2>0, <3>3, <4>1, <4>4, PrintedAsMeant
      <4> QED
        BY ONLY <3>2, <4>1, <4>3, <4>5, Zenon
    <3>4. Meant(list, where, out)
      BY <3>3 DEF Meant
    <3> QED
      BY <3>1, <3>2, <3>4
  <2> QED
    BY <2>3, <2>4, <2>5
<1>4. CASE SelectScan(list, where)
  <2>0. /\ ctx.loaded /\ ~Unknown(list)
        /\ Rows = << >> \/ ~WhereFails(ctx.columns, where)
    BY <1>4 DEF SelectScan, Selecting, TableInv, Rows
  <2>1. PICK b \in Behind :
          LET rows == [i \in DOMAIN Rows |-> Buffer(Rows[i], b)]
              found == Kept(rows, {i \in DOMAIN rows : Matches(ctx.columns, rows[i], where)})
          IN  answer' = Answer("select", TRUE, list, where,
                               [i \in DOMAIN found |-> Printed(found[i], list)])
    BY <1>4 DEF SelectScan, Return, Rows, Scanned, Found
  <2> DEFINE rows == [i \in DOMAIN Rows |-> Buffer(Rows[i], b)]
             found == Kept(rows, {i \in DOMAIN rows : Matches(ctx.columns, rows[i], where)})
  <2>2. PICK out : out = [i \in DOMAIN found |-> Printed(found[i], list)]
    OBVIOUS
  <2>3. answer' = Answer("select", TRUE, list, where, out)
    BY <2>1, <2>2
  <2>4. ASSUME AllGiven, FaithfulWhere(where) PROVE out = MeantAnswer(list, where)
    <3>1. b \in Bytes
      BY BehindFacts
    <3>2. [i \in DOMAIN found |-> Printed(found[i], list)] = MeantAnswer(list, where)
      BY <2>0, <2>4, <3>1, ScanMeans
    <3> HIDE DEF found
    <3> QED
      BY <2>2, <3>2
  <2> HIDE DEF found, rows
  <2>5. Meant(list, where, out)
    BY <2>4 DEF Meant
  <2> QED
    BY <2>3, <2>5
<1> QED
  BY <1>1, <1>2, <1>3, <1>4 DEF Select

LEMMA SameMeaning ==
    ASSUME UNCHANGED <<ctx, data, given>>, NEW list, NEW where, NEW out
    PROVE  Meant(list, where, out)' <=> Meant(list, where, out)
<1>1. Content' = Content /\ Rows' = Rows /\ Aligned' = Aligned /\ ProperInts' = ProperInts
  BY DEF Content, Rows, RowsOf, Aligned, ProperInts
<1>2. AllGiven' <=> AllGiven
  BY <1>1 DEF AllGiven, Settled, FaithfulRow
<1>3. FaithfulWhere(where)' <=> FaithfulWhere(where)
  BY DEF FaithfulWhere
<1>4. \A i, c : GivenValue(i, c)' = GivenValue(i, c)
  BY DEF GivenValue
<1>5. \A i : MeantBy(i, where)' <=> MeantBy(i, where)
  BY <1>4 DEF MeantBy
<1>6. MeantRows(where)' = MeantRows(where)
  BY <1>5 DEF MeantRows
<1>7. MeantColumns(list)' = MeantColumns(list)
  BY DEF MeantColumns
<1>8. \A i : MeantRow(i, list)' = MeantRow(i, list)
  BY <1>4, <1>7 DEF MeantRow
<1>9. MeantAnswer(list, where) =
        [r \in DOMAIN MeantRows(where) |-> MeantRow(MeantRows(where)[r], list)]
  BY MeantAnswerRows
<1>10. MeantAnswer(list, where)' =
         [r \in DOMAIN MeantRows(where)' |-> MeantRow(MeantRows(where)[r], list)']
  BY DEF MeantAnswer, MeantRows, MeantRow
<1>11. MeantAnswer(list, where)' = MeantAnswer(list, where)
  BY <1>6, <1>8, <1>9, <1>10
<1> QED
  BY <1>2, <1>3, <1>11 DEF Meant

LEMMA MeaningSteps ==
    TableInv /\ StoreInv /\ SelectsByMeaning /\ [Next]_vars => SelectsByMeaning'
<1> SUFFICES ASSUME TableInv, StoreInv, SelectsByMeaning, [Next]_vars PROVE SelectsByMeaning'
  OBVIOUS
<1>0. SelectsByMeaning' <=>
        (answer'.kind = "select" /\ answer'.ok /\ pc' = "idle" =>
           Meant(answer.list, answer.where, answer.out)')
  BY DEF SelectsByMeaning, Meant, AllGiven
<1>1. CASE SelectStep /\ pc' = "idle"
  <2>1. PICK list \in Lists, where \in Wheres : Select(list, where)
    BY <1>1 DEF SelectStep
  <2>2. PICK ok, out : /\ answer' = Answer("select", ok, list, where, out)
                       /\ ok => Meant(list, where, out)
    BY <1>1, <2>1, SelectMeant
  <2>3. answer'.ok = ok /\ answer'.list = list /\ answer'.where = where /\ answer'.out = out
    BY <2>2, AnswerFields
  <2>4. UNCHANGED <<ctx, data, given>>
    BY <1>1, SelectCases
  <2>5. ASSUME answer'.ok PROVE Meant(answer.list, answer.where, answer.out)'
    <3>1. Meant(list, where, out)
      BY <2>2, <2>3, <2>5
    <3>2. Meant(list, where, out)'
      BY <2>4, <3>1, SameMeaning
    <3> QED
      BY ONLY <2>3, <3>2, Zenon DEF Meant
  <2> QED
    BY <1>0, <2>5
<1>2. CASE UNCHANGED vars
  <2>1. UNCHANGED <<pc, ctx, data, given, answer>>
    BY <1>2 DEF vars
  <2>2. PICK list, where, out : list = answer.list /\ where = answer.where /\ out = answer.out
    OBVIOUS
  <2>3. Meant(list, where, out)' <=> Meant(list, where, out)
    BY <2>1, SameMeaning
  <2>4. Meant(answer.list, answer.where, answer.out) <=> Meant(list, where, out)
    BY ONLY <2>2, Zenon DEF Meant
  <2>5. answer'.list = list /\ answer'.where = where /\ answer'.out = out
    BY <2>1, <2>2
  <2>6. Meant(answer.list, answer.where, answer.out)' <=> Meant(list, where, out)'
    BY ONLY <2>5, Zenon DEF Meant
  <2> QED
    BY <1>0, <2>1, <2>3, <2>4, <2>6, MeantForm
<1>3. CASE Next /\ ~(SelectStep /\ pc' = "idle")
  <2>0. NoAnswer.kind = "none"
    BY DEF NoAnswer, Answer
  <2>1. answer'.kind # "select" \/ pc' # "idle"
    <3>1. CASE LoadSchema \/ Edit \/ Restart
      BY <2>0, <3>1 DEF LoadSchema, Edit, Restart
    <3>2. CASE Refuse \/ RebuildFails
      <4>1. answer' = Answer("load", FALSE, << >>, NoWhere, << >>)
        BY <3>2 DEF Refuse, RebuildFails, Return
      <4> QED
        BY <4>1 DEF Answer
    <3>3. CASE Reuse \/ Rebuild
      BY <3>3 DEF Reuse, Rebuild
    <3>4. CASE InsertFails \/ InsertStep
      <4>1. PICK ok : answer' = Answer("insert", ok, << >>, NoWhere, << >>)
        BY <3>4 DEF InsertFails, InsertStep, InsertUndefined, InsertRefused, Insert, Undefined,
            Return
      <4> QED
        BY <4>1 DEF Answer
    <3>5. CASE SelectStep
      BY <1>3, <3>5
    <3> QED
      BY <1>3, <3>1, <3>2, <3>3, <3>4, <3>5, Steps
  <2> QED
    BY <1>0, <2>1
<1> QED
  BY <1>1, <1>2, <1>3

LEMMA InitMeaning == TableInit => SelectsByMeaning
<1>1. NoAnswer.kind = "none"
  BY DEF NoAnswer, Answer
<1> QED
  BY <1>1 DEF TableInit, SelectsByMeaning

-----------------------------------------------------------------------------
(* The theorems.                                                           *)

(* IInv is an invariant of every run: what load_table_meta has read so far *)
(* describes the columns, they tile the row, the rows of an aligned file   *)
(* and the index agree with each other and with the values given, and an   *)
(* answer of SELECT is the one that is meant.                              *)
THEOREM RowFormatInvariant == Spec => []IInv
<1>1. TableInit => IInv
  <2> SUFFICES ASSUME TableInit PROVE IInv
    OBVIOUS
  <2> QED
    BY InitLoads, InitStores, InitCause, InitMeaning DEF IInv
<1>2. IInv /\ [Next]_vars => IInv'
  <2> SUFFICES ASSUME IInv, [Next]_vars PROVE IInv'
    OBVIOUS
  <2>1. LoadInv /\ TableInv /\ StoreInv /\ CauseInv /\ SelectsByMeaning
    BY DEF IInv
  <2>2. LoadInv'
    BY <2>1, LoadInvSteps
  <2>3. TableInv' /\ StoreInv'
    BY <2>1, StoreSteps
  <2>4. CauseInv'
    BY <2>1, CauseSteps
  <2>5. SelectsByMeaning'
    BY <2>1, MeaningSteps
  <2> QED
    BY <2>2, <2>3, <2>4, <2>5 DEF IInv
<1> QED
  BY <1>1, <1>2, PTL DEF Spec

(* The variables hold what their comments say: never more columns than     *)
(* meta->columns has room for, the file of the schema open only while it   *)
(* is read, and a context only with a row that fits the row buffer.        *)
THEOREM RowFormatTypes == Spec => []TypeOK
<1>1. IInv => TypeOK
  <2> SUFFICES ASSUME IInv PROVE TypeOK
    OBVIOUS
  <2>1. LoadInv /\ TableInv /\ StoreInv /\ CauseInv
    BY DEF IInv
  <2>2. PICK o \in Nat : o = offset /\ o <= IntMax
    BY <2>1 DEF LoadInv, Tiles
  <2>3. offset \in 0 .. IntMax
    BY <2>2, IntMaxFacts
  <2>4. /\ pc \in {"idle", "reading", "refused", "loaded", "ready", "undefined"}
        /\ open = (pc = "reading") /\ Len(columns) <= MaxColumns
    BY <2>1 DEF LoadInv
  <2>5. ctx.loaded => Len(ctx.columns) \in 1 .. MaxColumns /\ ctx.rowSize \in 1 .. MaxRowSize
    BY <2>1 DEF TableInv
  <2>6. (data = NoFile \/ data \in Seq(Bytes)) /\ edits \in 0 .. MaxEdits
    BY <2>1 DEF StoreInv
  <2>7. answer.kind \in {"none", "load", "insert", "select"}
    BY <2>1 DEF CauseInv
  <2> QED
    BY ONLY <2>3, <2>4, <2>5, <2>6, <2>7, Zenon DEF TypeOK
<1> QED
  BY <1>1, RowFormatInvariant, PTL

(* load_table_meta accepts only schema files that describe a table,        *)
(* whatever lines they have and in whatever order, and the columns it      *)
(* loads are the ones the file describes; it refuses no such file but one  *)
(* that has an empty line behind as many columns as there can be.          *)
THEOREM RowFormatLoadsAsDescribed == Spec => []LoadsAsDescribed
<1>1. IInv => LoadsAsDescribed
  BY DEF IInv, LoadInv, Describes, Loadable, LoadsAsDescribed
<1> QED
  BY <1>1, RowFormatInvariant, PTL

(* A step that reads or writes beyond an array needs a sum of sizes that   *)
(* overflows, an INT column narrower than an int, or a SELECT list longer  *)
(* than selected_indexes: the text of no statement is a cause.             *)
THEOREM RowFormatUndefinedNeedsCause == Spec => []UndefinedNeedsCause
<1>1. IInv => UndefinedNeedsCause
  BY DEF IInv, CauseInv
<1> QED
  BY <1>1, RowFormatInvariant, PTL

(* What append_binary_row has written is what print_column_value reads,    *)
(* for every value that an int and a text buffer can hold.                 *)
THEOREM RowFormatRowsComeBack == Spec => []RowsComeBack
<1>1. IInv => RowsComeBack
  BY RowsComeBackHolds DEF IInv
<1> QED
  BY <1>1, RowFormatInvariant, PTL

(* row_matches_where finds a row by the very literal it was inserted with, *)
(* even by one that was cut off, saturated or cast on its way.             *)
THEOREM RowFormatInsertedIsFound == Spec => []InsertedIsFound
<1>1. IInv => InsertedIsFound
  BY InsertedIsFoundHolds DEF IInv
<1> QED
  BY <1>1, RowFormatInvariant, PTL

(* The two ways of execute_select to look for an id, through the index and *)
(* through a scan of the file, find the same row among the counted ones.   *)
THEOREM RowFormatIndexAgrees == Spec => []IndexAgreesWithScan
<1>1. IInv => IndexAgreesWithScan
  BY IndexAgreesHolds DEF IInv
<1> QED
  BY <1>1, RowFormatInvariant, PTL

(* SELECT prints the rows that its condition means, in the order of the    *)
(* file and with the columns of its list.                                  *)
THEOREM RowFormatSelectsByMeaning == Spec => []SelectsByMeaning
<1>1. IInv => SelectsByMeaning
  BY DEF IInv
<1> QED
  BY <1>1, RowFormatInvariant, PTL
=============================================================================
