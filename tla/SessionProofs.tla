--------------------------- MODULE SessionProofs ----------------------------
(***************************************************************************)
(* Theorems about Session: a run of the program, with any files, typed     *)
(* lines, buffers and failures of malloc, splits every text into its       *)
(* longest tokens, stays within its buffers, leaves no block behind and    *)
(* logs what it ran.                                                       *)
(***************************************************************************)
EXTENDS SessionInv, FiniteSetTheorems, TLAPS

-----------------------------------------------------------------------------
(* The loops over a text end where they should.                            *)

(* The library's induction theorems take an operator; this takes a set.    *)
LEMMA LeastNatural ==
    ASSUME NEW N \in SUBSET Nat, N # {}
    PROVE  \E m \in N : \A k \in N : m <= k
<1> DEFINE T == {0 .. k : k \in N}
           R == StrictSubsetOrdering(Nat)
           F == FiniteSubsetsOf(Nat)
<1>1. T \subseteq F
  <2> SUFFICES ASSUME NEW k \in N PROVE 0 .. k \in F
    OBVIOUS
  <2>1. 0 .. k \in SUBSET Nat
    OBVIOUS
  <2>2. IsFiniteSet(0 .. k)
    BY FS_Interval
  <2> QED
    BY <2>1, <2>2 DEF FiniteSubsetsOf
<1>2. T # {}
  OBVIOUS
<1>3. IsWellFoundedOn(R, F)
  BY FS_StrictSubsetOrderingWellFounded
<1>4. PICK X \in T : \A Y \in T : ~(<<Y, X>> \in R)
  <2> HIDE DEF T, R, F
  <2> QED
    BY <1>1, <1>2, <1>3, WFMin
<1>5. PICK m \in N : X = 0 .. m
  OBVIOUS
<1>6. ASSUME NEW k \in N, k < m PROVE FALSE
  <2>1. 0 .. k \subseteq 0 .. m /\ m \in 0 .. m /\ m \notin 0 .. k
    BY <1>6
  <2>2. 0 .. k \in SUBSET Nat /\ X \in SUBSET Nat
    BY <1>5
  <2>3. <<0 .. k, X>> \in R
    BY <2>1, <2>2, <1>5 DEF StrictSubsetOrdering
  <2> QED
    BY <2>3, <1>4
<1> QED
  BY <1>6

LEMMA FirstOfWorks ==
    ASSUME NEW Elem, NEW s \in Seq(Elem), NEW set
    PROVE  /\ FirstOf(s, set) \in 1 .. Len(s) + 1
           /\ FirstOf(s, set) <= Len(s) => s[FirstOf(s, set)] \in set
           /\ \A i \in 1 .. FirstOf(s, set) - 1 : s[i] \notin set
<1> DEFINE T == {n \in 1 .. Len(s) + 1 : n <= Len(s) => s[n] \in set}
           Good(n) == /\ n <= Len(s) => s[n] \in set
                      /\ \A i \in 1 .. n - 1 : s[i] \notin set
<1>1. Len(s) \in Nat
  OBVIOUS
<1>2. T \in SUBSET Nat /\ Len(s) + 1 \in T
  BY <1>1
<1>3. PICK m \in T : \A k \in T : m <= k
  <2> HIDE DEF T
  <2> QED
    BY <1>2, LeastNatural
<1>4. m \in 1 .. Len(s) + 1 /\ (m <= Len(s) => s[m] \in set)
  OBVIOUS
<1>5. ASSUME NEW i \in 1 .. m - 1 PROVE s[i] \notin set
  <2>1. i \in 1 .. Len(s) + 1 /\ ~(m <= i)
    BY <1>1, <1>4
  <2>2. i \notin T
    BY <1>3, <2>1
  <2> QED
    BY <2>1, <2>2
<1>6. Good(m)
  BY <1>4, <1>5
<1> HIDE DEF Good, T
<1>7. FirstOf(s, set) = CHOOSE n \in 1 .. Len(s) + 1 : Good(n)
  BY DEF FirstOf, Good
<1>8. FirstOf(s, set) \in 1 .. Len(s) + 1 /\ Good(FirstOf(s, set))
  BY <1>4, <1>6, <1>7
<1> QED
  BY <1>8 DEF Good

(* Where the last element outside of a set is, 0 if there is none.         *)
EndsAt(s, set, k) ==
    /\ \A i \in k + 1 .. Len(s) : s[i] \in set
    /\ k > 0 => s[k] \notin set

LEMMA LastOutside ==
    ASSUME NEW Elem, NEW s \in Seq(Elem), NEW set
    PROVE  \E k \in 0 .. Len(s) : EndsAt(s, set, k)
<1> DEFINE T == {j \in 0 .. Len(s) : j < Len(s) => s[Len(s) - j] \notin set}
<1>1. Len(s) \in Nat
  OBVIOUS
<1>2. T \in SUBSET Nat /\ Len(s) \in T
  BY <1>1
<1>3. PICK m \in T : \A k \in T : m <= k
  <2> HIDE DEF T
  <2> QED
    BY <1>2, LeastNatural
<1>4. m \in 0 .. Len(s) /\ (m < Len(s) => s[Len(s) - m] \notin set)
  OBVIOUS
<1>5. ASSUME NEW i \in Len(s) - m + 1 .. Len(s) PROVE s[i] \in set
  <2>1. Len(s) - i \in 0 .. Len(s) /\ ~(m <= Len(s) - i) /\ Len(s) - i < Len(s)
        /\ Len(s) - (Len(s) - i) = i
    BY <1>1, <1>4
  <2>2. Len(s) - i \notin T
    BY <1>3, <2>1
  <2> QED
    BY <2>1, <2>2
<1>6. Len(s) - m \in 0 .. Len(s) /\ (Len(s) - m > 0 => m < Len(s))
  BY <1>1, <1>4
<1>7. EndsAt(s, set, Len(s) - m)
  BY <1>4, <1>5, <1>6 DEF EndsAt
<1> QED
  BY <1>6, <1>7

(* The same of Span, from a position in the text or just behind it.        *)
LEMMA SpanWorks ==
    ASSUME NEW Elem, sql \in Seq(Elem), NEW set, NEW from \in 1 .. Len(sql) + 1
    PROVE  /\ Span(set, from) \in Nat /\ from + Span(set, from) <= Len(sql) + 1
           /\ \A i \in from .. from + Span(set, from) - 1 : sql[i] \in set
           /\ from + Span(set, from) <= Len(sql) => sql[from + Span(set, from)] \notin set
<1> DEFINE T == {n \in 0 .. Len(sql) - from + 1 : from + n <= Len(sql) => sql[from + n] \notin set}
           Good(n) == /\ \A i \in from .. from + n - 1 : i <= Len(sql) /\ sql[i] \in set
                      /\ from + n <= Len(sql) => sql[from + n] \notin set
<1>1. Len(sql) \in Nat /\ from \in Nat /\ from >= 1 /\ from <= Len(sql) + 1
  OBVIOUS
<1>2. T \in SUBSET Nat /\ Len(sql) - from + 1 \in T
  <2>1. Len(sql) - from + 1 \in 0 .. Len(sql) - from + 1
    BY <1>1
  <2>2. ~(from + (Len(sql) - from + 1) <= Len(sql))
    BY <1>1
  <2> QED
    BY <1>1, <2>1, <2>2
<1>3. PICK m \in T : \A k \in T : m <= k
  <2> HIDE DEF T
  <2> QED
    BY <1>2, LeastNatural
<1>4. m \in 0 .. Len(sql) - from + 1 /\ (from + m <= Len(sql) => sql[from + m] \notin set)
  OBVIOUS
<1>5. ASSUME NEW i \in from .. from + m - 1 PROVE i <= Len(sql) /\ sql[i] \in set
  <2>1. i - from \in 0 .. Len(sql) - from + 1 /\ ~(m <= i - from) /\ i <= Len(sql)
        /\ from + (i - from) = i
    BY <1>1, <1>4
  <2>2. i - from \notin T
    BY <1>3, <2>1
  <2> QED
    BY <2>1, <2>2
<1>6. Good(m) /\ m \in 0 .. Len(sql)
  BY <1>1, <1>4, <1>5
<1> HIDE DEF Good, T
<1>7. Span(set, from) = CHOOSE n \in 0 .. Len(sql) : Good(n)
  BY DEF Span, Good
<1>8. PICK n \in 0 .. Len(sql) : n = Span(set, from) /\ Good(n)
  BY <1>6, <1>7
<1>9. from + n <= Len(sql) + 1
  <2>1. CASE n = 0
    BY <1>1, <2>1
  <2>2. CASE n > 0
    <3>1. from + n - 1 \in from .. from + n - 1
      BY <1>1, <2>2
    <3>2. from + n - 1 <= Len(sql)
      BY <1>8, <3>1 DEF Good
    <3> QED
      BY <1>1, <3>2
  <2> QED
    BY <2>1, <2>2
<1> QED
  BY <1>8, <1>9 DEF Good

LEMMA LeastOfThree ==
    ASSUME NEW a \in Int, NEW b \in Int, NEW c \in Int
    PROVE  /\ Min({a, b, c}) \in {a, b, c}
           /\ Min({a, b, c}) <= a /\ Min({a, b, c}) <= b /\ Min({a, b, c}) <= c
<1>1. PICK m \in {a, b, c} : m <= a /\ m <= b /\ m <= c
  <2>1. CASE a <= b /\ a <= c
    BY <2>1
  <2>2. CASE b <= a /\ b <= c
    BY <2>2
  <2>3. CASE c <= a /\ c <= b
    BY <2>3
  <2> QED
    BY <2>1, <2>2, <2>3
<1> DEFINE P(x) == \A y \in {a, b, c} : x =< y
<1>2. P(m)
  BY <1>1
<1>3. Min({a, b, c}) = CHOOSE x \in {a, b, c} : P(x)
  BY DEF Min
<1> HIDE DEF P
<1>4. Min({a, b, c}) \in {a, b, c} /\ P(Min({a, b, c}))
  BY <1>2, <1>3
<1> QED
  BY <1>4 DEF P

-----------------------------------------------------------------------------
(* What is read and what is run.                                           *)

LEMMA Slice ==
    ASSUME NEW Elem, NEW s \in Seq(Elem), NEW a \in Int, NEW b \in Int, a >= 1, b <= Len(s)
    PROVE  /\ SubSeq(s, a, b) \in Seq(Elem)
           /\ Len(SubSeq(s, a, b)) = IF a <= b THEN b - a + 1 ELSE 0
           /\ \A i \in 1 .. Len(SubSeq(s, a, b)) : SubSeq(s, a, b)[i] = s[a + i - 1]
<1>1. Len(s) \in Nat
  OBVIOUS
<1>2. CASE a <= b
  BY <1>1, <1>2
<1>3. CASE ~(a <= b)
  BY <1>1, <1>3
<1> QED
  BY <1>2, <1>3

LEMMA Joined ==
    ASSUME NEW Elem, NEW a \in Seq(Elem), NEW b \in Seq(Elem)
    PROVE  /\ a \o b \in Seq(Elem) /\ Len(a \o b) = Len(a) + Len(b)
           /\ \A i \in 1 .. Len(a) : (a \o b)[i] = a[i]
           /\ \A i \in Len(a) + 1 .. Len(a) + Len(b) : (a \o b)[i] = b[i - Len(a)]
OBVIOUS

LEMMA PieceFits ==
    ASSUME input \in Text, pos \in 1 .. Len(input) + 1
    PROVE  /\ Piece \in Text /\ Len(Piece) < Width
           /\ pos + Len(Piece) \in 1 .. Len(input) + 1
<1> DEFINE rest == SubSeq(input, pos, Len(input))
           f == FirstOf(rest, {"\n"})
           m == Min({f, Len(rest), Width - 1})
<1>1. Len(input) \in Nat /\ pos \in Int /\ pos >= 1 /\ pos <= Len(input) + 1
  BY DEF Text
<1>2. PICK n \in Nat : n = Len(input) - pos + 1
  BY <1>1
<1>3. rest \in Text /\ Len(rest) = n
  <2>1. rest \in Text /\ Len(rest) = IF pos <= Len(input) THEN Len(input) - pos + 1 ELSE 0
    BY <1>1, Slice DEF Text
  <2> QED
    BY ONLY <1>1, <1>2, <2>1
<1> HIDE DEF rest
<1>4. f \in 1 .. n + 1
  BY <1>3, FirstOfWorks DEF Text
<1>5. Width - 1 \in Nat /\ Width - 1 < Width /\ Width \in Nat
  BY SessionAssumption
<1> HIDE DEF f
<1>6. m \in {f, n, Width - 1} /\ m <= n /\ m <= Width - 1
  <2>1. PICK w \in Nat : w = Width - 1
    BY <1>5
  <2>2. m = Min({f, n, w})
    BY <1>3, <2>1
  <2>3. f \in Int /\ n \in Int /\ w \in Int
    BY <1>4
  <2> HIDE DEF m
  <2> QED
    BY ONLY <2>1, <2>2, <2>3, LeastOfThree
<1>7. m \in Nat
  BY <1>4, <1>5, <1>6
<1> HIDE DEF m
<1>8. Piece = SubSeq(rest, 1, m)
  BY DEF Piece, rest, m, f
<1>9. Piece \in Text /\ Len(Piece) = m
  <2>1. Piece \in Text /\ Len(Piece) = IF 1 <= m THEN m - 1 + 1 ELSE 0
    BY <1>3, <1>6, <1>7, <1>8, Slice DEF Text
  <2> QED
    BY ONLY <1>7, <2>1
<1> QED
  BY <1>1, <1>2, <1>5, <1>6, <1>7, <1>9

LEMMA CutFits ==
    ASSUME NEW s \in Text
    PROVE  CutAtReturn(s) \in Text /\ Len(CutAtReturn(s)) <= Len(s)
<1> DEFINE f == FirstOf(s, {"\r", "\n"})
<1>1. Len(s) \in Nat /\ f \in 1 .. Len(s) + 1
  BY FirstOfWorks DEF Text
<1> HIDE DEF f
<1>2. f - 1 \in Int /\ f - 1 <= Len(s) /\ f - 1 >= 0
  BY <1>1
<1>3. /\ SubSeq(s, 1, f - 1) \in Text
      /\ Len(SubSeq(s, 1, f - 1)) = IF 1 <= f - 1 THEN f - 1 - 1 + 1 ELSE 0
  BY <1>2, Slice DEF Text
<1>4. Len(SubSeq(s, 1, f - 1)) <= Len(s)
  BY <1>1, <1>2, <1>3
<1> QED
  BY <1>3, <1>4 DEF CutAtReturn, f

(* It is a text that does not end in a space.                              *)
Ended(s) == s # << >> => s[Len(s)] \notin Spaces

LEMMA TrimEndFits ==
    ASSUME NEW s \in Text
    PROVE  /\ TrimEnd(s) \in Text /\ Len(TrimEnd(s)) <= Len(s)
           /\ Ended(TrimEnd(s))
<1> DEFINE P(k) == EndsAt(s, Spaces, k)
           n == CHOOSE k \in 0 .. Len(s) : P(k)
<1>1. \E k \in 0 .. Len(s) : P(k)
  BY LastOutside DEF Text
<1>2. n \in 0 .. Len(s) /\ P(n)
  <2> HIDE DEF P
  <2> QED
    BY <1>1
<1>3. TrimEnd(s) = SubSeq(s, 1, n)
  BY DEF TrimEnd, EndsAt
<1> HIDE DEF n
<1>4. Len(s) \in Nat
  BY DEF Text
<1>5. n \in Nat /\ n <= Len(s)
  BY <1>2, <1>4
<1>6. /\ SubSeq(s, 1, n) \in Text
      /\ Len(SubSeq(s, 1, n)) = n
      /\ \A i \in 1 .. n : SubSeq(s, 1, n)[i] = s[i]
  <2>1. /\ SubSeq(s, 1, n) \in Text
        /\ Len(SubSeq(s, 1, n)) = IF 1 <= n THEN n - 1 + 1 ELSE 0
        /\ \A i \in 1 .. Len(SubSeq(s, 1, n)) : SubSeq(s, 1, n)[i] = s[1 + i - 1]
    BY <1>5, Slice DEF Text
  <2>2. Len(SubSeq(s, 1, n)) = n
    BY <1>5, <2>1
  <2>3. \A i \in 1 .. n : 1 + i - 1 = i
    OBVIOUS
  <2> QED
    BY <2>1, <2>2, <2>3
<1>7. ASSUME SubSeq(s, 1, n) # << >> PROVE SubSeq(s, 1, n)[n] \notin Spaces
  <2>1. n > 0
    <3>1. CASE n = 0
      <4>1. SubSeq(s, 1, n) = << >>
        BY <1>6, <3>1 DEF Text
      <4> QED
        BY <4>1, <1>7
    <3> QED
      BY <1>5, <3>1
  <2>2. n \in 1 .. n
    BY <1>5, <2>1
  <2> QED
    BY <1>2, <1>6, <2>1, <2>2 DEF EndsAt
<1> QED
  BY <1>3, <1>5, <1>6, <1>7 DEF Ended

LEMMA TrimStartFits ==
    ASSUME NEW s \in Text, Ended(s)
    PROVE  /\ TrimStart(s) \in Text /\ Len(TrimStart(s)) <= Len(s)
           /\ Ended(TrimStart(s))
<1> DEFINE F == {c \in STRING \ {"end"} : c \notin Spaces}
           P(k) == /\ \A i \in 1 .. k - 1 : s[i] \in Spaces
                   /\ k <= Len(s) => s[k] \notin Spaces
           f == FirstOf(s, F)
           n == CHOOSE k \in 1 .. Len(s) + 1 : P(k)
<1>1. Len(s) \in Nat /\ \A i \in 1 .. Len(s) : s[i] \in STRING \ {"end"}
  BY DEF Text
<1>2. \E k \in 1 .. Len(s) + 1 : P(k)
  <2>1. /\ f \in 1 .. Len(s) + 1 /\ (f <= Len(s) => s[f] \in F)
        /\ \A i \in 1 .. f - 1 : s[i] \notin F
    <3> HIDE DEF F
    <3> QED
      BY FirstOfWorks DEF Text
  <2> HIDE DEF f
  <2>2. \A i \in 1 .. f - 1 : i \in 1 .. Len(s)
    BY <1>1, <2>1
  <2> QED
    BY <1>1, <2>1, <2>2
<1>3. n \in 1 .. Len(s) + 1
  <2> HIDE DEF P
  <2> QED
    BY <1>2
<1>4. TrimStart(s) = SubSeq(s, n, Len(s))
  BY DEF TrimStart
<1> HIDE DEF n
<1>5. n \in Int /\ n >= 1 /\ n <= Len(s) + 1 /\ Len(s) \in Int
  BY <1>1, <1>3
<1> DEFINE u == SubSeq(s, n, Len(s))
<1>6. /\ u \in Text
      /\ Len(u) = Len(s) - n + 1
      /\ \A i \in 1 .. Len(u) : u[i] = s[n + i - 1]
  <2>1. /\ u \in Text
        /\ Len(u) = IF n <= Len(s) THEN Len(s) - n + 1 ELSE 0
        /\ \A i \in 1 .. Len(u) : u[i] = s[n + i - 1]
    BY <1>5, Slice DEF Text
  <2> QED
    BY <1>5, <2>1
<1> HIDE DEF u
<1>7. ASSUME u # << >> PROVE u[Len(u)] \notin Spaces
  <2>1. Len(u) \in Nat /\ Len(u) # 0
    BY <1>6, <1>7 DEF Text
  <2>2. Len(u) \in 1 .. Len(u) /\ n + Len(u) - 1 = Len(s) /\ Len(s) # 0
    BY <1>5, <1>6, <2>1
  <2>3. u[Len(u)] = s[Len(s)]
    BY <1>6, <2>2
  <2>4. s # << >>
    BY <2>2
  <2> QED
    BY <2>3, <2>4 DEF Ended
<1>8. Len(u) <= Len(s)
  BY <1>5, <1>6
<1> QED
  BY <1>4, <1>6, <1>7, <1>8 DEF Ended, u

LEMMA StatementFits ==
    ASSUME input \in Text, pos \in 1 .. Len(input) + 1
    PROVE  Statement \in Text /\ Len(Statement) < Width /\ Ended(Statement)
<1>1. PICK s : s = CutAtReturn(Piece)
  OBVIOUS
<1>2. s \in Text /\ Len(s) < Width
  <2>1. Piece \in Text /\ Len(Piece) < Width
    BY PieceFits
  <2>2. s \in Text /\ Len(s) <= Len(Piece)
    BY <1>1, <2>1, CutFits
  <2>3. Len(s) \in Nat /\ Len(Piece) \in Nat /\ Width \in Nat
    BY <2>1, <2>2, SessionAssumption DEF Text
  <2> QED
    BY <2>1, <2>2, <2>3
<1>3. PICK e : e = TrimEnd(s)
  OBVIOUS
<1>4. e \in Text /\ Len(e) <= Len(s) /\ Ended(e)
  BY <1>2, <1>3, TrimEndFits
<1>5. TrimStart(e) \in Text /\ Len(TrimStart(e)) <= Len(e) /\ Ended(TrimStart(e))
  BY <1>4, TrimStartFits
<1>6. Len(s) \in Nat /\ Len(e) \in Nat /\ Len(TrimStart(e)) \in Nat /\ Width \in Nat
  BY <1>2, <1>4, <1>5, SessionAssumption DEF Text
<1>7. Len(e) < Width /\ Len(TrimStart(e)) < Width
  BY <1>2, <1>4, <1>5, <1>6
<1>8. Statement = TrimStart(e) \/ Statement = e
  BY <1>1, <1>3 DEF Statement, Trim
<1> QED
  BY <1>4, <1>5, <1>7, <1>8

-----------------------------------------------------------------------------
(* The lexer.  Its blocks are the array and the texts of the tokens that   *)
(* the array counts, and none are left once it has failed.                 *)

TokenTypes ==
    {"NUMBER", "KEYWORD", "IDENTIFIER", "STRING", "OPERATOR", "EOF"} \union {SingleType[c] : c \in Singles}

LexerInv ==
    /\ sql \in Text /\ Len(sql) < Width /\ cursor \in 1 .. Len(sql) + 1
    /\ tokens \in Seq([type : TokenTypes, text : Text])
    /\ items \in BOOLEAN
    /\ blocks = IF items THEN 1 + Len(tokens) ELSE 0
    /\ ~items => tokens = << >>
    /\ lex \in {"idle", "lexing", "lexed", "refused", "nomemory"}
    /\ lex \notin {"lexing", "lexed"} => ~items
    /\ failures \in 0 .. MaxFailures

LEMMA Counted == LexerInv => Len(sql) \in Nat /\ Len(tokens) \in Nat /\ cursor \in Nat
BY DEF LexerInv, Text

LEMMA FreeAllTokens ==
    ASSUME LexerInv, NEW extra \in {0, 1}, extra = 1 => ~items, FreeTokens(extra)
    PROVE  /\ blocks' = 0 /\ items' = FALSE /\ tokens' = << >>
<1>1. blocks' = IF items \/ extra > 0 THEN blocks + extra - (1 + Len(tokens)) ELSE blocks
  BY DEF FreeTokens
<1>2. CASE items
  <2>1. extra = 0 /\ blocks = 1 + Len(tokens) /\ Len(tokens) \in Nat
    BY <1>2, Counted DEF LexerInv
  <2> QED
    BY <1>1, <1>2, <2>1 DEF FreeTokens
<1>3. CASE ~items
  <2>1. blocks = 0 /\ Len(tokens) = 0
    BY <1>3 DEF LexerInv
  <2> QED
    BY <1>1, <1>3, <2>1 DEF FreeTokens
<1> QED
  BY <1>2, <1>3

LEMMA PushKeeps ==
    ASSUME LexerInv, lex = "lexing", NEW type \in TokenTypes, NEW n \in Nat,
           cursor + n <= Len(sql) + 1, Push(type, n)
    PROVE  LexerInv' /\ lex' = lex /\ sql' = sql
<1> DEFINE token == [type |-> type, text |-> SubSeq(sql, cursor, cursor + n - 1)]
<1>1. Len(sql) \in Nat /\ Len(tokens) \in Nat /\ cursor \in Nat /\ cursor >= 1
  BY Counted DEF LexerInv
<1>2. SubSeq(sql, cursor, cursor + n - 1) \in Text
  <2>1. cursor \in Int /\ cursor + n - 1 \in Int /\ cursor + n - 1 <= Len(sql) /\ cursor >= 1
    BY <1>1
  <2>2. PICK b \in Int : b = cursor + n - 1
    BY <2>1
  <2>3. sql \in Text
    BY DEF LexerInv
  <2>4. SubSeq(sql, cursor, b) \in Text
    BY <2>1, <2>2, <2>3, Slice DEF Text
  <2> QED
    BY <2>2, <2>4
<1>3. token \in [type : TokenTypes, text : Text]
  BY <1>2
<1>4. tokens' = Append(tokens, token)
  BY DEF Push
<1> HIDE DEF token
<1>5. tokens \in Seq([type : TokenTypes, text : Text])
  BY DEF LexerInv
<1>6. tokens' \in Seq([type : TokenTypes, text : Text]) /\ Len(tokens') = Len(tokens) + 1
  <2> DEFINE R == [type : TokenTypes, text : Text]
  <2>1. token \in R /\ tokens \in Seq(R)
    BY <1>3, <1>5
  <2> HIDE DEF R
  <2>2. tokens' \in Seq(R) /\ Len(tokens') = Len(tokens) + 1
    BY <2>1, <1>4
  <2> QED
    BY <2>2 DEF R
<1>7. cursor' = cursor + n /\ items' = TRUE /\ sql' = sql /\ lex' = lex /\ failures' = failures
  BY DEF Push
<1>8. cursor' \in 1 .. Len(sql') + 1
  BY <1>1, <1>7
<1>9. blocks' = 1 + Len(tokens')
  <2>1. blocks' = blocks + (IF items THEN 1 ELSE 2)
    BY DEF Push
  <2>2. CASE items
    <3>1. blocks = 1 + Len(tokens)
      BY <2>2 DEF LexerInv
    <3> QED
      BY <1>1, <1>6, <2>1, <2>2, <3>1
  <2>3. CASE ~items
    <3>1. blocks = 0 /\ Len(tokens) = 0
      BY <2>3 DEF LexerInv
    <3> QED
      BY <1>6, <2>1, <2>3, <3>1
  <2> QED
    BY <2>2, <2>3
<1> QED
  BY <1>6, <1>7, <1>8, <1>9 DEF LexerInv

(* A step that frees all tokens and leaves the text alone.                 *)
LEMMA FailureKeeps ==
    ASSUME LexerInv, NEW extra \in {0, 1}, extra = 1 => ~items, FreeTokens(extra),
           sql' = sql, cursor' = cursor, lex' \in {"idle", "refused", "nomemory"},
           failures' \in 0 .. MaxFailures
    PROVE  LexerInv'
<1>1. blocks' = 0 /\ items' = FALSE /\ tokens' = << >>
  BY FreeAllTokens
<1>2. << >> \in Seq([type : TokenTypes, text : Text])
  OBVIOUS
<1> QED
  BY <1>1, <1>2 DEF LexerInv

LEMMA PushFailsKeeps ==
    ASSUME LexerInv, PushFails
    PROVE  LexerInv' /\ lex' = "nomemory" /\ sql' = sql
<1>1. /\ sql' = sql /\ cursor' = cursor /\ lex' = "nomemory"
      /\ failures < MaxFailures /\ failures' = failures + 1
  BY DEF PushFails
<1>2. failures' \in 0 .. MaxFailures
  BY <1>1, LexerAssumption DEF LexerInv
<1>3. PICK extra \in {0, 1} : (extra = 1 => ~items) /\ FreeTokens(extra)
  <2>1. PICK resized \in BOOLEAN : FreeTokens(IF resized /\ ~items THEN 1 ELSE 0)
    BY DEF PushFails
  <2>2. CASE resized /\ ~items
    BY <2>1, <2>2
  <2>3. CASE ~(resized /\ ~items)
    BY <2>1, <2>3
  <2> QED
    BY <2>2, <2>3
<1> QED
  BY <1>1, <1>2, <1>3, FailureKeeps

LEMMA RefuseKeeps ==
    ASSUME LexerInv, Refuse
    PROVE  LexerInv' /\ lex' = "refused" /\ sql' = sql
<1>1. sql' = sql /\ cursor' = cursor /\ lex' = "refused" /\ failures' = failures /\ FreeTokens(0)
  BY DEF Refuse
<1>2. failures' \in 0 .. MaxFailures
  BY <1>1 DEF LexerInv
<1> QED
  BY <1>1, <1>2, FailureKeeps

LEMMA TokenKeeps ==
    ASSUME LexerInv, lex = "lexing", NEW type \in TokenTypes, NEW n \in Nat,
           cursor + n <= Len(sql) + 1, Token(type, n)
    PROVE  LexerInv' /\ lex' # "idle" /\ sql' = sql
<1>1. CASE Push(type, n)
  BY <1>1, PushKeeps
<1>2. CASE PushFails
  BY <1>2, PushFailsKeeps
<1> QED
  BY <1>1, <1>2 DEF Token

(* A span that starts behind the next character lies within the text.      *)
LEMMA SpanBehind ==
    ASSUME LexerInv, More, NEW set
    PROVE  /\ 1 + Span(set, cursor + 1) \in Nat
           /\ cursor + (1 + Span(set, cursor + 1)) <= Len(sql) + 1
<1>1. Len(sql) \in Nat /\ cursor \in Nat /\ cursor <= Len(sql)
  BY Counted DEF More
<1>2. PICK from \in 1 .. Len(sql) + 1 : from = cursor + 1
  BY <1>1
<1>3. sql \in Seq(STRING \ {"end"})
  BY DEF LexerInv, Text
<1>4. Span(set, from) \in Nat /\ from + Span(set, from) <= Len(sql) + 1
  BY <1>3, SpanWorks
<1>5. PICK k \in Nat : k = Span(set, from)
  BY <1>4
<1>6. 1 + k \in Nat /\ cursor + (1 + k) <= Len(sql) + 1
  BY <1>1, <1>2, <1>4, <1>5
<1> QED
  BY <1>2, <1>5, <1>6

LEMMA SkipSpaceKeeps ==
    ASSUME LexerInv, SkipSpace
    PROVE  LexerInv' /\ lex' # "idle" /\ sql' = sql
<1>1. /\ cursor' = cursor + 1 /\ lex = "lexing"
      /\ sql' = sql /\ tokens' = tokens /\ items' = items /\ blocks' = blocks
      /\ lex' = lex /\ failures' = failures
  BY DEF SkipSpace, More
<1>2. cursor' \in 1 .. Len(sql') + 1
  BY <1>1, Counted DEF SkipSpace, More, LexerInv
<1> QED
  BY <1>1, <1>2 DEF LexerInv

LEMMA SingleTokenKeeps ==
    ASSUME LexerInv, SingleToken
    PROVE  LexerInv' /\ lex' # "idle" /\ sql' = sql
<1>1. PICK type \in TokenTypes : type = SingleType[Char]
  BY DEF SingleToken, TokenTypes
<1>2. Token(type, 1) /\ lex = "lexing"
  BY <1>1 DEF SingleToken, More
<1>3. cursor + 1 <= Len(sql) + 1
  BY Counted DEF SingleToken, More
<1> QED
  BY <1>2, <1>3, TokenKeeps

LEMMA OperatorTokenKeeps ==
    ASSUME LexerInv, OperatorToken
    PROVE  LexerInv' /\ lex' # "idle" /\ sql' = sql
<1>1. Len(sql) \in Nat /\ cursor \in Nat /\ cursor <= Len(sql) /\ lex = "lexing"
  BY Counted DEF OperatorToken, More
<1>2. PICK n \in {1, 2} : n = OperatorLength
  BY DEF OperatorLength
<1>3. n = 2 => cursor < Len(sql)
  BY <1>2 DEF OperatorLength, Following
<1>4. cursor + n <= Len(sql) + 1
  BY <1>1, <1>3
<1>5. Token("OPERATOR", n)
  BY <1>2 DEF OperatorToken
<1>6. n \in Nat /\ "OPERATOR" \in TokenTypes
  BY DEF TokenTypes
<1> QED
  BY ONLY <1>1, <1>4, <1>5, <1>6, LexerInv, TokenKeeps

LEMMA StringTokenKeeps ==
    ASSUME LexerInv, StringToken
    PROVE  LexerInv' /\ lex' # "idle" /\ sql' = sql
<1>1. More /\ lex = "lexing" /\ Closing <= Len(sql) /\ Token("STRING", Closing - cursor + 1)
  BY DEF StringToken, More
<1>2. Len(sql) \in Nat /\ cursor \in Nat
  BY Counted
<1> DEFINE set == {sql[i] : i \in DOMAIN sql} \ {"'"}
<1>3. PICK s : s = set
  OBVIOUS
<1>4. PICK k \in Nat : k = Span(s, cursor + 1)
  <2>1. PICK from \in 1 .. Len(sql) + 1 : from = cursor + 1
    BY <1>1, <1>2 DEF More
  <2>2. sql \in Seq(STRING \ {"end"})
    BY DEF LexerInv, Text
  <2> QED
    BY <2>1, <2>2, SpanWorks
<1>5. PICK c : c = Closing
  OBVIOUS
<1>6. c = cursor + 1 + k
  BY <1>3, <1>4, <1>5 DEF Closing
<1>7. PICK n \in Nat : n = c - cursor + 1
  BY <1>2, <1>6
<1>8. Token("STRING", n) /\ c <= Len(sql)
  BY <1>1, <1>5, <1>7
<1>9. cursor + n <= Len(sql) + 1
  BY <1>2, <1>7, <1>8, <1>6
<1>10. "STRING" \in TokenTypes
  BY DEF TokenTypes
<1> QED
  BY ONLY <1>1, <1>8, <1>9, <1>10, LexerInv, TokenKeeps

LEMMA NumberTokenKeeps ==
    ASSUME LexerInv, NumberToken
    PROVE  LexerInv' /\ lex' # "idle" /\ sql' = sql
<1>1. More /\ lex = "lexing"
  BY DEF NumberToken, More
<1>2. PICK n \in Nat : n = 1 + Span(Digits, cursor + 1) /\ cursor + n <= Len(sql) + 1
  BY <1>1, SpanBehind
<1>3. Token("NUMBER", n) /\ "NUMBER" \in TokenTypes
  BY <1>2 DEF NumberToken, TokenTypes
<1> QED
  BY ONLY <1>1, <1>2, <1>3, LexerInv, TokenKeeps

LEMMA WordTokenKeeps ==
    ASSUME LexerInv, WordToken
    PROVE  LexerInv' /\ lex' # "idle" /\ sql' = sql
<1>1. More /\ lex = "lexing"
  BY DEF WordToken, More
<1>2. PICK n \in Nat : n = 1 + Span(Letters \union Digits, cursor + 1) /\ cursor + n <= Len(sql) + 1
  BY <1>1, SpanBehind
<1>3. PICK type \in TokenTypes : type = WordType(SubSeq(sql, cursor, cursor + n - 1))
  <2>1. PICK word : word = SubSeq(sql, cursor, cursor + n - 1)
    OBVIOUS
  <2>2. WordType(word) \in TokenTypes
    BY DEF WordType, TokenTypes
  <2> QED
    BY <2>1, <2>2
<1>4. Token(type, n)
  BY <1>2, <1>3 DEF WordToken
<1> QED
  BY <1>1, <1>2, <1>4, TokenKeeps

LEMMA EndOfTextKeeps ==
    ASSUME LexerInv, EndOfText
    PROVE  LexerInv' /\ lex' # "idle" /\ sql' = sql
<1> DEFINE R == [type : TokenTypes, text : Text]
           eof == [type |-> "EOF", text |-> << >>]
<1>1. CASE PushFails
  BY <1>1, PushFailsKeeps
<1>2. CASE /\ tokens' = Append(tokens, [type |-> "EOF", text |-> << >>])
           /\ blocks' = blocks + (IF items THEN 1 ELSE 2)
           /\ items' = TRUE
           /\ lex' = "lexed"
           /\ UNCHANGED <<sql, cursor, failures>>
  <2>1. eof \in R /\ tokens \in Seq(R) /\ tokens' = Append(tokens, eof)
    <3>1. << >> \in Text /\ "EOF" \in TokenTypes
      BY DEF Text, TokenTypes
    <3>2. tokens \in Seq(R)
      BY DEF LexerInv
    <3> QED
      BY <1>2, <3>1, <3>2
  <2>2. tokens' \in Seq(R) /\ Len(tokens') = Len(tokens) + 1
    <3> HIDE DEF R, eof
    <3> QED
      BY <2>1
  <2>3. blocks' = 1 + Len(tokens')
    <3>1. CASE items
      <4>1. blocks = 1 + Len(tokens) /\ Len(tokens) \in Nat
        BY <3>1, Counted DEF LexerInv
      <4> QED
        BY <1>2, <2>2, <3>1, <4>1
    <3>2. CASE ~items
      <4>1. blocks = 0 /\ Len(tokens) = 0
        BY <3>2 DEF LexerInv
      <4> QED
        BY <1>2, <2>2, <3>2, <4>1
    <3> QED
      BY <3>1, <3>2
  <2> QED
    BY <1>2, <2>2, <2>3 DEF LexerInv
<1> QED
  BY <1>1, <1>2 DEF EndOfText

LEMMA LexStepKeeps ==
    ASSUME LexerInv, LexStep
    PROVE  LexerInv' /\ lex' # "idle" /\ sql' = sql
<1>1. CASE SkipSpace
  BY <1>1, SkipSpaceKeeps
<1>2. CASE SingleToken
  BY <1>2, SingleTokenKeeps
<1>3. CASE OperatorToken
  BY <1>3, OperatorTokenKeeps
<1>4. CASE BadOperator \/ UnterminatedString \/ BadCharacter
  <2>1. Refuse
    BY <1>4 DEF BadOperator, UnterminatedString, BadCharacter
  <2> QED
    BY <2>1, RefuseKeeps
<1>5. CASE StringToken
  BY <1>5, StringTokenKeeps
<1>6. CASE NumberToken
  BY <1>6, NumberTokenKeeps
<1>7. CASE WordToken
  BY <1>7, WordTokenKeeps
<1>8. CASE EndOfText
  BY <1>8, EndOfTextKeeps
<1> QED
  BY <1>1, <1>2, <1>3, <1>4, <1>5, <1>6, <1>7, <1>8 DEF LexStep

LEMMA LexKeeps ==
    ASSUME LexerInv, lex = "idle", NEW text \in Text, Len(text) < Width, Lex(text)
    PROVE  LexerInv' /\ lex' = "lexing" /\ sql' = text
<1>1. /\ sql' = text /\ cursor' = 1 /\ tokens' = << >> /\ items' = FALSE /\ lex' = "lexing"
      /\ blocks' = blocks /\ failures' = failures
  BY DEF Lex
<1>2. Len(text) \in Nat /\ Len(tokens') = 0 /\ blocks = 0
  BY <1>1 DEF LexerInv, Text
<1>3. cursor' \in 1 .. Len(sql') + 1 /\ tokens' \in Seq([type : TokenTypes, text : Text])
  BY <1>1, <1>2
<1> QED
  BY <1>1, <1>2, <1>3 DEF LexerInv

-----------------------------------------------------------------------------
(* The table that the argument names.                                      *)

LEMMA TargetNamesTable ==
    ASSUME NEW word \in Text, GoodTarget(word), prepared' = TableOf(word)
    PROVE  NamedBy(word)'
<1>1. Len(word) \in Nat /\ Len(word) # 0
  BY DEF GoodTarget, Text
<1>4. DOMAIN word = 1 .. Len(word)
  BY DEF Text
<1>2. CASE Dots(word) = {}
  <2>1. prepared' = [schema |-> DefaultSchema, table |-> word]
    BY <1>2 DEF TableOf
  <2>2. prepared'.schema = DefaultSchema /\ prepared'.table = word
    BY <2>1
  <2>3. \A i \in DOMAIN word : word[i] # "."
    BY <1>2 DEF Dots
  <2> QED
    BY <2>2, <2>3 DEF NamedBy, GoodTarget
<1>3. CASE Dots(word) # {}
  <2>1. PICK dot \in Dots(word) : dot = CHOOSE i \in Dots(word) : TRUE
    BY <1>3
  <2>2. \A i \in Dots(word) : i = dot
    <3>1. IsFiniteSet(Dots(word))
      <4>1. IsFiniteSet(DOMAIN word)
        BY <1>1, <1>4, FS_Interval
      <4> QED
        BY <4>1, FS_Subset DEF Dots
    <3>2. Cardinality(Dots(word)) \in Nat /\ Cardinality(Dots(word)) <= 1
      BY <3>1, FS_CardinalityType DEF GoodTarget
    <3>3. Cardinality(Dots(word)) # 0
      BY <1>3, <3>1, FS_EmptySet
    <3>4. Cardinality(Dots(word)) = 1
      BY <3>2, <3>3
    <3>5. PICK x : Dots(word) = {x}
      BY <3>1, <3>4, FS_Singleton
    <3> QED
      BY <3>5
  <2>3. dot \in Nat /\ 1 < dot /\ dot < Len(word) /\ word[dot] = "."
    <3>1. dot \in 1 .. Len(word) /\ word[dot] = "."
      BY <1>4 DEF Dots
    <3>2. dot # 1 /\ dot # Len(word)
      BY DEF GoodTarget
    <3> QED
      BY <1>1, <3>1, <3>2
  <2> DEFINE schema == SubSeq(word, 1, dot - 1)
             table == SubSeq(word, dot + 1, Len(word))
  <2>4. prepared' = [schema |-> schema, table |-> table]
    BY <1>3, <2>1 DEF TableOf
  <2>5. /\ schema \in Text /\ Len(schema) = dot - 1
        /\ \A i \in 1 .. Len(schema) : schema[i] = word[1 + i - 1]
    <3>1. PICK b \in Int : b = dot - 1
      BY <2>3
    <3>2. b <= Len(word) /\ 1 <= b
      BY <1>1, <2>3, <3>1
    <3>3. /\ SubSeq(word, 1, b) \in Text
          /\ Len(SubSeq(word, 1, b)) = IF 1 <= b THEN b - 1 + 1 ELSE 0
          /\ \A i \in 1 .. Len(SubSeq(word, 1, b)) : SubSeq(word, 1, b)[i] = word[1 + i - 1]
      BY <3>2, Slice DEF Text
    <3>4. (IF 1 <= b THEN b - 1 + 1 ELSE 0) = b
      BY <3>2
    <3> QED
      BY <3>1, <3>3, <3>4
  <2>6. /\ table \in Text /\ Len(table) = Len(word) - dot
        /\ \A i \in 1 .. Len(table) : table[i] = word[dot + i]
    <3>1. PICK a \in Int : a = dot + 1
      BY <2>3
    <3>2. PICK n \in Int : n = Len(word)
      BY <1>1
    <3>3. a <= n /\ 1 <= a
      BY <2>3, <3>1, <3>2
    <3>4. /\ SubSeq(word, a, n) \in Text
          /\ Len(SubSeq(word, a, n)) = IF a <= n THEN n - a + 1 ELSE 0
          /\ \A i \in 1 .. Len(SubSeq(word, a, n)) : SubSeq(word, a, n)[i] = word[a + i - 1]
      BY <3>2, <3>3, Slice DEF Text
    <3>5. (IF a <= n THEN n - a + 1 ELSE 0) = n - dot
      BY <2>3, <3>1, <3>2, <3>3
    <3>6. table = SubSeq(word, a, n)
      BY <3>1, <3>2
    <3>7. \A i \in Int : a + i - 1 = dot + i
      BY <2>3, <3>1
    <3> HIDE DEF table
    <3>8. ASSUME NEW i \in 1 .. Len(table) PROVE table[i] = word[dot + i]
      <4>1. table[i] = word[a + i - 1]
        BY <3>4, <3>6
      <4>2. a + i - 1 = dot + i
        BY <3>7
      <4> QED
        BY <4>1, <4>2
    <3> QED
      BY <3>2, <3>4, <3>5, <3>6, <3>8
  <2> HIDE DEF schema, table
  <2>7. prepared'.schema = schema /\ prepared'.table = table
    BY <2>4
  <2>8. schema # << >> /\ table # << >>
    BY <1>1, <2>3, <2>5, <2>6
  <2>9. \A i \in DOMAIN table : table[i] # "."
    <3> SUFFICES ASSUME NEW i \in DOMAIN table PROVE table[i] # "."
      OBVIOUS
    <3>1. i \in 1 .. Len(word) - dot
      BY <1>1, <2>3, <2>6 DEF Text
    <3>2. dot + i \in 1 .. Len(word) /\ dot + i # dot
      BY <1>1, <2>3, <3>1
    <3>3. word[dot + i] # "."
      BY <1>4, <2>2, <3>2 DEF Dots
    <3> QED
      BY <2>6, <3>1, <3>3
  <2>10. word = schema \o <<".">> \o table
    <3> DEFINE joined == schema \o <<".">> \o table
               front == schema \o <<".">>
               A == STRING \union {"."}
    <3>1. schema \in Seq(A) /\ table \in Seq(A) /\ <<".">> \in Seq(A) /\ word \in Seq(A)
      BY <2>5, <2>6 DEF Text
    <3> HIDE DEF A
    <3>2. /\ front \in Seq(A) /\ Len(front) = dot
          /\ \A i \in 1 .. dot - 1 : front[i] = schema[i]
          /\ front[dot] = "."
      <4>1. PICK k \in Nat : k = dot - 1
        BY <2>3
      <4>2. Len(schema) = k /\ dot = k + 1
        BY <2>3, <2>5, <4>1
      <4>3. /\ front \in Seq(A) /\ Len(front) = k + 1
            /\ \A i \in 1 .. k : front[i] = schema[i]
            /\ front[k + 1] = "."
        <5>1. /\ front \in Seq(A) /\ Len(front) = Len(schema) + Len(<<".">>)
              /\ \A i \in 1 .. Len(schema) : front[i] = schema[i]
              /\ \A i \in Len(schema) + 1 .. Len(schema) + Len(<<".">>) :
                   front[i] = <<".">>[i - Len(schema)]
          BY ONLY <3>1, Joined
        <5>2. Len(<<".">>) = 1 /\ <<".">>[1] = "." /\ k + 1 - k = 1 /\ k + 1 \in k + 1 .. k + 1
          OBVIOUS
        <5> QED
          BY <4>2, <5>1, <5>2
      <4> QED
        BY <4>1, <4>2, <4>3
    <3> HIDE DEF front
    <3>3. joined = front \o table
      BY DEF front
    <3>4. /\ joined \in Seq(A) /\ Len(joined) = Len(word)
          /\ \A i \in 1 .. dot : joined[i] = front[i]
          /\ \A i \in dot + 1 .. Len(word) : joined[i] = table[i - dot]
      <4>1. PICK k \in Nat, n \in Nat : k = dot /\ n = Len(word)
        BY <1>1, <2>3
      <4>2. Len(front) = k /\ Len(table) = n - k /\ n - k \in Nat
        BY <2>3, <2>6, <3>2, <4>1
      <4>3. /\ joined \in Seq(A) /\ Len(joined) = k + (n - k)
            /\ \A i \in 1 .. k : joined[i] = front[i]
            /\ \A i \in k + 1 .. k + (n - k) : joined[i] = table[i - k]
        <5>1. /\ front \o table \in Seq(A) /\ Len(front \o table) = Len(front) + Len(table)
              /\ \A i \in 1 .. Len(front) : (front \o table)[i] = front[i]
              /\ \A i \in Len(front) + 1 .. Len(front) + Len(table) :
                   (front \o table)[i] = table[i - Len(front)]
          BY ONLY <3>1, <3>2, Joined
        <5> QED
          BY <3>3, <4>2, <5>1
      <4>4. k + (n - k) = n
        OBVIOUS
      <4> QED
        BY <4>1, <4>3, <4>4
    <3> HIDE DEF joined
    <3>5. ASSUME NEW i \in 1 .. Len(word) PROVE joined[i] = word[i]
      <4>1. CASE i < dot
        <5>1. i \in 1 .. dot - 1 /\ i \in 1 .. dot /\ 1 + i - 1 = i
          BY <2>3, <4>1
        <5> QED
          BY <2>5, <3>2, <3>4, <5>1
      <4>2. CASE i = dot
        BY <2>3, <3>2, <3>4, <4>2
      <4>3. CASE i > dot
        <5>1. i \in dot + 1 .. Len(word) /\ i - dot \in 1 .. Len(table) /\ dot + (i - dot) = i
          BY <1>1, <2>3, <2>6, <4>3
        <5> QED
          BY <2>6, <3>4, <5>1
      <4> QED
        BY <2>3, <4>1, <4>2, <4>3
    <3>6. joined = word
      BY <3>1, <3>4, <3>5
    <3> QED
      BY <3>6 DEF joined
  <2> QED
    BY <2>7, <2>8, <2>9, <2>10 DEF NamedBy
<1> QED
  BY <1>2, <1>3

-----------------------------------------------------------------------------
(* The driver.  An AST is there only while the statement is executed, and  *)
(* nothing but the lexer's tokens is allocated otherwise.                  *)

FlowInv ==
    /\ input \in Text /\ target \in Text
    /\ pos \in 1 .. Len(input) + 1
    /\ pc \in {"start", "read", "lex", "execute", "log", "exit"}
    /\ (lex # "idle") <=> (pc \in {"lex", "execute"})
    /\ pc = "execute" => lex = "lexed"
    /\ ast => pc = "execute"
    /\ pc = "exit" => ~open
    /\ made \in 0 .. Len(LogPath) - 1
    /\ exit \in {-1, 0, 1} /\ (exit # -1) <=> (pc = "exit")

PromptInv == prepared # NoTable => NamedBy(target)

SessionInvariant == LexerInv /\ FlowInv /\ PromptInv

LEMMA LexerSame ==
    ASSUME LexerInv, Keep
    PROVE  LexerInv' /\ lex' = lex /\ sql' = sql
BY DEF LexerInv, Keep, lexer

LEMMA PromptSame ==
    ASSUME PromptInv, UNCHANGED prompt
    PROVE  PromptInv'
BY DEF PromptInv, prompt, NamedBy

LEMMA PathLength == Len(LogPath) - 1 \in Nat /\ 0 \in 0 .. Len(LogPath) - 1
<1>1. LogPath \in Seq(STRING) /\ LogPath # << >>
  BY SessionAssumption
<1>2. Len(LogPath) \in Nat /\ Len(LogPath) # 0
  BY <1>1
<1> QED
  BY <1>2

LEMMA InputLength == FlowInv => Len(input) \in Nat /\ pos \in Nat
BY DEF FlowInv, Text

LEMMA InitKeeps == Init => SessionInvariant
<1> SUFFICES ASSUME Init PROVE SessionInvariant
  OBVIOUS
<1>1. << >> \in Text
  BY DEF Text
<1>2. LexerInv
  <2>1. tokens \in Seq([type : TokenTypes, text : Text])
    BY DEF Init, LexerInit
  <2>2. Len(sql) = 0 /\ 0 < Width /\ 0 \in 0 .. MaxFailures
    BY SessionAssumption, LexerAssumption DEF Init, LexerInit
  <2>3. /\ sql = << >> /\ cursor = 1 /\ tokens = << >> /\ items = FALSE /\ blocks = 0
        /\ lex = "idle" /\ failures = 0
    BY DEF Init, LexerInit
  <2>4. sql \in Text /\ Len(sql) < Width /\ cursor \in 1 .. Len(sql) + 1
    BY <1>1, <2>2, <2>3
  <2>5. items \in BOOLEAN /\ blocks = IF items THEN 1 + Len(tokens) ELSE 0
    BY <2>3
  <2>6. failures \in 0 .. MaxFailures
    BY <2>2, <2>3
  <2> QED
    BY <2>1, <2>3, <2>4, <2>5, <2>6 DEF LexerInv
<1>3. input \in Text /\ target \in Text
  BY <1>1, TextAssumption DEF Init
<1>4. Len(input) \in Nat
  BY <1>3 DEF Text
<1>5. FlowInv
  BY <1>3, <1>4, PathLength DEF Init, LexerInit, FlowInv
<1> QED
  BY <1>2, <1>5 DEF SessionInvariant, PromptInv, Init

(* The steps at the start, with the file or with the argument of --repl.   *)

LEMMA StartKeeps ==
    ASSUME SessionInvariant, FileMissing \/ OpenFile \/ StartPrompt
    PROVE  SessionInvariant'
<1>1. LexerInv' /\ lex' = lex
  BY LexerSame DEF SessionInvariant, FileMissing, OpenFile, StartPrompt
<1>2. FlowInv'
  <2>1. /\ pc = "start"
        /\ input' = input /\ target' = target /\ pos' = pos /\ ast' = ast /\ made' = made
        /\ \/ pc' = "exit" /\ exit' = 1 /\ open' = FALSE
           \/ pc' = "read" /\ exit' = exit
    BY DEF FileMissing, OpenFile, StartPrompt, Exit, prompt
  <2> QED
    BY <1>1, <2>1 DEF SessionInvariant, FlowInv
<1>3. PromptInv'
  <2>1. CASE FileMissing \/ OpenFile
    BY <2>1, PromptSame DEF SessionInvariant, FileMissing, OpenFile
  <2>2. CASE StartPrompt
    <3>1. target' = target /\ target \in Text
      BY <2>2 DEF StartPrompt, SessionInvariant, FlowInv
    <3>2. CASE prepared' = NoTable
      BY <3>2 DEF PromptInv
    <3>3. CASE prepared' # NoTable
      <4>1. GoodTarget(target) /\ prepared' = TableOf(target)
        BY <2>2, <3>3 DEF StartPrompt
      <4>2. PICK word \in Text : word = target
        BY <3>1
      <4>3. NamedBy(word)'
        BY <4>1, <4>2, TargetNamesTable
      <4>4. word = target'
        BY <3>1, <4>2
      <4> QED
        BY <4>3, <4>4 DEF PromptInv, NamedBy
    <3> QED
      BY <3>2, <3>3
  <2> QED
    BY <2>1, <2>2
<1> QED
  BY <1>1, <1>2, <1>3 DEF SessionInvariant

LEMMA ReadKeeps ==
    ASSUME SessionInvariant, SkipBlank \/ NothingToPreload \/ EndOfInput
    PROVE  SessionInvariant'
<1>1. LexerInv' /\ lex' = lex
  BY LexerSame DEF SessionInvariant, SkipBlank, NothingToPreload, EndOfInput
<1>2. pos' \in 1 .. Len(input) + 1
  <2>1. CASE SkipBlank
    BY <2>1, PieceFits DEF SkipBlank, SessionInvariant, FlowInv
  <2>2. CASE NothingToPreload
    BY <2>2, InputLength DEF NothingToPreload, Rewind, SessionInvariant
  <2>3. CASE EndOfInput
    BY <2>3 DEF EndOfInput, SessionInvariant, FlowInv
  <2> QED
    BY <2>1, <2>2, <2>3
<1>3. FlowInv'
  <2>1. /\ pc = "read"
        /\ input' = input /\ target' = target /\ ast' = ast /\ made' = made
        /\ \/ pc' = "exit" /\ exit' = 0 /\ open' = FALSE
           \/ pc' = "read" /\ exit' = exit
    BY DEF SkipBlank, Reading, NothingToPreload, Rewind, EndOfInput, Exit, prompt
  <2> QED
    BY <1>1, <1>2, <2>1 DEF SessionInvariant, FlowInv
<1>4. PromptInv'
  BY PromptSame DEF SessionInvariant, SkipBlank, NothingToPreload, EndOfInput
<1> QED
  BY <1>1, <1>3, <1>4 DEF SessionInvariant

LEMMA BeginKeeps ==
    ASSUME SessionInvariant, Begin
    PROVE  SessionInvariant' /\ Ended(sql')
<1>1. /\ pc = "read" /\ pc' = "lex" /\ Lex(Statement) /\ pos' = pos + Len(Piece)
      /\ input' = input /\ target' = target /\ ast' = ast /\ made' = made
      /\ open' = open /\ exit' = exit /\ UNCHANGED prompt
  BY DEF Begin, Reading, prompt
<1>2. lex = "idle" /\ input \in Text /\ pos \in 1 .. Len(input) + 1
  BY <1>1 DEF SessionInvariant, FlowInv
<1>3. PICK text \in Text : text = Statement /\ Len(text) < Width /\ Ended(text)
  BY <1>2, StatementFits
<1>4. LexerInv' /\ lex' = "lexing" /\ sql' = text
  BY <1>1, <1>2, <1>3, LexKeeps DEF SessionInvariant
<1>5. pos' \in 1 .. Len(input) + 1
  BY <1>1, <1>2, PieceFits
<1>6. FlowInv'
  BY <1>1, <1>4, <1>5 DEF SessionInvariant, FlowInv
<1> QED
  BY <1>1, <1>3, <1>4, <1>6, PromptSame DEF SessionInvariant

LEMMA LexSomeKeeps ==
    ASSUME SessionInvariant, LexSome
    PROVE  SessionInvariant' /\ sql' = sql
<1>1. pc = "lex" /\ UNCHANGED driver
  BY DEF LexSome
<1>2. LexerInv' /\ lex' # "idle" /\ sql' = sql
  BY LexStepKeeps DEF LexSome, SessionInvariant
<1>3. FlowInv'
  BY <1>1, <1>2 DEF SessionInvariant, FlowInv, driver, prompt
<1> QED
  BY <1>1, <1>2, <1>3, PromptSame DEF SessionInvariant, driver, prompt

LEMMA ParseKeeps ==
    ASSUME SessionInvariant, Parse
    PROVE  SessionInvariant' /\ sql' = sql
<1>1. LexerInv' /\ lex' = lex /\ sql' = sql
  BY LexerSame DEF SessionInvariant, Parse
<1>2. FlowInv'
  BY <1>1 DEF SessionInvariant, FlowInv, Parse, prompt
<1> QED
  BY <1>1, <1>2, PromptSame DEF SessionInvariant, Parse

(* The three ways in which a statement ends.                               *)
EndsStatement == LexFailed \/ ParseRefuses \/ Execute

LEMMA EndsBy ==
    ASSUME SessionInvariant, EndsStatement
    PROVE  /\ pc \in {"lex", "execute"} /\ LexerInv' /\ lex' = "idle" /\ sql' = sql /\ ~ast'
           /\ \E result \in BOOLEAN : Over(result)
<1>1. CASE LexFailed
  <2>1. /\ pc = "lex" /\ lex' = "idle" /\ ast' = ast /\ sql' = sql /\ cursor' = cursor
        /\ tokens' = tokens /\ items' = items /\ blocks' = blocks /\ failures' = failures
        /\ lex \in {"refused", "nomemory"}
    BY <1>1 DEF LexFailed
  <2>2. LexerInv'
    BY <2>1 DEF SessionInvariant, LexerInv
  <2>3. ~ast'
    BY <2>1 DEF SessionInvariant, FlowInv
  <2> QED
    BY <1>1, <2>1, <2>2, <2>3 DEF LexFailed
<1>2. CASE ParseRefuses \/ Execute
  <2>1. /\ pc \in {"lex", "execute"} /\ FreeTokens(0) /\ ast' = FALSE /\ lex' = "idle"
        /\ sql' = sql /\ cursor' = cursor /\ failures' = failures
    BY <1>2 DEF ParseRefuses, Execute, FreeAll
  <2>2. failures' \in 0 .. MaxFailures
    BY <2>1 DEF SessionInvariant, LexerInv
  <2>3. LexerInv'
    BY <2>1, <2>2, FailureKeeps DEF SessionInvariant
  <2>4. \E result \in BOOLEAN : Over(result)
    BY <1>2 DEF ParseRefuses, Execute
  <2> QED
    BY <2>1, <2>3, <2>4
<1> QED
  BY <1>1, <1>2 DEF EndsStatement

LEMMA EndsStatementKeeps ==
    ASSUME SessionInvariant, EndsStatement
    PROVE  SessionInvariant'
<1>1. /\ pc \in {"lex", "execute"} /\ LexerInv' /\ lex' = "idle" /\ ~ast'
  BY EndsBy
<1>2. PICK result \in BOOLEAN : Over(result)
  BY EndsBy
<1>3. /\ input' = input /\ target' = target /\ open' = open /\ exit' = exit /\ UNCHANGED prompt
      /\ \/ pc' = "read" /\ pos' = 1 /\ made' = made
         \/ pc' = "log" /\ made' = 0 /\ pos' = pos
  BY <1>2 DEF Over, Rewind, prompt
<1>4. FlowInv'
  BY <1>1, <1>3, PathLength, InputLength DEF SessionInvariant, FlowInv
<1> QED
  BY <1>1, <1>3, <1>4, PromptSame DEF SessionInvariant

LEMMA LogKeeps ==
    ASSUME SessionInvariant, MakeDirectory \/ Log \/ LogFails
    PROVE  SessionInvariant'
<1>1. LexerInv' /\ lex' = lex
  BY LexerSame DEF SessionInvariant, MakeDirectory, Log, LogFails
<1>2. made' \in 0 .. Len(LogPath) - 1
  <2>1. CASE MakeDirectory
    BY <2>1, PathLength DEF MakeDirectory, SessionInvariant, FlowInv
  <2>2. CASE Log \/ LogFails
    BY <2>2 DEF Log, LogFails, SessionInvariant, FlowInv
  <2> QED
    BY <2>1, <2>2
<1>3. FlowInv'
  <2>1. /\ pc = "log"
        /\ input' = input /\ target' = target /\ ast' = ast /\ pos' = pos
        /\ \/ pc' = "exit" /\ exit' = 1 /\ open' = FALSE
           \/ pc' \in {"read", "log"} /\ exit' = exit
    BY DEF MakeDirectory, Log, LogFails, NextStatement, Exit, prompt
  <2> QED
    BY <1>1, <1>2, <2>1 DEF SessionInvariant, FlowInv
<1>4. PromptInv'
  BY PromptSame DEF SessionInvariant, MakeDirectory, Log, LogFails
<1> QED
  BY <1>1, <1>3, <1>4 DEF SessionInvariant

LEMMA NextKeeps ==
    ASSUME SessionInvariant, [Next]_vars
    PROVE  SessionInvariant'
<1>1. CASE FileMissing \/ OpenFile \/ StartPrompt
  BY <1>1, StartKeeps
<1>2. CASE SkipBlank \/ NothingToPreload \/ EndOfInput
  BY <1>2, ReadKeeps
<1>3. CASE Begin
  BY <1>3, BeginKeeps
<1>4. CASE LexSome
  BY <1>4, LexSomeKeeps
<1>5. CASE Parse
  BY <1>5, ParseKeeps
<1>6. CASE LexFailed \/ ParseRefuses \/ Execute
  BY <1>6, EndsStatementKeeps DEF EndsStatement
<1>7. CASE MakeDirectory \/ Log \/ LogFails
  BY <1>7, LogKeeps
<1>8. CASE UNCHANGED vars
  <2>1. Keep /\ UNCHANGED prompt
    BY <1>8 DEF vars, driver, Keep
  <2>2. LexerInv' /\ lex' = lex /\ PromptInv'
    BY <2>1, LexerSame, PromptSame DEF SessionInvariant
  <2>3. FlowInv'
    BY <1>8, <2>2 DEF SessionInvariant, FlowInv, vars, driver, prompt
  <2> QED
    BY <2>2, <2>3 DEF SessionInvariant
<1> QED
  BY <1>1, <1>2, <1>3, <1>4, <1>5, <1>6, <1>7, <1>8 DEF Next

LEMMA Invariance == Spec => []SessionInvariant
<1>1. Init => SessionInvariant
  BY InitKeeps
<1>2. SessionInvariant /\ [Next]_vars => SessionInvariant'
  BY NextKeeps
<1> QED
  BY <1>1, <1>2, PTL DEF Spec

(* The program stays within its buffers in every run: a statement fits the *)
(* buffer it is read into, the position stays in the input, and the table  *)
(* prepared for the prompt is the one that the argument names.             *)
THEOREM TypeCorrect == Spec => []TypeOK
<1>1. SessionInvariant => TypeOK
  BY DEF SessionInvariant, LexerInv, FlowInv, PromptInv, TypeOK
<1> QED
  BY <1>1, Invariance, PTL

(* free_tokens and free_ast are called on every path of run_sql and        *)
(* preload_sql_context, malloc failing where it will: no block and no AST  *)
(* outlives its statement, and the SQL file is closed at the end.          *)
THEOREM NothingLeaks == Spec => []NoLeak
<1>1. SessionInvariant => NoLeak
  <2> SUFFICES ASSUME SessionInvariant PROVE NoLeak
    OBVIOUS
  <2>1. lex \notin {"lexing", "lexed"} => blocks = 0
    BY DEF SessionInvariant, LexerInv
  <2>2. pc \notin {"lex", "execute"} => lex = "idle" /\ ~ast
    BY DEF SessionInvariant, FlowInv
  <2>3. pc = "exit" => ~open
    BY DEF SessionInvariant, FlowInv
  <2> QED
    BY <2>1, <2>2, <2>3 DEF NoLeak
<1> QED
  BY <1>1, Invariance, PTL

-----------------------------------------------------------------------------
(* The log.  What is written of a statement that was run:                  *)
Tells(said, statement) ==
    LET text == Spaced(statement)
    IN  /\ Len(said) < LogWidth
        /\ Len(text) < LogWidth => said = text
        /\ Len(text) >= LogWidth =>
             \E n \in 0 .. LogWidth - 1 :
               /\ said \in {SubSeq(text, 1, n), SubSeq(text, 1, n) \o ThreeDots}
               /\ \A k \in n + 1 .. LogWidth - 4 : text[k] = " "

(* The characters of a buffer, and those before its first zero byte.       *)
Bytes == STRING \union {" ", ".", "end"}

LEMMA BytesOf ==
    ASSUME NEW n \in Nat, NEW b, b = [i \in 1 .. n |-> b[i]], \A i \in 1 .. n : b[i] \in Bytes
    PROVE  b \in Seq(Bytes) /\ Len(b) = n
<1> DEFINE Elem == Bytes
<1>1. \A i \in 1 .. n : b[i] \in Elem
  OBVIOUS
<1> HIDE DEF Elem
<1>2. b \in [1 .. n -> Elem]
  BY <1>1
<1>3. b \in Seq(Elem) /\ Len(b) = n
  BY <1>2
<1> QED
  BY <1>3 DEF Elem

LEMMA Beginning ==
    ASSUME NEW s \in Seq(Bytes), NEW n \in Nat, n <= Len(s)
    PROVE  /\ SubSeq(s, 1, n) \in Seq(Bytes) /\ Len(SubSeq(s, 1, n)) = n
           /\ \A i \in 1 .. n : SubSeq(s, 1, n)[i] = s[i]
<1> DEFINE Elem == Bytes
<1>1. s \in Seq(Elem) /\ 1 \in Int /\ 1 >= 1 /\ n \in Int /\ n <= Len(s)
  OBVIOUS
<1> HIDE DEF Elem
<1>2. /\ SubSeq(s, 1, n) \in Seq(Elem)
      /\ Len(SubSeq(s, 1, n)) = IF 1 <= n THEN n - 1 + 1 ELSE 0
      /\ \A i \in 1 .. Len(SubSeq(s, 1, n)) : SubSeq(s, 1, n)[i] = s[1 + i - 1]
  BY ONLY <1>1, Slice
<1>3. Len(SubSeq(s, 1, n)) = n
  BY <1>2
<1>4. ASSUME NEW i \in 1 .. n PROVE SubSeq(s, 1, n)[i] = s[i]
  <2>1. 1 + i - 1 = i
    OBVIOUS
  <2> QED
    BY <1>2, <1>3, <2>1
<1> QED
  BY <1>2, <1>3, <1>4 DEF Elem

LEMMA UpToEnd ==
    ASSUME NEW final \in Seq(Bytes), NEW n \in Nat, n < Len(final),
           \A i \in 1 .. n : final[i] # "end", final[n + 1] = "end"
    PROVE  LET said == SubSeq(final, 1, FirstOf(final, {"end"}) - 1)
           IN  said \in Seq(Bytes) /\ Len(said) = n /\ \A i \in 1 .. n : said[i] = final[i]
<1>1. PICK f : f = FirstOf(final, {"end"})
  OBVIOUS
<1>2. /\ f \in 1 .. Len(final) + 1
      /\ f <= Len(final) => final[f] \in {"end"}
      /\ \A i \in 1 .. f - 1 : final[i] \notin {"end"}
  <2> DEFINE Elem == Bytes
  <2>1. final \in Seq(Elem)
    OBVIOUS
  <2> HIDE DEF Elem
  <2> QED
    BY <1>1, <2>1, FirstOfWorks
<1>3. Len(final) \in Nat
  OBVIOUS
<1>4. f = n + 1
  <2>1. ~(f < n + 1)
    <3> SUFFICES ASSUME f < n + 1 PROVE FALSE
      OBVIOUS
    <3>1. f \in 1 .. n /\ f <= Len(final)
      BY <1>2, <1>3
    <3> QED
      BY <1>2, <3>1
  <2>2. ~(f > n + 1)
    <3> SUFFICES ASSUME f > n + 1 PROVE FALSE
      OBVIOUS
    <3>1. n + 1 \in 1 .. f - 1
      BY <1>2, <1>3
    <3> QED
      BY <1>2, <3>1
  <2> QED
    BY <1>2, <2>1, <2>2
<1>5. /\ SubSeq(final, 1, n) \in Seq(Bytes) /\ Len(SubSeq(final, 1, n)) = n
      /\ \A i \in 1 .. n : SubSeq(final, 1, n)[i] = final[i]
  BY <1>3, Beginning
<1>6. f - 1 = n
  BY <1>4
<1> QED
  BY <1>1, <1>5, <1>6

LEMMA SpacedFits ==
    ASSUME NEW s \in Text
    PROVE  /\ Spaced(s) \in Seq(Bytes) /\ Len(Spaced(s)) = Len(s)
           /\ \A i \in 1 .. Len(s) : Spaced(s)[i] # "end"
           /\ Ended(s) /\ s # << >> => Spaced(s)[Len(s)] # " "
<1>1. Len(s) \in Nat /\ DOMAIN s = 1 .. Len(s)
      /\ \A i \in 1 .. Len(s) : s[i] \in STRING \ {"end"}
  BY DEF Text
<1>2. PICK t : t = Spaced(s)
  OBVIOUS
<1>3. t = [i \in 1 .. Len(s) |-> IF s[i] \in {"\r", "\n", "\t"} THEN " " ELSE s[i]]
  BY <1>1, <1>2 DEF Spaced
<1>4. \A i \in 1 .. Len(s) : t[i] \in Bytes /\ t[i] # "end"
  BY <1>1, <1>3 DEF Bytes
<1>5. t \in Seq(Bytes) /\ Len(t) = Len(s)
  <2>1. t = [i \in 1 .. Len(s) |-> t[i]]
    BY <1>3
  <2> QED
    BY <1>1, <1>4, <2>1, BytesOf
<1>6. ASSUME Ended(s), s # << >> PROVE t[Len(s)] # " "
  <2>1. Len(s) \in 1 .. Len(s)
    BY <1>1, <1>6 DEF Text
  <2>2. s[Len(s)] \notin Spaces
    BY <1>6 DEF Ended
  <2>3. s[Len(s)] \notin {" ", "\t", "\r", "\n"}
    BY <2>2, TextAssumption
  <2> QED
    BY <1>3, <2>1, <2>3
<1> QED
  BY <1>2, <1>4, <1>5, <1>6

(* A buffer that holds a text in front and zero bytes behind it.           *)
Filled(kept, end) == [i \in 1 .. LogWidth |-> IF i <= end THEN kept[i] ELSE "end"]

LEMMA FilledFits ==
    ASSUME NEW kept \in Seq(Bytes), NEW end \in 0 .. Len(kept), Len(kept) < LogWidth
    PROVE  /\ Filled(kept, end) \in Seq(Bytes) /\ Len(Filled(kept, end)) = LogWidth
           /\ \A i \in 1 .. LogWidth :
                Filled(kept, end)[i] = IF i <= end THEN kept[i] ELSE "end"
<1>1. Len(kept) \in Nat /\ LogWidth \in Nat
  BY SessionAssumption
<1>2. PICK b : b = Filled(kept, end)
  OBVIOUS
<1>3. b = [i \in 1 .. LogWidth |-> IF i <= end THEN kept[i] ELSE "end"]
  BY <1>2 DEF Filled
<1>4. ASSUME NEW i \in 1 .. LogWidth PROVE b[i] \in Bytes
  <2>1. CASE i <= end
    <3>1. i \in 1 .. Len(kept)
      BY <1>1, <2>1
    <3> QED
      BY <1>3, <2>1, <3>1
  <2>2. CASE ~(i <= end)
    BY <1>3, <2>2 DEF Bytes
  <2> QED
    BY <2>1, <2>2
<1>5. b \in Seq(Bytes) /\ Len(b) = LogWidth
  <2>1. b = [i \in 1 .. LogWidth |-> b[i]]
    BY <1>3
  <2> QED
    BY <1>1, <1>4, <2>1, BytesOf
<1>6. \A i \in 1 .. LogWidth : b[i] = IF i <= end THEN kept[i] ELSE "end"
  BY <1>3
<1> QED
  BY <1>2, <1>5, <1>6

LEMMA DottedFits ==
    ASSUME NEW buffer \in Seq(Bytes), Len(buffer) = LogWidth
    PROVE  /\ Dotted(buffer) \in Seq(Bytes) /\ Len(Dotted(buffer)) = LogWidth
           /\ Dotted(buffer)[LogWidth] = "end"
           /\ \A i \in LogWidth - 3 .. LogWidth - 1 : Dotted(buffer)[i] = "."
           /\ \A i \in 1 .. LogWidth - 4 : Dotted(buffer)[i] = buffer[i]
<1>1. LogWidth \in Nat /\ LogWidth > 4
  BY SessionAssumption
<1>2. PICK d : d = Dotted(buffer)
  OBVIOUS
<1>3. d = [i \in 1 .. LogWidth |->
            IF i \in LogWidth - 3 .. LogWidth - 1 THEN "."
            ELSE IF i = LogWidth THEN "end" ELSE buffer[i]]
  BY <1>2 DEF Dotted
<1>4. \A i \in 1 .. LogWidth : buffer[i] \in Bytes
  OBVIOUS
<1>5. \A i \in 1 .. LogWidth : d[i] \in Bytes
  BY <1>3, <1>4 DEF Bytes
<1>6. d \in Seq(Bytes) /\ Len(d) = LogWidth
  <2>1. d = [i \in 1 .. LogWidth |-> d[i]]
    BY <1>3
  <2> QED
    BY <1>1, <1>5, <2>1, BytesOf
<1>7. d[LogWidth] = "end"
  BY <1>1, <1>3
<1>8. \A i \in LogWidth - 3 .. LogWidth - 1 : d[i] = "."
  BY <1>1, <1>3
<1>9. \A i \in 1 .. LogWidth - 4 : d[i] = buffer[i]
  BY <1>1, <1>3
<1> QED
  BY <1>2, <1>6, <1>7, <1>8, <1>9

(* Two texts of one length with the same characters.                       *)
LEMMA SameText ==
    ASSUME NEW a \in Seq(Bytes), NEW b \in Seq(Bytes), Len(a) = Len(b),
           \A i \in 1 .. Len(a) : a[i] = b[i]
    PROVE  a = b
<1> DEFINE Elem == Bytes
<1>1. a \in Seq(Elem) /\ b \in Seq(Elem)
  OBVIOUS
<1> HIDE DEF Elem
<1> QED
  BY <1>1

(* Where the text in front of trailing blanks ends.                        *)
Shown(kept) ==
    CHOOSE k \in 0 .. Len(kept) :
        /\ \A i \in k + 1 .. Len(kept) : kept[i] = " "
        /\ k > 0 => kept[k] # " "

LEMMA ShownWorks ==
    ASSUME NEW kept \in Seq(Bytes)
    PROVE  Shown(kept) \in 0 .. Len(kept) /\ EndsAt(kept, {" "}, Shown(kept))
<1> DEFINE Elem == Bytes
           P(k) == /\ \A i \in k + 1 .. Len(kept) : kept[i] = " "
                   /\ k > 0 => kept[k] # " "
<1>1. \E k \in 0 .. Len(kept) : EndsAt(kept, {" "}, k)
  <2>1. kept \in Seq(Elem)
    OBVIOUS
  <2> HIDE DEF Elem
  <2> QED
    BY ONLY <2>1, LastOutside
<1>2. \A k : P(k) <=> EndsAt(kept, {" "}, k)
  BY DEF EndsAt
<1> HIDE DEF P
<1>3. Shown(kept) = CHOOSE k \in 0 .. Len(kept) : P(k)
  BY DEF Shown, P
<1> QED
  BY <1>1, <1>2, <1>3

(* format_sql_for_log, by the parts named here.                            *)
LEMMA LogTextParts ==
    ASSUME NEW s, NEW kept,
           kept = SubSeq(Spaced(s), 1, IF TooLong(s) THEN LogWidth - 1 ELSE Len(s))
    PROVE  LET buffer == Filled(kept, Shown(kept))
               final == IF TooLong(s) THEN Dotted(buffer) ELSE buffer
           IN  LogText(s) = SubSeq(final, 1, FirstOf(final, {"end"}) - 1)
BY DEF LogText, Filled, Shown

(* A text that fits is logged as it is.                                    *)
LEMMA ShortIsLogged ==
    ASSUME NEW s \in Text, Ended(s), ~TooLong(s)
    PROVE  LogText(s) = Spaced(s) /\ Len(Spaced(s)) < LogWidth
<1>1. PICK t : t = Spaced(s)
  OBVIOUS
<1>2. /\ t \in Seq(Bytes) /\ Len(t) = Len(s)
      /\ \A i \in 1 .. Len(s) : t[i] # "end"
      /\ s # << >> => t[Len(s)] # " "
  BY <1>1, SpacedFits
<1>3. PICK n \in Nat : n = Len(s)
  BY DEF Text
<1>4. LogWidth \in Nat /\ n < LogWidth /\ Len(t) = n
  <2>1. LogWidth \in Nat
    BY SessionAssumption
  <2>2. ~(n > LogWidth - 1)
    BY <1>3 DEF TooLong
  <2>3. n < LogWidth
    BY <2>1, <2>2
  <2>4. Len(t) = n
    BY <1>2, <1>3
  <2> QED
    BY <2>1, <2>3, <2>4
<1>5. SubSeq(t, 1, n) = t
  <2>1. n <= Len(t)
    BY <1>4
  <2>2. /\ SubSeq(t, 1, n) \in Seq(Bytes) /\ Len(SubSeq(t, 1, n)) = n
        /\ \A i \in 1 .. n : SubSeq(t, 1, n)[i] = t[i]
    BY <1>2, <2>1, Beginning
  <2> QED
    BY <1>2, <1>4, <2>2, SameText
<1>6. Shown(t) = n
  <2>1. PICK k \in 0 .. n : k = Shown(t)
    BY <1>2, <1>4, ShownWorks
  <2>2. EndsAt(t, {" "}, k)
    BY <1>2, <2>1, ShownWorks
  <2>3. CASE k < n
    <3>1. n \in k + 1 .. Len(t) /\ n # 0
      BY <1>4, <2>3
    <3>2. t[n] = " "
      BY <2>2, <3>1 DEF EndsAt
    <3>3. s # << >>
      BY <1>3, <3>1
    <3> QED
      BY <1>2, <1>3, <3>2, <3>3
  <2> QED
    BY <2>1, <2>3
<1>7. PICK b : b = Filled(t, n)
  OBVIOUS
<1>8. /\ b \in Seq(Bytes) /\ Len(b) = LogWidth
      /\ \A i \in 1 .. LogWidth : b[i] = IF i <= n THEN t[i] ELSE "end"
  <2>1. n \in 0 .. Len(t) /\ Len(t) < LogWidth
    BY <1>4
  <2> QED
    BY <1>2, <1>7, <2>1, FilledFits
<1>9. LogText(s) = SubSeq(b, 1, FirstOf(b, {"end"}) - 1)
  <2>1. t = SubSeq(Spaced(s), 1, IF TooLong(s) THEN LogWidth - 1 ELSE Len(s))
    BY <1>1, <1>3, <1>5
  <2>2. PICK final : final = IF TooLong(s) THEN Dotted(Filled(t, Shown(t))) ELSE Filled(t, Shown(t))
    OBVIOUS
  <2>3. LogText(s) = SubSeq(final, 1, FirstOf(final, {"end"}) - 1)
    BY <2>1, <2>2, LogTextParts
  <2>4. final = b
    BY <1>6, <1>7, <2>2
  <2> QED
    BY <2>3, <2>4
<1>10. /\ n < Len(b) /\ b[n + 1] = "end"
       /\ \A i \in 1 .. n : b[i] = t[i] /\ b[i] # "end"
  <2>1. n + 1 \in 1 .. LogWidth /\ ~(n + 1 <= n) /\ n < LogWidth
    BY <1>4
  <2>2. \A i \in 1 .. n : i \in 1 .. LogWidth /\ i <= n
    BY <1>4
  <2>3. b[n + 1] = "end"
    BY <1>8, <2>1
  <2>4. \A i \in 1 .. n : b[i] = t[i]
    BY <1>8, <2>2
  <2> QED
    BY <1>2, <1>3, <1>8, <2>1, <2>3, <2>4
<1>11. PICK said : said = LogText(s)
  OBVIOUS
<1>12. said \in Seq(Bytes) /\ Len(said) = n /\ \A i \in 1 .. n : said[i] = b[i]
  BY <1>8, <1>9, <1>10, <1>11, UpToEnd
<1>13. said = t
  BY <1>2, <1>4, <1>10, <1>12, SameText
<1> QED
  BY <1>1, <1>4, <1>11, <1>13

(* Of a text that is too long its beginning is logged, and three dots, or  *)
(* only what is in front of the blanks at the cut.                         *)
LEMMA LongIsCut ==
    ASSUME NEW s \in Text, TooLong(s)
    PROVE  Tells(LogText(s), s)
<1>1. PICK t : t = Spaced(s)
  OBVIOUS
<1>2. PICK w \in Nat : w = LogWidth /\ w > 4
  BY SessionAssumption
<1>3. PICK n \in Nat : n = Len(s)
  BY DEF Text
<1>4. t \in Seq(Bytes) /\ Len(t) = n /\ \A i \in 1 .. n : t[i] # "end"
  BY <1>1, <1>3, SpacedFits
<1>5. n >= w
  <2>1. n > w - 1
    BY <1>2, <1>3 DEF TooLong
  <2> QED
    BY <2>1
<1>6. PICK kept : kept = SubSeq(t, 1, w - 1)
  OBVIOUS
<1>7. kept \in Seq(Bytes) /\ Len(kept) = w - 1 /\ \A i \in 1 .. w - 1 : kept[i] = t[i]
  <2>1. w - 1 \in Nat /\ w - 1 <= Len(t)
    BY <1>2, <1>4, <1>5
  <2>2. PICK v \in Nat : v = w - 1 /\ v <= Len(t)
    BY <2>1
  <2> QED
    BY <1>4, <1>6, <2>2, Beginning
<1>8. PICK end \in 0 .. w - 1 : end = Shown(kept) /\ EndsAt(kept, {" "}, end)
  BY <1>7, ShownWorks
<1>9. PICK b : b = Filled(kept, end)
  OBVIOUS
<1>10. /\ b \in Seq(Bytes) /\ Len(b) = w
       /\ \A i \in 1 .. w : b[i] = IF i <= end THEN kept[i] ELSE "end"
  <2>1. end \in 0 .. Len(kept) /\ Len(kept) < LogWidth
    BY <1>2, <1>7
  <2> QED
    BY <1>2, <1>7, <1>9, <2>1, FilledFits
<1>11. PICK d : d = Dotted(b)
  OBVIOUS
<1>12. /\ d \in Seq(Bytes) /\ Len(d) = w /\ d[w] = "end"
       /\ \A i \in w - 3 .. w - 1 : d[i] = "."
       /\ \A i \in 1 .. w - 4 : d[i] = b[i]
  BY <1>2, <1>10, <1>11, DottedFits
<1>13. PICK said : said = LogText(s)
  OBVIOUS
<1>14. said = SubSeq(d, 1, FirstOf(d, {"end"}) - 1)
  <2>1. kept = SubSeq(Spaced(s), 1, IF TooLong(s) THEN LogWidth - 1 ELSE Len(s))
    BY <1>1, <1>2, <1>6
  <2>2. PICK final : final = IF TooLong(s) THEN Dotted(Filled(kept, Shown(kept))) ELSE Filled(kept, Shown(kept))
    OBVIOUS
  <2>3. LogText(s) = SubSeq(final, 1, FirstOf(final, {"end"}) - 1)
    BY <2>1, <2>2, LogTextParts
  <2>4. final = d
    BY <1>8, <1>9, <1>11, <2>2
  <2> QED
    BY <1>13, <2>3, <2>4
<1>15. \A i \in 1 .. w - 1 : i <= end => b[i] = t[i]
  <2> SUFFICES ASSUME NEW i \in 1 .. w - 1, i <= end PROVE b[i] = t[i]
    OBVIOUS
  <2>1. i \in 1 .. w
    OBVIOUS
  <2> QED
    BY <1>7, <1>10, <2>1
<1>16. CASE end >= w - 4
  <2>1. ASSUME NEW i \in 1 .. w - 4 PROVE d[i] = t[i]
    <3>1. i \in 1 .. w - 1 /\ i <= end
      BY <1>16
    <3> QED
      BY <1>12, <1>15, <3>1
  <2>2. ASSUME NEW i \in 1 .. w - 1 PROVE d[i] # "end"
    <3>1. CASE i <= w - 4
      <4>1. i \in 1 .. w - 4 /\ i \in 1 .. n
        BY <1>5, <3>1
      <4> QED
        BY <1>4, <2>1, <4>1
    <3>2. CASE i > w - 4
      <4>1. i \in w - 3 .. w - 1
        BY <3>2
      <4> QED
        BY <1>12, <4>1
    <3> QED
      BY <3>1, <3>2
  <2>3. said \in Seq(Bytes) /\ Len(said) = w - 1 /\ \A i \in 1 .. w - 1 : said[i] = d[i]
    <3>1. PICK v \in Nat : v = w - 1
      BY <1>2
    <3>2. v < Len(d) /\ d[v + 1] = "end" /\ \A i \in 1 .. v : d[i] # "end"
      BY <1>12, <2>2, <3>1
    <3>3. said \in Seq(Bytes) /\ Len(said) = v /\ \A i \in 1 .. v : said[i] = d[i]
      <4>1. d \in Seq(Bytes) /\ v \in Nat
        BY <1>12
      <4> QED
        BY ONLY <1>14, <3>2, <4>1, UpToEnd
    <3> QED
      BY <3>1, <3>3
  <2>4. PICK front : front = SubSeq(t, 1, w - 4)
    OBVIOUS
  <2>5. /\ front \in Seq(Bytes) /\ Len(front) = w - 4
        /\ \A i \in 1 .. w - 4 : front[i] = t[i]
    <3>1. PICK v \in Nat : v = w - 4 /\ v <= Len(t)
      BY <1>2, <1>4, <1>5
    <3> QED
      BY <1>4, <2>4, <3>1, Beginning
  <2>6. PICK dots : dots = <<".", ".", ".">>
    OBVIOUS
  <2>7. dots \in Seq(Bytes) /\ Len(dots) = 3 /\ \A i \in 1 .. 3 : dots[i] = "."
    BY <2>6 DEF Bytes
  <2>8. PICK joined : joined = front \o dots
    OBVIOUS
  <2>9. /\ joined \in Seq(Bytes) /\ Len(joined) = w - 1
        /\ \A i \in 1 .. w - 4 : joined[i] = front[i]
        /\ \A i \in w - 3 .. w - 1 : joined[i] = "."
    <3>1. PICK v \in Nat : v = w - 4
      BY <1>2
    <3>2. /\ joined \in Seq(Bytes) /\ Len(joined) = Len(front) + Len(dots)
          /\ \A i \in 1 .. Len(front) : joined[i] = front[i]
          /\ \A i \in Len(front) + 1 .. Len(front) + Len(dots) : joined[i] = dots[i - Len(front)]
      <4> DEFINE Elem == Bytes
      <4>1. front \in Seq(Elem) /\ dots \in Seq(Elem)
        BY <2>5, <2>7
      <4> HIDE DEF Elem
      <4>2. /\ front \o dots \in Seq(Elem) /\ Len(front \o dots) = Len(front) + Len(dots)
            /\ \A i \in 1 .. Len(front) : (front \o dots)[i] = front[i]
            /\ \A i \in Len(front) + 1 .. Len(front) + Len(dots) :
                 (front \o dots)[i] = dots[i - Len(front)]
        BY ONLY <4>1, Joined
      <4> QED
        BY <2>8, <4>2 DEF Elem
    <3>3. Len(front) = v /\ Len(dots) = 3
      BY <2>5, <2>7, <3>1
    <3>4. ASSUME NEW i \in v + 1 .. v + 3 PROVE joined[i] = "."
      <4>1. i - v \in 1 .. 3
        OBVIOUS
      <4> QED
        BY <2>7, <3>2, <3>3, <4>1
    <3>5. w - 1 = v + 3 /\ w - 3 = v + 1
      BY <3>1
    <3> QED
      BY <3>1, <3>2, <3>3, <3>4, <3>5
  <2>10. ASSUME NEW i \in 1 .. w - 1 PROVE said[i] = joined[i]
    <3>1. CASE i <= w - 4
      <4>1. i \in 1 .. w - 4
        BY <3>1
      <4> QED
        BY <2>1, <2>3, <2>5, <2>9, <4>1
    <3>2. CASE i > w - 4
      <4>1. i \in w - 3 .. w - 1
        BY <3>2
      <4> QED
        BY <1>12, <2>3, <2>9, <4>1
    <3> QED
      BY <3>1, <3>2
  <2>11. said = joined
    BY <2>3, <2>9, <2>10, SameText
  <2>12. Len(said) < LogWidth /\ Len(t) >= LogWidth
    BY <1>2, <1>4, <1>5, <2>3
  <2>13. said = SubSeq(t, 1, w - 4) \o ThreeDots
    BY <2>4, <2>6, <2>11, <2>8 DEF ThreeDots
  <2>14. /\ w - 4 \in 0 .. LogWidth - 1
         /\ \A k \in w - 4 + 1 .. LogWidth - 4 : t[k] = " "
    <3>1. w - 4 \in 0 .. w - 1
      BY <1>2
    <3>2. w - 4 + 1 .. w - 4 = {}
      BY <1>2
    <3> QED
      BY <1>2, <3>1, <3>2
  <2>15. ~(Len(t) < LogWidth)
    BY <1>2, <1>4, <1>5
  <2> QED
    BY ONLY <1>1, <1>13, <2>12, <2>13, <2>14, <2>15, Zenon DEF Tells
<1>17. CASE end < w - 4
  <2>1. ASSUME NEW i \in 1 .. end PROVE d[i] = t[i] /\ d[i] # "end"
    <3>1. i \in 1 .. w - 4 /\ i \in 1 .. w - 1 /\ i <= end /\ i \in 1 .. n
      BY <1>5, <1>17
    <3> QED
      BY <1>4, <1>12, <1>15, <3>1
  <2>2. d[end + 1] = "end"
    <3>1. end + 1 \in 1 .. w - 4 /\ end + 1 \in 1 .. w /\ ~(end + 1 <= end)
      BY <1>17
    <3> QED
      BY <1>10, <1>12, <3>1
  <2>3. said \in Seq(Bytes) /\ Len(said) = end /\ \A i \in 1 .. end : said[i] = d[i]
    <3>1. end \in Nat /\ end < Len(d)
      BY <1>12, <1>17
    <3> QED
      BY <1>12, <1>14, <2>1, <2>2, <3>1, UpToEnd
  <2>4. said = SubSeq(t, 1, end)
    <3>1. PICK e \in Nat : e = end
      OBVIOUS
    <3>2. said \in Seq(Bytes) /\ Len(said) = e /\ \A i \in 1 .. e : said[i] = t[i]
      BY <2>1, <2>3, <3>1
    <3>3. e <= Len(t)
      BY <1>4, <1>5, <1>17, <3>1
    <3>4. /\ SubSeq(t, 1, e) \in Seq(Bytes) /\ Len(SubSeq(t, 1, e)) = e
          /\ \A i \in 1 .. e : SubSeq(t, 1, e)[i] = t[i]
      BY <1>4, <3>3, Beginning
    <3>5. said = SubSeq(t, 1, e)
      BY <3>2, <3>4, SameText
    <3> QED
      BY <3>1, <3>5
  <2>5. ASSUME NEW k \in end + 1 .. LogWidth - 4 PROVE t[k] = " "
    <3>1. k \in end + 1 .. Len(kept) /\ k \in 1 .. w - 1
      BY <1>2, <1>7
    <3>2. kept[k] = " "
      BY <1>8, <3>1 DEF EndsAt
    <3> QED
      BY <1>7, <3>1, <3>2
  <2>6. Len(said) < LogWidth /\ ~(Len(t) < LogWidth) /\ end \in 0 .. LogWidth - 1
    BY <1>2, <1>4, <1>5, <1>17, <2>3
  <2> QED
    BY ONLY <1>1, <1>13, <2>4, <2>5, <2>6, Zenon DEF Tells
<1> QED
  BY <1>2, <1>16, <1>17

LEMMA LogTextTells ==
    ASSUME NEW s \in Text, Ended(s)
    PROVE  Tells(LogText(s), s)
<1>1. CASE TooLong(s)
  BY <1>1, LongIsCut
<1>2. CASE ~TooLong(s)
  <2>1. LogText(s) = Spaced(s) /\ Len(Spaced(s)) < LogWidth
    BY <1>2, ShortIsLogged
  <2>2. PICK n \in Nat : n = Len(Spaced(s))
    <3>1. PICK n \in Nat : n = Len(s)
      BY DEF Text
    <3> QED
      BY <3>1, SpacedFits
  <2>3. ~(Len(Spaced(s)) >= LogWidth)
    BY <2>1, <2>2, SessionAssumption
  <2> QED
    BY ONLY <2>1, <2>3, Zenon DEF Tells
<1> QED
  BY <1>1, <1>2

(* While a statement is logged it is the last one that was run, and the    *)
(* lines that are there tell of earlier ones.                              *)
LogInv ==
    /\ Ended(sql)
    /\ ran \in Seq([text : Text, ok : BOOLEAN])
    /\ pc = "log" => ran # << >> /\ ran[Len(ran)].text = sql
    /\ \E Elem : logged \in Seq(Elem)
    /\ \A i \in DOMAIN logged :
         /\ logged[i].of \in DOMAIN ran
         /\ pc = "log" => logged[i].of < Len(ran)
         /\ Tells(logged[i].text, ran[logged[i].of].text)
    /\ \A i, j \in DOMAIN logged : i < j => logged[i].of < logged[j].of

(* A step that neither runs a statement nor logs one.                      *)
LEMMA LogSame ==
    ASSUME LogInv, UNCHANGED <<ran, logged>>, Ended(sql'),
           pc' = "log" => pc = "log" /\ sql' = sql
    PROVE  LogInv'
BY DEF LogInv, Ended

(* A statement is run: it is the last one, and no line tells of it yet.    *)
LEMMA OverLogs ==
    ASSUME LogInv, sql \in Text, sql' = sql, pc # "log", NEW result \in BOOLEAN, Over(result)
    PROVE  LogInv'
<1>1. CASE preload
  <2>1. pc' = "read" /\ UNCHANGED <<ran, logged>>
    BY <1>1 DEF Over, Rewind
  <2>2. Ended(sql')
    BY DEF LogInv, Ended
  <2> QED
    BY <2>1, <2>2, LogSame
<1>2. CASE ~preload
  <2> DEFINE R == [text : Text, ok : BOOLEAN]
  <2>1. PICK e \in R : e.text = sql /\ ran' = Append(ran, e)
    <3>1. [text |-> sql, ok |-> result] \in R
      OBVIOUS
    <3> QED
      BY <1>2, <3>1 DEF Over
  <2>2. ran \in Seq(R) /\ logged' = logged /\ pc' = "log"
    BY <1>2 DEF Over, LogInv
  <2> HIDE DEF R
  <2>3. PICK n \in Nat : n = Len(ran)
    BY <2>2
  <2>4. /\ ran' \in Seq(R) /\ Len(ran') = n + 1 /\ ran'[n + 1] = e
        /\ \A i \in 1 .. n : ran'[i] = ran[i]
        /\ DOMAIN ran = 1 .. n /\ DOMAIN ran' = 1 .. n + 1
    BY <2>1, <2>2, <2>3
  <2>5. ran' # << >> /\ ran'[Len(ran')].text = sql'
    BY <2>1, <2>4
  <2>6. \E Elem : logged' \in Seq(Elem)
    BY <2>2 DEF LogInv
  <2>7. ASSUME NEW i \in DOMAIN logged
        PROVE  /\ logged[i].of \in 1 .. n + 1 /\ logged[i].of < n + 1
               /\ Tells(logged[i].text, ran'[logged[i].of].text)
    <3>1. logged[i].of \in 1 .. n /\ Tells(logged[i].text, ran[logged[i].of].text)
      BY <2>4 DEF LogInv
    <3>2. PICK k \in 1 .. n : k = logged[i].of
      BY <3>1
    <3>3. k \in 1 .. n + 1 /\ k < n + 1 /\ ran'[k] = ran[k]
      BY <2>4
    <3> QED
      BY <3>1, <3>2, <3>3
  <2>8. Ended(sql')
    BY DEF LogInv, Ended
  <2>9. ran' \in Seq([text : Text, ok : BOOLEAN])
    BY <2>4 DEF R
  <2>10. \A i, j \in DOMAIN logged : i < j => logged[i].of < logged[j].of
    BY DEF LogInv
  <2> QED
    BY <2>2, <2>4, <2>5, <2>6, <2>7, <2>8, <2>9, <2>10 DEF LogInv, Tells
<1> QED
  BY <1>1, <1>2

(* A line is written: it tells of the last statement, the others of        *)
(* earlier ones.                                                           *)
LEMMA LogLogs ==
    ASSUME SessionInvariant, LogInv, Log
    PROVE  LogInv'
<1>1. /\ pc = "log" /\ pc' # "log" /\ sql' = sql /\ ran' = ran
      /\ logged' = Append(logged, [of |-> Len(ran), text |-> LogText(sql)])
  BY DEF Log, NextStatement, Exit, Keep, lexer
<1>2. PICK line : line = [of |-> Len(ran), text |-> LogText(sql)]
  OBVIOUS
<1>3. PICK Elem : logged \in Seq(Elem)
  BY DEF LogInv
<1>4. PICK m \in Nat : m = Len(logged)
  BY <1>3
<1>5. PICK n \in Nat : n = Len(ran) /\ n # 0 /\ DOMAIN ran = 1 .. n
  BY <1>1 DEF LogInv
<1>6. line.of = n /\ line.text = LogText(sql)
  BY <1>2, <1>5
<1>7. Tells(line.text, ran[n].text)
  <2>1. PICK s \in Text : s = sql /\ Ended(s)
    BY DEF SessionInvariant, LexerInv, LogInv
  <2>2. Tells(LogText(s), s)
    BY <2>1, LogTextTells
  <2>3. ran[n].text = s
    BY <1>1, <1>5, <2>1 DEF LogInv
  <2> QED
    BY <1>6, <2>1, <2>2, <2>3
<1>8. /\ logged' \in Seq(Elem \union {line}) /\ DOMAIN logged = 1 .. m
      /\ DOMAIN logged' = 1 .. m + 1 /\ logged'[m + 1] = line
      /\ \A i \in 1 .. m : logged'[i] = logged[i]
  <2>1. PICK T : T = Elem \union {line}
    OBVIOUS
  <2>2. logged \in Seq(T) /\ line \in T /\ logged' = Append(logged, line)
    BY <1>1, <1>2, <1>3, <2>1
  <2> QED
    BY <1>4, <2>1, <2>2
<1>9. ASSUME NEW i \in 1 .. m
      PROVE  /\ logged[i].of \in 1 .. n /\ logged[i].of < n
             /\ Tells(logged[i].text, ran[logged[i].of].text)
  BY <1>1, <1>5, <1>8 DEF LogInv
<1>10. ASSUME NEW i \in DOMAIN logged'
      PROVE  logged'[i].of \in DOMAIN ran /\ Tells(logged'[i].text, ran[logged'[i].of].text)
  <2>1. CASE i \in 1 .. m
    BY <1>5, <1>8, <1>9, <2>1
  <2>2. CASE i = m + 1
    BY <1>5, <1>6, <1>7, <1>8, <2>2
  <2> QED
    BY <1>8, <2>1, <2>2
<1>11. ASSUME NEW i \in DOMAIN logged', NEW j \in DOMAIN logged', i < j
       PROVE  logged'[i].of < logged'[j].of
  <2>1. i \in 1 .. m
    BY <1>8, <1>11
  <2>2. CASE j \in 1 .. m
    BY <1>8, <1>11, <2>1, <2>2 DEF LogInv
  <2>3. CASE j = m + 1
    BY <1>6, <1>8, <1>9, <2>1, <2>3
  <2> QED
    BY <1>8, <2>2, <2>3
<1>12. Ended(sql') /\ ran' \in Seq([text : Text, ok : BOOLEAN])
  BY <1>1 DEF LogInv, Ended
<1> QED
  BY <1>1, <1>8, <1>10, <1>11, <1>12 DEF LogInv, Tells

LEMMA NextLogs ==
    ASSUME SessionInvariant, LogInv, [Next]_vars
    PROVE  LogInv'
<1>1. Ended(sql)
  BY DEF LogInv
<1>2. CASE \/ FileMissing \/ OpenFile \/ StartPrompt \/ SkipBlank \/ NothingToPreload \/ EndOfInput
           \/ MakeDirectory \/ LogFails \/ UNCHANGED vars
  <2>1. UNCHANGED <<ran, logged, sql>>
    BY <1>2 DEF FileMissing, OpenFile, StartPrompt, SkipBlank, NothingToPreload, EndOfInput,
                MakeDirectory, LogFails, vars, driver, Keep, lexer
  <2>2. pc' = "log" => pc = "log"
    BY <1>2 DEF FileMissing, OpenFile, StartPrompt, SkipBlank, NothingToPreload, EndOfInput,
                MakeDirectory, LogFails, NextStatement, Exit, Rewind, vars, driver
  <2>3. Ended(sql')
    BY <1>1, <2>1 DEF Ended
  <2> QED
    BY <2>1, <2>2, <2>3, LogSame
<1>3. CASE Begin
  <2>1. UNCHANGED <<ran, logged>> /\ pc' = "lex"
    BY <1>3 DEF Begin
  <2>2. Ended(sql')
    BY <1>3, BeginKeeps
  <2> QED
    BY <2>1, <2>2, LogSame
<1>4. CASE LexSome \/ Parse
  <2>1. sql' = sql
    BY <1>4, LexSomeKeeps, ParseKeeps
  <2>2. UNCHANGED <<ran, logged>> /\ pc' # "log"
    BY <1>4 DEF LexSome, Parse, driver
  <2>3. Ended(sql')
    BY <1>1, <2>1 DEF Ended
  <2> QED
    BY <2>2, <2>3, LogSame
<1>5. CASE LexFailed \/ ParseRefuses \/ Execute
  <2>1. EndsStatement
    BY <1>5 DEF EndsStatement
  <2>2. pc # "log" /\ sql' = sql /\ sql \in Text
    BY <2>1, EndsBy DEF SessionInvariant, LexerInv
  <2>3. PICK result \in BOOLEAN : Over(result)
    BY <2>1, EndsBy
  <2> QED
    BY <2>2, <2>3, OverLogs
<1>6. CASE Log
  BY <1>6, LogLogs
<1> QED
  BY <1>2, <1>3, <1>4, <1>5, <1>6 DEF Next

(* append_query_timing_log, for every width of its buffer and every text:  *)
(* the log tells of statements in the order in which they were run and of  *)
(* each at most once, and a line is the statement or the beginning of one  *)
(* that is too long, within the buffer, with the dots or without.          *)
THEOREM LogTellsAlways == Spec => []LogTellsStatements
<1>1. Init => LogInv
  <2> SUFFICES ASSUME Init PROVE LogInv
    OBVIOUS
  <2>1. sql = << >> /\ ran = << >> /\ logged = << >> /\ pc = "start"
    BY DEF Init, LexerInit
  <2>2. logged \in Seq({})
    BY <2>1
  <2> QED
    BY <2>1, <2>2 DEF LogInv, Ended
<1>2. SessionInvariant /\ SessionInvariant' /\ LogInv /\ [Next]_vars => LogInv'
  BY NextLogs
<1>3. LogInv => LogTellsStatements
  BY DEF LogInv, LogTellsStatements, Tells
<1> QED
  BY <1>1, <1>2, <1>3, Invariance, PTL DEF Spec

-----------------------------------------------------------------------------
(* The tokens.  What a text is, told by its first character.               *)

IsNumber(s) ==
    \/ Whole(s, Digits)
    \/ Len(s) > 1 /\ s[1] \in {"+", "-"} /\ Whole(Tail(s), Digits)
IsString(s) ==
    /\ Len(s) > 1 /\ s[1] = "'" /\ s[Len(s)] = "'"
    /\ \A i \in 2 .. Len(s) - 1 : s[i] # "'"
IsOperator(s) == s \in {<<"=">>, <<"<">>, <<">">>, <<"!", "=">>, <<"<", "=">>, <<">", "=">>}
IsWord(s) == Whole(s, Letters \union Digits) /\ s[1] \in Letters
IsKeyword(s) == \E k \in Keywords : SameWord(s, k)
IsSingle(s, type) == Len(s) = 1 /\ s[1] \in Singles /\ SingleType[s[1]] = type

LEMMA TypeMeans ==
    ASSUME NEW s, NEW type \in TypesOf(s)
    PROVE  \/ type = "NUMBER" /\ IsNumber(s)
           \/ type = "STRING" /\ IsString(s)
           \/ type = "OPERATOR" /\ IsOperator(s)
           \/ type = "KEYWORD" /\ IsWord(s) /\ IsKeyword(s)
           \/ type = "IDENTIFIER" /\ IsWord(s) /\ ~IsKeyword(s)
           \/ IsSingle(s, type)
BY DEF TypesOf, IsNumber, IsString, IsOperator, IsWord, IsKeyword, IsSingle

LEMMA MeansType ==
    ASSUME NEW s
    PROVE  /\ IsNumber(s) => "NUMBER" \in TypesOf(s)
           /\ IsString(s) => "STRING" \in TypesOf(s)
           /\ IsOperator(s) => "OPERATOR" \in TypesOf(s)
           /\ IsWord(s) /\ IsKeyword(s) => "KEYWORD" \in TypesOf(s)
           /\ IsWord(s) /\ ~IsKeyword(s) => "IDENTIFIER" \in TypesOf(s)
           /\ \A c \in Singles : IsSingle(s, SingleType[c]) => SingleType[c] \in TypesOf(s)
<1>1. IsNumber(s) => "NUMBER" \in TypesOf(s)
  BY DEF TypesOf, IsNumber
<1>2. IsString(s) => "STRING" \in TypesOf(s)
  BY DEF TypesOf, IsString
<1>3. IsOperator(s) => "OPERATOR" \in TypesOf(s)
  BY DEF TypesOf, IsOperator
<1>4. IsWord(s) /\ IsKeyword(s) => "KEYWORD" \in TypesOf(s)
  BY DEF TypesOf, IsWord, IsKeyword
<1>5. IsWord(s) /\ ~IsKeyword(s) => "IDENTIFIER" \in TypesOf(s)
  BY DEF TypesOf, IsWord, IsKeyword
<1>6. ASSUME NEW c \in Singles, IsSingle(s, SingleType[c]) PROVE SingleType[c] \in TypesOf(s)
  BY <1>6, KindsAssumption DEF TypesOf, IsSingle
<1> QED
  BY <1>1, <1>2, <1>3, <1>4, <1>5, <1>6

LEMMA FirstTells ==
    ASSUME NEW s \in Text, s # << >>
    PROVE  /\ IsNumber(s) => s[1] \in Digits \union {"+", "-"}
           /\ IsString(s) => s[1] = "'"
           /\ IsOperator(s) => s[1] \in Operators
           /\ IsWord(s) => s[1] \in Letters
           /\ \A type : IsSingle(s, type) => s[1] \in Singles
<1>1. 1 \in DOMAIN s
  BY DEF Text
<1>2. IsNumber(s) => s[1] \in Digits \union {"+", "-"}
  BY <1>1 DEF IsNumber, Whole
<1>3. IsOperator(s) => s[1] \in Operators
  BY DEF IsOperator, Operators
<1> QED
  BY <1>2, <1>3 DEF IsString, IsWord, IsSingle

(* Whatever a text is, it is of one type.                                  *)
LEMMA OneType ==
    ASSUME NEW s \in Text, s # << >>, NEW t \in TypesOf(s), NEW u \in TypesOf(s)
    PROVE  t = u
<1>1. \A c \in Digits \union {"+", "-"} : c # "'" /\ c \notin Operators \union Letters \union Singles
  BY KindsAssumption DEF Marks, Operators
<1>2. \A c \in Letters : c # "'" /\ c \notin Operators \union Singles
  BY KindsAssumption DEF Marks, Operators
<1>3. \A c \in Singles : c # "'" /\ c \notin Operators
  BY KindsAssumption DEF Marks, Operators
<1>4. "'" \notin Operators
  BY DEF Operators
<1>5. IsNumber(s) => /\ ~IsString(s) /\ ~IsOperator(s) /\ ~IsWord(s)
                     /\ \A type : ~IsSingle(s, type)
  BY FirstTells, <1>1
<1>6. IsWord(s) => ~IsString(s) /\ ~IsOperator(s) /\ \A type : ~IsSingle(s, type)
  BY FirstTells, <1>2
<1>7. IsString(s) => ~IsOperator(s) /\ \A type : ~IsSingle(s, type)
  BY FirstTells, <1>3, <1>4
<1>8. IsOperator(s) => \A type : ~IsSingle(s, type)
  BY FirstTells, <1>3
<1>9. \A x, y : IsSingle(s, x) /\ IsSingle(s, y) => x = y
  BY DEF IsSingle
<1>10. ASSUME NEW type \in TypesOf(s)
       PROVE  \/ type = "NUMBER" /\ IsNumber(s)
              \/ type = "STRING" /\ IsString(s)
              \/ type = "OPERATOR" /\ IsOperator(s)
              \/ type = "KEYWORD" /\ IsWord(s) /\ IsKeyword(s)
              \/ type = "IDENTIFIER" /\ IsWord(s) /\ ~IsKeyword(s)
              \/ IsSingle(s, type)
  BY TypeMeans
<1> QED
  BY <1>5, <1>6, <1>7, <1>8, <1>9, <1>10

-----------------------------------------------------------------------------
(* The longest token from a position on.                                   *)

Chunk(s, i, m) == SubSeq(s, i, i + m - 1)

LEMMA ChunkFits ==
    ASSUME NEW s \in Text, NEW i \in 1 .. Len(s), NEW m \in 1 .. Len(s) - i + 1
    PROVE  /\ Chunk(s, i, m) \in Text /\ Chunk(s, i, m) # << >> /\ Len(Chunk(s, i, m)) = m
           /\ DOMAIN Chunk(s, i, m) = 1 .. m
           /\ \A k \in 1 .. m : Chunk(s, i, m)[k] = s[i + k - 1]
<1>1. Len(s) \in Nat /\ i \in Int /\ i >= 1 /\ m \in Int /\ i + m - 1 \in Int /\ i + m - 1 <= Len(s)
      /\ i <= i + m - 1
  BY DEF Text
<1>2. PICK b \in Int : b = i + m - 1
  BY <1>1
<1>3. PICK p : p = SubSeq(s, i, b)
  OBVIOUS
<1>4. p \in Text /\ Len(p) = b - i + 1 /\ \A k \in 1 .. Len(p) : p[k] = s[i + k - 1]
  BY <1>1, <1>2, <1>3, Slice DEF Text
<1>5. Len(p) = m
  BY <1>1, <1>2, <1>4
<1>6. DOMAIN p = 1 .. m /\ p # << >>
  BY <1>4, <1>5 DEF Text
<1>7. p = Chunk(s, i, m)
  BY <1>2, <1>3 DEF Chunk
<1> QED
  BY <1>4, <1>5, <1>6, <1>7

LongestToken(s, i, n, type) ==
    /\ n \in 1 .. Len(s) - i + 1
    /\ type \in TypesOf(Chunk(s, i, n))
    /\ \A m \in n + 1 .. Len(s) - i + 1 : TypesOf(Chunk(s, i, m)) = {}

NoToken(s, i) == \A m \in 1 .. Len(s) - i + 1 : TypesOf(Chunk(s, i, m)) = {}

LEMMA MaxIs ==
    ASSUME NEW R \in SUBSET Nat, NEW x \in R, \A y \in R : y <= x
    PROVE  Max(R) = x
<1> DEFINE P(z) == \A y \in R : z >= y
<1>1. Max(R) = CHOOSE z \in R : P(z)
  BY DEF Max
<1>2. P(x) /\ \A z \in R : P(z) => z = x
  OBVIOUS
<1> HIDE DEF P
<1> QED
  BY <1>1, <1>2

LEMMA LongestIs ==
    ASSUME NEW s \in Text, NEW i \in 1 .. Len(s), NEW n, NEW type, LongestToken(s, i, n, type)
    PROVE  /\ Longest(s, i) = i + n - 1
           /\ SubSeq(s, i, Longest(s, i)) = Chunk(s, i, n)
           /\ (CHOOSE t \in TypesOf(Chunk(s, i, n)) : TRUE) = type
<1> DEFINE R == {0} \union {j \in i .. Len(s) : TypesOf(SubSeq(s, i, j)) # {}}
<1>1. Len(s) \in Nat /\ n \in Nat /\ n >= 1 /\ i + n - 1 \in i .. Len(s)
  BY DEF LongestToken, Text
<1>2. R \in SUBSET Nat
  BY <1>1
<1>3. i + n - 1 \in R
  BY <1>1 DEF LongestToken, Chunk
<1>4. ASSUME NEW j \in R PROVE j <= i + n - 1
  <2>1. SUFFICES ASSUME j > i + n - 1 PROVE FALSE
    BY <1>1, <1>2
  <2>2. j \in i .. Len(s) /\ TypesOf(SubSeq(s, i, j)) # {}
    BY <2>1, <1>1
  <2>3. PICK m \in Int : m = j - i + 1
    BY <2>2
  <2>4. m \in n + 1 .. Len(s) - i + 1 /\ j = i + m - 1
    BY <2>1, <2>2, <2>3, <1>1
  <2>5. TypesOf(Chunk(s, i, m)) = {}
    BY <2>4 DEF LongestToken
  <2> QED
    BY <2>2, <2>4, <2>5 DEF Chunk
<1>5. Longest(s, i) = Max(R)
  BY DEF Longest
<1>6. Max(R) = i + n - 1
  <2> HIDE DEF R
  <2>1. PICK x : x = i + n - 1
    OBVIOUS
  <2> QED
    BY <2>1, <1>2, <1>3, <1>4, MaxIs
<1>7. SubSeq(s, i, Longest(s, i)) = Chunk(s, i, n)
  BY <1>5, <1>6 DEF Chunk
<1>8. \A t \in TypesOf(Chunk(s, i, n)) : t = type
  BY OneType, ChunkFits DEF LongestToken
<1> QED
  BY <1>5, <1>6, <1>7, <1>8 DEF LongestToken

LEMMA LongestIsNone ==
    ASSUME NEW s \in Text, NEW i \in 1 .. Len(s), NoToken(s, i)
    PROVE  Longest(s, i) = 0
<1> DEFINE R == {0} \union {j \in i .. Len(s) : TypesOf(SubSeq(s, i, j)) # {}}
<1>1. Len(s) \in Nat
  BY DEF Text
<1>2. ASSUME NEW j \in i .. Len(s) PROVE TypesOf(SubSeq(s, i, j)) = {}
  <2>1. PICK m \in Int : m = j - i + 1
    OBVIOUS
  <2>2. m \in 1 .. Len(s) - i + 1 /\ j = i + m - 1
    BY <1>1, <2>1
  <2> QED
    BY <2>2 DEF NoToken, Chunk
<1>3. R = {0}
  BY <1>2
<1>4. Longest(s, i) = Max({0})
  BY <1>3 DEF Longest
<1>5. Max({0}) = 0
  <2>1. {0} \in SUBSET Nat /\ 0 \in {0} /\ \A y \in {0} : y <= 0
    OBVIOUS
  <2> QED
    BY <2>1, MaxIs
<1> QED
  BY <1>4, <1>5

LEMMA LongestFits ==
    ASSUME NEW s \in Text, NEW i \in 1 .. Len(s)
    PROVE  \/ Longest(s, i) = 0
           \/ /\ Longest(s, i) \in i .. Len(s)
              /\ TypesOf(SubSeq(s, i, Longest(s, i))) # {}
<1> DEFINE E == {j \in i .. Len(s) : TypesOf(SubSeq(s, i, j)) # {}}
           R == {0} \union E
           T == {k \in 0 .. Len(s) : Len(s) - k \in R}
<1>1. Len(s) \in Nat /\ R \subseteq 0 .. Len(s)
  BY DEF Text
<1>2. Len(s) \in T /\ T \in SUBSET Nat
  BY <1>1
<1>3. PICK m \in T : \A k \in T : m <= k
  <2> HIDE DEF T
  <2> QED
    BY <1>2, LeastNatural
<1>4. Len(s) - m \in R /\ m \in 0 .. Len(s)
  OBVIOUS
<1>5. ASSUME NEW y \in R PROVE y <= Len(s) - m
  <2>1. Len(s) - y \in 0 .. Len(s) /\ Len(s) - (Len(s) - y) = y
    BY <1>1
  <2>2. Len(s) - y \in T
    BY <2>1
  <2>3. m <= Len(s) - y
    BY <2>2, <1>3
  <2> QED
    BY <2>1, <2>3, <1>1, <1>4
<1>6. Longest(s, i) = Max(R)
  BY DEF Longest
<1>7. Max(R) = Len(s) - m
  <2> HIDE DEF R, T
  <2>1. PICK x : x = Len(s) - m
    OBVIOUS
  <2>2. R \in SUBSET Nat
    BY <1>1
  <2> QED
    BY <2>1, <2>2, <1>4, <1>5, MaxIs
<1> QED
  BY <1>4, <1>6, <1>7

-----------------------------------------------------------------------------
(* The reference, position by position from the end of the text.           *)

Kinds == TokenTypes \union {"ERROR"}
Seqs == Seq([type : Kinds, text : Text])

Here(f, s, i) ==
    IF i > Len(s) THEN <<[type |-> "EOF", text |-> << >>]>>
    ELSE IF s[i] \in Spaces THEN f[i + 1]
    ELSE IF Longest(s, i) = 0 THEN <<[type |-> "ERROR", text |-> << >>]>>
    ELSE <<[type |-> CHOOSE t \in TypesOf(SubSeq(s, i, Longest(s, i))) : TRUE,
            text |-> SubSeq(s, i, Longest(s, i))]>>
           \o f[Longest(s, i) + 1]

LEMMA HereLooksAhead ==
    ASSUME NEW s \in Text, NEW i \in 1 .. Len(s) + 1, NEW f, NEW g,
           \A j \in i + 1 .. Len(s) + 1 : f[j] = g[j]
    PROVE  Here(f, s, i) = Here(g, s, i)
<1>1. Len(s) \in Nat
  BY DEF Text
<1>2. CASE i > Len(s)
  BY <1>2 DEF Here
<1>3. CASE i <= Len(s)
  <2>1. i + 1 \in i + 1 .. Len(s) + 1 /\ i \in 1 .. Len(s)
    BY <1>1, <1>3
  <2>2. Longest(s, i) # 0 => Longest(s, i) + 1 \in i + 1 .. Len(s) + 1
    BY <1>1, <2>1, LongestFits
  <2>3. f[i + 1] = g[i + 1] /\ (Longest(s, i) # 0 => f[Longest(s, i) + 1] = g[Longest(s, i) + 1])
    BY <2>1, <2>2
  <2> QED
    BY <2>3 DEF Here
<1> QED
  BY <1>1, <1>2, <1>3

LEMMA HereTyped ==
    ASSUME NEW s \in Text, NEW i \in 1 .. Len(s) + 1, NEW f,
           \A j \in i + 1 .. Len(s) + 1 : f[j] \in Seqs
    PROVE  Here(f, s, i) \in Seqs
<1>1. Len(s) \in Nat
  BY DEF Text
<1>2. CASE i > Len(s)
  <2>1. [type |-> "EOF", text |-> << >>] \in [type : Kinds, text : Text]
    BY DEF Kinds, TokenTypes, Text
  <2> QED
    BY <1>2, <2>1 DEF Here, Seqs
<1>3. CASE i <= Len(s) /\ s[i] \in Spaces
  <2>1. i + 1 \in i + 1 .. Len(s) + 1
    BY <1>1, <1>3
  <2> QED
    BY <1>1, <1>3, <2>1 DEF Here
<1>4. CASE i <= Len(s) /\ s[i] \notin Spaces /\ Longest(s, i) = 0
  <2>1. [type |-> "ERROR", text |-> << >>] \in [type : Kinds, text : Text]
    BY DEF Kinds, Text
  <2>2. ~(i > Len(s))
    BY <1>1, <1>4
  <2>3. Here(f, s, i) = <<[type |-> "ERROR", text |-> << >>]>>
    BY <1>4, <2>2 DEF Here
  <2> QED
    BY <2>1, <2>3 DEF Seqs
<1>5. CASE i <= Len(s) /\ s[i] \notin Spaces /\ Longest(s, i) # 0
  <2>1. i \in 1 .. Len(s)
    BY <1>1, <1>5
  <2>11. Longest(s, i) \in i .. Len(s) /\ TypesOf(SubSeq(s, i, Longest(s, i))) # {}
    BY ONLY s \in Text, <1>5, <2>1, LongestFits
  <2>2. PICK b \in i .. Len(s) : b = Longest(s, i) /\ TypesOf(SubSeq(s, i, b)) # {}
    BY <2>11
  <2>3. PICK text \in Text : text = SubSeq(s, i, b)
    <3>1. s \in Text /\ i \in Int /\ b \in Int /\ i >= 1 /\ b <= Len(s)
      BY <2>1, <2>2, <1>1
    <3>2. SubSeq(s, i, b) \in Text
      BY <3>1, Slice DEF Text
    <3> QED
      BY <3>2
  <2>4. PICK type : type = CHOOSE t \in TypesOf(text) : TRUE
    OBVIOUS
  <2>5. type \in TypesOf(text)
    BY <2>2, <2>3, <2>4
  <2>6. type \in Kinds
    BY <2>5 DEF TypesOf, Kinds, TokenTypes
  <2>7. [type |-> type, text |-> text] \in [type : Kinds, text : Text]
    BY <2>6
  <2>8. f[b + 1] \in Seqs
    BY <2>1, <2>2, <1>1
  <2>9. <<[type |-> type, text |-> text]>> \o f[b + 1] \in Seqs
    <3> DEFINE r == [type |-> type, text |-> text]
               R == [type : Kinds, text : Text]
    <3>1. r \in R /\ f[b + 1] \in Seq(R)
      BY <2>7, <2>8 DEF Seqs
    <3> HIDE DEF r, R
    <3>2. <<r>> \o f[b + 1] \in Seq(R)
      BY <3>1
    <3> QED
      BY <3>2 DEF r, R, Seqs
  <2>10. Here(f, s, i) = <<[type |-> type, text |-> text]>> \o f[b + 1]
    <3>1. ~(i > Len(s))
      BY <1>5, <1>1
    <3> QED
      BY <1>5, <2>2, <2>3, <2>4, <3>1 DEF Here
  <2> QED
    BY <2>9, <2>10
<1> QED
  BY <1>1, <1>2, <1>3, <1>4, <1>5

LEMMA TokensExist ==
    ASSUME NEW s \in Text
    PROVE  \E f : f = [i \in 1 .. Len(s) + 1 |-> Here(f, s, i)]
<1> DEFINE n == Len(s)
           End(k) == n + 1 - k .. n + 1
           Good(f, k) == f = [i \in End(k) |-> Here(f, s, i)]
           T == {k \in 0 .. n : ~\E f : Good(f, k)}
<1>1. n \in Nat
  BY DEF Text
<1>2. SUFFICES T = {}
  <2>1. n \in 0 .. n /\ n \notin T
    BY <1>1, <1>2
  <2>2. PICK f : Good(f, n)
    BY <2>1
  <2>3. End(n) = 1 .. Len(s) + 1
    BY <1>1
  <2> QED
    BY <2>2, <2>3
<1>3. SUFFICES ASSUME T # {} PROVE FALSE
  OBVIOUS
<1>4. PICK m \in T : \A k \in T : m <= k
  <2>1. T \in SUBSET Nat
    BY <1>1
  <2> HIDE DEF T
  <2> QED
    BY <1>3, <2>1, LeastNatural
<1>5. m \in 0 .. n /\ ~\E f : Good(f, m)
  OBVIOUS
<1>6. \E f : \A j \in n + 2 - m .. n + 1 : f[j] = Here(f, s, j)
  <2>1. CASE m = 0
    BY <2>1, <1>1
  <2>2. CASE m > 0
    <3>1. PICK p \in 0 .. n : p = m - 1 /\ ~(m <= p)
      BY <1>1, <1>5, <2>2
    <3>4. p \notin T
      <4> HIDE DEF T
      <4> QED
        BY <3>1, <1>4
    <3>2. PICK f : Good(f, m - 1)
      BY <3>1, <3>4
    <3>3. End(m - 1) = n + 2 - m .. n + 1
      BY <1>1, <1>5
    <3> QED
      BY <3>2, <3>3
  <2> QED
    BY <1>5, <2>1, <2>2
<1>7. PICK f : \A j \in n + 2 - m .. n + 1 : f[j] = Here(f, s, j)
  BY <1>6
<1> DEFINE g == [j \in End(m) |-> Here(f, s, j)]
<1>8. \A j \in n + 2 - m .. n + 1 : j \in End(m) /\ g[j] = f[j]
  BY <1>1, <1>5, <1>7
<1>9. ASSUME NEW j \in End(m) PROVE Here(g, s, j) = Here(f, s, j)
  <2>1. j \in 1 .. Len(s) + 1
    BY <1>1, <1>5
  <2>2. \A k \in j + 1 .. Len(s) + 1 : k \in n + 2 - m .. n + 1
    BY <1>1, <1>5
  <2>3. \A k \in j + 1 .. Len(s) + 1 : g[k] = f[k]
    BY <2>2, <1>8
  <2> HIDE DEF g
  <2> QED
    BY <2>1, <2>3, HereLooksAhead
<1>10. g = [j \in End(m) |-> Here(g, s, j)]
  <2>1. g = [j \in End(m) |-> Here(f, s, j)]
    OBVIOUS
  <2> HIDE DEF g, End
  <2> QED
    BY <2>1, <1>9
<1>11. Good(g, m)
  BY <1>10
<1> QED
  BY <1>5, <1>11

LEMMA TokensUnfold ==
    ASSUME NEW s \in Text, NEW i \in 1 .. Len(s) + 1
    PROVE  TokensFrom(s)[i] = Here(TokensFrom(s), s, i) /\ TokensFrom(s)[i] \in Seqs
<1> DEFINE Good(f) == f = [j \in 1 .. Len(s) + 1 |-> Here(f, s, j)]
           F == TokensFrom(s)
<1>1. Len(s) \in Nat
  BY DEF Text
<1>2. F = CHOOSE f : Good(f)
  BY DEF TokensFrom, Here
<1>3. \E f : Good(f)
  BY TokensExist
<1>4. Good(F)
  <2> HIDE DEF Good, F
  <2> QED
    BY <1>2, <1>3
<1>5. \A j \in 1 .. Len(s) + 1 : F[j] = Here(F, s, j)
  <2> HIDE DEF F
  <2> QED
    BY <1>4
<1> DEFINE T == {k \in 0 .. Len(s) : F[Len(s) + 1 - k] \notin Seqs}
<1>6. T = {}
  <2>1. SUFFICES ASSUME T # {} PROVE FALSE
    OBVIOUS
  <2>2. T \in SUBSET Nat
    BY <1>1
  <2>3. PICK m \in T : \A k \in T : m <= k
    <3> HIDE DEF T
    <3> QED
      BY <2>1, <2>2, LeastNatural
  <2>4. PICK j \in 1 .. Len(s) + 1 : j = Len(s) + 1 - m
    BY <1>1
  <2>5. ASSUME NEW k \in j + 1 .. Len(s) + 1 PROVE F[k] \in Seqs
    <3>1. Len(s) + 1 - k \in 0 .. Len(s) /\ ~(m <= Len(s) + 1 - k)
          /\ Len(s) + 1 - (Len(s) + 1 - k) = k
      BY <1>1, <2>4
    <3>2. Len(s) + 1 - k \notin T
      BY <3>1, <2>3
    <3> QED
      BY <3>1, <3>2
  <2> HIDE DEF F
  <2>6. F[j] \in Seqs
    BY <2>5, <1>5, HereTyped
  <2> QED
    BY <2>4, <2>6
<1>7. F[i] \in Seqs
  <2>1. Len(s) + 1 - i \in 0 .. Len(s) /\ Len(s) + 1 - (Len(s) + 1 - i) = i
    BY <1>1
  <2> QED
    BY <2>1, <1>6
<1> QED
  BY <1>5, <1>7

-----------------------------------------------------------------------------
(* Each alternative of lex_sql takes the longest token, or there is none.  *)

(* What a token can be, by its first character.                            *)
LEMMA FirstDecides ==
    ASSUME NEW p \in Text, p # << >>, TypesOf(p) # {}
    PROVE  /\ p[1] \in Singles \union Operators \union {"'", "+", "-"} \union Digits \union Letters
           /\ p[1] \notin Spaces
           /\ p[1] \in Singles => Len(p) = 1
           /\ p[1] \in Operators => IsOperator(p)
           /\ p[1] = "'" => IsString(p)
           /\ p[1] \in Digits \union {"+", "-"} => IsNumber(p)
           /\ p[1] \in Letters => IsWord(p)
<1>1. PICK type : type \in TypesOf(p)
  OBVIOUS
<1>2. \/ IsNumber(p) \/ IsString(p) \/ IsOperator(p) \/ IsWord(p) \/ IsSingle(p, type)
  BY <1>1, TypeMeans
<1>3. \A c \in Digits \union {"+", "-"} : c # "'" /\ c \notin Operators \union Letters \union Singles
  BY KindsAssumption DEF Marks, Operators
<1>4. \A c \in Letters : c # "'" /\ c \notin Operators \union Singles
  BY KindsAssumption DEF Marks, Operators
<1>5. \A c \in Singles : c # "'" /\ c \notin Operators
  BY KindsAssumption DEF Marks, Operators
<1>6. "'" \notin Operators
  BY DEF Operators
<1>7. \A c \in Spaces : c # "'" /\ c \notin Operators \union Letters \union Singles \union Digits \union {"+", "-"}
  BY KindsAssumption DEF Marks, Operators
<1>8. IsSingle(p, type) => Len(p) = 1
  BY DEF IsSingle
<1> QED
  BY <1>2, <1>3, <1>4, <1>5, <1>6, <1>7, <1>8, FirstTells

(* Where the lexer stands, and what it has before it.                      *)
LEMMA Ahead ==
    ASSUME LexerInv, More
    PROVE  /\ sql \in Text /\ Len(sql) \in Nat /\ cursor \in 1 .. Len(sql) /\ Char = sql[cursor]
           /\ \A m \in 1 .. Len(sql) - cursor + 1 :
                /\ Chunk(sql, cursor, m) \in Text /\ Chunk(sql, cursor, m) # << >>
                /\ Len(Chunk(sql, cursor, m)) = m /\ DOMAIN Chunk(sql, cursor, m) = 1 .. m
                /\ Chunk(sql, cursor, m)[1] = Char
                /\ \A k \in 1 .. m : Chunk(sql, cursor, m)[k] = sql[cursor + k - 1]
<1>1. sql \in Text /\ Len(sql) \in Nat /\ cursor \in 1 .. Len(sql) /\ Char = sql[cursor]
  BY Counted DEF LexerInv, More, Char
<1>2. ASSUME NEW m \in 1 .. Len(sql) - cursor + 1
      PROVE  /\ Chunk(sql, cursor, m) \in Text /\ Chunk(sql, cursor, m) # << >>
             /\ Len(Chunk(sql, cursor, m)) = m /\ DOMAIN Chunk(sql, cursor, m) = 1 .. m
             /\ Chunk(sql, cursor, m)[1] = Char
             /\ \A k \in 1 .. m : Chunk(sql, cursor, m)[k] = sql[cursor + k - 1]
  <2>1. /\ Chunk(sql, cursor, m) \in Text /\ Chunk(sql, cursor, m) # << >>
        /\ Len(Chunk(sql, cursor, m)) = m /\ DOMAIN Chunk(sql, cursor, m) = 1 .. m
        /\ \A k \in 1 .. m : Chunk(sql, cursor, m)[k] = sql[cursor + k - 1]
    BY <1>1, ChunkFits
  <2>2. 1 \in 1 .. m /\ cursor + 1 - 1 = cursor
    BY <1>1
  <2> QED
    BY <1>1, <2>1, <2>2
<1> QED
  BY <1>1, <1>2

LEMMA SingleIsLongest ==
    ASSUME LexerInv, More, Char \in Singles
    PROVE  LongestToken(sql, cursor, 1, SingleType[Char])
<1>1. 1 \in 1 .. Len(sql) - cursor + 1
  BY Ahead
<1>2. PICK p \in Text : p = Chunk(sql, cursor, 1) /\ Len(p) = 1 /\ p[1] = Char
  BY <1>1, Ahead
<1>3. SingleType[Char] \in TypesOf(p)
  BY <1>2, MeansType DEF IsSingle
<1>4. ASSUME NEW m \in 1 + 1 .. Len(sql) - cursor + 1 PROVE TypesOf(Chunk(sql, cursor, m)) = {}
  <2>1. m \in 1 .. Len(sql) - cursor + 1 /\ m # 1
    BY Ahead
  <2>2. PICK q \in Text : q = Chunk(sql, cursor, m) /\ q # << >> /\ Len(q) = m /\ q[1] = Char
    BY <2>1, Ahead
  <2>3. TypesOf(q) = {}
    BY <2>1, <2>2, FirstDecides
  <2> QED
    BY <2>2, <2>3
<1> QED
  BY <1>1, <1>2, <1>3, <1>4 DEF LongestToken

LEMMA FollowingIs ==
    ASSUME LexerInv, More
    PROVE  /\ cursor < Len(sql) => Following = sql[cursor + 1]
           /\ ~(cursor < Len(sql)) => Following = "end"
BY DEF Following

(* Operators are of two lengths.                                           *)
LEMMA OperatorMeans ==
    ASSUME NEW p \in Text
    PROVE  IsOperator(p) <=> \/ Len(p) = 1 /\ p[1] \in {"=", "<", ">"}
                             \/ Len(p) = 2 /\ p[1] \in {"!", "<", ">"} /\ p[2] = "="
<1>1. ASSUME Len(p) = 1 PROVE p = <<p[1]>>
  BY <1>1 DEF Text
<1>2. ASSUME Len(p) = 2 PROVE p = <<p[1], p[2]>>
  BY <1>2 DEF Text
<1>3. ASSUME IsOperator(p)
      PROVE  \/ Len(p) = 1 /\ p[1] \in {"=", "<", ">"}
             \/ Len(p) = 2 /\ p[1] \in {"!", "<", ">"} /\ p[2] = "="
  BY <1>3 DEF IsOperator
<1>4. ASSUME Len(p) = 1 /\ p[1] \in {"=", "<", ">"} PROVE IsOperator(p)
  BY <1>1, <1>4 DEF IsOperator
<1>5. ASSUME Len(p) = 2 /\ p[1] \in {"!", "<", ">"} /\ p[2] = "=" PROVE IsOperator(p)
  BY <1>2, <1>5 DEF IsOperator
<1> QED
  BY <1>3, <1>4, <1>5

LEMMA OperatorIsLongest ==
    ASSUME LexerInv, More, Char \in Operators
    PROVE  /\ ~(Char = "!" /\ OperatorLength = 1) => LongestToken(sql, cursor, OperatorLength, "OPERATOR")
           /\ Char = "!" /\ OperatorLength = 1 => NoToken(sql, cursor)
<1> DEFINE two == Char \in {"!", ">", "<"} /\ Following = "="
<1>1. cursor \in 1 .. Len(sql) /\ Len(sql) \in Nat
  BY Ahead
<1>2. two <=> (Char \in {"!", ">", "<"} /\ cursor < Len(sql) /\ sql[cursor + 1] = "=")
  BY FollowingIs
<1>3. OperatorLength = IF two THEN 2 ELSE 1
  BY DEF OperatorLength
<1> HIDE DEF two
<1>4. ASSUME NEW m \in 1 .. Len(sql) - cursor + 1
      PROVE  TypesOf(Chunk(sql, cursor, m)) # {} <=>
               \/ m = 1 /\ Char # "!"
               \/ m = 2 /\ two
  <2>1. PICK p \in Text : /\ p = Chunk(sql, cursor, m) /\ p # << >> /\ Len(p) = m /\ p[1] = Char
                          /\ \A k \in 1 .. m : p[k] = sql[cursor + k - 1]
    BY Ahead
  <2>2. TypesOf(p) # {} <=> IsOperator(p)
    BY <2>1, FirstDecides, MeansType
  <2>3. Char \in {"=", "<", ">"} <=> Char # "!"
    BY DEF Operators
  <2>4. m = 2 => p[2] = sql[cursor + 1] /\ cursor < Len(sql)
    BY <2>1, <1>1
  <2>5. m = 2 => (Char \in {"!", "<", ">"} /\ p[2] = "=" <=> two)
    BY <2>4, <1>2
  <2>6. IsOperator(p) <=> \/ m = 1 /\ p[1] \in {"=", "<", ">"}
                          \/ m = 2 /\ p[1] \in {"!", "<", ">"} /\ p[2] = "="
    BY <2>1, OperatorMeans
  <2> QED
    BY <2>1, <2>2, <2>3, <2>5, <2>6
<1>5. two => 2 \in 1 .. Len(sql) - cursor + 1 /\ cursor < Len(sql)
  BY <1>1, <1>2
<1>6. 1 \in 1 .. Len(sql) - cursor + 1
  BY <1>1
<1>7. PICK n \in {1, 2} : n = OperatorLength /\ (n = 2 <=> two)
  BY <1>3
<1>8. ASSUME ~(Char = "!" /\ n = 1) PROVE LongestToken(sql, cursor, n, "OPERATOR")
  <2>1. n \in 1 .. Len(sql) - cursor + 1
    BY <1>5, <1>6, <1>7
  <2>2. TypesOf(Chunk(sql, cursor, n)) # {}
    BY <2>1, <1>4, <1>7, <1>8
  <2>3. "OPERATOR" \in TypesOf(Chunk(sql, cursor, n))
    <3>1. PICK p \in Text : p = Chunk(sql, cursor, n) /\ p # << >> /\ p[1] = Char
      BY <2>1, Ahead
    <3> QED
      BY <2>2, <3>1, FirstDecides, MeansType
  <2>4. ASSUME NEW m \in n + 1 .. Len(sql) - cursor + 1 PROVE TypesOf(Chunk(sql, cursor, m)) = {}
    <3>1. m \in 1 .. Len(sql) - cursor + 1 /\ m # 1 /\ (m = 2 => n = 1)
      BY <1>1, <1>7
    <3> QED
      BY <3>1, <1>4, <1>7
  <2> QED
    BY <2>1, <2>3, <2>4 DEF LongestToken
<1>9. ASSUME Char = "!", n = 1 PROVE NoToken(sql, cursor)
  BY <1>4, <1>7, <1>9 DEF NoToken
<1> QED
  BY <1>7, <1>8, <1>9

(* A span from the next character on.                                      *)
LEMMA SpanAhead ==
    ASSUME LexerInv, More, NEW set
    PROVE  \E k \in Nat :
             /\ k = Span(set, cursor + 1) /\ cursor + 1 + k <= Len(sql) + 1
             /\ \A i \in cursor + 1 .. cursor + k : sql[i] \in set
             /\ cursor + 1 + k <= Len(sql) => sql[cursor + 1 + k] \notin set
<1>1. sql \in Seq(STRING \ {"end"}) /\ Len(sql) \in Nat /\ cursor \in 1 .. Len(sql)
  BY Ahead DEF Text
<1>2. PICK from \in 1 .. Len(sql) + 1 : from = cursor + 1
  BY <1>1
<1>3. /\ Span(set, from) \in Nat /\ from + Span(set, from) <= Len(sql) + 1
      /\ \A i \in from .. from + Span(set, from) - 1 : sql[i] \in set
      /\ from + Span(set, from) <= Len(sql) => sql[from + Span(set, from)] \notin set
  BY <1>1, SpanWorks
<1>4. PICK k \in Nat : k = Span(set, from)
  BY <1>3
<1>5. from + k - 1 = cursor + k
  BY <1>1, <1>2
<1> QED
  BY <1>2, <1>3, <1>4, <1>5

(* Closing is where the next quote is, or just behind the text.            *)
LEMMA ClosingWorks ==
    ASSUME LexerInv, More
    PROVE  /\ Closing \in cursor + 1 .. Len(sql) + 1
           /\ \A i \in cursor + 1 .. Closing - 1 : sql[i] # "'"
           /\ Closing <= Len(sql) => sql[Closing] = "'"
<1> DEFINE set == {sql[i] : i \in DOMAIN sql} \ {"'"}
<1>1. sql \in Seq(STRING \ {"end"}) /\ Len(sql) \in Nat /\ cursor \in 1 .. Len(sql)
  BY Ahead DEF Text
<1>2. PICK s : s = set
  OBVIOUS
<1>3. PICK k \in Nat :
        /\ k = Span(s, cursor + 1) /\ cursor + 1 + k <= Len(sql) + 1
        /\ \A i \in cursor + 1 .. cursor + k : sql[i] \in s
        /\ cursor + 1 + k <= Len(sql) => sql[cursor + 1 + k] \notin s
  BY SpanAhead
<1>4. PICK c : c = Closing
  OBVIOUS
<1>5. c = cursor + 1 + k
  BY <1>2, <1>3, <1>4 DEF Closing
<1>6. c \in cursor + 1 .. Len(sql) + 1 /\ c - 1 = cursor + k
  BY <1>1, <1>3, <1>5
<1>7. c <= Len(sql) => sql[c] = "'"
  <2>1. ASSUME c <= Len(sql) PROVE sql[c] = "'"
    <3>1. c \in DOMAIN sql /\ sql[c] \notin s
      BY <1>1, <1>3, <1>5, <1>6, <2>1
    <3> QED
      BY <3>1, <1>2
  <2> QED
    BY <2>1
<1>8. \A i \in cursor + 1 .. c - 1 : sql[i] # "'"
  BY <1>2, <1>3, <1>6
<1> QED
  BY <1>4, <1>6, <1>7, <1>8

LEMMA StringIsLongest ==
    ASSUME LexerInv, More, Char = "'"
    PROVE  /\ Closing <= Len(sql) => LongestToken(sql, cursor, Closing - cursor + 1, "STRING")
           /\ Closing > Len(sql) => NoToken(sql, cursor)
<1>1. cursor \in 1 .. Len(sql) /\ Len(sql) \in Nat
  BY Ahead
<1>2. PICK c \in cursor + 1 .. Len(sql) + 1 :
        /\ c = Closing
        /\ \A i \in cursor + 1 .. c - 1 : sql[i] # "'"
        /\ c <= Len(sql) => sql[c] = "'"
  BY ClosingWorks
<1>3. ASSUME NEW m \in 1 .. Len(sql) - cursor + 1, TypesOf(Chunk(sql, cursor, m)) # {}
      PROVE  c <= Len(sql) /\ m <= c - cursor + 1
  <2>1. PICK p \in Text : /\ p = Chunk(sql, cursor, m) /\ p # << >> /\ Len(p) = m /\ p[1] = Char
                          /\ \A k \in 1 .. m : p[k] = sql[cursor + k - 1]
    BY Ahead
  <2>2. IsString(p)
    BY <2>1, <1>3, FirstDecides
  <2>3. m > 1 /\ p[m] = "'" /\ \A i \in 2 .. m - 1 : p[i] # "'"
    BY <2>1, <2>2 DEF IsString
  <2>4. sql[cursor + m - 1] = "'" /\ cursor + m - 1 \in cursor + 1 .. Len(sql)
    BY <2>1, <2>3, <1>1
  <2>5. cursor + m - 1 >= c
    BY <2>4, <1>1, <1>2
  <2>6. c <= Len(sql)
    BY <2>4, <2>5, <1>1, <1>2
  <2>7. ASSUME m > c - cursor + 1 PROVE FALSE
    <3>1. PICK k \in 2 .. m - 1 : k = c - cursor + 1
      BY <2>7, <1>1, <1>2
    <3>2. p[k] = sql[c]
      <4>1. k \in 1 .. m /\ cursor + k - 1 = c
        BY <3>1, <1>1, <1>2
      <4> QED
        BY <2>1, <4>1
    <3> QED
      BY <3>1, <3>2, <2>3, <2>6, <1>2
  <2> QED
    BY <2>6, <2>7, <1>1, <1>2
<1>4. ASSUME c <= Len(sql) PROVE LongestToken(sql, cursor, c - cursor + 1, "STRING")
  <2>1. PICK n \in 1 .. Len(sql) - cursor + 1 : n = c - cursor + 1 /\ n > 1
    BY <1>1, <1>2, <1>4
  <2>2. PICK p \in Text : /\ p = Chunk(sql, cursor, n) /\ p # << >> /\ Len(p) = n /\ p[1] = Char
                          /\ \A k \in 1 .. n : p[k] = sql[cursor + k - 1]
    BY Ahead
  <2>3. p[n] = "'"
    <3>1. cursor + n - 1 = c /\ n \in 1 .. n
      BY <1>1, <1>2, <2>1
    <3> QED
      BY <2>2, <3>1, <1>2, <1>4
  <2>4. \A k \in 2 .. n - 1 : p[k] # "'"
    <3>1. ASSUME NEW k \in 2 .. n - 1 PROVE p[k] # "'"
      <4>1. k \in 1 .. n /\ cursor + k - 1 \in cursor + 1 .. c - 1
        BY <1>1, <1>2, <2>1
      <4> QED
        BY <2>2, <4>1, <1>2
    <3> QED
      BY <3>1
  <2>5. IsString(p)
    BY <2>1, <2>2, <2>3, <2>4 DEF IsString
  <2>6. "STRING" \in TypesOf(Chunk(sql, cursor, n))
    BY <2>2, <2>5, MeansType
  <2>7. ASSUME NEW m \in n + 1 .. Len(sql) - cursor + 1 PROVE TypesOf(Chunk(sql, cursor, m)) = {}
    <3>1. m \in 1 .. Len(sql) - cursor + 1 /\ ~(m <= c - cursor + 1)
      BY <1>1, <1>2, <2>1
    <3> QED
      BY <3>1, <1>3
  <2>8. LongestToken(sql, cursor, n, "STRING")
    BY <2>1, <2>6, <2>7 DEF LongestToken
  <2> QED
    BY <2>1, <2>8
<1>5. ASSUME c > Len(sql) PROVE NoToken(sql, cursor)
  <2>1. ~(c <= Len(sql))
    BY <1>1, <1>2, <1>5
  <2> QED
    BY <2>1, <1>3 DEF NoToken
<1> QED
  BY <1>2, <1>4, <1>5

(* A token that is a first character and then characters of a set: numbers *)
(* and words.                                                              *)
LEMMA RunIsLongest ==
    ASSUME LexerInv, More, NEW set, NEW n, n = 1 + Span(set, cursor + 1),
           \A m \in 1 .. Len(sql) - cursor + 1 :
             TypesOf(Chunk(sql, cursor, m)) # {} =>
               \A i \in 2 .. m : Chunk(sql, cursor, m)[i] \in set
    PROVE  /\ n \in 1 .. Len(sql) - cursor + 1
           /\ \A i \in 2 .. n : Chunk(sql, cursor, n)[i] \in set
           /\ \A m \in n + 1 .. Len(sql) - cursor + 1 : TypesOf(Chunk(sql, cursor, m)) = {}
<1>1. cursor \in 1 .. Len(sql) /\ Len(sql) \in Nat
  BY Ahead
<1>2. PICK k \in Nat :
        /\ k = Span(set, cursor + 1) /\ cursor + 1 + k <= Len(sql) + 1
        /\ \A i \in cursor + 1 .. cursor + k : sql[i] \in set
        /\ cursor + 1 + k <= Len(sql) => sql[cursor + 1 + k] \notin set
  BY SpanAhead
<1>3. n = 1 + k
  BY <1>2
<1>4. n \in 1 .. Len(sql) - cursor + 1
  BY <1>1, <1>2, <1>3
<1>5. ASSUME NEW i \in 2 .. n PROVE Chunk(sql, cursor, n)[i] \in set
  <2>1. i \in 1 .. n /\ cursor + i - 1 \in cursor + 1 .. cursor + k
    BY <1>1, <1>3
  <2>2. Chunk(sql, cursor, n)[i] = sql[cursor + i - 1]
    BY <2>1, <1>4, Ahead
  <2> QED
    BY <2>1, <2>2, <1>2
<1>6. ASSUME NEW m \in n + 1 .. Len(sql) - cursor + 1 PROVE TypesOf(Chunk(sql, cursor, m)) = {}
  <2>1. m \in 1 .. Len(sql) - cursor + 1 /\ n + 1 \in 1 .. m /\ n + 1 \in 2 .. m
    <3>1. n \in Nat /\ n >= 1
      BY <1>4
    <3>2. m \in Int /\ m >= n + 1 /\ m <= Len(sql) - cursor + 1
      BY <1>1
    <3> QED
      BY <3>1, <3>2
  <2>2. cursor + (n + 1) - 1 = cursor + 1 + k /\ cursor + 1 + k <= Len(sql)
    <3>1. k \in Nat /\ n = 1 + k /\ n \in Nat
      BY <1>3, <1>4
    <3>2. m \in Int /\ m >= n + 1 /\ m <= Len(sql) - cursor + 1
      BY <1>1
    <3>3. cursor \in Int /\ Len(sql) \in Int
      BY <1>1
    <3>4. cursor + (n + 1) - 1 = cursor + 1 + k
      BY ONLY <3>1, <3>3
    <3>5. cursor + 1 + k <= Len(sql)
      BY ONLY <3>1, <3>2, <3>3
    <3> QED
      BY <3>4, <3>5
  <2>3. Chunk(sql, cursor, m)[n + 1] = sql[cursor + (n + 1) - 1]
    BY <2>1, Ahead
  <2>4. Chunk(sql, cursor, m)[n + 1] \notin set
    BY <2>2, <2>3, <1>2
  <2> QED
    BY <2>1, <2>4
<1> QED
  BY <1>4, <1>5, <1>6

LEMMA NumberMeans ==
    ASSUME NEW p \in Text, p # << >>
    PROVE  IsNumber(p) <=> /\ p[1] \in Digits \/ (p[1] \in {"+", "-"} /\ Len(p) > 1)
                           /\ \A i \in 2 .. Len(p) : p[i] \in Digits
<1>1. Len(p) \in Nat /\ Len(p) >= 1 /\ DOMAIN p = 1 .. Len(p)
  BY DEF Text
<1>2. Whole(p, Digits) <=> p[1] \in Digits /\ \A i \in 2 .. Len(p) : p[i] \in Digits
  <2>1. \A i \in 1 .. Len(p) : i = 1 \/ i \in 2 .. Len(p)
    BY <1>1
  <2>2. 1 \in 1 .. Len(p) /\ \A i \in 2 .. Len(p) : i \in 1 .. Len(p)
    BY <1>1
  <2> QED
    BY <1>1, <2>1, <2>2 DEF Whole
<1>3. ASSUME Len(p) > 1
      PROVE  Whole(Tail(p), Digits) <=> \A i \in 2 .. Len(p) : p[i] \in Digits
  <2>1. PICK t \in Text : t = Tail(p) /\ Len(t) = Len(p) - 1 /\ \A i \in 1 .. Len(p) - 1 : t[i] = p[i + 1]
    <3>1. Tail(p) \in Text
      BY <1>3 DEF Text
    <3>2. Len(Tail(p)) = Len(p) - 1 /\ \A i \in 1 .. Len(p) - 1 : Tail(p)[i] = p[i + 1]
      BY <1>1, <1>3 DEF Text
    <3> QED
      BY <3>1, <3>2
  <2>2. DOMAIN t = 1 .. Len(p) - 1 /\ t # << >>
    <3>1. DOMAIN t = 1 .. Len(t)
      BY DEF Text
    <3>2. Len(t) # 0
      BY <2>1, <1>1, <1>3
    <3> QED
      BY <2>1, <3>1, <3>2
  <2>3. ASSUME \A i \in 2 .. Len(p) : p[i] \in Digits, NEW i \in 1 .. Len(p) - 1 PROVE t[i] \in Digits
    <3>1. i + 1 \in 2 .. Len(p)
      BY <1>1
    <3> QED
      BY <3>1, <2>1, <2>3
  <2>4. ASSUME \A i \in 1 .. Len(p) - 1 : t[i] \in Digits, NEW i \in 2 .. Len(p) PROVE p[i] \in Digits
    <3>1. PICK j \in 1 .. Len(p) - 1 : i = j + 1
      BY <1>1
    <3> QED
      BY <3>1, <2>1, <2>4
  <2>5. Whole(t, Digits) <=> \A i \in 1 .. Len(p) - 1 : t[i] \in Digits
    BY <2>2 DEF Whole
  <2> QED
    BY <2>1, <2>3, <2>4, <2>5
<1>4. \A c \in Digits : c \notin {"+", "-"}
  BY KindsAssumption DEF Marks
<1> QED
  BY <1>2, <1>3, <1>4 DEF IsNumber

LEMMA NumberIsLongest ==
    ASSUME LexerInv, More, Char \in Digits \union {"+", "-"}
    PROVE  /\ StartsNumber => LongestToken(sql, cursor, 1 + Span(Digits, cursor + 1), "NUMBER")
           /\ ~StartsNumber => NoToken(sql, cursor)
<1>1. cursor \in 1 .. Len(sql) /\ Len(sql) \in Nat
  BY Ahead
<1>2. ASSUME NEW m \in 1 .. Len(sql) - cursor + 1, TypesOf(Chunk(sql, cursor, m)) # {}
      PROVE  /\ \A i \in 2 .. m : Chunk(sql, cursor, m)[i] \in Digits
             /\ Char \in Digits \/ m > 1
  <2>1. PICK p \in Text : p = Chunk(sql, cursor, m) /\ p # << >> /\ Len(p) = m /\ p[1] = Char
    BY Ahead
  <2>2. IsNumber(p)
    BY <2>1, <1>2, FirstDecides
  <2> QED
    BY <2>1, <2>2, NumberMeans
<1>3. \A c \in Digits : c # "end"
  BY KindsAssumption
<1>4. StartsNumber <=> \/ Char \in Digits
                       \/ Char \in {"+", "-"} /\ cursor < Len(sql) /\ sql[cursor + 1] \in Digits
  BY <1>3, FollowingIs DEF StartsNumber
<1>5. PICK n : n = 1 + Span(Digits, cursor + 1)
  OBVIOUS
<1>6. /\ n \in 1 .. Len(sql) - cursor + 1
      /\ \A i \in 2 .. n : Chunk(sql, cursor, n)[i] \in Digits
      /\ \A m \in n + 1 .. Len(sql) - cursor + 1 : TypesOf(Chunk(sql, cursor, m)) = {}
  BY <1>2, <1>5, RunIsLongest
<1>7. ASSUME StartsNumber PROVE LongestToken(sql, cursor, n, "NUMBER")
  <2>1. PICK p \in Text : p = Chunk(sql, cursor, n) /\ p # << >> /\ Len(p) = n /\ p[1] = Char
    BY <1>6, Ahead
  <2>2. Char \in Digits \/ n > 1
    <3>1. ASSUME Char \notin Digits PROVE n > 1
      <4>1. cursor < Len(sql) /\ sql[cursor + 1] \in Digits
        BY <1>4, <1>7, <3>1
      <4>2. PICK k \in Nat :
              /\ k = Span(Digits, cursor + 1)
              /\ cursor + 1 + k <= Len(sql) => sql[cursor + 1 + k] \notin Digits
        BY SpanAhead
      <4>3. k # 0
        BY <4>1, <4>2, <1>1
      <4> QED
        BY <4>2, <4>3, <1>5
    <3> QED
      BY <3>1
  <2>3. IsNumber(p)
    BY <2>1, <2>2, <1>6, NumberMeans
  <2>4. "NUMBER" \in TypesOf(Chunk(sql, cursor, n))
    BY <2>1, <2>3, MeansType
  <2> QED
    BY <2>4, <1>6 DEF LongestToken
<1>8. ASSUME ~StartsNumber PROVE NoToken(sql, cursor)
  <2>1. ASSUME NEW m \in 1 .. Len(sql) - cursor + 1, TypesOf(Chunk(sql, cursor, m)) # {} PROVE FALSE
    <3>1. m > 1 /\ \A i \in 2 .. m : Chunk(sql, cursor, m)[i] \in Digits
      BY <1>2, <1>4, <1>8, <2>1
    <3>2. 2 \in 2 .. m /\ 2 \in 1 .. m /\ cursor + 2 - 1 = cursor + 1 /\ cursor < Len(sql)
      BY <3>1, <1>1
    <3>3. Chunk(sql, cursor, m)[2] = sql[cursor + 2 - 1]
      BY <3>2, Ahead
    <3> QED
      BY <3>1, <3>2, <3>3, <1>4, <1>8
  <2> QED
    BY <2>1 DEF NoToken
<1> QED
  BY <1>5, <1>7, <1>8

(* keyword_type finds the keywords, whatever their case.                   *)
LEMMA WordTypeMeans ==
    ASSUME NEW p \in Text, IsWord(p)
    PROVE  WordType(p) = IF IsKeyword(p) THEN "KEYWORD" ELSE "IDENTIFIER"
<1> DEFINE q == InCapitals(p)
<1>1. /\ DOMAIN q = DOMAIN p /\ DOMAIN p = 1 .. Len(p) /\ Len(p) \in Nat
      /\ \A i \in DOMAIN p : q[i] = IF p[i] \in DOMAIN Upper THEN Upper[p[i]] ELSE p[i]
  BY DEF InCapitals, Text
<1>2. \A i \in DOMAIN p : p[i] \notin DOMAIN Upper => p[i] \in Digits
  BY LexerAssumption DEF IsWord, Whole
<1>3. ASSUME NEW k \in Keywords PROVE q = k <=> SameWord(p, k)
  <2>1. PICK E : k \in Seq(E) /\ (\A i \in DOMAIN k : k[i] \notin Digits)
    BY KindsAssumption
  <2>2. ASSUME q = k PROVE SameWord(p, k)
    <3>1. Len(k) = Len(p) /\ DOMAIN k = DOMAIN p
      BY <1>1, <2>1, <2>2
    <3>2. \A i \in DOMAIN p : p[i] \in DOMAIN Upper /\ Upper[p[i]] = k[i]
      BY <1>1, <1>2, <2>1, <2>2, <3>1
    <3> QED
      BY <3>1, <3>2 DEF SameWord
  <2>3. ASSUME SameWord(p, k) PROVE q = k
    <3>1. DOMAIN k = 1 .. Len(p) /\ k = [i \in 1 .. Len(p) |-> k[i]]
      BY <2>1, <2>3, <1>1 DEF SameWord
    <3>2. \A i \in 1 .. Len(p) : q[i] = k[i]
      BY <2>3, <1>1 DEF SameWord
    <3>3. q = [i \in 1 .. Len(p) |-> q[i]]
      BY <1>1 DEF InCapitals
    <3> HIDE DEF q
    <3> QED
      BY <3>1, <3>2, <3>3
  <2> QED
    BY <2>2, <2>3
<1>4. q \in Keywords <=> IsKeyword(p)
  BY <1>3 DEF IsKeyword
<1> QED
  BY <1>4 DEF WordType

LEMMA WordIsLongest ==
    ASSUME LexerInv, More, Char \in Letters,
           NEW n, n = 1 + Span(Letters \union Digits, cursor + 1)
    PROVE  LongestToken(sql, cursor, n, WordType(Chunk(sql, cursor, n)))
<1>1. cursor \in 1 .. Len(sql) /\ Len(sql) \in Nat
  BY Ahead
<1> DEFINE set == Letters \union Digits
<1>2. ASSUME NEW m \in 1 .. Len(sql) - cursor + 1, TypesOf(Chunk(sql, cursor, m)) # {}
      PROVE  \A i \in 2 .. m : Chunk(sql, cursor, m)[i] \in set
  <2>1. PICK p \in Text : /\ p = Chunk(sql, cursor, m) /\ p # << >> /\ Len(p) = m /\ p[1] = Char
                          /\ DOMAIN p = 1 .. m
    BY Ahead
  <2>2. IsWord(p)
    BY <2>1, <1>2, FirstDecides
  <2>3. \A i \in 1 .. m : p[i] \in set
    BY <2>1, <2>2 DEF IsWord, Whole
  <2>4. \A i \in 2 .. m : i \in 1 .. m
    OBVIOUS
  <2> QED
    BY <2>1, <2>3, <2>4
<1>3. PICK s : s = set
  OBVIOUS
<1>4. /\ n \in 1 .. Len(sql) - cursor + 1
      /\ \A i \in 2 .. n : Chunk(sql, cursor, n)[i] \in s
      /\ \A m \in n + 1 .. Len(sql) - cursor + 1 : TypesOf(Chunk(sql, cursor, m)) = {}
  <2>1. \A m \in 1 .. Len(sql) - cursor + 1 :
             TypesOf(Chunk(sql, cursor, m)) # {} =>
               \A i \in 2 .. m : Chunk(sql, cursor, m)[i] \in s
    BY <1>2, <1>3
  <2>2. n = 1 + Span(s, cursor + 1)
    BY <1>3
  <2> QED
    BY ONLY LexerInv, More, <2>1, <2>2, RunIsLongest
<1>5. PICK p \in Text : /\ p = Chunk(sql, cursor, n) /\ p # << >> /\ Len(p) = n /\ p[1] = Char
                        /\ DOMAIN p = 1 .. n
  BY <1>4, Ahead
<1>6. IsWord(p)
  <2>1. \A i \in 1 .. n : i = 1 \/ i \in 2 .. n
    BY <1>4
  <2>2. \A i \in 1 .. n : p[i] \in set
    BY <2>1, <1>3, <1>4, <1>5
  <2> QED
    BY <2>2, <1>5 DEF IsWord, Whole
<1>7. WordType(p) \in TypesOf(p)
  BY <1>6, WordTypeMeans, MeansType
<1> QED
  BY <1>4, <1>5, <1>7 DEF LongestToken

LEMMA BadCharacterIsNone ==
    ASSUME LexerInv, BadCharacter
    PROVE  NoToken(sql, cursor)
<1>1. More /\ Char \notin Singles \union Operators \union Letters \union {"'"} /\ ~StartsNumber
  BY DEF BadCharacter
<1>2. CASE Char \in Digits \union {"+", "-"}
  BY <1>1, <1>2, NumberIsLongest
<1>3. CASE Char \notin Digits \union {"+", "-"}
  <2>1. ASSUME NEW m \in 1 .. Len(sql) - cursor + 1, TypesOf(Chunk(sql, cursor, m)) # {} PROVE FALSE
    <3>1. PICK p \in Text : p = Chunk(sql, cursor, m) /\ p # << >> /\ p[1] = Char
      BY <1>1, Ahead
    <3> QED
      BY <1>1, <1>3, <2>1, <3>1, FirstDecides
  <2> QED
    BY <2>1 DEF NoToken
<1> QED
  BY <1>2, <1>3

-----------------------------------------------------------------------------
(* The tokens so far and the reference for the rest of the text are the    *)
(* reference for the text.                                                 *)

TokensInv ==
    /\ lex = "lexing" => Reference(sql) = tokens \o TokensFrom(sql)[cursor]
    /\ LexesByLongestMatch

(* TokensInv of given values.                                              *)
Matches(s, c, found, state) ==
    /\ state = "lexing" => Reference(s) = found \o TokensFrom(s)[c]
    /\ state = "lexed" => found = Reference(s)
    /\ state = "refused" => Last(Reference(s)).type = "ERROR"

LEMMA MatchesNow ==
    TokensInv <=> Matches(sql, cursor, tokens, lex)
BY DEF TokensInv, LexesByLongestMatch, Matches

LEMMA MatchesNext ==
    ASSUME NEW CONSTANT s, NEW CONSTANT c, NEW CONSTANT found, NEW CONSTANT state,
           sql' = s, cursor' = c, tokens' = found, lex' = state, Matches(s, c, found, state)
    PROVE  TokensInv'
BY DEF TokensInv, LexesByLongestMatch, Matches

LEMMA Regrouped ==
    ASSUME NEW Elem, NEW a \in Seq(Elem), NEW x \in Elem, NEW b \in Seq(Elem)
    PROVE  Append(a, x) \o b = a \o (<<x>> \o b)
OBVIOUS

(* The tokens as sequences of the kinds of the reference.                  *)
LEMMA TokensTyped ==
    ASSUME LexerInv
    PROVE  tokens \in Seqs
<1>1. [type : TokenTypes, text : Text] \subseteq [type : Kinds, text : Text]
  BY DEF Kinds
<1>2. tokens \in Seq([type : TokenTypes, text : Text])
  BY DEF LexerInv
<1> DEFINE A == [type : TokenTypes, text : Text]
           B == [type : Kinds, text : Text]
<1>3. A \subseteq B /\ tokens \in Seq(A)
  BY <1>1, <1>2
<1> HIDE DEF A, B
<1>4. tokens \in Seq(B)
  BY <1>3
<1> QED
  BY <1>4 DEF B, Seqs

LEMMA PushFailsMatches ==
    ASSUME PushFails
    PROVE  TokensInv'
<1>1. lex' = "nomemory"
  BY DEF PushFails
<1> QED
  BY <1>1 DEF TokensInv, LexesByLongestMatch

LEMMA TokenMatches ==
    ASSUME LexerInv, TokensInv, More, Char \notin Spaces, NEW type, NEW n,
           LongestToken(sql, cursor, n, type), Token(type, n)
    PROVE  TokensInv'
<1>1. CASE PushFails
  BY <1>1, PushFailsMatches
<1>2. CASE Push(type, n)
  <2>1. PICK s \in Text, c \in Nat, found \in Seqs : c \in 1 .. Len(s) /\ s = sql /\ c = cursor /\ found = tokens
    BY Ahead, TokensTyped
  <2>2. Len(s) \in Nat /\ c \in 1 .. Len(s) /\ n \in 1 .. Len(s) - c + 1
    BY <2>1, Ahead DEF LongestToken
  <2>3. LongestToken(s, c, n, type) /\ s[c] \notin Spaces
    BY <2>1 DEF Char
  <2> DEFINE text == SubSeq(s, c, c + n - 1)
             token == [type |-> type, text |-> text]
             F == TokensFrom(s)
  <2>4. /\ Longest(s, c) = c + n - 1
        /\ SubSeq(s, c, Longest(s, c)) = text
        /\ (CHOOSE t \in TypesOf(text) : TRUE) = type
    BY <2>2, <2>3, LongestIs DEF Chunk
  <2>17. c \in 1 .. Len(s) + 1
    BY <2>2
  <2>5. F[c] = Here(F, s, c)
    BY TokensUnfold, <2>17
  <2>6. ~(c > Len(s)) /\ c + n - 1 # 0 /\ c + n - 1 + 1 = c + n /\ c + n \in 1 .. Len(s) + 1
    BY <2>2
  <2>7. Here(F, s, c) = <<token>> \o F[c + n]
    <3>1. Here(F, s, c) =
            <<[type |-> CHOOSE t \in TypesOf(SubSeq(s, c, Longest(s, c))) : TRUE,
               text |-> SubSeq(s, c, Longest(s, c))]>> \o F[Longest(s, c) + 1]
      BY <2>3, <2>4, <2>6 DEF Here
    <3> QED
      BY <3>1, <2>4, <2>6
  <2>8. F[c + n] \in Seqs
    BY <2>6, TokensUnfold
  <2>9. token \in [type : Kinds, text : Text]
    <3>1. type \in TypesOf(Chunk(s, c, n))
      BY <2>3 DEF LongestToken
    <3>2. type \in Kinds
      BY <3>1 DEF TypesOf, Kinds, TokenTypes
    <3>3. text \in Text
      BY <2>2, ChunkFits DEF Chunk
    <3> QED
      BY <3>2, <3>3
  <2>10. lex = "lexing"
    BY DEF More
  <2>11. Reference(s) = found \o F[c]
    BY <2>1, <2>10 DEF TokensInv
  <2>12. /\ sql' = s /\ cursor' = c + n /\ lex' = "lexing"
         /\ tokens' = Append(found, token)
    BY <1>2, <2>1, <2>10 DEF Push
  <2> HIDE DEF token, F, text
  <2>13. Append(found, token) \o F[c + n] = found \o (<<token>> \o F[c + n])
    <3> DEFINE R == [type : Kinds, text : Text]
    <3>1. found \in Seq(R) /\ F[c + n] \in Seq(R) /\ token \in R
      BY <2>8, <2>9 DEF Seqs
    <3> HIDE DEF R
    <3>2. PICK rest \in Seq(R) : rest = F[c + n]
      BY <3>1
    <3>3. Append(found, token) \o rest = found \o (<<token>> \o rest)
      BY <3>1, Regrouped
    <3> QED
      BY <3>2, <3>3
  <2>14. Reference(s) = Append(found, token) \o F[c + n]
    BY <2>5, <2>7, <2>11, <2>13
  <2>15. Matches(s, c + n, Append(found, token), "lexing")
    BY <2>14 DEF Matches, F
  <2>16. PICK d, more : d = c + n /\ more = Append(found, token)
    OBVIOUS
  <2> QED
    BY <2>12, <2>15, <2>16, MatchesNext
<1> QED
  BY <1>1, <1>2 DEF Token

LEMMA RefuseMatches ==
    ASSUME LexerInv, TokensInv, More, Char \notin Spaces, NoToken(sql, cursor), Refuse
    PROVE  TokensInv'
<1>1. PICK s \in Text, c \in Nat, found \in Seqs : c \in 1 .. Len(s) /\ s = sql /\ c = cursor /\ found = tokens
  BY Ahead, TokensTyped
<1> DEFINE F == TokensFrom(s)
           token == [type |-> "ERROR", text |-> << >>]
<1>2. Len(s) \in Nat /\ c \in 1 .. Len(s) /\ c \in 1 .. Len(s) + 1 /\ s[c] \notin Spaces
  BY <1>1, Ahead DEF Char
<1>3. Longest(s, c) = 0
  BY <1>1, LongestIsNone
<1>4. F[c] = Here(F, s, c)
  BY <1>2, TokensUnfold
<1>5. ~(c > Len(s))
  BY <1>2
<1>6. Here(F, s, c) = <<token>>
  BY <1>2, <1>3, <1>5 DEF Here
<1>7. lex = "lexing"
  BY DEF More
<1>8. Reference(s) = found \o <<token>>
  <2>1. Reference(s) = found \o F[c]
    BY <1>1, <1>7 DEF TokensInv
  <2> QED
    BY <2>1, <1>4, <1>6
<1>9. Last(Reference(s)) = token
  <2> DEFINE R == [type : Kinds, text : Text]
  <2>1. token \in R
    BY DEF Kinds, Text
  <2>2. found \in Seq(R)
    BY DEF Seqs
  <2> HIDE DEF R, token
  <2>3. Len(found) \in Nat /\ Len(found \o <<token>>) = Len(found) + 1
        /\ (found \o <<token>>)[Len(found) + 1] = token
    BY <2>1, <2>2
  <2> QED
    BY <2>3, <1>8 DEF Last
<1>10. PICK d, none : d = cursor' /\ none = tokens'
  OBVIOUS
<1>11. sql' = s /\ lex' = "refused"
  BY <1>1 DEF Refuse
<1>12. Matches(s, d, none, "refused")
  BY <1>9 DEF Matches
<1> QED
  BY <1>10, <1>11, <1>12, MatchesNext

LEMMA SkipSpaceMatches ==
    ASSUME LexerInv, TokensInv, SkipSpace
    PROVE  TokensInv'
<1>1. More /\ lex = "lexing" /\ Char \in Spaces
  BY DEF SkipSpace, More
<1>2. PICK s \in Text, c \in Nat, found \in {tokens} : c \in 1 .. Len(s) /\ s = sql /\ c = cursor /\ found = tokens
  BY <1>1, Ahead
<1>3. Len(s) \in Nat /\ c \in 1 .. Len(s) /\ c \in 1 .. Len(s) + 1 /\ s[c] \in Spaces
  BY <1>1, <1>2, Ahead DEF Char
<1> DEFINE F == TokensFrom(s)
<1>4. F[c] = Here(F, s, c)
  BY <1>3, TokensUnfold
<1>5. ~(c > Len(s))
  BY <1>3
<1>6. Here(F, s, c) = F[c + 1]
  BY <1>3, <1>5 DEF Here
<1>7. Reference(s) = found \o F[c]
  BY <1>1, <1>2 DEF TokensInv
<1>8. Matches(s, c + 1, found, "lexing")
  BY <1>4, <1>6, <1>7 DEF Matches
<1>9. PICK d : d = c + 1
  OBVIOUS
<1>10. sql' = s /\ cursor' = d /\ tokens' = found /\ lex' = "lexing"
  BY <1>1, <1>2, <1>9 DEF SkipSpace
<1> QED
  BY <1>8, <1>9, <1>10, MatchesNext

LEMMA EndOfTextMatches ==
    ASSUME LexerInv, TokensInv, EndOfText
    PROVE  TokensInv'
<1>1. CASE PushFails
  BY <1>1, PushFailsMatches
<1>2. CASE /\ tokens' = Append(tokens, [type |-> "EOF", text |-> << >>])
           /\ blocks' = blocks + (IF items THEN 1 ELSE 2)
           /\ items' = TRUE
           /\ lex' = "lexed"
           /\ UNCHANGED <<sql, cursor, failures>>
  <2>1. PICK s \in Text, c \in Nat, found \in Seqs : c \in 1 .. Len(s) + 1 /\ s = sql /\ c = cursor /\ found = tokens
    BY TokensTyped DEF LexerInv
  <2> DEFINE F == TokensFrom(s)
             token == [type |-> "EOF", text |-> << >>]
  <2>2. lex = "lexing" /\ c > Len(s)
    BY <2>1 DEF EndOfText
  <2>3. F[c] = Here(F, s, c)
    BY <2>1, TokensUnfold
  <2>4. Here(F, s, c) = <<token>>
    BY <2>2 DEF Here
  <2>5. Reference(s) = found \o <<token>>
    <3>1. Reference(s) = found \o F[c]
      BY <2>1, <2>2 DEF TokensInv
    <3> QED
      BY <3>1, <2>3, <2>4
  <2>6. Append(found, token) = found \o <<token>>
    <3>1. token \in [type : Kinds, text : Text]
      BY DEF Kinds, TokenTypes, Text
    <3> HIDE DEF token
    <3> QED
      BY <3>1 DEF Seqs
  <2>7. PICK more : more = Append(found, token)
    OBVIOUS
  <2>8. sql' = s /\ cursor' = c /\ tokens' = more /\ lex' = "lexed"
    BY <1>2, <2>1, <2>7
  <2>9. Matches(s, c, more, "lexed")
    BY <2>5, <2>6, <2>7 DEF Matches
  <2> QED
    BY <2>8, <2>9, MatchesNext
<1> QED
  BY <1>1, <1>2 DEF EndOfText

LEMMA LexStepMatches ==
    ASSUME LexerInv, TokensInv, LexStep
    PROVE  TokensInv'
<1>0. /\ \A c \in Singles : c \notin Spaces
      /\ \A c \in Operators : c \notin Spaces
      /\ \A c \in Digits \union Letters \union {"'", "+", "-"} : c \notin Spaces
  BY KindsAssumption DEF Marks, Operators
<1>1. CASE SkipSpace
  BY <1>1, SkipSpaceMatches
<1>2. CASE SingleToken
  <2>1. PICK type : type = SingleType[Char]
    OBVIOUS
  <2>2. More /\ Char \in Singles /\ Token(type, 1) /\ Char \notin Spaces
    BY <1>0, <1>2, <2>1 DEF SingleToken
  <2>3. LongestToken(sql, cursor, 1, type)
    BY <2>1, <2>2, SingleIsLongest
  <2> QED
    BY <2>2, <2>3, TokenMatches
<1>3. CASE OperatorToken
  <2>1. PICK n : n = OperatorLength
    OBVIOUS
  <2>2. More /\ Char \in Operators /\ Token("OPERATOR", n) /\ Char \notin Spaces
        /\ ~(Char = "!" /\ OperatorLength = 1)
    BY <1>0, <1>3, <2>1 DEF OperatorToken
  <2>3. LongestToken(sql, cursor, n, "OPERATOR")
    BY <2>1, <2>2, OperatorIsLongest
  <2> QED
    BY <2>2, <2>3, TokenMatches
<1>4. CASE BadOperator
  <2>1. More /\ Char \in Operators /\ Refuse /\ Char \notin Spaces
    BY <1>0, <1>4 DEF BadOperator, Operators
  <2>2. NoToken(sql, cursor)
    BY <1>4, <2>1, OperatorIsLongest DEF BadOperator
  <2> QED
    BY <2>1, <2>2, RefuseMatches
<1>5. CASE StringToken
  <2>1. PICK n : n = Closing - cursor + 1
    OBVIOUS
  <2>2. More /\ Char = "'" /\ Token("STRING", n) /\ Closing <= Len(sql)
    BY <1>5, <2>1 DEF StringToken
  <2>3. LongestToken(sql, cursor, n, "STRING")
    BY <2>1, <2>2, StringIsLongest
  <2> QED
    BY <1>0, <2>2, <2>3, TokenMatches
<1>6. CASE UnterminatedString
  <2>1. More /\ Char = "'" /\ Refuse /\ Closing > Len(sql)
    BY <1>6 DEF UnterminatedString
  <2>2. NoToken(sql, cursor)
    BY <2>1, StringIsLongest
  <2> QED
    BY <1>0, <2>1, <2>2, RefuseMatches
<1>7. CASE NumberToken
  <2>1. PICK n : n = 1 + Span(Digits, cursor + 1)
    OBVIOUS
  <2>2. More /\ StartsNumber /\ Token("NUMBER", n)
    BY <1>7, <2>1 DEF NumberToken
  <2>3. Char \in Digits \union {"+", "-"}
    BY <2>2 DEF StartsNumber
  <2>4. LongestToken(sql, cursor, n, "NUMBER")
    BY <2>1, <2>2, <2>3, NumberIsLongest
  <2>5. Char \notin Spaces
    BY <1>0, <2>3
  <2> QED
    BY <2>2, <2>4, <2>5, TokenMatches
<1>8. CASE WordToken
  <2>1. PICK n : n = 1 + Span(Letters \union Digits, cursor + 1)
    OBVIOUS
  <2>2. PICK type : type = WordType(SubSeq(sql, cursor, cursor + n - 1))
    OBVIOUS
  <2>3. More /\ Char \in Letters /\ Token(type, n)
    BY <1>8, <2>1, <2>2 DEF WordToken
  <2>4. LongestToken(sql, cursor, n, type)
    BY <2>1, <2>2, <2>3, WordIsLongest DEF Chunk
  <2>5. Char \notin Spaces
    BY <1>0, <2>3
  <2> QED
    BY <2>3, <2>4, <2>5, TokenMatches
<1>9. CASE BadCharacter
  <2>1. More /\ Char \notin Spaces /\ Refuse
    BY <1>9 DEF BadCharacter
  <2> QED
    BY <1>9, <2>1, BadCharacterIsNone, RefuseMatches
<1>10. CASE EndOfText
  BY <1>10, EndOfTextMatches
<1> QED
  BY <1>1, <1>2, <1>3, <1>4, <1>5, <1>6, <1>7, <1>8, <1>9, <1>10 DEF LexStep

LEMMA KeepMatches ==
    ASSUME TokensInv, Keep
    PROVE  TokensInv'
<1>1. PICK s, c, found, state : s = sql /\ c = cursor /\ found = tokens /\ state = lex
  OBVIOUS
<1>2. sql' = s /\ cursor' = c /\ tokens' = found /\ lex' = state
  BY <1>1 DEF Keep, lexer
<1>3. Matches(s, c, found, state)
  BY <1>1, MatchesNow
<1> QED
  BY <1>2, <1>3, MatchesNext

LEMMA BeginMatches ==
    ASSUME SessionInvariant, Begin
    PROVE  TokensInv'
<1>1. Lex(Statement)
  BY DEF Begin
<1>2. sql' \in Text
  BY BeginKeeps DEF SessionInvariant, LexerInv
<1>3. PICK s \in Text : s = sql'
  BY <1>2
<1>4. 1 \in 1 .. Len(s) + 1
  BY DEF Text
<1>5. TokensFrom(s)[1] \in Seqs
  BY <1>4, TokensUnfold
<1>6. << >> \o TokensFrom(s)[1] = TokensFrom(s)[1]
  BY <1>5 DEF Seqs
<1>7. Matches(s, 1, << >>, "lexing")
  BY <1>6 DEF Matches, Reference
<1>8. sql' = s /\ cursor' = 1 /\ tokens' = << >> /\ lex' = "lexing"
  BY <1>1, <1>3 DEF Lex
<1> QED
  BY <1>7, <1>8, MatchesNext

LEMMA NextMatches ==
    ASSUME SessionInvariant, TokensInv, [Next]_vars
    PROVE  TokensInv'
<1>1. CASE Begin
  BY <1>1, BeginMatches
<1>2. CASE LexSome
  BY <1>2, LexStepMatches DEF LexSome, SessionInvariant
<1>3. CASE LexFailed \/ ParseRefuses \/ Execute
  <2>1. lex' = "idle"
    BY <1>3, EndsBy DEF EndsStatement
  <2> QED
    BY <2>1 DEF TokensInv, LexesByLongestMatch
<1>4. CASE \/ FileMissing \/ OpenFile \/ StartPrompt \/ SkipBlank \/ NothingToPreload \/ EndOfInput
           \/ Parse \/ MakeDirectory \/ Log \/ LogFails
  <2>1. Keep
    BY <1>4 DEF FileMissing, OpenFile, StartPrompt, SkipBlank, NothingToPreload, EndOfInput,
                Parse, MakeDirectory, Log, LogFails
  <2> QED
    BY <2>1, KeepMatches
<1>5. CASE UNCHANGED vars
  <2>1. Keep
    BY <1>5 DEF vars, driver, Keep
  <2> QED
    BY <2>1, KeepMatches
<1> QED
  BY <1>1, <1>2, <1>3, <1>4, <1>5 DEF Next

(* lex_sql splits every text into the longest tokens from left to right,   *)
(* and refuses exactly the texts that cannot be split so: whatever texts   *)
(* and keywords there are, and whichever calls for memory fail.            *)
THEOREM LexesAlways == Spec => []LexesByLongestMatch
<1>1. Init => TokensInv
  BY DEF Init, LexerInit, TokensInv, LexesByLongestMatch
<1>2. SessionInvariant /\ TokensInv /\ [Next]_vars => TokensInv'
  BY NextMatches
<1>3. TokensInv => LexesByLongestMatch
  BY DEF TokensInv
<1>4. SessionInvariant /\ TokensInv /\ SessionInvariant' /\ [Next]_vars => TokensInv'
  BY <1>2
<1> QED
  BY <1>1, <1>2, <1>3, Invariance, PTL DEF Spec
=============================================================================
