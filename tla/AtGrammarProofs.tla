-------------------------- MODULE AtGrammarProofs ---------------------------
(***************************************************************************)
(* Theorems about AtGrammar, for every alphabet of letters and every       *)
(* length of text: what the two parsers make of a text in one pass is what *)
(* the definitions by positions say of it.                                 *)
(*                                                                         *)
(* The argument is an induction over texts.  A parser's fields after a     *)
(* text are related to the positions of the text by CommandReads and       *)
(* ResponseReads; both hold of the empty text, and a further symbol keeps  *)
(* them.  For that every operator of the definitions by positions needs a  *)
(* lemma that says what it becomes when the text grows by one symbol.      *)
(***************************************************************************)
EXTENDS AtGrammar, SequenceTheorems, FiniteSetTheorems, WellFoundedInduction, TLAPS

(***************************************************************************)
(* Induction, over sets instead of predicates.                             *)
(***************************************************************************)
\* A set of numbers has a least one.
LEMMA LeastIs ==
    ASSUME NEW S, S \subseteq Nat, S # {}
    PROVE  \E x \in S : \A y \in S : x <= y
<1>1. PICK x \in S : \A y \in S : ~(<<y, x>> \in OpToRel(<, Nat))
  BY WFMin, NatLessThanWellFounded
<1>2. ASSUME NEW y \in S PROVE x <= y
  <2>1. x \in Nat /\ y \in Nat
    OBVIOUS
  <2>2. ~(y < x)
    BY <1>1, <2>1 DEF OpToRel
  <2> QED
    BY <2>1, <2>2
<1> QED
  BY <1>1, <1>2

\* A set with zero and all successors has every number.
LEMMA EveryNumber ==
    ASSUME NEW S, 0 \in S, \A n \in S \cap Nat : n + 1 \in S
    PROVE  Nat \subseteq S
<1> SUFFICES ASSUME NEW m \in Nat, m \notin S PROVE FALSE
  OBVIOUS
<1>1. PICK x \in Nat \ S : \A y \in Nat \ S : x <= y
  <2>1. Nat \ S \subseteq Nat /\ Nat \ S # {}
    OBVIOUS
  <2> QED
    BY <2>1, LeastIs
<1>2. x # 0 /\ x - 1 \in Nat
  BY <1>1
<1>3. x - 1 \in S
  <2>1. ~(x <= x - 1)
    BY <1>2
  <2> QED
    BY <1>1, <1>2, <2>1
<1>4. (x - 1) + 1 = x
  BY <1>2
<1> QED
  BY <1>1, <1>2, <1>3, <1>4

\* A set with the empty text and all its extensions has every text.
LEMMA EveryText ==
    ASSUME NEW T, NEW S, <<>> \in S, \A t \in S \cap Seq(T), e \in T : Append(t, e) \in S
    PROVE  Seq(T) \subseteq S
<1> DEFINE N == {n \in Nat : \A t \in Seq(T) : Len(t) = n => t \in S}
<1>1. 0 \in N
  BY EmptySeq
<1>2. ASSUME NEW n \in N \cap Nat PROVE n + 1 \in N
  <2> SUFFICES ASSUME NEW t \in Seq(T), Len(t) = n + 1 PROVE t \in S
    OBVIOUS
  <2>1. PICK u \in Seq(T), e \in T : t = Append(u, e)
    <3>1. t # <<>>
      BY EmptySeq
    <3> QED
      BY <3>1, SequenceEmptyOrAppend
  <2>2. Len(u) = n
    <3>1. Len(t) = Len(u) + 1 /\ Len(u) \in Nat
      BY <2>1, AppendProperties, LenProperties
    <3> QED
      BY <3>1
  <2> QED
    BY <2>1, <2>2
<1>3. Nat \subseteq N
  <2> HIDE DEF N
  <2> QED
    BY <1>1, <1>2, EveryNumber
<1>4. ASSUME NEW t \in Seq(T) PROVE t \in S
  BY <1>3, LenProperties
<1> QED
  BY <1>4
-----------------------------------------------------------------------------
(***************************************************************************)
(* Texts and positions.                                                    *)
(***************************************************************************)
LEMMA AppendIs ==
    ASSUME NEW T, NEW t \in Seq(T), NEW e \in T
    PROVE  /\ Append(t, e) \in Seq(T) /\ Len(Append(t, e)) = Len(t) + 1
           /\ Len(t) \in Nat /\ DOMAIN t = 1 .. Len(t)
           /\ DOMAIN Append(t, e) = 1 .. Len(t) + 1
           /\ \A i \in 1 .. Len(t) : Append(t, e)[i] = t[i]
           /\ Append(t, e)[Len(t) + 1] = e
BY AppendProperties, LenProperties

LEMMA TextIs ==
    ASSUME NEW T, NEW t \in Seq(T)
    PROVE  /\ Len(t) \in Nat /\ DOMAIN t = 1 .. Len(t)
           /\ t = <<>> <=> Len(t) = 0
           /\ \A i \in 1 .. Len(t) : t[i] \in T
BY LenProperties, EmptySeq, ElementOfSeq

LEMMA AtIs ==
    ASSUME NEW T, NEW t \in Seq(T), NEW S
    PROVE  At(t, S) \subseteq 1 .. Len(t)
BY TextIs DEF At

\* A symbol adds its position to those of every set it is in.
LEMMA AtAppend ==
    ASSUME NEW T, NEW t \in Seq(T), NEW e \in T, NEW S
    PROVE  At(Append(t, e), S) = IF e \in S THEN At(t, S) \cup {Len(t) + 1} ELSE At(t, S)
<1>1. PICK n \in Nat : n = Len(t)
  BY TextIs
<1>2. ASSUME NEW i PROVE i \in 1 .. n + 1 <=> i \in 1 .. n \/ i = n + 1
  OBVIOUS
<1>3. n + 1 \notin 1 .. n
  OBVIOUS
<1> QED
  BY <1>1, <1>2, <1>3, AppendIs DEF At

LEMMA AtEmpty == \A S : At(<<>>, S) = {}
BY DEF At

\* The first and the last of some positions, which are found by comparing.
LEMMA FirstIs ==
    ASSUME NEW n \in Nat, NEW S, S \subseteq 1 .. n, S # {}
    PROVE  /\ FirstOf(S) \in S /\ FirstOf(S) \in 1 .. n
           /\ \A i \in S : FirstOf(S) <= i
<1>1. S \subseteq Nat
  OBVIOUS
<1>2. \E x \in S : \A y \in S : x <= y
  BY <1>1, LeastIs
<1>3. Min(S) \in S /\ \A i \in S : Min(S) <= i
  BY <1>2 DEF Min
<1> QED
  BY <1>3 DEF FirstOf

LEMMA FirstUnique ==
    ASSUME NEW n \in Nat, NEW S, S \subseteq 1 .. n, NEW i \in S, \A j \in S : i <= j
    PROVE  FirstOf(S) = i
<1>1. FirstOf(S) \in 1 .. n /\ FirstOf(S) <= i /\ i <= FirstOf(S)
  BY FirstIs
<1> QED
  BY <1>1

LEMMA LastIs ==
    ASSUME NEW n \in Nat, NEW S, S \subseteq 1 .. n
    PROVE  /\ LastOf(S) \in 0 .. n
           /\ S = {} <=> LastOf(S) = 0
           /\ S # {} => LastOf(S) \in S
           /\ \A i \in S : i <= LastOf(S)
<1>1. CASE S = {}
  BY <1>1 DEF LastOf
<1>2. CASE S # {}
  <2> DEFINE M == {m \in Nat : \A i \in S : i <= m}
  <2>1. n \in M
    OBVIOUS
  <2>2. PICK m \in M : \A k \in M : m <= k
    BY <2>1, LeastIs
  <2>3. m \in S
    <3> SUFFICES ASSUME m \notin S PROVE FALSE
      OBVIOUS
    <3>1. \A i \in S : i <= m - 1
      OBVIOUS
    <3>2. m - 1 \in Nat
      <4>1. PICK i \in S : i \in 1 .. n
        BY <1>2
      <4>2. i <= m - 1
        BY <3>1
      <4> QED
        BY <4>1, <4>2
    <3>3. m - 1 \in M
      BY <3>1, <3>2
    <3> QED
      BY <2>2, <3>2, <3>3
  <2>4. \E x \in S : \A y \in S : x >= y
    BY <2>3
  <2>5. Max(S) \in S /\ \A y \in S : Max(S) >= y
    BY <2>4 DEF Max
  <2>6. LastOf(S) = Max(S)
    BY <1>2 DEF LastOf
  <2>7. LastOf(S) \in S /\ \A y \in S : LastOf(S) >= y
    BY <2>5, <2>6
  <2>8. LastOf(S) \in 1 .. n
    BY <2>7
  <2> QED
    BY <1>2, <2>7, <2>8
<1> QED
  BY <1>1, <1>2

LEMMA LastUnique ==
    ASSUME NEW n \in Nat, NEW S, S \subseteq 1 .. n, NEW i \in S, \A j \in S : j <= i
    PROVE  LastOf(S) = i
<1>1. LastOf(S) \in 1 .. n /\ LastOf(S) <= i /\ i <= LastOf(S)
  BY LastIs
<1> QED
  BY <1>1

\* A new position at the end is the last, and the first if it is the only one.
LEMMA LastGrows ==
    ASSUME NEW n \in Nat, NEW S, S \subseteq 1 .. n
    PROVE  LastOf(S \cup {n + 1}) = n + 1
<1>1. PICK R : R = S \cup {n + 1}
  OBVIOUS
<1>2. R \subseteq 1 .. n + 1 /\ n + 1 \in Nat /\ n + 1 \in R /\ \A j \in R : j <= n + 1
  BY <1>1
<1>3. LastOf(R) = n + 1
  BY <1>2, LastUnique
<1> QED
  BY <1>1, <1>3

LEMMA FirstGrows ==
    ASSUME NEW n \in Nat, NEW S, S \subseteq 1 .. n
    PROVE  FirstOf(S \cup {n + 1}) = IF S = {} THEN n + 1 ELSE FirstOf(S)
<1>1. PICK R : R = S \cup {n + 1}
  OBVIOUS
<1>2. R \subseteq 1 .. n + 1 /\ n + 1 \in Nat
  BY <1>1
<1>3. CASE S = {}
  <2>1. n + 1 \in R /\ \A j \in R : n + 1 <= j
    BY <1>1, <1>3
  <2>2. FirstOf(R) = n + 1
    BY <1>2, <2>1, FirstUnique
  <2> QED
    BY <1>1, <1>3, <2>2
<1>4. CASE S # {}
  <2>1. PICK f \in S : f = FirstOf(S) /\ f \in 1 .. n /\ \A j \in S : f <= j
    BY <1>4, FirstIs
  <2>2. f \in R /\ \A j \in R : f <= j
    BY <1>1, <2>1
  <2>3. FirstOf(R) = f
    BY <1>2, <2>2, FirstUnique
  <2> QED
    BY <1>1, <1>4, <2>1, <2>3
<1> QED
  BY <1>3, <1>4

\* Stretches of a text, and what a further symbol does to them.
LEMMA SubSeqIs ==
    ASSUME NEW T, NEW t \in Seq(T), NEW a \in 1 .. Len(t) + 1, NEW b \in 0 .. Len(t)
    PROVE  /\ SubSeq(t, a, b) \in Seq(T)
           /\ Len(SubSeq(t, a, b)) = IF a <= b THEN b - a + 1 ELSE 0
           /\ \A i \in 1 .. b - a + 1 : SubSeq(t, a, b)[i] = t[a + i - 1]
<1>1. Len(t) \in Nat
  BY TextIs
<1>2. a \in Int /\ b \in Int /\ \A i \in a .. b : t[i] \in T
  BY <1>1, TextIs
<1> QED
  BY <1>2, SubSeqProperties

\* A stretch of a text does not change when the text grows.
LEMMA SubSeqStays ==
    ASSUME NEW T, NEW t \in Seq(T), NEW e \in T,
           NEW a \in 1 .. Len(t) + 1, NEW b \in 0 .. Len(t)
    PROVE  SubSeq(Append(t, e), a, b) = SubSeq(t, a, b)
<1>1. PICK u \in Seq(T) : u = Append(t, e)
  BY AppendIs
<1>2. /\ Len(u) = Len(t) + 1 /\ Len(t) \in Nat /\ \A i \in 1 .. Len(t) : u[i] = t[i]
  BY <1>1, AppendIs
<1>3. a \in 1 .. Len(u) + 1 /\ b \in 0 .. Len(u)
  BY <1>2
<1>4. PICK v \in Seq(T), w \in Seq(T) : v = SubSeq(t, a, b) /\ w = SubSeq(u, a, b)
  BY <1>3, SubSeqIs
<1>5. Len(v) = Len(w) /\ Len(v) = IF a <= b THEN b - a + 1 ELSE 0
  BY <1>3, <1>4, SubSeqIs
<1>6. ASSUME NEW i \in 1 .. Len(v) PROVE v[i] = w[i]
  <2>1. i \in 1 .. b - a + 1
    BY <1>2, <1>5
  <2>2. v[i] = t[a + i - 1] /\ w[i] = u[a + i - 1]
    BY <1>3, <1>4, <2>1, SubSeqIs
  <2>3. a + i - 1 \in 1 .. Len(t)
    BY <1>2, <2>1
  <2> QED
    BY <1>2, <2>2, <2>3
<1> QED
  BY <1>1, <1>4, <1>5, <1>6, SeqEqual

LEMMA SubSeqGrows ==
    ASSUME NEW T, NEW t \in Seq(T), NEW e \in T, NEW a \in 1 .. Len(t) + 1
    PROVE  SubSeq(Append(t, e), a, Len(t) + 1) = Append(SubSeq(t, a, Len(t)), e)
<1>1. PICK u \in Seq(T) : u = Append(t, e)
  BY AppendIs
<1>2. PICK n \in Nat : /\ n = Len(t) /\ Len(u) = n + 1 /\ \A i \in 1 .. n : u[i] = t[i]
                       /\ u[n + 1] = e
  BY <1>1, AppendIs
<1>3. a \in 1 .. n + 1 /\ a \in 1 .. Len(u) + 1 /\ n + 1 \in 0 .. Len(u) /\ n \in 0 .. n
  BY <1>2
<1>4. PICK v \in Seq(T), w \in Seq(T) : v = SubSeq(t, a, n) /\ w = SubSeq(u, a, n + 1)
  BY <1>2, <1>3, SubSeqIs
<1>5. /\ Len(v) = n - a + 1 /\ \A i \in 1 .. n - a + 1 : v[i] = t[a + i - 1]
  BY <1>2, <1>3, <1>4, SubSeqIs
<1>6. /\ Len(w) = n - a + 2 /\ \A i \in 1 .. n - a + 2 : w[i] = u[a + i - 1]
  <2>1. (n + 1) - a + 1 = n - a + 2 /\ a <= n + 1
    BY <1>3
  <2>2. /\ Len(w) = IF a <= n + 1 THEN (n + 1) - a + 1 ELSE 0
        /\ \A i \in 1 .. (n + 1) - a + 1 : w[i] = u[a + i - 1]
    BY <1>3, <1>4, SubSeqIs
  <2> QED
    BY <2>1, <2>2
<1>7. PICK x \in Seq(T) : /\ x = Append(v, e) /\ Len(x) = n - a + 2
                          /\ \A i \in 1 .. n - a + 1 : x[i] = v[i]
                          /\ x[n - a + 2] = e
  <2>1. (n - a + 1) + 1 = n - a + 2
    BY <1>3
  <2>2. PICK m \in Nat : m = n - a + 1
    BY <1>3
  <2>3. /\ Append(v, e) \in Seq(T) /\ Len(Append(v, e)) = m + 1
        /\ \A i \in 1 .. m : Append(v, e)[i] = v[i]
    <3>1. Len(v) = m
      BY <1>5, <2>2
    <3> QED
      BY <3>1, AppendIs
  <2>4. Append(v, e)[m + 1] = e
    <3>1. Len(v) = m
      BY <1>5, <2>2
    <3> QED
      BY <3>1, AppendIs
  <2> QED
    BY <2>1, <2>2, <2>3, <2>4
<1>8. ASSUME NEW i \in 1 .. n - a + 2 PROVE w[i] = x[i]
  <2>1. CASE i = n - a + 2
    <3>1. a + i - 1 = n + 1
      BY <1>3, <2>1
    <3> QED
      BY <1>2, <1>6, <1>7, <2>1, <3>1
  <2>2. CASE i # n - a + 2
    <3>1. i \in 1 .. n - a + 1 /\ a + i - 1 \in 1 .. n
      BY <1>3, <2>2
    <3> QED
      BY <1>2, <1>5, <1>6, <1>7, <3>1
  <2> QED
    BY <2>1, <2>2
<1>9. w = x
  BY <1>6, <1>7, <1>8, SeqEqual
<1> QED
  BY <1>1, <1>2, <1>4, <1>7, <1>9

LEMMA BeforeIs ==
    ASSUME NEW T, NEW t \in Seq(T)
    PROVE  /\ \A i \in 1 .. Len(t) + 1 : Before(t, i) \in Seq(T) /\ Len(Before(t, i)) = i - 1
           /\ \A i \in 1 .. Len(t) + 1 : \A j \in 1 .. i - 1 : Before(t, i)[j] = t[j]
           /\ Before(t, Len(t) + 1) = t
           /\ \A e \in T, i \in 1 .. Len(t) + 1 : Before(Append(t, e), i) = Before(t, i)
<1>1. PICK n \in Nat : n = Len(t)
  BY TextIs
<1>2. ASSUME NEW i \in 1 .. n + 1
      PROVE  /\ Before(t, i) \in Seq(T) /\ Len(Before(t, i)) = i - 1
             /\ \A j \in 1 .. i - 1 : Before(t, i)[j] = t[j]
             /\ \A e \in T : Before(Append(t, e), i) = Before(t, i)
  <2>1. 1 \in 1 .. Len(t) + 1 /\ i - 1 \in 0 .. Len(t)
    BY <1>1
  <2>2. PICK b \in 0 .. n : b = i - 1
    OBVIOUS
  <2>3. /\ SubSeq(t, 1, b) \in Seq(T)
        /\ Len(SubSeq(t, 1, b)) = IF 1 <= b THEN b - 1 + 1 ELSE 0
        /\ \A j \in 1 .. b - 1 + 1 : SubSeq(t, 1, b)[j] = t[1 + j - 1]
    BY <1>1, <2>1, <2>2, SubSeqIs
  <2>4. /\ Before(t, i) = SubSeq(t, 1, b)
        /\ \A e \in T : Before(Append(t, e), i) = SubSeq(Append(t, e), 1, b)
    BY <2>2 DEF Before
  <2>5. \A e \in T : SubSeq(Append(t, e), 1, b) = SubSeq(t, 1, b)
    BY <1>1, <2>1, <2>2, SubSeqStays
  <2>6. Len(Before(t, i)) = i - 1
    BY <2>2, <2>3, <2>4
  <2>7. ASSUME NEW j \in 1 .. i - 1 PROVE Before(t, i)[j] = t[j]
    <3>1. j \in 1 .. b - 1 + 1 /\ 1 + j - 1 = j
      BY <2>2
    <3> QED
      BY <2>3, <2>4, <3>1
  <2> QED
    BY <2>3, <2>4, <2>5, <2>6, <2>7
<1>3. Before(t, n + 1) = t
  <2>1. (n + 1) - 1 = n
    OBVIOUS
  <2> QED
    BY <1>1, <2>1, SubSeqFull DEF Before
<1> QED
  BY <1>1, <1>2, <1>3

LEMMA AfterIs ==
    ASSUME NEW T, NEW t \in Seq(T)
    PROVE  /\ \A i \in 0 .. Len(t) : After(t, i) \in Seq(T) /\ Len(After(t, i)) = Len(t) - i
           /\ \A i \in 0 .. Len(t) : \A j \in 1 .. Len(t) - i : After(t, i)[j] = t[i + j]
           /\ After(t, 0) = t /\ After(t, Len(t)) = <<>>
           /\ \A e \in T, i \in 0 .. Len(t) : After(Append(t, e), i) = Append(After(t, i), e)
<1>1. PICK n \in Nat : n = Len(t)
  BY TextIs
<1>2. ASSUME NEW i \in 0 .. n
      PROVE  /\ After(t, i) \in Seq(T) /\ Len(After(t, i)) = n - i
             /\ \A j \in 1 .. n - i : After(t, i)[j] = t[i + j]
             /\ \A e \in T : After(Append(t, e), i) = Append(After(t, i), e)
  <2>1. PICK a \in 1 .. n + 1 : a = i + 1
    OBVIOUS
  <2>2. a \in 1 .. Len(t) + 1 /\ n \in 0 .. Len(t) /\ After(t, i) = SubSeq(t, a, n)
    BY <1>1, <2>1 DEF After
  <2>3. /\ SubSeq(t, a, n) \in Seq(T)
        /\ Len(SubSeq(t, a, n)) = IF a <= n THEN n - a + 1 ELSE 0
        /\ \A j \in 1 .. n - a + 1 : SubSeq(t, a, n)[j] = t[a + j - 1]
    BY <2>2, SubSeqIs
  <2>4. n - a + 1 = n - i /\ \A j \in 1 .. n - i : a + j - 1 = i + j
    BY <2>1
  <2>5. ASSUME NEW e \in T PROVE After(Append(t, e), i) = Append(After(t, i), e)
    <3>1. Len(Append(t, e)) = n + 1
      BY <1>1, AppendIs
    <3>2. After(Append(t, e), i) = SubSeq(Append(t, e), a, Len(t) + 1)
      BY <1>1, <2>1, <3>1 DEF After
    <3> QED
      BY <1>1, <2>2, <3>2, SubSeqGrows
  <2>6. Len(After(t, i)) = n - i
    BY <2>1, <2>2, <2>3
  <2> QED
    BY <2>2, <2>3, <2>4, <2>5, <2>6
<1>3. After(t, 0) = t
  BY <1>1, SubSeqFull DEF After
<1>4. After(t, n) = <<>>
  <2>1. n + 1 \in Int /\ n \in Int /\ n < n + 1
    OBVIOUS
  <2> QED
    BY <1>1, <2>1, SubSeqEmpty DEF After
<1> QED
  BY <1>1, <1>2, <1>3, <1>4

-----------------------------------------------------------------------------
(***************************************************************************)
(* The positions of a set, counted from the left.                          *)
(***************************************************************************)
LEMMA CardIs ==
    ASSUME NEW n \in Nat, NEW S, S \subseteq 1 .. n
    PROVE  /\ IsFiniteSet(S) /\ Cardinality(S) \in Nat
           /\ Cardinality(S) = 0 <=> S = {}
           /\ Cardinality(S \cup {n + 1}) = Cardinality(S) + 1
<1>1. IsFiniteSet(S)
  <2>1. 1 \in Int /\ n \in Int
    OBVIOUS
  <2>2. IsFiniteSet(1 .. n)
    BY <2>1, FS_Interval
  <2>3. S \in SUBSET (1 .. n)
    OBVIOUS
  <2> QED
    BY <2>2, <2>3, FS_Subset
<1>2. n + 1 \notin S
  OBVIOUS
<1> QED
  BY <1>1, <1>2, FS_CardinalityType, FS_EmptySet, FS_AddElement

\* A new position at the end does not change the ranks of the others.
LEMMA RankGrows ==
    ASSUME NEW n \in Nat, NEW S, S \subseteq 1 .. n
    PROVE  /\ \A i \in S : Rank(S \cup {n + 1}, i) = Rank(S, i)
           /\ Rank(S \cup {n + 1}, n + 1) = Cardinality(S) + 1
<1>1. ASSUME NEW i \in S PROVE {j \in S \cup {n + 1} : j <= i} = {j \in S : j <= i}
  <2>1. i \in 1 .. n /\ ~(n + 1 <= i)
    OBVIOUS
  <2> QED
    BY <2>1
<1>2. {j \in S \cup {n + 1} : j <= n + 1} = S \cup {n + 1}
  <2>1. \A j \in S \cup {n + 1} : j <= n + 1
    OBVIOUS
  <2> QED
    BY <2>1, Zenon
<1>3. ASSUME NEW i \in S PROVE Rank(S \cup {n + 1}, i) = Rank(S, i)
  BY <1>1, Zenon DEF Rank
<1>4. Rank(S \cup {n + 1}, n + 1) = Cardinality(S) + 1
  <2>1. Rank(S \cup {n + 1}, n + 1) = Cardinality(S \cup {n + 1})
    BY <1>2, Zenon DEF Rank
  <2> QED
    BY <2>1, CardIs
<1> QED
  BY <1>3, <1>4

\* No two positions have the same rank.
LEMMA RankRises ==
    ASSUME NEW n \in Nat, NEW S, S \subseteq 1 .. n, NEW i \in S, NEW k \in S, i < k
    PROVE  Rank(S, i) \in Nat /\ Rank(S, k) \in Nat /\ Rank(S, i) < Rank(S, k)
<1> DEFINE R == {j \in S : j <= i}
           Q == {j \in S : j <= k}
<1>1. i \in Nat /\ k \in Nat /\ k \notin R /\ k \in Q /\ R \subseteq 1 .. n /\ Q \subseteq 1 .. n
  <2>1. i \in Nat /\ k \in Nat /\ ~(k <= i) /\ k <= k
    OBVIOUS
  <2> QED
    BY <2>1
<1>2. R \subseteq Q
  <2>1. ASSUME NEW j \in S, j <= i PROVE j <= k
    <3>1. j \in Nat
      BY <2>1
    <3> QED
      BY <1>1, <2>1, <3>1
  <2> QED
    BY <2>1
<1> HIDE DEF R, Q
<1>3. IsFiniteSet(R) /\ IsFiniteSet(Q) /\ Cardinality(R) \in Nat /\ Cardinality(Q) \in Nat
  BY <1>1, CardIs
<1>4. R # Q
  BY <1>1
<1>5. Cardinality(R) < Cardinality(Q)
  <2>1. Cardinality(R) <= Cardinality(Q) /\ (Cardinality(R) = Cardinality(Q) => R = Q)
    BY <1>2, <1>3, FS_Subset
  <2> QED
    BY <1>3, <1>4, <2>1
<1> QED
  BY <1>3, <1>5 DEF Rank, R, Q

LEMMA RanksDiffer ==
    ASSUME NEW n \in Nat, NEW S, S \subseteq 1 .. n, NEW i \in S, NEW k \in S,
           Rank(S, i) = Rank(S, k)
    PROVE  i = k
<1>1. i \in Nat /\ k \in Nat
  OBVIOUS
<1>2. CASE i < k
  <2>1. Rank(S, i) \in Nat /\ Rank(S, k) \in Nat /\ Rank(S, i) < Rank(S, k)
    BY <1>2, RankRises
  <2> QED
    BY <2>1
<1>3. CASE k < i
  <2>1. Rank(S, i) \in Nat /\ Rank(S, k) \in Nat /\ Rank(S, k) < Rank(S, i)
    BY <1>3, RankRises
  <2> QED
    BY <2>1
<1> QED
  BY <1>1, <1>2, <1>3

\* Every rank has a position.
LEMMA EveryRank ==
    \A n \in Nat : \A S \in SUBSET (1 .. n) : \A k \in 1 .. Cardinality(S) :
        \E i \in S : Rank(S, i) = k
<1> DEFINE N == {n \in Nat : \A S \in SUBSET (1 .. n) : \A k \in 1 .. Cardinality(S) :
                                 \E i \in S : Rank(S, i) = k}
<1>1. 0 \in N
  <2>1. ASSUME NEW S \in SUBSET (1 .. 0) PROVE Cardinality(S) = 0
    <3>1. S = {}
      OBVIOUS
    <3> QED
      BY <3>1, FS_EmptySet
  <2> QED
    BY <2>1
<1>2. ASSUME NEW n \in N \cap Nat PROVE n + 1 \in N
  <2> SUFFICES ASSUME NEW S \in SUBSET (1 .. n + 1), NEW k \in 1 .. Cardinality(S)
               PROVE  \E i \in S : Rank(S, i) = k
    OBVIOUS
  <2>1. PICK R : R = S \ {n + 1}
    OBVIOUS
  <2>2. R \in SUBSET (1 .. n)
    BY <2>1
  <2>3. Cardinality(R) \in Nat
    BY <2>2, CardIs
  <2>4. CASE n + 1 \notin S
    <3>1. R = S
      BY <2>1, <2>4
    <3> QED
      BY <2>2, <3>1
  <2>5. CASE n + 1 \in S
    <3>1. S = R \cup {n + 1}
      BY <2>1, <2>5
    <3>2. Cardinality(S) = Cardinality(R) + 1
      BY <2>2, <3>1, CardIs
    <3>3. /\ \A i \in R : Rank(S, i) = Rank(R, i)
          /\ Rank(S, n + 1) = Cardinality(R) + 1
      <4>1. n \in Nat /\ R \subseteq 1 .. n
        BY <2>2
      <4>2. /\ \A i \in R : Rank(R \cup {n + 1}, i) = Rank(R, i)
            /\ Rank(R \cup {n + 1}, n + 1) = Cardinality(R) + 1
        BY <4>1, RankGrows
      <4> QED
        BY <3>1, <4>2, Zenon
    <3>4. CASE k = Cardinality(R) + 1
      BY <2>5, <3>3, <3>4
    <3>5. CASE k # Cardinality(R) + 1
      <4>1. k \in 1 .. Cardinality(R)
        BY <2>3, <3>2, <3>5
      <4>2. PICK i \in R : Rank(R, i) = k
        BY <2>2, <4>1
      <4> QED
        BY <2>1, <3>3, <4>2
    <3> QED
      BY <3>4, <3>5
  <2> QED
    BY <2>4, <2>5
<1>3. Nat \subseteq N
  <2> HIDE DEF N
  <2> QED
    BY <1>1, <1>2, EveryNumber
<1> QED
  BY <1>3

\* The position of a rank.
LEMMA NthIs ==
    ASSUME NEW n \in Nat, NEW S, S \subseteq 1 .. n, NEW k \in 1 .. Cardinality(S)
    PROVE  Nth(S, k) \in S /\ Nth(S, k) \in 1 .. n /\ Rank(S, Nth(S, k)) = k
<1>1. \E i \in S : Rank(S, i) = k
  BY EveryRank
<1> QED
  BY <1>1 DEF Nth

LEMMA NthUnique ==
    ASSUME NEW n \in Nat, NEW S, S \subseteq 1 .. n, NEW i \in S
    PROVE  Nth(S, Rank(S, i)) = i
<1>1. Nth(S, Rank(S, i)) \in S /\ Rank(S, Nth(S, Rank(S, i))) = Rank(S, i)
  BY DEF Nth
<1> QED
  BY <1>1, RanksDiffer

\* Another position to the right moves none of those before it.
LEMMA NthGrows ==
    ASSUME NEW n \in Nat, NEW S, S \subseteq 1 .. n
    PROVE  /\ \A k \in 1 .. Cardinality(S) : Nth(S \cup {n + 1}, k) = Nth(S, k)
           /\ Nth(S \cup {n + 1}, Cardinality(S) + 1) = n + 1
<1>1. PICK R : R = S \cup {n + 1}
  OBVIOUS
<1>2. R \subseteq 1 .. n + 1 /\ n + 1 \in Nat /\ n + 1 \in R
  BY <1>1
<1>3. /\ \A i \in S : Rank(R, i) = Rank(S, i)
      /\ Rank(R, n + 1) = Cardinality(S) + 1
  BY <1>1, RankGrows
<1>4. ASSUME NEW k \in 1 .. Cardinality(S) PROVE Nth(R, k) = Nth(S, k)
  <2>1. PICK i \in S : i = Nth(S, k) /\ Rank(S, i) = k
    BY NthIs
  <2>2. i \in R /\ Rank(R, i) = k
    BY <1>1, <1>3, <2>1
  <2>3. Nth(R, Rank(R, i)) = i
    BY <1>2, <2>2, NthUnique
  <2> QED
    BY <2>1, <2>2, <2>3
<1>5. Nth(R, Cardinality(S) + 1) = n + 1
  BY <1>2, <1>3, NthUnique
<1> QED
  BY <1>1, <1>4, <1>5

LEMMA NthLast ==
    ASSUME NEW n \in Nat, NEW S, S \subseteq 1 .. n, S # {}
    PROVE  Nth(S, Cardinality(S)) = LastOf(S)
<1>1. PICK i \in S : i = LastOf(S) /\ \A j \in S : j <= i
  BY LastIs
<1>2. {j \in S : j <= i} = S
  BY <1>1
<1>3. Rank(S, i) = Cardinality(S)
  BY <1>2 DEF Rank
<1> QED
  BY <1>1, <1>3, NthUnique

-----------------------------------------------------------------------------
(***************************************************************************)
(* What is left of a text, and the pieces it is cut into.                  *)
(***************************************************************************)
\* A text that has grown by one symbol.
LEMMA Grown ==
    ASSUME NEW T, NEW t \in Seq(T), NEW e \in T, NEW n, n = Len(t)
    PROVE  /\ Append(t, e) \in Seq(T) /\ Len(Append(t, e)) = n + 1
           /\ Append(t, e)[n + 1] = e
           /\ \A i \in 1 .. n : Append(t, e)[i] = t[i]
BY AppendIs

LEMMA KeptIs ==
    ASSUME NEW T, NEW t \in Seq(T), NEW S
    PROVE  Kept(t, S) \subseteq 1 .. Len(t)
BY TextIs DEF Kept

LEMMA KeptAppend ==
    ASSUME NEW T, NEW t \in Seq(T), NEW e \in T, NEW S
    PROVE  Kept(Append(t, e), S) = IF e \in S THEN Kept(t, S) ELSE Kept(t, S) \cup {Len(t) + 1}
<1>1. PICK n \in Nat : n = Len(t)
  BY TextIs
<1>2. ASSUME NEW i PROVE i \in 1 .. n + 1 <=> i \in 1 .. n \/ i = n + 1
  OBVIOUS
<1>3. n + 1 \notin 1 .. n
  OBVIOUS
<1> QED
  BY <1>1, <1>2, <1>3, AppendIs DEF Kept

\* What is left of a text when some symbols are dropped.
LEMMA WithoutIs ==
    ASSUME NEW T, NEW t \in Seq(T), NEW S
    PROVE  /\ Without(t, S) \in Seq(T \ S)
           /\ Len(Without(t, S)) = Cardinality(Kept(t, S))
           /\ Without(t, S) = <<>> <=> Kept(t, S) = {}
<1>1. PICK n \in Nat : n = Len(t) /\ DOMAIN t = 1 .. n /\ \A i \in 1 .. n : t[i] \in T
  BY TextIs
<1>2. PICK K : K = Kept(t, S) /\ K \subseteq 1 .. n
  BY <1>1, KeptIs
<1>3. PICK m \in Nat : m = Cardinality(K) /\ (m = 0 <=> K = {})
  BY <1>2, CardIs
<1>4. ASSUME NEW k \in 1 .. m PROVE t[Nth(K, k)] \in T \ S
  <2>1. PICK i \in K : i = Nth(K, k)
    BY <1>2, <1>3, NthIs
  <2>2. t[i] \notin S /\ i \in 1 .. n
    BY <1>1, <1>2 DEF Kept
  <2> QED
    BY <1>1, <2>1, <2>2
<1>5. Without(t, S) = [k \in 1 .. m |-> t[Nth(K, k)]]
  BY <1>2, <1>3 DEF Without
<1>6. Without(t, S) \in [1 .. m -> T \ S]
  BY <1>4, <1>5
<1>7. Without(t, S) \in Seq(T \ S)
  BY <1>6, SeqDef
<1>8. Len(Without(t, S)) = m
  BY <1>6, <1>7, LenProperties
<1> QED
  BY <1>2, <1>3, <1>7, <1>8, TextIs

LEMMA WithoutEmpty == \A S : Without(<<>>, S) = <<>>
<1> SUFFICES ASSUME NEW S PROVE Without(<<>>, S) = <<>>
  OBVIOUS
<1>1. Kept(<<>>, S) = {}
  BY DEF Kept
<1>2. <<>> \in Seq({})
  BY EmptySeq
<1> QED
  BY <1>1, <1>2, WithoutIs

LEMMA WithoutAppend ==
    ASSUME NEW T, NEW t \in Seq(T), NEW e \in T, NEW S
    PROVE  Without(Append(t, e), S) =
               IF e \in S THEN Without(t, S) ELSE Append(Without(t, S), e)
<1>1. PICK n \in Nat : n = Len(t)
  BY TextIs
<1>2. PICK u \in Seq(T) : /\ u = Append(t, e) /\ Len(u) = n + 1 /\ u[n + 1] = e
                          /\ \A i \in 1 .. n : u[i] = t[i]
  <2>1. /\ Append(t, e) \in Seq(T) /\ Len(Append(t, e)) = n + 1 /\ Append(t, e)[n + 1] = e
        /\ \A i \in 1 .. n : Append(t, e)[i] = t[i]
    BY <1>1, Grown
  <2> QED
    BY <2>1, Zenon
<1>3. PICK K : K = Kept(t, S) /\ K \subseteq 1 .. n
  BY <1>1, KeptIs
<1>4. PICK m \in Nat : m = Cardinality(K)
  BY <1>3, CardIs
<1>5. \A k \in 1 .. m : Nth(K, k) \in 1 .. n
  BY <1>3, <1>4, NthIs
<1>6. CASE e \in S
  <2>1. Kept(u, S) = K
    BY <1>2, <1>3, <1>6, KeptAppend
  <2>2. \A k \in 1 .. m : u[Nth(K, k)] = t[Nth(K, k)]
    BY <1>2, <1>5
  <2>3. [k \in 1 .. m |-> u[Nth(K, k)]] = [k \in 1 .. m |-> t[Nth(K, k)]]
    BY <2>2, Zenon
  <2> QED
    BY <1>2, <1>3, <1>4, <1>6, <2>1, <2>3 DEF Without
<1>7. CASE e \notin S
  <2>1. PICK R : R = Kept(u, S) /\ R = K \cup {n + 1}
    BY <1>1, <1>2, <1>3, <1>7, KeptAppend
  <2>2. Cardinality(R) = m + 1 /\ R \subseteq 1 .. n + 1
    <3>1. R \subseteq 1 .. n + 1
      BY <1>3, <2>1
    <3>2. Cardinality(K \cup {n + 1}) = Cardinality(K) + 1
      BY <1>3, CardIs
    <3> QED
      BY <1>4, <2>1, <3>1, <3>2
  <2>3. /\ \A k \in 1 .. m : Nth(R, k) = Nth(K, k)
        /\ Nth(R, m + 1) = n + 1
    BY <1>3, <1>4, <2>1, NthGrows
  <2>4. PICK v \in Seq(T), w \in Seq(T) : v = Without(u, S) /\ w = Without(t, S)
    <3>1. Without(u, S) \in Seq(T \ S) /\ Without(t, S) \in Seq(T \ S)
      BY WithoutIs
    <3>2. Without(u, S) \in Seq(T) /\ Without(t, S) \in Seq(T)
      BY <3>1, SeqMonotonic
    <3> QED
      BY <3>2
  <2>5. Len(v) = m + 1 /\ Len(w) = m
    BY <1>3, <1>4, <2>1, <2>2, <2>4, WithoutIs
  <2>6. v = [k \in 1 .. m + 1 |-> u[Nth(R, k)]] /\ w = [k \in 1 .. m |-> t[Nth(K, k)]]
    BY <1>3, <1>4, <2>1, <2>2, <2>4 DEF Without
  <2>7. PICK x \in Seq(T) : /\ x = Append(w, e) /\ Len(x) = m + 1 /\ x[m + 1] = e
                            /\ \A i \in 1 .. m : x[i] = w[i]
    <3>1. /\ Append(w, e) \in Seq(T) /\ Len(Append(w, e)) = m + 1 /\ Append(w, e)[m + 1] = e
          /\ \A i \in 1 .. m : Append(w, e)[i] = w[i]
      BY <2>5, Grown
    <3> QED
      BY <3>1, Zenon
  <2>8. ASSUME NEW k \in 1 .. m + 1 PROVE v[k] = x[k]
    <3>1. CASE k = m + 1
      BY <1>2, <2>3, <2>6, <2>7, <3>1
    <3>2. CASE k # m + 1
      <4>1. k \in 1 .. m
        BY <3>2
      <4>2. Nth(K, k) \in 1 .. n
        BY <1>5, <4>1
      <4> QED
        BY <1>2, <2>3, <2>6, <2>7, <4>1, <4>2
    <3> QED
      BY <3>1, <3>2
  <2>9. v = x
    BY <2>5, <2>7, <2>8, SeqEqual
  <2> QED
    BY <1>2, <1>7, <2>4, <2>7, <2>9
<1> QED
  BY <1>6, <1>7

\* Where a piece begins and ends.
PieceFrom(S, k)  == IF k = 1 THEN 1 ELSE Nth(S, k - 1) + 1
PieceTo(n, S, k) == IF k > Cardinality(S) THEN n ELSE Nth(S, k) - 1

\* The bounds of a piece lie within the text.
LEMMA PieceBounds ==
    ASSUME NEW n \in Nat, NEW S, S \subseteq 1 .. n, NEW k \in 1 .. Cardinality(S) + 1
    PROVE  /\ PieceFrom(S, k) \in 1 .. n + 1 /\ PieceTo(n, S, k) \in 0 .. n
           /\ PieceFrom(S, Cardinality(S) + 1) = LastOf(S) + 1
           /\ PieceTo(n, S, Cardinality(S) + 1) = n
<1>1. PICK m \in Nat : m = Cardinality(S) /\ (m = 0 <=> S = {})
  BY CardIs
<1>2. \A i \in 1 .. m : Nth(S, i) \in 1 .. n
  BY <1>1, NthIs
<1>3. PieceFrom(S, k) \in 1 .. n + 1
  <2>1. CASE k = 1
    BY <2>1 DEF PieceFrom
  <2>2. CASE k # 1
    <3>1. k - 1 \in 1 .. m
      BY <1>1, <2>2
    <3>2. Nth(S, k - 1) \in 1 .. n
      BY <1>2, <3>1
    <3> QED
      BY <2>2, <3>2 DEF PieceFrom
  <2> QED
    BY <2>1, <2>2
<1>4. PieceTo(n, S, k) \in 0 .. n
  <2>1. CASE k > m
    BY <1>1, <2>1 DEF PieceTo
  <2>2. CASE ~(k > m)
    <3>1. k \in 1 .. m
      BY <1>1, <2>2
    <3>2. Nth(S, k) \in 1 .. n
      BY <1>2, <3>1
    <3> QED
      BY <1>1, <2>2, <3>2 DEF PieceTo
  <2> QED
    BY <2>1, <2>2
<1>5. PieceFrom(S, m + 1) = LastOf(S) + 1
  <2>1. CASE m = 0
    BY <1>1, <2>1 DEF PieceFrom, LastOf
  <2>2. CASE m # 0
    <3>1. m + 1 # 1 /\ (m + 1) - 1 = m
      BY <2>2
    <3>2. Nth(S, m) = LastOf(S)
      BY <1>1, <2>2, NthLast
    <3> QED
      BY <3>1, <3>2 DEF PieceFrom
  <2> QED
    BY <2>1, <2>2
<1>6. PieceTo(n, S, m + 1) = n
  BY <1>1 DEF PieceTo
<1> QED
  BY <1>1, <1>3, <1>4, <1>5, <1>6

LEMMA PiecesIs ==
    ASSUME NEW T, NEW t \in Seq(T), NEW S, S \subseteq 1 .. Len(t)
    PROVE  /\ DOMAIN Pieces(t, S) = 1 .. Cardinality(S) + 1
           /\ \A k \in 1 .. Cardinality(S) + 1 :
                 /\ Pieces(t, S)[k] = SubSeq(t, PieceFrom(S, k), PieceTo(Len(t), S, k))
                 /\ Pieces(t, S)[k] \in Seq(T)
           /\ Pieces(t, S)[Cardinality(S) + 1] = After(t, LastOf(S))
<1>1. PICK n \in Nat : n = Len(t)
  BY TextIs
<1>2. PICK m \in Nat : m = Cardinality(S)
  BY <1>1, CardIs
<1>3. Pieces(t, S) = [k \in 1 .. m + 1 |-> SubSeq(t, PieceFrom(S, k), PieceTo(n, S, k))]
  BY <1>1, <1>2, Zenon DEF Pieces, PieceFrom, PieceTo
<1>4. /\ DOMAIN Pieces(t, S) = 1 .. m + 1
      /\ \A k \in 1 .. m + 1 : Pieces(t, S)[k] = SubSeq(t, PieceFrom(S, k), PieceTo(n, S, k))
  BY <1>3, Zenon
<1>5. ASSUME NEW k \in 1 .. m + 1 PROVE Pieces(t, S)[k] \in Seq(T)
  <2>1. PieceFrom(S, k) \in 1 .. n + 1 /\ PieceTo(n, S, k) \in 0 .. n
    BY <1>1, <1>2, PieceBounds
  <2>2. SubSeq(t, PieceFrom(S, k), PieceTo(n, S, k)) \in Seq(T)
    BY <1>1, <2>1, SubSeqIs
  <2> QED
    BY <1>4, <2>2
<1>6. Pieces(t, S)[m + 1] = After(t, LastOf(S))
  <2>1. m + 1 \in 1 .. m + 1
    OBVIOUS
  <2>2. PieceFrom(S, m + 1) = LastOf(S) + 1 /\ PieceTo(n, S, m + 1) = n
    BY <1>1, <1>2, <2>1, PieceBounds
  <2> QED
    BY <1>1, <1>4, <2>1, <2>2 DEF After
<1> QED
  BY <1>1, <1>2, <1>4, <1>5, <1>6

\* A symbol that does not cut makes the last piece longer.
LEMMA PiecesGrow ==
    ASSUME NEW T, NEW t \in Seq(T), NEW e \in T, NEW S, S \subseteq 1 .. Len(t)
    PROVE  /\ \A k \in 1 .. Cardinality(S) : Pieces(Append(t, e), S)[k] = Pieces(t, S)[k]
           /\ Pieces(Append(t, e), S)[Cardinality(S) + 1] =
                  Append(Pieces(t, S)[Cardinality(S) + 1], e)
<1>1. PICK n \in Nat : n = Len(t)
  BY TextIs
<1>2. PICK m \in Nat : m = Cardinality(S)
  BY <1>1, CardIs
<1>3. PICK u \in Seq(T) : u = Append(t, e) /\ Len(u) = n + 1
  BY <1>1, AppendIs
<1>4. S \subseteq 1 .. Len(u)
  BY <1>1, <1>3
<1>5. /\ \A k \in 1 .. m + 1 : Pieces(u, S)[k] = SubSeq(u, PieceFrom(S, k), PieceTo(n + 1, S, k))
      /\ Pieces(u, S)[m + 1] = After(u, LastOf(S))
  BY <1>2, <1>3, <1>4, PiecesIs
<1>6. /\ \A k \in 1 .. m + 1 : Pieces(t, S)[k] = SubSeq(t, PieceFrom(S, k), PieceTo(n, S, k))
      /\ Pieces(t, S)[m + 1] = After(t, LastOf(S))
  BY <1>1, <1>2, PiecesIs
<1>7. ASSUME NEW k \in 1 .. m PROVE Pieces(u, S)[k] = Pieces(t, S)[k]
  <2>1. k \in 1 .. m + 1 /\ ~(k > m)
    OBVIOUS
  <2>2. PieceTo(n + 1, S, k) = PieceTo(n, S, k)
    BY <1>2, <2>1 DEF PieceTo
  <2>3. PieceFrom(S, k) \in 1 .. n + 1 /\ PieceTo(n, S, k) \in 0 .. n
    BY <1>1, <1>2, <2>1, PieceBounds
  <2>4. SubSeq(u, PieceFrom(S, k), PieceTo(n, S, k)) = SubSeq(t, PieceFrom(S, k), PieceTo(n, S, k))
    BY <1>1, <1>3, <2>3, SubSeqStays
  <2> QED
    BY <1>5, <1>6, <2>1, <2>2, <2>4
<1>8. After(u, LastOf(S)) = Append(After(t, LastOf(S)), e)
  <2>1. LastOf(S) \in 0 .. Len(t)
    BY <1>1, LastIs
  <2> QED
    BY <1>3, <2>1, AfterIs
<1> QED
  BY <1>2, <1>3, <1>5, <1>6, <1>7, <1>8

\* One that cuts leaves the pieces as they are and starts an empty one.
LEMMA PiecesSplit ==
    ASSUME NEW T, NEW t \in Seq(T), NEW e \in T, NEW S, S \subseteq 1 .. Len(t),
           NEW R, R = S \cup {Len(t) + 1}
    PROVE  /\ Cardinality(R) = Cardinality(S) + 1
           /\ \A k \in 1 .. Cardinality(S) + 1 : Pieces(Append(t, e), R)[k] = Pieces(t, S)[k]
           /\ Pieces(Append(t, e), R)[Cardinality(R) + 1] = <<>>
<1>1. PICK n \in Nat : n = Len(t)
  BY TextIs
<1>2. PICK m \in Nat : m = Cardinality(S)
  BY <1>1, CardIs
<1>3. PICK u \in Seq(T) : u = Append(t, e) /\ Len(u) = n + 1
  BY <1>1, AppendIs
<1>4. R = S \cup {n + 1}
  BY <1>1
<1>5. R \subseteq 1 .. n + 1 /\ Cardinality(R) = m + 1
  <2>1. Cardinality(S \cup {n + 1}) = Cardinality(S) + 1
    BY <1>1, CardIs
  <2>2. R \subseteq 1 .. n + 1
    <3>1. S \subseteq 1 .. n
      BY <1>1
    <3>2. S \subseteq 1 .. n + 1 /\ n + 1 \in 1 .. n + 1
      BY <3>1
    <3> QED
      BY <1>4, <3>2
  <2> QED
    BY <1>2, <1>4, <2>1, <2>2
<1>6. /\ \A k \in 1 .. m : Nth(R, k) = Nth(S, k)
      /\ Nth(R, m + 1) = n + 1
  <2>1. S \subseteq 1 .. n
    BY <1>1
  <2>2. /\ \A k \in 1 .. Cardinality(S) : Nth(S \cup {n + 1}, k) = Nth(S, k)
        /\ Nth(S \cup {n + 1}, Cardinality(S) + 1) = n + 1
    BY <2>1, NthGrows
  <2> QED
    BY <1>2, <1>4, <2>2, Zenon
<1>7. /\ \A k \in 1 .. m + 2 : Pieces(u, R)[k] = SubSeq(u, PieceFrom(R, k), PieceTo(n + 1, R, k))
      /\ Pieces(u, R)[m + 2] = After(u, LastOf(R))
  <2>1. (m + 1) + 1 = m + 2 /\ R \subseteq 1 .. Len(u)
    BY <1>3, <1>5
  <2>2. /\ \A k \in 1 .. (m + 1) + 1 :
              Pieces(u, R)[k] = SubSeq(u, PieceFrom(R, k), PieceTo(n + 1, R, k))
        /\ Pieces(u, R)[(m + 1) + 1] = After(u, LastOf(R))
    <3>1. /\ \A k \in 1 .. Cardinality(R) + 1 :
                Pieces(u, R)[k] = SubSeq(u, PieceFrom(R, k), PieceTo(Len(u), R, k))
          /\ Pieces(u, R)[Cardinality(R) + 1] = After(u, LastOf(R))
      BY <2>1, PiecesIs
    <3> QED
      BY <1>3, <1>5, <3>1, Zenon
  <2> QED
    BY <2>1, <2>2
<1>8. \A k \in 1 .. m + 1 : Pieces(t, S)[k] = SubSeq(t, PieceFrom(S, k), PieceTo(n, S, k))
  BY <1>1, <1>2, PiecesIs
<1>9. ASSUME NEW k \in 1 .. m + 1 PROVE Pieces(u, R)[k] = Pieces(t, S)[k]
  <2>1. PieceFrom(R, k) = PieceFrom(S, k)
    <3>1. CASE k = 1
      BY <3>1 DEF PieceFrom
    <3>2. CASE k # 1
      <4>1. k - 1 \in 1 .. m
        BY <3>2
      <4> QED
        BY <1>6, <3>2, <4>1 DEF PieceFrom
    <3> QED
      BY <3>1, <3>2
  <2>2. PieceTo(n + 1, R, k) = PieceTo(n, S, k)
    <3>1. ~(k > m + 1)
      OBVIOUS
    <3>2. CASE k = m + 1
      <4>1. PieceTo(n + 1, R, k) = (n + 1) - 1 /\ PieceTo(n, S, k) = n
        BY <1>2, <1>5, <1>6, <3>2 DEF PieceTo
      <4> QED
        BY <4>1
    <3>3. CASE k # m + 1
      <4>1. k \in 1 .. m /\ ~(k > m)
        BY <3>3
      <4> QED
        BY <1>2, <1>5, <1>6, <3>1, <4>1 DEF PieceTo
    <3> QED
      BY <3>2, <3>3
  <2>3. PieceFrom(S, k) \in 1 .. n + 1 /\ PieceTo(n, S, k) \in 0 .. n
    BY <1>1, <1>2, PieceBounds
  <2>4. SubSeq(u, PieceFrom(S, k), PieceTo(n, S, k)) = SubSeq(t, PieceFrom(S, k), PieceTo(n, S, k))
    BY <1>1, <1>3, <2>3, SubSeqStays
  <2>5. k \in 1 .. m + 2
    OBVIOUS
  <2> QED
    BY <1>7, <1>8, <2>1, <2>2, <2>4, <2>5
<1>10. After(u, LastOf(R)) = <<>>
  <2>1. LastOf(R) = n + 1
    BY <1>1, <1>4, LastGrows
  <2>2. After(u, Len(u)) = <<>>
    BY AfterIs
  <2> QED
    BY <1>3, <2>1, <2>2
<1> QED
  <2>1. (m + 1) + 1 = m + 2
    OBVIOUS
  <2> QED
    BY <1>1, <1>2, <1>3, <1>4, <1>5, <1>7, <1>9, <1>10, <2>1

-----------------------------------------------------------------------------
(***************************************************************************)
(* The fold of a parser's step over a text is one pass from the left.      *)
(***************************************************************************)
LEMMA MaxIs ==
    ASSUME NEW n \in Nat, NEW s, s \subseteq 1 .. n
    PROVE  /\ s # {} => Max(s) \in s
           /\ n # 0 /\ n \in s => Max(s) = n
<1>1. ASSUME s # {} PROVE Max(s) \in s /\ Max(s) = LastOf(s)
  <2>1. LastOf(s) \in s
    BY <1>1, LastIs
  <2> QED
    BY <1>1, <2>1 DEF LastOf
<1>2. ASSUME n # 0, n \in s PROVE Max(s) = n
  <2>1. \A j \in s : j <= n
    OBVIOUS
  <2>2. LastOf(s) = n
    BY <1>2, <2>1, LastUnique
  <2> QED
    BY <1>1, <1>2, <2>2
<1> QED
  BY <1>1, <1>2

\* For every number of symbols there is a function that satisfies the
\* equation by which the fold is defined; its domain is the sets of positions.
LEMMA CommandIter ==
    ASSUME NEW t
    PROVE  \A n \in Nat : \E f : f = [s \in SUBSET (1 .. n) |->
               IF s = {} THEN CommandStart ELSE CommandStep(f[s \ {Max(s)}], t[Max(s)])]
<1> DEFINE N == {n \in Nat : \E f : f = [s \in SUBSET (1 .. n) |->
               IF s = {} THEN CommandStart ELSE CommandStep(f[s \ {Max(s)}], t[Max(s)])]}
<1>1. 0 \in N
  <2>1. SUBSET (1 .. 0) = {{}}
    OBVIOUS
  <2>2. PICK f : f = [s \in SUBSET (1 .. 0) |-> CommandStart]
    OBVIOUS
  <2>3. f = [s \in SUBSET (1 .. 0) |->
               IF s = {} THEN CommandStart ELSE CommandStep(f[s \ {Max(s)}], t[Max(s)])]
    BY <2>1, <2>2, Zenon
  <2> QED
    BY <2>3
<1>2. ASSUME NEW n \in N \cap Nat PROVE n + 1 \in N
  <2>1. PICK f : f = [s \in SUBSET (1 .. n) |->
               IF s = {} THEN CommandStart ELSE CommandStep(f[s \ {Max(s)}], t[Max(s)])]
    OBVIOUS
  <2>2. \A s \in SUBSET (1 .. n) : f[s] =
               IF s = {} THEN CommandStart ELSE CommandStep(f[s \ {Max(s)}], t[Max(s)])
    BY <2>1, Zenon
  <2>3. PICK g : g = [s \in SUBSET (1 .. n + 1) |->
               IF n + 1 \in s THEN CommandStep(f[s \ {n + 1}], t[n + 1]) ELSE f[s]]
    OBVIOUS
  <2>4. ASSUME NEW s \in SUBSET (1 .. n + 1)
        PROVE  g[s] = IF s = {} THEN CommandStart ELSE CommandStep(g[s \ {Max(s)}], t[Max(s)])
    <3>1. CASE n + 1 \in s
      <4>1. Max(s) = n + 1 /\ s # {}
        <5>1. n + 1 \in Nat /\ n + 1 # 0 /\ s \subseteq 1 .. n + 1
          OBVIOUS
        <5> QED
          BY <3>1, <5>1, MaxIs
      <4>2. s \ {n + 1} \in SUBSET (1 .. n + 1) /\ n + 1 \notin s \ {n + 1}
        OBVIOUS
      <4>3. g[s \ {n + 1}] = f[s \ {n + 1}] /\ g[s] = CommandStep(f[s \ {n + 1}], t[n + 1])
        BY <2>3, <3>1, <4>2, Zenon
      <4> QED
        BY <4>1, <4>3, Zenon
    <3>2. CASE n + 1 \notin s
      <4>1. s \in SUBSET (1 .. n)
        BY <3>2
      <4>2. g[s] = f[s]
        BY <2>3, <3>2, Zenon
      <4>3. CASE s = {}
        BY <2>2, <4>1, <4>2, <4>3, Zenon
      <4>4. CASE s # {}
        <5>1. PICK r : r = s \ {Max(s)}
          OBVIOUS
        <5>2. r \in SUBSET (1 .. n + 1) /\ n + 1 \notin r
          BY <3>2, <5>1
        <5>3. g[r] = f[r]
          BY <2>3, <5>2, Zenon
        <5> QED
          BY <2>2, <4>1, <4>2, <4>4, <5>1, <5>3, Zenon
      <4> QED
        BY <4>3, <4>4
    <3> QED
      BY <3>1, <3>2
  <2>5. g = [s \in SUBSET (1 .. n + 1) |->
               IF s = {} THEN CommandStart ELSE CommandStep(g[s \ {Max(s)}], t[Max(s)])]
    BY <2>3, <2>4, Zenon
  <2>6. n + 1 \in Nat
    OBVIOUS
  <2> QED
    BY <2>5, <2>6, Zenon
<1>3. Nat \subseteq N
  <2> HIDE DEF N
  <2> QED
    BY <1>1, <1>2, EveryNumber
<1> QED
  BY <1>3, Zenon

\* The fold is the value of such a function.
LEMMA CommandFoldIs ==
    ASSUME NEW T, NEW t \in Seq(T)
    PROVE  \E f : /\ FoldLeft(CommandStep, CommandStart, t) = f[1 .. Len(t)]
                  /\ \A s \in SUBSET (1 .. Len(t)) : f[s] =
                        IF s = {} THEN CommandStart
                        ELSE CommandStep(f[s \ {Max(s)}], t[Max(s)])
<1>1. PICK n \in Nat : n = Len(t) /\ DOMAIN t = 1 .. n
  BY TextIs
<1> DEFINE Is(f) == f = [s \in SUBSET (1 .. n) |->
               IF s = {} THEN CommandStart ELSE CommandStep(f[s \ {Max(s)}], t[Max(s)])]
<1>2. \E f : Is(f)
  BY CommandIter, Zenon
<1>3. PICK f : f = CHOOSE g : Is(g)
  OBVIOUS
<1>4. Is(f)
  <2> HIDE DEF Is
  <2> QED
    BY <1>2, <1>3, Zenon
<1>5. FoldLeft(CommandStep, CommandStart, t) = f[1 .. n]
  <2>1. FoldLeft(CommandStep, CommandStart, t) =
            (CHOOSE g : g = [s \in SUBSET DOMAIN t |->
               IF s = {} THEN CommandStart ELSE CommandStep(g[s \ {Max(s)}], t[Max(s)])])[DOMAIN t]
    BY Zenon DEF FoldLeft, MapThenFoldSet
  <2> QED
    BY <1>1, <1>3, <2>1, Zenon
<1> QED
  BY <1>1, <1>4, <1>5, Zenon

\* One pass from the left.
LEMMA CommandFold ==
    ASSUME NEW T, NEW t \in Seq(T), NEW e \in T
    PROVE  /\ FoldLeft(CommandStep, CommandStart, <<>>) = CommandStart
           /\ FoldLeft(CommandStep, CommandStart, Append(t, e)) =
                  CommandStep(FoldLeft(CommandStep, CommandStart, t), e)
<1>1. FoldLeft(CommandStep, CommandStart, <<>>) = CommandStart
  <2>1. <<>> \in Seq({}) /\ Len(<<>>) = 0
    BY EmptySeq
  <2>2. PICK f : /\ FoldLeft(CommandStep, CommandStart, <<>>) = f[1 .. Len(<<>>)]
                 /\ \A s \in SUBSET (1 .. Len(<<>>)) : f[s] =
                        IF s = {} THEN CommandStart
                        ELSE CommandStep(f[s \ {Max(s)}], <<>>[Max(s)])
    BY <2>1, CommandFoldIs, Zenon
  <2>3. 1 .. Len(<<>>) = {}
    BY <2>1
  <2> QED
    BY <2>2, <2>3, Zenon
<1>2. PICK n \in Nat : n = Len(t)
  BY TextIs
<1>3. PICK u \in Seq(T) : /\ u = Append(t, e) /\ Len(u) = n + 1 /\ u[n + 1] = e
                          /\ \A i \in 1 .. n : u[i] = t[i]
  <2>1. /\ Append(t, e) \in Seq(T) /\ Len(Append(t, e)) = n + 1 /\ Append(t, e)[n + 1] = e
        /\ \A i \in 1 .. n : Append(t, e)[i] = t[i]
    BY <1>2, Grown
  <2> QED
    BY <2>1, Zenon
<1>4. PICK f : /\ FoldLeft(CommandStep, CommandStart, t) = f[1 .. n]
               /\ \A s \in SUBSET (1 .. n) : f[s] =
                     IF s = {} THEN CommandStart
                     ELSE CommandStep(f[s \ {Max(s)}], t[Max(s)])
  BY <1>2, CommandFoldIs, Zenon
<1>5. PICK g : /\ FoldLeft(CommandStep, CommandStart, u) = g[1 .. Len(u)]
               /\ \A s \in SUBSET (1 .. Len(u)) : g[s] =
                     IF s = {} THEN CommandStart
                     ELSE CommandStep(g[s \ {Max(s)}], u[Max(s)])
  BY CommandFoldIs, Zenon
<1>6. ASSUME NEW k \in Nat
      PROVE  1 .. k + 1 # {} /\ Max(1 .. k + 1) = k + 1 /\ (1 .. k + 1) \ {k + 1} = 1 .. k
  <2>1. k + 1 \in Nat /\ k + 1 # 0 /\ k + 1 \in 1 .. k + 1
    OBVIOUS
  <2>2. (1 .. k + 1) \ {k + 1} = 1 .. k
    OBVIOUS
  <2> QED
    BY <2>1, <2>2, MaxIs, Zenon
<1> DEFINE N == {k \in Nat : k <= n => f[1 .. k] = g[1 .. k]}
<1>7. 0 \in N
  <2>1. 1 .. 0 = {} /\ {} \in SUBSET (1 .. n) /\ {} \in SUBSET (1 .. Len(u))
    OBVIOUS
  <2> QED
    BY <1>4, <1>5, <2>1, Zenon
<1>8. ASSUME NEW k \in N \cap Nat PROVE k + 1 \in N
  <2> SUFFICES ASSUME k + 1 <= n PROVE f[1 .. k + 1] = g[1 .. k + 1]
    OBVIOUS
  <2>1. k <= n /\ k + 1 \in 1 .. n
    OBVIOUS
  <2>2. f[1 .. k] = g[1 .. k]
    BY <2>1
  <2>3. 1 .. k + 1 \in SUBSET (1 .. n) /\ 1 .. k + 1 \in SUBSET (1 .. Len(u))
    <3>1. 1 .. k + 1 \in SUBSET (1 .. n) /\ 1 .. k + 1 \in SUBSET (1 .. n + 1)
      OBVIOUS
    <3> QED
      BY <1>3, <3>1
  <2>4. f[1 .. k + 1] = CommandStep(f[1 .. k], t[k + 1])
    <3>1. f[1 .. k + 1] = IF 1 .. k + 1 = {} THEN CommandStart
            ELSE CommandStep(f[(1 .. k + 1) \ {Max(1 .. k + 1)}], t[Max(1 .. k + 1)])
      BY <1>4, <2>3, Zenon
    <3>2. 1 .. k + 1 # {} /\ Max(1 .. k + 1) = k + 1 /\ (1 .. k + 1) \ {k + 1} = 1 .. k
      BY <1>6
    <3> QED
      BY <3>1, <3>2, Zenon
  <2>5. g[1 .. k + 1] = CommandStep(g[1 .. k], u[k + 1])
    <3>1. g[1 .. k + 1] = IF 1 .. k + 1 = {} THEN CommandStart
            ELSE CommandStep(g[(1 .. k + 1) \ {Max(1 .. k + 1)}], u[Max(1 .. k + 1)])
      BY <1>5, <2>3, Zenon
    <3>2. 1 .. k + 1 # {} /\ Max(1 .. k + 1) = k + 1 /\ (1 .. k + 1) \ {k + 1} = 1 .. k
      BY <1>6
    <3> QED
      BY <3>1, <3>2, Zenon
  <2> QED
    BY <1>3, <2>1, <2>2, <2>4, <2>5, Zenon
<1>9. f[1 .. n] = g[1 .. n]
  <2>1. n \in N
    <3> HIDE DEF N
    <3> QED
      BY <1>7, <1>8, EveryNumber
  <2> QED
    BY <2>1
<1>10. g[1 .. n + 1] = CommandStep(g[1 .. n], u[n + 1])
  <2>1. 1 .. n + 1 \in SUBSET (1 .. Len(u))
    BY <1>3
  <2> QED
    <3>1. g[1 .. n + 1] = IF 1 .. n + 1 = {} THEN CommandStart
            ELSE CommandStep(g[(1 .. n + 1) \ {Max(1 .. n + 1)}], u[Max(1 .. n + 1)])
      BY <1>5, <2>1, Zenon
    <3>2. 1 .. n + 1 # {} /\ Max(1 .. n + 1) = n + 1 /\ (1 .. n + 1) \ {n + 1} = 1 .. n
      BY <1>6
    <3> QED
      BY <3>1, <3>2, Zenon
<1> QED
  BY <1>1, <1>3, <1>4, <1>5, <1>9, <1>10, Zenon

-----------------------------------------------------------------------------
(***************************************************************************)
(* Commands, one symbol at a time: first what a symbol does to what a      *)
(* reader finds by positions, then what it does to the parser.             *)
(***************************************************************************)
\* A symbol is a mark, dropped, a comma or a letter.
LEMMA CommandSymbols ==
    /\ CommandSymbol = Marks \cup Dropped \cup (Letters \cup {"comma"})
    /\ Marks \cap Dropped = {} /\ Marks \cap (Letters \cup {"comma"}) = {}
    /\ Dropped \cap (Letters \cup {"comma"}) = {}
BY SymbolsAssumption DEF CommandSymbol, Marks, Dropped, Codes, Errors

\* The value of an argument: a mark empties it, a dropped symbol is not in it.
LEMMA ValueEmpty == CommandValue(<<>>) = <<>>
<1>1. <<>> \in Seq({}) /\ Len(<<>>) = 0
  BY EmptySeq
<1>2. LastOf(At(<<>>, Marks)) = 0
  BY AtEmpty DEF LastOf
<1>3. After(<<>>, 0) = <<>>
  BY <1>1, AfterIs
<1> QED
  BY <1>2, <1>3, WithoutEmpty DEF CommandValue

LEMMA ValueAppend ==
    ASSUME NEW f \in Seq(CommandSymbol), NEW s \in CommandSymbol
    PROVE  CommandValue(Append(f, s)) =
               IF s \in Marks THEN <<>>
               ELSE IF s \in Dropped THEN CommandValue(f) ELSE Append(CommandValue(f), s)
<1>1. PICK n \in Nat : n = Len(f)
  BY TextIs
<1>2. PICK u \in Seq(CommandSymbol) : u = Append(f, s) /\ Len(u) = n + 1
  BY <1>1, AppendIs
<1>3. PICK M : M = At(f, Marks) /\ M \subseteq 1 .. n
  BY <1>1, AtIs
<1>4. CASE s \in Marks
  <2>1. At(u, Marks) = M \cup {n + 1}
    BY <1>1, <1>2, <1>3, <1>4, AtAppend
  <2>2. LastOf(At(u, Marks)) = n + 1
    BY <1>3, <2>1, LastGrows
  <2>3. After(u, n + 1) = <<>>
    BY <1>2, AfterIs
  <2> QED
    BY <1>2, <1>4, <2>2, <2>3, WithoutEmpty DEF CommandValue
<1>5. CASE s \notin Marks
  <2>1. At(u, Marks) = M
    BY <1>1, <1>2, <1>3, <1>5, AtAppend
  <2>2. PICK l \in 0 .. n : l = LastOf(M)
    BY <1>3, LastIs
  <2>3. After(u, l) = Append(After(f, l), s) /\ After(f, l) \in Seq(CommandSymbol)
    BY <1>1, <1>2, <2>2, AfterIs
  <2>4. CommandValue(u) = Without(Append(After(f, l), s), Dropped)
        /\ CommandValue(f) = Without(After(f, l), Dropped)
    BY <1>3, <2>1, <2>2, <2>3 DEF CommandValue
  <2> QED
    BY <1>2, <1>5, <2>3, <2>4, WithoutAppend
<1> QED
  BY <1>4, <1>5

\* Whether a position follows an equals sign depends on what precedes it.
LEMMA IsWriteAppend ==
    ASSUME NEW t \in Seq(CommandSymbol), NEW s \in CommandSymbol
    PROVE  /\ \A i \in 1 .. Len(t) : IsWrite(Append(t, s), i) = IsWrite(t, i)
           /\ IsWrite(Append(t, s), Len(t) + 1) <=>
                  At(t, Marks) # {} /\ t[LastOf(At(t, Marks))] = "="
<1>1. PICK n \in Nat : n = Len(t)
  BY TextIs
<1>2. PICK u \in Seq(CommandSymbol) : /\ u = Append(t, s) /\ Len(u) = n + 1
                                      /\ \A i \in 1 .. n : u[i] = t[i]
  <2>1. /\ Append(t, s) \in Seq(CommandSymbol) /\ Len(Append(t, s)) = n + 1
        /\ \A i \in 1 .. n : Append(t, s)[i] = t[i]
    BY <1>1, Grown
  <2> QED
    BY <2>1, Zenon
<1>3. ASSUME NEW i \in 1 .. n + 1
      PROVE  /\ Before(u, i) = Before(t, i) /\ MarkBefore(t, i) \in 0 .. n
  <2>1. /\ Before(u, i) = Before(t, i) /\ Before(t, i) \in Seq(CommandSymbol)
        /\ Len(Before(t, i)) = i - 1
    BY <1>1, <1>2, BeforeIs
  <2>2. PICK b \in Seq(CommandSymbol) : b = Before(t, i) /\ Len(b) = i - 1
    BY <2>1
  <2>3. At(b, Marks) \subseteq 1 .. i - 1 /\ i - 1 \in Nat
    BY <2>2, AtIs
  <2>4. LastOf(At(b, Marks)) \in 0 .. i - 1
    BY <2>3, LastIs
  <2>5. MarkBefore(t, i) \in 0 .. n
    BY <2>2, <2>4 DEF MarkBefore
  <2> QED
    BY <2>1, <2>5
<1>4. ASSUME NEW i \in 1 .. n PROVE IsWrite(u, i) = IsWrite(t, i)
  <2>1. MarkBefore(u, i) = MarkBefore(t, i) /\ MarkBefore(t, i) \in 0 .. n
    BY <1>3 DEF MarkBefore
  <2>2. MarkBefore(t, i) # 0 => u[MarkBefore(t, i)] = t[MarkBefore(t, i)]
    BY <1>2, <2>1
  <2> QED
    BY <2>1, <2>2 DEF IsWrite
<1>5. IsWrite(u, n + 1) <=> At(t, Marks) # {} /\ t[LastOf(At(t, Marks))] = "="
  <2>1. Before(u, n + 1) = t
    <3>1. Before(u, n + 1) = Before(t, n + 1)
      BY <1>3
    <3>2. Before(t, n + 1) = t
      BY <1>1, BeforeIs
    <3> QED
      BY <3>1, <3>2
  <2>2. MarkBefore(u, n + 1) = LastOf(At(t, Marks))
    BY <2>1 DEF MarkBefore
  <2>3. At(t, Marks) \subseteq 1 .. n
    BY <1>1, AtIs
  <2>4. LastOf(At(t, Marks)) \in 0 .. n /\ (At(t, Marks) = {} <=> LastOf(At(t, Marks)) = 0)
    BY <2>3, LastIs
  <2>5. LastOf(At(t, Marks)) # 0 => u[LastOf(At(t, Marks))] = t[LastOf(At(t, Marks))]
    BY <1>2, <2>4
  <2> QED
    BY <2>2, <2>4, <2>5 DEF IsWrite
<1> QED
  BY <1>1, <1>2, <1>4, <1>5

\* A comma separates if the last mark is an equals sign.
LEMMA SeparatorsAppend ==
    ASSUME NEW t \in Seq(CommandSymbol), NEW s \in CommandSymbol
    PROVE  /\ Separators(t) \subseteq 1 .. Len(t)
           /\ Separators(Append(t, s)) =
                  IF s = "comma" /\ At(t, Marks) # {} /\ t[LastOf(At(t, Marks))] = "="
                  THEN Separators(t) \cup {Len(t) + 1} ELSE Separators(t)
<1>1. PICK n \in Nat : n = Len(t)
  BY TextIs
<1>2. PICK u \in Seq(CommandSymbol) : u = Append(t, s)
  BY AppendIs
<1>3. PICK C : C = At(t, {"comma"}) /\ C \subseteq 1 .. n
  BY <1>1, AtIs
<1>4. At(u, {"comma"}) = IF s = "comma" THEN C \cup {n + 1} ELSE C
  <2>1. At(Append(t, s), {"comma"}) =
            IF s \in {"comma"} THEN At(t, {"comma"}) \cup {Len(t) + 1} ELSE At(t, {"comma"})
    BY AtAppend
  <2> QED
    BY <1>1, <1>2, <1>3, <2>1
<1>5. \A i \in 1 .. n : IsWrite(u, i) = IsWrite(t, i)
  BY <1>1, <1>2, IsWriteAppend
<1>6. IsWrite(u, n + 1) <=> At(t, Marks) # {} /\ t[LastOf(At(t, Marks))] = "="
  BY <1>1, <1>2, IsWriteAppend
<1>7. Separators(t) = {i \in C : IsWrite(t, i)}
  BY <1>3 DEF Separators
<1>8. Separators(u) = {i \in At(u, {"comma"}) : IsWrite(u, i)}
  BY DEF Separators
<1>9. {i \in C : IsWrite(u, i)} = {i \in C : IsWrite(t, i)}
  BY <1>3, <1>5
<1>10. {i \in C \cup {n + 1} : IsWrite(u, i)} =
          {i \in C : IsWrite(u, i)} \cup (IF IsWrite(u, n + 1) THEN {n + 1} ELSE {})
  OBVIOUS
<1>11. Separators(t) \subseteq 1 .. n
  BY <1>3, <1>7
<1>12. Separators(u) = IF s = "comma" /\ IsWrite(u, n + 1) THEN Separators(t) \cup {n + 1}
                      ELSE Separators(t)
  <2>1. CASE s = "comma"
    BY <1>4, <1>7, <1>8, <1>9, <1>10, <2>1
  <2>2. CASE s # "comma"
    BY <1>4, <1>7, <1>8, <1>9, <2>2
  <2> QED
    BY <2>1, <2>2
<1> QED
  BY <1>1, <1>2, <1>6, <1>11, <1>12

\* What the command parser holds while it reads.
CommandState ==
    [name : Seq(Letters \cup {"comma"}), named : BOOLEAN,
     type : {"UNDEFINED", "WRITE", "TEST", "QUERY"},
     args : Seq(Seq(Letters \cup {"comma"})), tmp : Seq(Letters \cup {"comma"}),
     question : Nat, at : Nat]

LEMMA CommandStartIs == CommandStart \in CommandState
<1>1. <<>> \in Seq(Letters \cup {"comma"}) /\ <<>> \in Seq(Seq(Letters \cup {"comma"}))
  BY EmptySeq
<1> QED
  BY <1>1 DEF CommandStart, CommandState

\* What each kind of symbol does to the parser.
LEMMA MarkStep ==
    ASSUME NEW c \in CommandState, NEW s \in Marks
    PROVE  /\ CommandStep(c, s) \in CommandState
           /\ CommandStep(c, s) =
                 [name |-> IF c.named THEN c.name ELSE c.tmp, named |-> TRUE,
                  type |-> CommandType(c.type, s),
                  args |-> c.args, tmp |-> <<>>,
                  question |-> IF s = "?" /\ c.question = 0 THEN c.at ELSE c.question,
                  at |-> c.at + 1]
<1>1. PICK Q, QQ : Q = Seq(Letters \cup {"comma"}) /\ QQ = Seq(Q)
  OBVIOUS
<1>2. CommandState = [name : Q, named : BOOLEAN, type : {"UNDEFINED", "WRITE", "TEST", "QUERY"},
                args : QQ, tmp : Q, question : Nat, at : Nat]
  BY <1>1 DEF CommandState
<1>3. c \in [name : Q, named : BOOLEAN, type : {"UNDEFINED", "WRITE", "TEST", "QUERY"},
                args : QQ, tmp : Q, question : Nat, at : Nat]
  BY <1>2
<1>4. CommandStep(c, s) = [CommandMark(c, s) EXCEPT !.at = @ + 1]
  <2>1. CASE s = "?"
    BY <2>1 DEF CommandStep, Marks, Dropped
  <2>2. CASE s = "="
    BY <2>2 DEF CommandStep, Marks, Dropped
  <2> QED
    BY <2>1, <2>2 DEF Marks
<1>5. PICK n, y, q : /\ n = (IF c.named THEN c.name ELSE c.tmp) /\ y = CommandType(c.type, s)
                     /\ q = (IF s = "?" /\ c.question = 0 THEN c.at ELSE c.question)
  OBVIOUS
<1>6. n \in Q /\ q \in Nat /\ y \in {"UNDEFINED", "WRITE", "TEST", "QUERY"} /\ <<>> \in Q
  BY <1>1, <1>3, <1>5, EmptySeq DEF CommandType
<1>7. CommandMark(c, s) = [c EXCEPT !.name = n, !.named = TRUE, !.tmp = <<>>, !.type = y,
                                    !.question = q]
  BY <1>3, <1>5 DEF CommandMark
<1>8. CommandMark(c, s) = [name |-> n, named |-> TRUE, type |-> y, args |-> c.args,
                           tmp |-> <<>>, question |-> q, at |-> c.at]
  BY <1>3, <1>7
<1>9. CommandStep(c, s) = [name |-> n, named |-> TRUE, type |-> y, args |-> c.args,
                           tmp |-> <<>>, question |-> q, at |-> c.at + 1]
  <2>1. PICK m : m = CommandMark(c, s)
    OBVIOUS
  <2>2. PICK a : a = c.at
    OBVIOUS
  <2>3. m = [name |-> n, named |-> TRUE, type |-> y, args |-> c.args,
             tmp |-> <<>>, question |-> q, at |-> a]
    BY <1>8, <2>1, <2>2
  <2>4. CommandStep(c, s) = [m EXCEPT !.at = a + 1]
    BY <1>4, <2>1, <2>3
  <2> QED
    BY <2>2, <2>3, <2>4
<1>10. CommandStep(c, s) \in CommandState
  BY <1>2, <1>3, <1>6, <1>9
<1> QED
  BY <1>5, <1>9, <1>10

LEMMA CommaStep ==
    ASSUME NEW c \in CommandState, c.type = "WRITE"
    PROVE  /\ CommandStep(c, "comma") \in CommandState
           /\ CommandStep(c, "comma") =
                 [name |-> c.name, named |-> c.named, type |-> c.type,
                  args |-> Append(c.args, c.tmp), tmp |-> <<>>,
                  question |-> c.question, at |-> c.at + 1]
<1>1. PICK Q, QQ : Q = Seq(Letters \cup {"comma"}) /\ QQ = Seq(Q)
  OBVIOUS
<1>2. CommandState = [name : Q, named : BOOLEAN, type : {"UNDEFINED", "WRITE", "TEST", "QUERY"},
                args : QQ, tmp : Q, question : Nat, at : Nat]
  BY <1>1 DEF CommandState
<1>3. c \in [name : Q, named : BOOLEAN, type : {"UNDEFINED", "WRITE", "TEST", "QUERY"},
                args : QQ, tmp : Q, question : Nat, at : Nat]
  BY <1>2
<1>4. PICK a \in QQ : a = Append(c.args, c.tmp)
  BY <1>1, <1>3, AppendProperties
<1>5. CommandStep(c, "comma") = [[c EXCEPT !.args = a, !.tmp = <<>>] EXCEPT !.at = @ + 1]
  BY <1>4 DEF CommandStep, Marks, Dropped
<1>6. CommandStep(c, "comma") =
         [name |-> c.name, named |-> c.named, type |-> c.type, args |-> a, tmp |-> <<>>,
          question |-> c.question, at |-> c.at + 1]
  BY <1>3, <1>5
<1>7. <<>> \in Q
  BY <1>1, EmptySeq
<1>8. CommandStep(c, "comma") \in CommandState
  BY <1>2, <1>3, <1>6, <1>7
<1> QED
  BY <1>4, <1>6, <1>8

LEMMA DroppedStep ==
    ASSUME NEW c \in CommandState, NEW s \in Dropped
    PROVE  /\ CommandStep(c, s) \in CommandState
           /\ CommandStep(c, s) =
                 [name |-> c.name, named |-> c.named, type |-> c.type,
                  args |-> c.args, tmp |-> c.tmp,
                  question |-> c.question, at |-> c.at + 1]
<1>1. PICK Q, QQ : Q = Seq(Letters \cup {"comma"}) /\ QQ = Seq(Q)
  OBVIOUS
<1>2. CommandState = [name : Q, named : BOOLEAN, type : {"UNDEFINED", "WRITE", "TEST", "QUERY"},
                args : QQ, tmp : Q, question : Nat, at : Nat]
  BY <1>1 DEF CommandState
<1>3. c \in [name : Q, named : BOOLEAN, type : {"UNDEFINED", "WRITE", "TEST", "QUERY"},
                args : QQ, tmp : Q, question : Nat, at : Nat]
  BY <1>2
<1>4. CommandStep(c, s) = [c EXCEPT !.at = @ + 1]
  BY DEF CommandStep, Marks, Dropped
<1>5. CommandStep(c, s) =
         [name |-> c.name, named |-> c.named, type |-> c.type,
          args |-> c.args, tmp |-> c.tmp,
          question |-> c.question, at |-> c.at + 1]
  BY <1>3, <1>4
<1>6. CommandStep(c, s) \in CommandState
  BY <1>2, <1>3, <1>5
<1> QED
  BY <1>5, <1>6

LEMMA LetterStep ==
    ASSUME NEW c \in CommandState, NEW s \in Letters \cup {"comma"},
           s = "comma" => c.type # "WRITE"
    PROVE  /\ CommandStep(c, s) \in CommandState
           /\ CommandStep(c, s) =
                 [name |-> c.name, named |-> c.named, type |-> c.type,
                  args |-> c.args, tmp |-> Append(c.tmp, s),
                  question |-> c.question, at |-> c.at + 1]
<1>1. PICK Q, QQ : Q = Seq(Letters \cup {"comma"}) /\ QQ = Seq(Q)
  OBVIOUS
<1>2. CommandState = [name : Q, named : BOOLEAN, type : {"UNDEFINED", "WRITE", "TEST", "QUERY"},
                args : QQ, tmp : Q, question : Nat, at : Nat]
  BY <1>1 DEF CommandState
<1>3. c \in [name : Q, named : BOOLEAN, type : {"UNDEFINED", "WRITE", "TEST", "QUERY"},
                args : QQ, tmp : Q, question : Nat, at : Nat]
  BY <1>2
<1>4. PICK w \in Q : w = Append(c.tmp, s)
  BY <1>1, <1>3, AppendProperties
<1>5. s \notin Marks /\ s \notin Dropped
  BY CommandSymbols
<1>6. CommandStep(c, s) = [[c EXCEPT !.tmp = w] EXCEPT !.at = @ + 1]
  BY <1>4, <1>5 DEF CommandStep
<1>7. CommandStep(c, s) =
         [name |-> c.name, named |-> c.named, type |-> c.type, args |-> c.args, tmp |-> w,
          question |-> c.question, at |-> c.at + 1]
  BY <1>3, <1>6
<1>8. CommandStep(c, s) \in CommandState
  BY <1>2, <1>3, <1>7
<1> QED
  BY <1>4, <1>7, <1>8

\* A sequence with one more element, as a function.
LEMMA AppendFun ==
    ASSUME NEW X, NEW m \in Nat, NEW a \in [1 .. m -> X], NEW b \in [1 .. m + 1 -> X],
           NEW x \in X, x = b[m + 1], \A k \in 1 .. m : a[k] = b[k]
    PROVE  Append(a, x) = b
<1>1. a \in Seq(X) /\ b \in Seq(X)
  <2>1. m + 1 \in Nat
    OBVIOUS
  <2> QED
    BY <2>1, SeqDef
<1>2. Len(a) = m /\ Len(b) = m + 1
  <2>1. DOMAIN a = 1 .. m /\ DOMAIN b = 1 .. m + 1
    OBVIOUS
  <2>2. /\ Len(a) \in Nat /\ 1 .. Len(a) = 1 .. m
        /\ Len(b) \in Nat /\ 1 .. Len(b) = 1 .. m + 1
    BY <1>1, <2>1, LenProperties
  <2>3. ASSUME NEW i \in Nat, NEW j \in Nat, 1 .. i = 1 .. j PROVE i = j
    BY <2>3
  <2>4. m + 1 \in Nat
    OBVIOUS
  <2> QED
    BY <2>2, <2>3, <2>4
<1>4. PICK c \in Seq(X) : /\ c = Append(a, x) /\ Len(c) = m + 1 /\ c[m + 1] = x
                          /\ \A i \in 1 .. m : c[i] = a[i]
  <2>1. /\ Append(a, x) \in Seq(X) /\ Len(Append(a, x)) = m + 1 /\ Append(a, x)[m + 1] = x
        /\ \A i \in 1 .. m : Append(a, x)[i] = a[i]
    BY <1>1, <1>2, Grown
  <2> QED
    BY <2>1, Zenon
<1>5. ASSUME NEW k \in 1 .. m + 1 PROVE c[k] = b[k]
  <2>1. k = m + 1 \/ k \in 1 .. m
    OBVIOUS
  <2> QED
    BY <1>4, <2>1
<1>6. c = b
  BY <1>1, <1>2, <1>4, <1>5, SeqEqual
<1> QED
  BY <1>4, <1>6

-----------------------------------------------------------------------------
\* The type the marks read so far give a command.
TypeAt(t) ==
    IF At(t, Marks) = {} THEN "UNDEFINED"
    ELSE IF t[LastOf(At(t, Marks))] = "=" THEN "WRITE"
    ELSE IF IsWrite(t, LastOf(At(t, Marks))) THEN "TEST" ELSE "QUERY"

\* Only a mark changes the type.
LEMMA TypeAppend ==
    ASSUME NEW t \in Seq(CommandSymbol), NEW s \in CommandSymbol
    PROVE  TypeAt(Append(t, s)) = IF s \in Marks THEN CommandType(TypeAt(t), s) ELSE TypeAt(t)
<1>1. PICK n \in Nat : n = Len(t)
  BY TextIs
<1>2. PICK u \in Seq(CommandSymbol) : /\ u = Append(t, s) /\ Len(u) = n + 1 /\ u[n + 1] = s
                                      /\ \A i \in 1 .. n : u[i] = t[i]
  <2>1. /\ Append(t, s) \in Seq(CommandSymbol) /\ Len(Append(t, s)) = n + 1
        /\ Append(t, s)[n + 1] = s /\ \A i \in 1 .. n : Append(t, s)[i] = t[i]
    BY <1>1, Grown
  <2> QED
    BY <2>1, Zenon
<1>3. PICK M : M = At(t, Marks) /\ M \subseteq 1 .. n
  BY <1>1, AtIs
<1>4. CASE s \in Marks
  <2>1. At(u, Marks) = M \cup {n + 1}
    BY <1>1, <1>2, <1>3, <1>4, AtAppend
  <2>2. LastOf(At(u, Marks)) = n + 1 /\ At(u, Marks) # {}
    BY <1>3, <2>1, LastGrows
  <2>3. IsWrite(u, n + 1) <=> M # {} /\ t[LastOf(M)] = "="
    BY <1>1, <1>2, <1>3, IsWriteAppend
  <2>4. TypeAt(t) = "WRITE" <=> M # {} /\ t[LastOf(M)] = "="
    BY <1>3 DEF TypeAt
  <2>5. TypeAt(u) = IF s = "=" THEN "WRITE" ELSE IF IsWrite(u, n + 1) THEN "TEST" ELSE "QUERY"
    BY <1>2, <2>2 DEF TypeAt
  <2> QED
    BY <1>2, <1>4, <2>3, <2>4, <2>5 DEF CommandType
<1>5. CASE s \notin Marks
  <2>1. At(u, Marks) = M
    BY <1>1, <1>2, <1>3, <1>5, AtAppend
  <2>2. CASE M = {}
    BY <1>2, <1>3, <1>5, <2>1, <2>2 DEF TypeAt
  <2>3. CASE M # {}
    <3>1. PICK l \in 1 .. n : l = LastOf(M)
      BY <1>3, <2>3, LastIs
    <3>2. u[l] = t[l] /\ IsWrite(u, l) = IsWrite(t, l)
      BY <1>1, <1>2, IsWriteAppend
    <3> QED
      BY <1>2, <1>3, <1>5, <2>1, <2>3, <3>1, <3>2 DEF TypeAt
  <2> QED
    BY <2>2, <2>3
<1> QED
  BY <1>4, <1>5

\* A question mark counts from the second symbol on.
Asks(t) == At(t, {"?"}) \ {1}

\* Only a question mark that is not the first symbol is remembered.
LEMMA AsksAppend ==
    ASSUME NEW t \in Seq(CommandSymbol), NEW s \in CommandSymbol
    PROVE  /\ Asks(t) \subseteq 1 .. Len(t)
           /\ Asks(Append(t, s)) =
                  IF s = "?" /\ Len(t) # 0 THEN Asks(t) \cup {Len(t) + 1} ELSE Asks(t)
           /\ Asks(t) # {} => FirstOf(Asks(t)) \in 2 .. Len(t)
           /\ Len(t) = 0 => Asks(t) = {}
<1>1. PICK n \in Nat : n = Len(t)
  BY TextIs
<1>2. PICK A : A = At(t, {"?"}) /\ A \subseteq 1 .. n /\ Asks(t) = A \ {1}
  BY <1>1, AtIs DEF Asks
<1>3. Asks(Append(t, s)) = (IF s = "?" THEN A \cup {n + 1} ELSE A) \ {1}
  BY <1>1, <1>2, AtAppend DEF Asks
<1>4. n # 0 => (A \cup {n + 1}) \ {1} = (A \ {1}) \cup {n + 1}
  OBVIOUS
<1>5. n = 0 => (A \cup {n + 1}) \ {1} = A \ {1}
  OBVIOUS
<1>6. A \ {1} \subseteq 1 .. n /\ (n = 0 => A \ {1} = {})
  BY <1>2
<1>7. A \ {1} # {} => FirstOf(A \ {1}) \in 2 .. n
  <2>1. A \ {1} # {} => FirstOf(A \ {1}) \in A \ {1} /\ FirstOf(A \ {1}) \in 1 .. n
    BY <1>6, FirstIs
  <2> QED
    BY <2>1
<1> QED
  BY <1>1, <1>2, <1>3, <1>4, <1>5, <1>6, <1>7

\* The values of the pieces that have ended, and that of the last one.
Values(t, S)    == [k \in 1 .. Cardinality(S) |-> CommandValue(Pieces(t, S)[k])]
LastValue(t, S) == CommandValue(Pieces(t, S)[Cardinality(S) + 1])

\* The parser holds what a reader of the text so far finds by positions.
CommandReads(t, c) ==
    LET marks == At(t, Marks)
        seps  == Separators(t)
    IN  /\ c.at = Len(t)
        /\ c.named <=> marks # {}
        /\ marks # {} => c.name = Without(Before(t, FirstOf(marks)), Dropped)
        /\ marks = {} => seps = {}
        /\ c.type = TypeAt(t)
        /\ c.question = IF Asks(t) = {} THEN 0 ELSE FirstOf(Asks(t)) - 1
        /\ c.tmp = LastValue(t, seps) /\ c.args = Values(t, seps)

\* Before the first mark there is one piece, the whole text.
LEMMA Unmarked ==
    ASSUME NEW t \in Seq(CommandSymbol), At(t, Marks) = {}, Separators(t) = {}
    PROVE  LastValue(t, {}) = Without(t, Dropped)
<1>1. LastOf({}) = 0
  BY DEF LastOf
<1>2. Pieces(t, {})[Cardinality({}) + 1] = After(t, 0)
  BY <1>1, PiecesIs
<1>3. After(t, 0) = t
  BY AfterIs
<1>4. CommandValue(t) = Without(t, Dropped)
  BY <1>1, <1>3 DEF CommandValue
<1> QED
  BY <1>2, <1>3, <1>4 DEF LastValue

\* The name is settled by the first mark.
LEMMA NameAppend ==
    ASSUME NEW t \in Seq(CommandSymbol), NEW s \in CommandSymbol
    PROVE  /\ At(t, Marks) # {} =>
                 /\ At(Append(t, s), Marks) # {}
                 /\ Before(Append(t, s), FirstOf(At(Append(t, s), Marks))) =
                        Before(t, FirstOf(At(t, Marks)))
           /\ At(t, Marks) = {} =>
                 /\ At(Append(t, s), Marks) # {} <=> s \in Marks
                 /\ s \in Marks => Before(Append(t, s), FirstOf(At(Append(t, s), Marks))) = t
<1>1. PICK n \in Nat : n = Len(t)
  BY TextIs
<1>2. PICK u : u = Append(t, s)
  OBVIOUS
<1>3. PICK M : M = At(t, Marks) /\ M \subseteq 1 .. n
  BY <1>1, AtIs
<1>4. At(u, Marks) = IF s \in Marks THEN M \cup {n + 1} ELSE M
  BY <1>1, <1>2, <1>3, AtAppend
<1>5. FirstOf(M \cup {n + 1}) = IF M = {} THEN n + 1 ELSE FirstOf(M)
  BY <1>3, FirstGrows
<1>6. \A i \in 1 .. n + 1 : Before(u, i) = Before(t, i)
  BY <1>1, <1>2, BeforeIs
<1>7. Before(t, n + 1) = t
  BY <1>1, BeforeIs
<1>8. M # {} => FirstOf(M) \in 1 .. n
  BY <1>3, FirstIs
<1>9. ASSUME M # {}
      PROVE  At(u, Marks) # {} /\ Before(u, FirstOf(At(u, Marks))) = Before(t, FirstOf(M))
  <2>1. FirstOf(At(u, Marks)) = FirstOf(M) /\ At(u, Marks) # {}
    BY <1>4, <1>5, <1>9
  <2>2. FirstOf(M) \in 1 .. n + 1
    BY <1>8, <1>9
  <2> QED
    BY <1>6, <2>1, <2>2
<1>10. ASSUME M = {}
       PROVE  /\ At(u, Marks) # {} <=> s \in Marks
              /\ s \in Marks => Before(u, FirstOf(At(u, Marks))) = t
  <2>1. s \in Marks => FirstOf(At(u, Marks)) = n + 1
    BY <1>4, <1>5, <1>10
  <2>2. Before(u, n + 1) = t
    BY <1>6, <1>7
  <2> QED
    BY <1>4, <1>10, <2>1, <2>2
<1> QED
  BY <1>2, <1>3, <1>9, <1>10

\* What a symbol does to the arguments that have been read and to the one that
\* is being read.
LEMMA ValuesGrow ==
    ASSUME NEW t \in Seq(CommandSymbol), NEW s \in CommandSymbol,
           NEW S, S = Separators(t)
    PROVE  /\ Values(Append(t, s), S) = Values(t, S)
           /\ LastValue(Append(t, s), S) =
                  IF s \in Marks THEN <<>>
                  ELSE IF s \in Dropped THEN LastValue(t, S) ELSE Append(LastValue(t, S), s)
<1>1. S \subseteq 1 .. Len(t)
  BY SeparatorsAppend
<1>2. Len(t) \in Nat
  BY TextIs
<1>3. PICK m \in Nat : m = Cardinality(S)
  BY <1>1, <1>2, CardIs
<1>4. /\ \A k \in 1 .. m : Pieces(Append(t, s), S)[k] = Pieces(t, S)[k]
      /\ Pieces(Append(t, s), S)[m + 1] = Append(Pieces(t, S)[m + 1], s)
  BY <1>1, <1>3, PiecesGrow
<1>5. Pieces(t, S)[m + 1] \in Seq(CommandSymbol)
  <2>1. m + 1 \in 1 .. m + 1
    OBVIOUS
  <2> QED
    BY <1>1, <1>3, <2>1, PiecesIs
<1>6. [k \in 1 .. m |-> CommandValue(Pieces(Append(t, s), S)[k])] =
          [k \in 1 .. m |-> CommandValue(Pieces(t, S)[k])]
  BY <1>4, Zenon
<1>7. CommandValue(Append(Pieces(t, S)[m + 1], s)) =
          IF s \in Marks THEN <<>>
          ELSE IF s \in Dropped THEN CommandValue(Pieces(t, S)[m + 1])
          ELSE Append(CommandValue(Pieces(t, S)[m + 1]), s)
  BY <1>5, ValueAppend
<1> QED
  BY <1>3, <1>4, <1>6, <1>7, Zenon DEF Values, LastValue

\* The values of all the pieces.
AllValues(t, S) == [k \in 1 .. Cardinality(S) + 1 |-> CommandValue(Pieces(t, S)[k])]

LEMMA ValuesAll ==
    ASSUME NEW t \in Seq(CommandSymbol), NEW Q, NEW S, S = Separators(t),
           Values(t, S) \in Seq(Q), LastValue(t, S) \in Q
    PROVE  Append(Values(t, S), LastValue(t, S)) = AllValues(t, S)
<1>1. S \subseteq 1 .. Len(t)
  <2>1. "?" \in CommandSymbol
    BY DEF CommandSymbol, Marks
  <2> QED
    BY <2>1, SeparatorsAppend
<1>2. PICK m \in Nat : m = Cardinality(S)
  <2>1. Len(t) \in Nat
    BY TextIs
  <2> QED
    BY <1>1, <2>1, CardIs
<1>3. PICK a, x : a = Values(t, S) /\ x = LastValue(t, S)
  OBVIOUS
<1>4. a = [k \in 1 .. m |-> CommandValue(Pieces(t, S)[k])] /\ a \in Seq(Q)
  BY <1>2, <1>3, Zenon DEF Values
<1>5. x = CommandValue(Pieces(t, S)[m + 1]) /\ x \in Q
  BY <1>2, <1>3, Zenon DEF LastValue
<1>6. PICK b : b = [k \in 1 .. m + 1 |-> CommandValue(Pieces(t, S)[k])]
  OBVIOUS
<1>7. \A k \in 1 .. m : k \in 1 .. m + 1 /\ a[k] = b[k]
  <2>1. ASSUME NEW k \in 1 .. m PROVE k \in 1 .. m + 1
    BY <1>2
  <2>2. ASSUME NEW k \in 1 .. m PROVE a[k] = CommandValue(Pieces(t, S)[k])
    BY <1>4
  <2>3. ASSUME NEW k \in 1 .. m + 1 PROVE b[k] = CommandValue(Pieces(t, S)[k])
    BY <1>6
  <2> QED
    BY <2>1, <2>2, <2>3, Zenon
<1>8. b[m + 1] = x
  <2>1. m + 1 \in 1 .. m + 1
    BY <1>2
  <2> QED
    BY <1>5, <1>6, <2>1, Zenon
<1>9. a \in [1 .. m -> Q]
  <2>1. DOMAIN a = 1 .. m
    BY <1>4
  <2>2. a \in [1 .. Len(a) -> Q] /\ DOMAIN a = 1 .. Len(a)
    BY <1>4, LenProperties
  <2> QED
    BY <2>1, <2>2
<1>10. b \in [1 .. m + 1 -> Q]
  <2>1. ASSUME NEW k \in 1 .. m + 1 PROVE b[k] \in Q
    <3>1. k = m + 1 \/ k \in 1 .. m
      BY <1>2
    <3> QED
      BY <1>5, <1>7, <1>8, <1>9, <3>1
  <2> QED
    BY <1>6, <2>1
<1>11. Append(a, x) = b
  <2>1. x \in Q
    BY <1>5
  <2>2. x = b[m + 1]
    BY <1>8
  <2> QED
    BY <1>2, <1>7, <1>9, <1>10, <2>1, <2>2, AppendFun
<1> QED
  BY <1>2, <1>3, <1>6, <1>11, Zenon DEF AllValues

LEMMA ValuesSplit ==
    ASSUME NEW t \in Seq(CommandSymbol), NEW s \in CommandSymbol,
           NEW S, S = Separators(t), NEW R, R = S \cup {Len(t) + 1}
    PROVE  Values(Append(t, s), R) = AllValues(t, S) /\ LastValue(Append(t, s), R) = <<>>
<1>1. S \subseteq 1 .. Len(t)
  BY SeparatorsAppend
<1>2. PICK m : m = Cardinality(S) + 1
  OBVIOUS
<1>3. /\ Cardinality(R) = m /\ \A k \in 1 .. m : Pieces(Append(t, s), R)[k] = Pieces(t, S)[k]
      /\ Pieces(Append(t, s), R)[Cardinality(R) + 1] = <<>>
  BY <1>1, <1>2, PiecesSplit
<1>4. [k \in 1 .. m |-> CommandValue(Pieces(Append(t, s), R)[k])] =
          [k \in 1 .. m |-> CommandValue(Pieces(t, S)[k])]
  BY <1>3, Zenon
<1>5. Values(Append(t, s), R) = [k \in 1 .. m |-> CommandValue(Pieces(Append(t, s), R)[k])]
  BY <1>3, Zenon DEF Values
<1>6. AllValues(t, S) = [k \in 1 .. m |-> CommandValue(Pieces(t, S)[k])]
  BY <1>2, Zenon DEF AllValues
<1>7. LastValue(Append(t, s), R) = <<>>
  BY <1>3, ValueEmpty, Zenon DEF LastValue
<1> QED
  BY <1>4, <1>5, <1>6, <1>7, Zenon

\* A further symbol keeps the parser in agreement with the text.
LEMMA CommandReadsStep ==
    ASSUME NEW t \in Seq(CommandSymbol), NEW s \in CommandSymbol, NEW c \in CommandState,
           CommandReads(t, c)
    PROVE  CommandStep(c, s) \in CommandState /\ CommandReads(Append(t, s), CommandStep(c, s))
<1>1. PICK n \in Nat : n = Len(t)
  BY TextIs
<1>2. PICK u : u = Append(t, s) /\ Len(u) = n + 1
  BY <1>1, AppendIs
<1>3. PICK d : d = CommandStep(c, s)
  OBVIOUS
<1>4. PICK S : S = Separators(t)
  OBVIOUS
<1>5. /\ c.at = n /\ (c.named <=> At(t, Marks) # {})
      /\ At(t, Marks) # {} => c.name = Without(Before(t, FirstOf(At(t, Marks))), Dropped)
      /\ At(t, Marks) = {} => S = {}
      /\ c.type = TypeAt(t)
      /\ c.question = IF Asks(t) = {} THEN 0 ELSE FirstOf(Asks(t)) - 1
      /\ c.tmp = LastValue(t, S) /\ c.args = Values(t, S)
  BY <1>1, <1>4, Zenon DEF CommandReads
<1>6. c.type = "WRITE" <=> At(t, Marks) # {} /\ t[LastOf(At(t, Marks))] = "="
  BY <1>5 DEF TypeAt
<1>7. Separators(u) = IF s = "comma" /\ c.type = "WRITE" THEN S \cup {n + 1} ELSE S
  BY <1>1, <1>2, <1>4, <1>6, SeparatorsAppend
<1>8. TypeAt(u) = IF s \in Marks THEN CommandType(c.type, s) ELSE c.type
  BY <1>2, <1>5, TypeAppend
<1>9. Asks(u) = IF s = "?" /\ n # 0 THEN Asks(t) \cup {n + 1} ELSE Asks(t)
  BY <1>1, <1>2, AsksAppend
<1>10. s \notin Marks => Asks(u) = Asks(t)
  BY <1>9 DEF Marks
<1>11. /\ At(t, Marks) # {} =>
             /\ At(u, Marks) # {}
             /\ Before(u, FirstOf(At(u, Marks))) = Before(t, FirstOf(At(t, Marks)))
       /\ At(t, Marks) = {} =>
             /\ At(u, Marks) # {} <=> s \in Marks
             /\ s \in Marks => Before(u, FirstOf(At(u, Marks))) = t
  BY <1>2, NameAppend
<1>12. /\ Values(u, S) = c.args
       /\ LastValue(u, S) =
              IF s \in Marks THEN <<>> ELSE IF s \in Dropped THEN c.tmp ELSE Append(c.tmp, s)
  BY <1>2, <1>4, <1>5, ValuesGrow
<1>13. CASE s \in Marks
  <2>1. /\ d \in CommandState
        /\ d = [name |-> IF c.named THEN c.name ELSE c.tmp, named |-> TRUE,
                type |-> CommandType(c.type, s), args |-> c.args, tmp |-> <<>>,
                question |-> IF s = "?" /\ c.question = 0 THEN c.at ELSE c.question,
                at |-> c.at + 1]
    BY <1>3, <1>13, MarkStep
  <2>2. Separators(u) = S
    BY <1>7, <1>13 DEF Marks
  <2>3. d.at = n + 1 /\ d.named /\ d.type = TypeAt(u) /\ d.tmp = <<>> /\ d.args = c.args
    BY <1>5, <1>8, <1>13, <2>1
  <2>4. At(u, Marks) # {} /\ d.name = Without(Before(u, FirstOf(At(u, Marks))), Dropped)
    <3>1. d.name = IF c.named THEN c.name ELSE c.tmp
      BY <2>1
    <3>2. CASE At(t, Marks) # {}
      BY <1>5, <1>11, <3>1, <3>2
    <3>3. CASE At(t, Marks) = {}
      <4>1. c.tmp = Without(t, Dropped)
        BY <1>4, <1>5, <3>3, Unmarked
      <4> QED
        BY <1>5, <1>11, <1>13, <3>1, <3>3, <4>1
    <3> QED
      BY <3>2, <3>3
  <2>5. d.question = IF Asks(u) = {} THEN 0 ELSE FirstOf(Asks(u)) - 1
    <3>1. d.question = IF s = "?" /\ c.question = 0 THEN n ELSE c.question
      BY <1>5, <2>1
    <3>2. PICK A : A = Asks(t) /\ A \subseteq 1 .. n /\ (A # {} => FirstOf(A) \in 2 .. n)
                   /\ (n = 0 => A = {})
      BY <1>1, AsksAppend
    <3>3. c.question = 0 <=> A = {}
      BY <1>5, <3>2
    <3>4. CASE s = "?" /\ n # 0
      <4>1. Asks(u) = A \cup {n + 1} /\ Asks(u) # {}
        BY <1>9, <3>2, <3>4
      <4>2. FirstOf(A \cup {n + 1}) = IF A = {} THEN n + 1 ELSE FirstOf(A)
        BY <3>2, FirstGrows
      <4> QED
        BY <1>5, <3>1, <3>2, <3>3, <3>4, <4>1, <4>2
    <3>5. CASE ~(s = "?" /\ n # 0)
      <4>1. Asks(u) = A
        BY <1>9, <3>2, <3>5
      <4> QED
        BY <1>5, <3>1, <3>2, <3>3, <3>5, <4>1
    <3> QED
      BY <3>4, <3>5
  <2> QED
    BY <1>2, <1>3, <1>4, <1>12, <1>13, <2>1, <2>2, <2>3, <2>4, <2>5, Zenon DEF CommandReads
<1>14. CASE s = "comma" /\ c.type = "WRITE"
  <2>1. /\ d \in CommandState
        /\ d = [name |-> c.name, named |-> c.named, type |-> c.type,
                args |-> Append(c.args, c.tmp), tmp |-> <<>>,
                question |-> c.question, at |-> c.at + 1]
    BY <1>3, <1>14, CommaStep
  <2>2. Separators(u) = S \cup {n + 1} /\ s \notin Marks
    BY <1>7, <1>14 DEF Marks
  <2>3. /\ d.at = n + 1 /\ d.named = c.named /\ d.name = c.name /\ d.type = TypeAt(u)
        /\ d.question = c.question /\ Asks(u) = Asks(t)
    BY <1>5, <1>8, <1>10, <2>1, <2>2
  <2>4. At(t, Marks) # {} /\ At(u, Marks) # {}
    BY <1>6, <1>11, <1>14
  <2>5. d.args = Values(u, Separators(u)) /\ d.tmp = LastValue(u, Separators(u))
    <3>1. PICK Q : Q = Seq(Letters \cup {"comma"}) /\ c.args \in Seq(Q) /\ c.tmp \in Q
      BY DEF CommandState
    <3>2. d.args = Append(c.args, c.tmp) /\ d.tmp = <<>>
      BY <2>1
    <3>3. PICK R : R = Separators(u) /\ R = S \cup {Len(t) + 1}
      BY <1>1, <2>2
    <3>4. Values(t, S) \in Seq(Q) /\ LastValue(t, S) \in Q
      BY <1>5, <3>1
    <3>5. Append(Values(t, S), LastValue(t, S)) = AllValues(t, S)
      BY <1>4, <3>4, ValuesAll
    <3>6. Values(Append(t, s), R) = AllValues(t, S) /\ LastValue(Append(t, s), R) = <<>>
      BY <1>4, <3>3, ValuesSplit
    <3> QED
      BY <1>2, <1>5, <3>2, <3>3, <3>5, <3>6
  <2> QED
    BY <1>2, <1>3, <1>5, <1>11, <2>1, <2>3, <2>4, <2>5, Zenon DEF CommandReads
<1>15. CASE s \in Dropped
  <2>1. /\ d \in CommandState
        /\ d = [name |-> c.name, named |-> c.named, type |-> c.type,
                args |-> c.args, tmp |-> c.tmp, question |-> c.question, at |-> c.at + 1]
    BY <1>3, <1>15, DroppedStep
  <2>2. Separators(u) = S /\ s \notin Marks
    BY <1>7, <1>15, CommandSymbols DEF Dropped
  <2>3. /\ d.at = n + 1 /\ d.named = c.named /\ d.name = c.name /\ d.type = TypeAt(u)
        /\ d.question = c.question /\ Asks(u) = Asks(t) /\ d.args = c.args /\ d.tmp = c.tmp
    BY <1>5, <1>8, <1>10, <2>1, <2>2
  <2> QED
    BY <1>2, <1>3, <1>4, <1>5, <1>11, <1>12, <1>15, <2>1, <2>2, <2>3, Zenon DEF CommandReads
<1>16. CASE s \in Letters \cup {"comma"} /\ ~(s = "comma" /\ c.type = "WRITE")
  <2>1. /\ d \in CommandState
        /\ d = [name |-> c.name, named |-> c.named, type |-> c.type,
                args |-> c.args, tmp |-> Append(c.tmp, s), question |-> c.question,
                at |-> c.at + 1]
    BY <1>3, <1>16, LetterStep
  <2>2. Separators(u) = S /\ s \notin Marks /\ s \notin Dropped
    BY <1>7, <1>16, CommandSymbols
  <2>3. /\ d.at = n + 1 /\ d.named = c.named /\ d.name = c.name /\ d.type = TypeAt(u)
        /\ d.question = c.question /\ Asks(u) = Asks(t) /\ d.args = c.args
        /\ d.tmp = Append(c.tmp, s)
    BY <1>5, <1>8, <1>10, <2>1, <2>2
  <2> QED
    BY <1>2, <1>3, <1>4, <1>5, <1>11, <1>12, <2>1, <2>2, <2>3, Zenon DEF CommandReads
<1> QED
  BY <1>13, <1>14, <1>15, <1>16, CommandSymbols

\* A function on no numbers is the empty sequence.
LEMMA NoEntries ==
    ASSUME NEW f, f = [k \in 1 .. 0 |-> f[k]]
    PROVE  f = <<>>
<1>1. f \in [1 .. 0 -> {}]
  <2>1. 1 .. 0 = {}
    OBVIOUS
  <2>2. \A k \in 1 .. 0 : f[k] \in {}
    BY <2>1
  <2> QED
    BY <2>2
<1>2. f \in Seq({})
  BY <1>1, SeqDef
<1>3. Len(f) \in Nat /\ DOMAIN f = 1 .. Len(f) /\ DOMAIN f = 1 .. 0
  BY <1>1, <1>2, LenProperties
<1>4. Len(f) = 0
  BY <1>3
<1> QED
  BY <1>2, <1>4, TextIs

LEMMA FrontOfAppend ==
    ASSUME NEW T, NEW t \in Seq(T), NEW e \in T
    PROVE  Last(Append(t, e)) = e /\ Front(Append(t, e)) = t
<1>1. PICK n \in Nat : n = Len(t)
  BY TextIs
<1>2. Len(Append(t, e)) = n + 1 /\ Append(t, e)[n + 1] = e
  BY <1>1, Grown
<1>3. Before(Append(t, e), n + 1) = Before(t, n + 1) /\ Before(t, n + 1) = t
  BY <1>1, BeforeIs
<1> QED
  BY <1>2, <1>3 DEF Last, Front, Before

LEMMA CommandReadsStart == CommandReads(<<>>, CommandStart)
<1>1. <<>> \in Seq(CommandSymbol) /\ Len(<<>>) = 0
  BY EmptySeq
<1>2. At(<<>>, Marks) = {} /\ At(<<>>, {"?"}) = {} /\ Separators(<<>>) = {} /\ Asks(<<>>) = {}
  BY AtEmpty DEF Separators, Asks
<1>3. LastValue(<<>>, {}) = <<>>
  BY <1>1, <1>2, Unmarked, WithoutEmpty
<1>4. Values(<<>>, {}) = <<>>
  <2>1. Values(<<>>, {}) = [k \in 1 .. 0 |-> CommandValue(Pieces(<<>>, {})[k])]
    BY FS_EmptySet, Zenon DEF Values
  <2>2. Values(<<>>, {}) = [k \in 1 .. 0 |-> Values(<<>>, {})[k]]
    BY <2>1, Zenon
  <2> QED
    BY <2>2, NoEntries
<1>5. TypeAt(<<>>) = "UNDEFINED"
  BY <1>2 DEF TypeAt
<1> QED
  <2>1. /\ CommandStart.at = 0 /\ CommandStart.named = FALSE /\ CommandStart.type = "UNDEFINED"
        /\ CommandStart.question = 0 /\ CommandStart.tmp = <<>> /\ CommandStart.args = <<>>
    BY DEF CommandStart
  <2> QED
    BY <1>1, <1>2, <1>3, <1>4, <1>5, <2>1, Zenon DEF CommandReads

\* After any text the parser holds what the text says.
LEMMA Commands ==
    \A t \in Seq(CommandSymbol) :
        /\ FoldLeft(CommandStep, CommandStart, t) \in CommandState
        /\ CommandReads(t, FoldLeft(CommandStep, CommandStart, t))
<1> DEFINE Good == {t \in Seq(CommandSymbol) :
                        /\ FoldLeft(CommandStep, CommandStart, t) \in CommandState
                        /\ CommandReads(t, FoldLeft(CommandStep, CommandStart, t))}
<1>1. <<>> \in Good
  <2>1. <<>> \in Seq(CommandSymbol)
    BY EmptySeq
  <2>2. FoldLeft(CommandStep, CommandStart, <<>>) = CommandStart
    <3>1. <<>> \in Seq({"CR"}) /\ "CR" \in {"CR"}
      BY EmptySeq
    <3> QED
      BY <3>1, CommandFold, Zenon
  <2> QED
    BY <2>1, <2>2, CommandStartIs, CommandReadsStart, Zenon
<1>2. ASSUME NEW t \in Good \cap Seq(CommandSymbol), NEW s \in CommandSymbol
      PROVE  Append(t, s) \in Good
  <2>1. PICK c \in CommandState : c = FoldLeft(CommandStep, CommandStart, t) /\ CommandReads(t, c)
    BY Zenon
  <2>2. FoldLeft(CommandStep, CommandStart, Append(t, s)) = CommandStep(c, s)
    BY <2>1, CommandFold, Zenon
  <2>3. CommandStep(c, s) \in CommandState /\ CommandReads(Append(t, s), CommandStep(c, s))
    BY <2>1, CommandReadsStep, Zenon
  <2>4. Append(t, s) \in Seq(CommandSymbol)
    BY AppendProperties
  <2> QED
    BY <2>2, <2>3, <2>4, Zenon
<1>3. Seq(CommandSymbol) \subseteq Good
  <2> HIDE DEF Good
  <2> QED
    BY <1>1, <1>2, EveryText
<1> QED
  BY <1>3, Zenon

\* What ParseCommand makes of it.
LEMMA CommandEndIs ==
    ASSUME NEW t \in Seq(CommandSymbol), Len(t) > 2
    PROVE  LET marks == At(t, Marks)
               name  == IF marks = {} THEN t ELSE Before(t, FirstOf(marks))
           IN  /\ ParseCommand(t).type = CommandForm(t)
               /\ ParseCommand(t).name = Without(name, Dropped)
               /\ ParseCommand(t).args \in Seq(Seq(Letters \cup {"comma"}))
               /\ ParseCommand(t).type = "WRITE" =>
                      /\ TypeAt(t) = "WRITE"
                      /\ ParseCommand(t).args =
                            IF LastValue(t, Separators(t)) = <<>> THEN Values(t, Separators(t))
                            ELSE Append(Values(t, Separators(t)), LastValue(t, Separators(t)))
<1>1. PICK n \in Nat : n = Len(t) /\ n > 2
  BY TextIs
<1>2. PICK c \in CommandState : c = FoldLeft(CommandStep, CommandStart, t) /\ CommandReads(t, c)
  BY Commands, Zenon
<1>3. PICK M, S : M = At(t, Marks) /\ S = Separators(t)
  OBVIOUS
<1>4. /\ c.named <=> M # {}
      /\ M # {} => c.name = Without(Before(t, FirstOf(M)), Dropped)
      /\ M = {} => S = {}
      /\ c.type = TypeAt(t)
      /\ c.question = IF Asks(t) = {} THEN 0 ELSE FirstOf(Asks(t)) - 1
      /\ c.tmp = LastValue(t, S) /\ c.args = Values(t, S)
  BY <1>2, <1>3, Zenon DEF CommandReads
<1>5. PICK p : p = CommandEnd(c, n)
  OBVIOUS
<1>6. p = ParseCommand(t)
  BY <1>1, <1>2, <1>5 DEF ParseCommand
<1>7. /\ p.name = (IF c.named THEN c.name ELSE c.tmp)
      /\ p.type = (IF c.type = "UNDEFINED" THEN "QUERY"
                   ELSE IF c.type # "WRITE" /\ c.question \notin {0, n - 2} THEN "UNDEFINED"
                   ELSE c.type)
      /\ p.args = (IF c.type = "WRITE" /\ c.tmp # <<>> THEN Append(c.args, c.tmp) ELSE c.args)
  BY <1>5 DEF CommandEnd
<1>8. p.name = Without(IF M = {} THEN t ELSE Before(t, FirstOf(M)), Dropped)
  <2>1. M = {} => c.tmp = Without(t, Dropped)
    BY <1>3, <1>4, Unmarked
  <2> QED
    BY <1>4, <1>7, <2>1
<1>9. p.args \in Seq(Seq(Letters \cup {"comma"}))
  <2>1. PICK Q : Q = Seq(Letters \cup {"comma"}) /\ c.args \in Seq(Q) /\ c.tmp \in Q
    BY DEF CommandState
  <2>2. Append(c.args, c.tmp) \in Seq(Q)
    BY <2>1, AppendProperties
  <2> QED
    BY <1>7, <2>1, <2>2
<1>10. p.type = CommandForm(t)
  <2>1. M \subseteq 1 .. n
    BY <1>1, <1>3, AtIs
  <2>2. PICK l, A : l = LastOf(M) /\ A = Asks(t)
    OBVIOUS
  <2>3. CASE M = {}
    <3>1. c.type = "UNDEFINED"
      BY <1>3, <1>4, <2>3 DEF TypeAt
    <3>2. CommandForm(t) = "QUERY"
      BY <1>3, <2>3 DEF CommandForm
    <3> QED
      BY <1>7, <3>1, <3>2
  <2>4. CASE M # {}
    <3>1. l \in M
      BY <2>1, <2>2, <2>4, LastIs
    <3>2. t[l] \in Marks
      BY <1>3, <3>1 DEF At
    <3>3. c.type = IF t[l] = "=" THEN "WRITE" ELSE IF IsWrite(t, l) THEN "TEST" ELSE "QUERY"
      BY <1>3, <1>4, <2>2, <2>4 DEF TypeAt
    <3>4. CASE t[l] = "="
      <4>1. CommandForm(t) = "WRITE"
        BY <1>3, <2>2, <2>4, <3>4 DEF CommandForm
      <4> QED
        BY <1>7, <3>3, <3>4, <4>1
    <3>5. CASE t[l] = "?"
      <4>1. CommandForm(t) = IF A # {} /\ FirstOf(A) # n - 1 THEN "UNDEFINED"
                             ELSE IF IsWrite(t, l) THEN "TEST" ELSE "QUERY"
        BY <1>1, <1>3, <2>2, <2>4, <3>5 DEF CommandForm, Asks
      <4>2. A # {} => FirstOf(A) \in 2 .. n
        <5>1. "?" \in CommandSymbol
          BY DEF CommandSymbol, Marks
        <5> QED
          BY <1>1, <2>2, <5>1, AsksAppend
      <4>3. c.question \notin {0, n - 2} <=> A # {} /\ FirstOf(A) # n - 1
        <5>1. CASE A = {}
          BY <1>4, <2>2, <5>1
        <5>2. CASE A # {}
          <6>1. PICK f \in 2 .. n : f = FirstOf(A)
            BY <4>2, <5>2
          <6>2. c.question = f - 1
            BY <1>4, <2>2, <5>2, <6>1
          <6> QED
            BY <1>1, <5>2, <6>1, <6>2
        <5> QED
          BY <5>1, <5>2
      <4> QED
        BY <1>7, <3>3, <3>5, <4>1, <4>3
    <3> QED
      BY <3>2, <3>4, <3>5 DEF Marks
  <2> QED
    BY <2>3, <2>4
<1>11. p.type = "WRITE" => c.type = "WRITE"
  BY <1>7
<1> QED
  BY <1>3, <1>4, <1>6, <1>7, <1>8, <1>9, <1>10, <1>11

\* The arguments by positions are the values, without an empty last one.
LEMMA CommandArgsIs ==
    ASSUME NEW t \in Seq(CommandSymbol), NEW Q, NEW S, S = Separators(t),
           Values(t, S) \in Seq(Q), LastValue(t, S) \in Q
    PROVE  CommandArgs(t) = IF LastValue(t, S) = <<>> THEN Values(t, S)
                            ELSE Append(Values(t, S), LastValue(t, S))
<1>1. S \subseteq 1 .. Len(t)
  <2>1. "?" \in CommandSymbol
    BY DEF CommandSymbol, Marks
  <2> QED
    BY <2>1, SeparatorsAppend
<1>2. DOMAIN Pieces(t, S) = 1 .. Cardinality(S) + 1
  BY <1>1, PiecesIs
<1>3. PICK all : all = AllValues(t, S)
  OBVIOUS
<1>4. CommandArgs(t) = IF Last(all) = <<>> THEN Front(all) ELSE all
  BY <1>2, <1>3, Zenon DEF CommandArgs, AllValues
<1>5. Append(Values(t, S), LastValue(t, S)) = all
  BY <1>3, ValuesAll
<1>6. Last(all) = LastValue(t, S) /\ Front(all) = Values(t, S)
  BY <1>5, FrontOfAppend
<1> QED
  BY <1>4, <1>5, <1>6

-----------------------------------------------------------------------------
(***************************************************************************)
(* Answers, in the same two steps.                                         *)
(***************************************************************************)
\* A symbol is a code, a colon, a comma, an end of line, or a letter or space.
LEMMA ResponseSymbols ==
    /\ ResponseSymbol = Codes \cup {":"} \cup {"comma"} \cup {"CR"} \cup (Letters \cup {"space"})
    /\ Codes \cap ({":"} \cup {"comma"} \cup {"CR"} \cup (Letters \cup {"space"})) = {}
    /\ \A s \in Letters \cup {"space"} : s # ":" /\ s # "comma" /\ s # "CR" /\ s \notin Codes
    /\ ":" # "comma" /\ ":" # "CR" /\ "comma" # "CR"
<1>1. Letters \cap {"CR", "OK", "ERROR", "CME", ":", "comma", "space"} = {}
  BY SymbolsAssumption DEF Dropped, Marks, Codes, Errors
<1>2. Codes = {"OK", "ERROR", "CME"}
  BY DEF Codes, Errors
<1>3. \A s \in Letters \cup {"space"} : s \notin {"CR", "OK", "ERROR", "CME", ":", "comma"}
  BY <1>1
<1>4. ResponseSymbol = Codes \cup {":"} \cup {"comma"} \cup {"CR"} \cup (Letters \cup {"space"})
  BY DEF ResponseSymbol
<1>5. Codes \cap ({":"} \cup {"comma"} \cup {"CR"} \cup (Letters \cup {"space"})) = {}
  BY <1>2, <1>3
<1> QED
  BY <1>2, <1>3, <1>4, <1>5

\* A symbol is visible unless it is a code, behind one, or an end of line.
LEMMA VisibleAppend ==
    ASSUME NEW T, NEW g \in Seq(T), NEW s \in T
    PROVE  Visible(Append(g, s)) =
               IF At(g, Codes) # {} \/ s \in Codes \/ s = "CR" THEN Visible(g)
               ELSE Append(Visible(g), s)
<1>1. PICK n \in Nat : n = Len(g)
  BY TextIs
<1>2. PICK u : u = Append(g, s)
  OBVIOUS
<1>3. PICK C : C = At(g, Codes) /\ C \subseteq 1 .. n
  BY <1>1, AtIs
<1>4. At(u, Codes) = IF s \in Codes THEN C \cup {n + 1} ELSE C
  BY <1>1, <1>2, <1>3, AtAppend
<1>5. FirstOf(C \cup {n + 1}) = IF C = {} THEN n + 1 ELSE FirstOf(C)
  BY <1>3, FirstGrows
<1>6. \A i \in 1 .. n + 1 : Before(u, i) = Before(g, i)
  BY <1>1, <1>2, BeforeIs
<1>7. Visible(u) = Without(IF At(u, Codes) = {} THEN u ELSE Before(u, FirstOf(At(u, Codes))), {"CR"})
  BY Zenon DEF Visible
<1>8. Visible(g) = Without(IF C = {} THEN g ELSE Before(g, FirstOf(C)), {"CR"})
  BY <1>3, Zenon DEF Visible
<1>9. CASE C # {}
  <2>1. At(u, Codes) # {} /\ FirstOf(At(u, Codes)) = FirstOf(C)
    BY <1>4, <1>5, <1>9
  <2>2. FirstOf(C) \in 1 .. n
    BY <1>3, <1>9, FirstIs
  <2>3. FirstOf(C) \in 1 .. n + 1
    BY <2>2
  <2>4. Before(u, FirstOf(At(u, Codes))) = Before(g, FirstOf(C))
    BY <1>6, <2>1, <2>3
  <2> QED
    BY <1>2, <1>3, <1>7, <1>8, <1>9, <2>1, <2>4
<1>10. CASE C = {} /\ s \in Codes
  <2>1. At(u, Codes) # {} /\ FirstOf(At(u, Codes)) = n + 1
    BY <1>4, <1>5, <1>10
  <2>2. Before(u, n + 1) = g
    <3>1. Before(g, n + 1) = g
      BY <1>1, BeforeIs
    <3>2. n + 1 \in 1 .. n + 1
      OBVIOUS
    <3> QED
      BY <1>6, <3>1, <3>2
  <2> QED
    BY <1>2, <1>3, <1>7, <1>8, <1>10, <2>1, <2>2
<1>11. CASE C = {} /\ s \notin Codes
  <2>1. At(u, Codes) = {}
    BY <1>4, <1>11
  <2>2. Without(u, {"CR"}) =
            IF s \in {"CR"} THEN Without(g, {"CR"}) ELSE Append(Without(g, {"CR"}), s)
    BY <1>2, WithoutAppend
  <2> QED
    BY <1>2, <1>3, <1>7, <1>8, <1>11, <2>1, <2>2
<1> QED
  BY <1>9, <1>10, <1>11

LEMMA VisibleEmpty == Visible(<<>>) = <<>>
BY AtEmpty, WithoutEmpty DEF Visible

\* The parser is skipping the spaces of a colon.
Skipping(f) ==
    /\ At(f, {":"}) # {}
    /\ Kept(After(f, LastOf(At(f, {":"}))), {"space"}) = {}

\* A space is skipped if there has been nothing else.
LEMMA UnspacedAppend ==
    ASSUME NEW T, NEW g \in Seq(T), NEW s \in T
    PROVE  /\ Unspaced(Append(g, s)) =
                  IF s = "space" /\ Kept(g, {"space"}) = {} THEN Unspaced(g)
                  ELSE Append(Unspaced(g), s)
           /\ Unspaced(g) \in Seq(T)
<1>1. PICK n \in Nat : n = Len(g)
  BY TextIs
<1>2. PICK u \in Seq(T) : u = Append(g, s) /\ Len(u) = n + 1
  BY <1>1, AppendIs
<1>3. PICK K : K = Kept(g, {"space"}) /\ K \subseteq 1 .. n
  BY <1>1, KeptIs
<1>4. Kept(u, {"space"}) = IF s = "space" THEN K ELSE K \cup {n + 1}
  <2>1. Kept(Append(g, s), {"space"}) =
            IF s \in {"space"} THEN Kept(g, {"space"}) ELSE Kept(g, {"space"}) \cup {Len(g) + 1}
    BY KeptAppend
  <2> QED
    BY <1>1, <1>2, <1>3, <2>1
<1>5. FirstOf(K \cup {n + 1}) = IF K = {} THEN n + 1 ELSE FirstOf(K)
  BY <1>3, FirstGrows
<1>6. Unspaced(g) = IF K = {} THEN <<>> ELSE SubSeq(g, FirstOf(K), n)
  BY <1>1, <1>3 DEF Unspaced
<1>7. Unspaced(u) = IF Kept(u, {"space"}) = {} THEN <<>>
                    ELSE SubSeq(u, FirstOf(Kept(u, {"space"})), n + 1)
  BY <1>2 DEF Unspaced
<1>8. \A a \in 1 .. n + 1 : SubSeq(u, a, n + 1) = Append(SubSeq(g, a, n), s)
  BY <1>1, <1>2, SubSeqGrows
<1>9. CASE K # {}
  <2>1. PICK a \in 1 .. n : a = FirstOf(K)
    BY <1>3, <1>9, FirstIs
  <2>2. Kept(u, {"space"}) # {} /\ FirstOf(Kept(u, {"space"})) = a
    BY <1>4, <1>5, <1>9, <2>1
  <2>3. SubSeq(u, a, n + 1) = Append(SubSeq(g, a, n), s)
    BY <1>8, <2>1
  <2>4. SubSeq(g, a, n) \in Seq(T)
    <3>1. a \in 1 .. Len(g) + 1 /\ n \in 0 .. Len(g)
      BY <1>1, <2>1
    <3> QED
      BY <3>1, SubSeqIs
  <2> QED
    BY <1>2, <1>3, <1>6, <1>7, <1>9, <2>1, <2>2, <2>3, <2>4
<1>10. CASE K = {} /\ s = "space"
  <2>1. Unspaced(u) = <<>> /\ Unspaced(g) = <<>>
    BY <1>4, <1>6, <1>7, <1>10
  <2>2. <<>> \in Seq(T)
    BY EmptySeq
  <2> QED
    BY <1>2, <1>3, <1>10, <2>1, <2>2
<1>11. CASE K = {} /\ s # "space"
  <2>1. Kept(u, {"space"}) # {} /\ FirstOf(Kept(u, {"space"})) = n + 1
    BY <1>4, <1>5, <1>11
  <2>2. SubSeq(u, n + 1, n + 1) = Append(SubSeq(g, n + 1, n), s)
    <3>1. n + 1 \in 1 .. n + 1
      OBVIOUS
    <3> QED
      BY <1>8, <3>1
  <2>3. SubSeq(g, n + 1, n) = <<>>
    <3>1. After(g, n) = <<>>
      BY <1>1, AfterIs
    <3> QED
      BY <1>1, <3>1 DEF After
  <2>4. <<>> \in Seq(T)
    BY EmptySeq
  <2> QED
    BY <1>2, <1>3, <1>6, <1>7, <1>11, <2>1, <2>2, <2>3, <2>4
<1> QED
  BY <1>9, <1>10, <1>11

\* A colon empties the stretch and skips the spaces that follow.
LEMMA StretchAppend ==
    ASSUME NEW T, NEW f \in Seq(T), NEW s \in T
    PROVE  /\ Stretch(Append(f, s)) =
                  IF s = ":" THEN <<>>
                  ELSE IF s = "space" /\ Skipping(f) THEN Stretch(f) ELSE Append(Stretch(f), s)
           /\ Skipping(Append(f, s)) <=> s = ":" \/ (s = "space" /\ Skipping(f))
           /\ Stretch(f) \in Seq(T)
<1>1. PICK n \in Nat : n = Len(f)
  BY TextIs
<1>2. PICK u \in Seq(T) : u = Append(f, s) /\ Len(u) = n + 1
  BY <1>1, AppendIs
<1>3. PICK C : C = At(f, {":"}) /\ C \subseteq 1 .. n
  BY <1>1, AtIs
<1>4. PICK l \in 0 .. n : l = LastOf(C) /\ (C = {} <=> l = 0)
  BY <1>3, LastIs
<1>5. Stretch(f) = IF l = 0 THEN f ELSE Unspaced(After(f, l))
  BY <1>3, <1>4 DEF Stretch
<1>6. PICK g \in Seq(T) : g = After(f, l)
  BY <1>1, <1>4, AfterIs
<1>7. Stretch(f) \in Seq(T)
  BY <1>5, <1>6, UnspacedAppend
<1>8. Skipping(f) <=> l # 0 /\ Kept(g, {"space"}) = {}
  BY <1>3, <1>4, <1>6 DEF Skipping
<1>9. CASE s = ":"
  <2>1. At(u, {":"}) = C \cup {n + 1}
    BY <1>1, <1>2, <1>3, <1>9, AtAppend
  <2>2. LastOf(At(u, {":"})) = n + 1 /\ At(u, {":"}) # {}
    BY <1>3, <2>1, LastGrows
  <2>3. After(u, n + 1) = <<>>
    BY <1>2, AfterIs
  <2>4. Kept(<<>>, {"space"}) = {}
    BY DEF Kept
  <2>5. Unspaced(<<>>) = <<>>
    BY <2>4 DEF Unspaced
  <2>6. Stretch(u) = <<>>
    BY <2>2, <2>3, <2>5 DEF Stretch
  <2>7. Skipping(u)
    BY <2>2, <2>3, <2>4 DEF Skipping
  <2> QED
    BY <1>2, <1>7, <1>9, <2>6, <2>7
<1>10. CASE s # ":"
  <2>1. At(u, {":"}) = C
    BY <1>1, <1>2, <1>3, <1>10, AtAppend
  <2>2. After(u, l) = Append(g, s)
    BY <1>1, <1>2, <1>4, <1>6, AfterIs
  <2>3. Stretch(u) = IF l = 0 THEN u ELSE Unspaced(Append(g, s))
    BY <1>4, <2>1, <2>2 DEF Stretch
  <2>4. Skipping(u) <=> l # 0 /\ Kept(Append(g, s), {"space"}) = {}
    BY <1>4, <2>1, <2>2 DEF Skipping
  <2>5. Kept(Append(g, s), {"space"}) =
            IF s = "space" THEN Kept(g, {"space"}) ELSE Kept(g, {"space"}) \cup {Len(g) + 1}
    <3>1. Kept(Append(g, s), {"space"}) =
              IF s \in {"space"} THEN Kept(g, {"space"}) ELSE Kept(g, {"space"}) \cup {Len(g) + 1}
      BY KeptAppend
    <3> QED
      BY <3>1
  <2>6. Unspaced(Append(g, s)) =
            IF s = "space" /\ Kept(g, {"space"}) = {} THEN Unspaced(g)
            ELSE Append(Unspaced(g), s)
    BY <1>6, UnspacedAppend
  <2>7. Skipping(u) <=> s = "space" /\ Skipping(f)
    BY <1>8, <2>4, <2>5
  <2>8. Stretch(u) = IF s = "space" /\ Skipping(f) THEN Stretch(f) ELSE Append(Stretch(f), s)
    BY <1>2, <1>5, <1>6, <1>8, <2>3, <2>6
  <2> QED
    BY <1>2, <1>7, <1>10, <2>7, <2>8
<1> QED
  BY <1>9, <1>10

LEMMA StretchEmpty == Stretch(<<>>) = <<>> /\ ~Skipping(<<>>)
BY AtEmpty DEF Stretch, Skipping, LastOf

\* What the answer parser holds while it reads.
ResponseState ==
    [name : Seq(Letters \cup {"space"} \cup Codes), named : BOOLEAN,
     type : Codes \cup {"URC"}, args : Seq(Seq(Letters \cup {"space"})),
     tmp : Seq(Letters \cup {"space"}), nul : BOOLEAN, skipping : BOOLEAN]

LEMMA ResponseStartIs == ResponseStart \in ResponseState
<1>1. PICK N, Q, QQ : /\ N = Seq(Letters \cup {"space"} \cup Codes)
                       /\ Q = Seq(Letters \cup {"space"}) /\ QQ = Seq(Q)
  OBVIOUS
<1>2. ResponseState = [name : N, named : BOOLEAN, type : Codes \cup {"URC"}, args : QQ, tmp : Q,
                 nul : BOOLEAN, skipping : BOOLEAN]
  BY <1>1 DEF ResponseState
<1>3. <<>> \in N /\ <<>> \in Q /\ <<>> \in QQ
  BY <1>1, EmptySeq
<1> QED
  BY <1>2, <1>3 DEF ResponseStart

\* What each kind of symbol does to the parser.
LEMMA CodeStep ==
    ASSUME NEW r \in ResponseState, NEW s \in Codes
    PROVE  /\ ResponseStep(r, s) \in ResponseState
           /\ ResponseStep(r, s) =
                 [name |-> IF s \in Errors \/ ~r.named THEN <<s>> ELSE r.name,
                  named |-> r.named \/ s \in Errors,
                  type |-> s, args |-> r.args, tmp |-> r.tmp, nul |-> TRUE,
                  skipping |-> FALSE]
<1>1. PICK N, Q, QQ : /\ N = Seq(Letters \cup {"space"} \cup Codes)
                       /\ Q = Seq(Letters \cup {"space"}) /\ QQ = Seq(Q)
  OBVIOUS
<1>2. ResponseState = [name : N, named : BOOLEAN, type : Codes \cup {"URC"}, args : QQ, tmp : Q,
                 nul : BOOLEAN, skipping : BOOLEAN]
  BY <1>1 DEF ResponseState
<1>3. r \in [name : N, named : BOOLEAN, type : Codes \cup {"URC"}, args : QQ, tmp : Q,
                 nul : BOOLEAN, skipping : BOOLEAN]
  BY <1>2
<1>4. PICK n, b : /\ n = (IF s \in Errors \/ ~r.named THEN <<s>> ELSE r.name)
                  /\ b = (r.named \/ s \in Errors)
  OBVIOUS
<1>5. n \in N /\ b \in BOOLEAN
  <2>1. s \in Letters \cup {"space"} \cup Codes
    OBVIOUS
  <2>2. <<s>> \in N
    BY <1>1, <2>1
  <2> QED
    BY <1>3, <1>4, <2>2
<1>6. s # ":" /\ s # "space"
  BY ResponseSymbols
<1>7. ResponseCode(r, s) = [r EXCEPT !.type = s, !.nul = TRUE, !.name = n, !.named = b]
  BY <1>3, <1>4 DEF ResponseCode
<1>8. PICK d : d = ResponseCode(r, s)
  OBVIOUS
<1>9. d = [name |-> n, named |-> b, type |-> s, args |-> r.args, tmp |-> r.tmp,
           nul |-> TRUE, skipping |-> r.skipping]
  BY <1>3, <1>7, <1>8
<1>10. ResponseStep(r, s) = [d EXCEPT !.skipping = FALSE]
  BY <1>6, <1>8 DEF ResponseStep
<1>11. ResponseStep(r, s) = [name |-> n, named |-> b, type |-> s, args |-> r.args,
                             tmp |-> r.tmp, nul |-> TRUE, skipping |-> FALSE]
  BY <1>9, <1>10
<1>12. ResponseStep(r, s) \in ResponseState
  BY <1>2, <1>3, <1>5, <1>11
<1> QED
  BY <1>4, <1>11, <1>12

LEMMA ClearedIs ==
    ASSUME NEW r \in ResponseState
    PROVE  Cleared(r) = [name |-> r.name, named |-> r.named, type |-> r.type, args |-> r.args,
                         tmp |-> <<>>, nul |-> FALSE, skipping |-> r.skipping]
<1>1. PICK N, Q, QQ : /\ N = Seq(Letters \cup {"space"} \cup Codes)
                       /\ Q = Seq(Letters \cup {"space"}) /\ QQ = Seq(Q)
  OBVIOUS
<1>2. r \in [name : N, named : BOOLEAN, type : Codes \cup {"URC"}, args : QQ, tmp : Q,
            nul : BOOLEAN, skipping : BOOLEAN]
  BY <1>1 DEF ResponseState
<1>3. PICK e, z : e = [r EXCEPT !.tmp = z] /\ z = <<>>
  OBVIOUS
<1>4. e = [name |-> r.name, named |-> r.named, type |-> r.type, args |-> r.args,
           tmp |-> z, nul |-> r.nul, skipping |-> r.skipping]
  BY <1>2, <1>3
<1>5. Cleared(r) = [e EXCEPT !.nul = FALSE]
  BY <1>3 DEF Cleared
<1> QED
  BY <1>3, <1>4, <1>5

LEMMA ColonStep ==
    ASSUME NEW r \in ResponseState
    PROVE  /\ ResponseStep(r, ":") \in ResponseState
           /\ ResponseStep(r, ":") =
                 [name |-> IF r.named THEN r.name ELSE r.tmp, named |-> TRUE,
                  type |-> r.type, args |-> r.args, tmp |-> <<>>, nul |-> FALSE,
                  skipping |-> TRUE]
<1>1. PICK N, Q, QQ : /\ N = Seq(Letters \cup {"space"} \cup Codes)
                       /\ Q = Seq(Letters \cup {"space"}) /\ QQ = Seq(Q)
  OBVIOUS
<1>2. ResponseState = [name : N, named : BOOLEAN, type : Codes \cup {"URC"}, args : QQ, tmp : Q,
                 nul : BOOLEAN, skipping : BOOLEAN]
  BY <1>1 DEF ResponseState
<1>3. r \in [name : N, named : BOOLEAN, type : Codes \cup {"URC"}, args : QQ, tmp : Q,
                 nul : BOOLEAN, skipping : BOOLEAN]
  BY <1>2
<1>4. PICK n, z, no, yes : /\ n = (IF r.named THEN r.name ELSE r.tmp) /\ z = <<>>
                           /\ no = FALSE /\ yes = TRUE
  OBVIOUS
<1>5. n \in N /\ z \in Q /\ no \in BOOLEAN /\ yes \in BOOLEAN
  <2>1. r.tmp \in N
    BY <1>1, <1>3, SeqMonotonic
  <2> QED
    BY <1>1, <1>3, <1>4, <2>1, EmptySeq
<1>6. ":" \notin Codes
  BY ResponseSymbols
<1>7. PICK e, d : e = [Cleared(r) EXCEPT !.name = n] /\ d = [e EXCEPT !.named = yes]
  OBVIOUS
<1>8. d = [name |-> n, named |-> yes, type |-> r.type, args |-> r.args, tmp |-> z,
           nul |-> no, skipping |-> r.skipping]
  <2>1. Cleared(r) = [name |-> r.name, named |-> r.named, type |-> r.type, args |-> r.args,
                      tmp |-> z, nul |-> no, skipping |-> r.skipping]
    BY <1>4, ClearedIs
  <2>2. e = [name |-> n, named |-> r.named, type |-> r.type, args |-> r.args,
             tmp |-> z, nul |-> no, skipping |-> r.skipping]
    BY <1>7, <2>1
  <2>3. d = [e EXCEPT !.named = yes]
    BY <1>7
  <2> QED
    BY <2>2, <2>3
<1>9. ResponseStep(r, ":") = [d EXCEPT !.skipping = yes]
  <2>1. Cleared(r).name = r.name
    BY ClearedIs
  <2>2. ResponseColon(r) = d
    BY <1>4, <1>7, <2>1 DEF ResponseColon
  <2> QED
    BY <1>4, <1>6, <2>2 DEF ResponseStep
<1>10. ResponseStep(r, ":") = [name |-> n, named |-> yes, type |-> r.type, args |-> r.args,
                               tmp |-> z, nul |-> no, skipping |-> yes]
  BY <1>8, <1>9
<1>11. ResponseStep(r, ":") \in ResponseState
  BY <1>2, <1>3, <1>5, <1>10
<1> QED
  BY <1>4, <1>10, <1>11

LEMMA SplitStep ==
    ASSUME NEW r \in ResponseState
    PROVE  /\ ResponseStep(r, "comma") \in ResponseState
           /\ ResponseStep(r, "comma") =
                 [name |-> r.name, named |-> r.named,
                  type |-> r.type, args |-> Append(r.args, r.tmp), tmp |-> <<>>, nul |-> FALSE,
                  skipping |-> FALSE]
<1>1. PICK N, Q, QQ : /\ N = Seq(Letters \cup {"space"} \cup Codes)
                       /\ Q = Seq(Letters \cup {"space"}) /\ QQ = Seq(Q)
  OBVIOUS
<1>2. ResponseState = [name : N, named : BOOLEAN, type : Codes \cup {"URC"}, args : QQ, tmp : Q,
                 nul : BOOLEAN, skipping : BOOLEAN]
  BY <1>1 DEF ResponseState
<1>3. r \in [name : N, named : BOOLEAN, type : Codes \cup {"URC"}, args : QQ, tmp : Q,
                 nul : BOOLEAN, skipping : BOOLEAN]
  BY <1>2
<1>4. PICK a, z, no : a = Append(r.args, r.tmp) /\ z = <<>> /\ no = FALSE
  OBVIOUS
<1>5. a \in QQ /\ z \in Q /\ no \in BOOLEAN
  BY <1>1, <1>3, <1>4, EmptySeq, AppendProperties
<1>6. "comma" \notin Codes
  BY ResponseSymbols
<1>7. PICK d : d = [Cleared(r) EXCEPT !.args = a]
  OBVIOUS
<1>8. d = [name |-> r.name, named |-> r.named, type |-> r.type, args |-> a, tmp |-> z,
           nul |-> no, skipping |-> r.skipping]
  <2>1. Cleared(r) = [name |-> r.name, named |-> r.named, type |-> r.type, args |-> r.args,
                      tmp |-> z, nul |-> no, skipping |-> r.skipping]
    BY <1>4, ClearedIs
  <2> QED
    BY <1>7, <2>1
<1>9. ResponseStep(r, "comma") = [d EXCEPT !.skipping = no]
  <2>1. [Cleared(r) EXCEPT !.args = Append(@, r.tmp)] = d
    <3>1. Cleared(r).args = r.args
      BY ClearedIs
    <3> QED
      BY <1>4, <1>7, <3>1
  <2> QED
    BY <1>4, <1>6, <2>1 DEF ResponseStep
<1>10. ResponseStep(r, "comma") = [name |-> r.name, named |-> r.named, type |-> r.type,
                                   args |-> a, tmp |-> z, nul |-> no, skipping |-> no]
  BY <1>8, <1>9
<1>11. ResponseStep(r, "comma") \in ResponseState
  BY <1>2, <1>3, <1>5, <1>10
<1> QED
  BY <1>4, <1>10, <1>11

LEMMA OtherStep ==
    ASSUME NEW r \in ResponseState, NEW s \in {"CR"} \cup (Letters \cup {"space"})
    PROVE  /\ ResponseStep(r, s) \in ResponseState
           /\ ResponseStep(r, s) =
                 [name |-> r.name, named |-> r.named,
                  type |-> r.type, args |-> r.args,
                  tmp |-> IF s = "CR" \/ r.nul \/ (s = "space" /\ r.skipping) THEN r.tmp
                          ELSE Append(r.tmp, s),
                  nul |-> r.nul,
                  skipping |-> s = "space" /\ r.skipping]
<1>1. PICK N, Q, QQ : /\ N = Seq(Letters \cup {"space"} \cup Codes)
                       /\ Q = Seq(Letters \cup {"space"}) /\ QQ = Seq(Q)
  OBVIOUS
<1>2. ResponseState = [name : N, named : BOOLEAN, type : Codes \cup {"URC"}, args : QQ, tmp : Q,
                 nul : BOOLEAN, skipping : BOOLEAN]
  BY <1>1 DEF ResponseState
<1>3. r \in [name : N, named : BOOLEAN, type : Codes \cup {"URC"}, args : QQ, tmp : Q,
                 nul : BOOLEAN, skipping : BOOLEAN]
  BY <1>2
<1>4. PICK w, k : /\ w = (IF s = "CR" \/ r.nul \/ (s = "space" /\ r.skipping) THEN r.tmp
                           ELSE Append(r.tmp, s))
                  /\ k = (s = "space" /\ r.skipping)
  OBVIOUS
<1>5. w \in Q /\ k \in BOOLEAN
  <2>1. s # "CR" => Append(r.tmp, s) \in Q
    BY <1>1, <1>3, AppendProperties
  <2> QED
    BY <1>3, <1>4, <2>1
<1>6. s \notin Codes /\ s # ":" /\ s # "comma"
  BY ResponseSymbols
<1>7. PICK d : d = [name |-> r.name, named |-> r.named, type |-> r.type, args |-> r.args,
                    tmp |-> w, nul |-> r.nul, skipping |-> r.skipping]
  OBVIOUS
<1>8. ResponseStep(r, s) = [d EXCEPT !.skipping = k]
  <2>1. CASE s = "CR" \/ r.nul \/ (s = "space" /\ r.skipping)
    <3>1. d = r
      BY <1>3, <1>4, <1>7, <2>1
    <3> QED
      BY <1>4, <1>6, <2>1, <3>1 DEF ResponseStep
  <2>2. CASE ~(s = "CR" \/ r.nul \/ (s = "space" /\ r.skipping))
    <3>1. d = [r EXCEPT !.tmp = w]
      BY <1>3, <1>7
    <3>2. w = Append(r.tmp, s)
      BY <1>4, <2>2
    <3> QED
      BY <1>4, <1>6, <2>2, <3>1, <3>2 DEF ResponseStep
  <2> QED
    BY <2>1, <2>2
<1>9. ResponseStep(r, s) = [name |-> r.name, named |-> r.named, type |-> r.type,
                            args |-> r.args, tmp |-> w, nul |-> r.nul, skipping |-> k]
  BY <1>7, <1>8
<1>10. ResponseStep(r, s) \in ResponseState
  BY <1>2, <1>3, <1>5, <1>9
<1> QED
  BY <1>4, <1>9, <1>10

\* The piece that is being read, and what has been seen of those before it.
LastPiece(t) == After(t, LastOf(At(t, {"comma"})))
Seen(t, S)   == [k \in 1 .. Cardinality(S) |-> Visible(Stretch(Pieces(t, S)[k]))]

\* A comma starts an empty piece, any other symbol is of the last one.
LEMMA CommasAppend ==
    ASSUME NEW t \in Seq(ResponseSymbol), NEW s \in ResponseSymbol
    PROVE  /\ At(t, {"comma"}) \subseteq 1 .. Len(t)
           /\ At(Append(t, s), {"comma"}) =
                  IF s = "comma" THEN At(t, {"comma"}) \cup {Len(t) + 1} ELSE At(t, {"comma"})
           /\ LastPiece(t) \in Seq(ResponseSymbol)
           /\ LastPiece(Append(t, s)) = IF s = "comma" THEN <<>> ELSE Append(LastPiece(t), s)
<1>1. PICK n \in Nat : n = Len(t)
  BY TextIs
<1>2. PICK u \in Seq(ResponseSymbol) : u = Append(t, s) /\ Len(u) = n + 1
  BY <1>1, AppendIs
<1>3. PICK C : C = At(t, {"comma"}) /\ C \subseteq 1 .. n
  BY <1>1, AtIs
<1>4. At(u, {"comma"}) = IF s = "comma" THEN C \cup {n + 1} ELSE C
  <2>1. At(Append(t, s), {"comma"}) =
            IF s \in {"comma"} THEN At(t, {"comma"}) \cup {Len(t) + 1} ELSE At(t, {"comma"})
    BY AtAppend
  <2> QED
    BY <1>1, <1>2, <1>3, <2>1
<1>5. PICK l \in 0 .. n : l = LastOf(C)
  BY <1>3, LastIs
<1>6. /\ After(t, l) \in Seq(ResponseSymbol) /\ After(u, l) = Append(After(t, l), s)
      /\ After(u, n + 1) = <<>>
  <2>1. /\ After(t, l) \in Seq(ResponseSymbol) /\ After(u, l) = Append(After(t, l), s)
    BY <1>1, <1>2, <1>5, AfterIs
  <2>2. After(u, n + 1) = <<>>
    BY <1>2, AfterIs
  <2> QED
    BY <2>1, <2>2
<1>7. LastOf(C \cup {n + 1}) = n + 1
  BY <1>3, LastGrows
<1> QED
  BY <1>1, <1>2, <1>3, <1>4, <1>5, <1>6, <1>7 DEF LastPiece

\* What has been seen of the pieces that have ended stays.
LEMMA SeenGrows ==
    ASSUME NEW t \in Seq(ResponseSymbol), NEW s \in ResponseSymbol,
           NEW S, S = At(t, {"comma"})
    PROVE  Seen(Append(t, s), S) = Seen(t, S)
<1>1. S \subseteq 1 .. Len(t)
  BY AtIs
<1>2. \A k \in 1 .. Cardinality(S) : Pieces(Append(t, s), S)[k] = Pieces(t, S)[k]
  BY <1>1, PiecesGrow
<1>3. [k \in 1 .. Cardinality(S) |-> Visible(Stretch(Pieces(Append(t, s), S)[k]))] =
          [k \in 1 .. Cardinality(S) |-> Visible(Stretch(Pieces(t, S)[k]))]
  BY <1>2, Zenon
<1> QED
  BY <1>3, Zenon DEF Seen

\* With the last piece they are all the arguments.
LEMMA SeenAll ==
    ASSUME NEW t \in Seq(ResponseSymbol), NEW Q, NEW S, S = At(t, {"comma"}),
           Seen(t, S) \in Seq(Q), Visible(Stretch(LastPiece(t))) \in Q
    PROVE  Append(Seen(t, S), Visible(Stretch(LastPiece(t)))) = ResponseArgs(t)
<1>1. S \subseteq 1 .. Len(t)
  BY AtIs
<1>2. PICK m \in Nat : m = Cardinality(S)
  <2>1. Len(t) \in Nat
    BY TextIs
  <2> QED
    BY <1>1, <2>1, CardIs
<1>3. PICK a, x : a = Seen(t, S) /\ x = Visible(Stretch(LastPiece(t)))
  OBVIOUS
<1>4. a = [k \in 1 .. m |-> Visible(Stretch(Pieces(t, S)[k]))] /\ a \in Seq(Q)
  BY <1>2, <1>3, Zenon DEF Seen
<1>5. x = Visible(Stretch(Pieces(t, S)[m + 1])) /\ x \in Q
  <2>1. Pieces(t, S)[m + 1] = LastPiece(t)
    BY <1>1, <1>2, PiecesIs DEF LastPiece
  <2> QED
    BY <1>3, <2>1
<1>6. PICK b : b = [k \in 1 .. m + 1 |-> Visible(Stretch(Pieces(t, S)[k]))]
  OBVIOUS
<1>7. \A k \in 1 .. m : k \in 1 .. m + 1 /\ a[k] = b[k]
  <2>1. ASSUME NEW k \in 1 .. m PROVE k \in 1 .. m + 1
    BY <1>2
  <2>2. ASSUME NEW k \in 1 .. m PROVE a[k] = Visible(Stretch(Pieces(t, S)[k]))
    BY <1>4
  <2>3. ASSUME NEW k \in 1 .. m + 1 PROVE b[k] = Visible(Stretch(Pieces(t, S)[k]))
    BY <1>6
  <2> QED
    BY <2>1, <2>2, <2>3, Zenon
<1>8. b[m + 1] = x
  <2>1. m + 1 \in 1 .. m + 1
    BY <1>2
  <2> QED
    BY <1>5, <1>6, <2>1, Zenon
<1>9. a \in [1 .. m -> Q]
  <2>1. DOMAIN a = 1 .. m
    BY <1>4
  <2>2. a \in [1 .. Len(a) -> Q] /\ DOMAIN a = 1 .. Len(a)
    BY <1>4, LenProperties
  <2> QED
    BY <2>1, <2>2
<1>10. b \in [1 .. m + 1 -> Q]
  <2>1. ASSUME NEW k \in 1 .. m + 1 PROVE b[k] \in Q
    <3>1. k = m + 1 \/ k \in 1 .. m
      BY <1>2
    <3> QED
      BY <1>5, <1>7, <1>8, <1>9, <3>1
  <2> QED
    BY <1>6, <2>1
<1>11. Append(a, x) = b
  <2>1. x \in Q
    BY <1>5
  <2>2. x = b[m + 1]
    BY <1>8
  <2> QED
    BY <1>2, <1>7, <1>9, <1>10, <2>1, <2>2, AppendFun
<1>12. b = ResponseArgs(t)
  <2>1. DOMAIN Pieces(t, S) = 1 .. m + 1
    BY <1>1, <1>2, PiecesIs
  <2> QED
    BY <1>6, <2>1, Zenon DEF ResponseArgs
<1> QED
  BY <1>3, <1>11, <1>12, Zenon

LEMMA SeenSplit ==
    ASSUME NEW t \in Seq(ResponseSymbol), NEW s \in ResponseSymbol,
           NEW S, S = At(t, {"comma"}), NEW R, R = S \cup {Len(t) + 1}
    PROVE  Seen(Append(t, s), R) = ResponseArgs(t)
<1>1. S \subseteq 1 .. Len(t)
  BY AtIs
<1>2. PICK m : m = Cardinality(S) + 1
  OBVIOUS
<1>3. Cardinality(R) = m /\ \A k \in 1 .. m : Pieces(Append(t, s), R)[k] = Pieces(t, S)[k]
  BY <1>1, <1>2, PiecesSplit
<1>4. DOMAIN Pieces(t, S) = 1 .. m
  BY <1>1, <1>2, PiecesIs
<1>5. [k \in 1 .. m |-> Visible(Stretch(Pieces(Append(t, s), R)[k]))] =
          [k \in 1 .. m |-> Visible(Stretch(Pieces(t, S)[k]))]
  BY <1>3, Zenon
<1>6. Seen(Append(t, s), R) = [k \in 1 .. m |-> Visible(Stretch(Pieces(Append(t, s), R)[k]))]
  BY <1>3, Zenon DEF Seen
<1>7. ResponseArgs(t) = [k \in 1 .. m |-> Visible(Stretch(Pieces(t, S)[k]))]
  BY <1>4, Zenon DEF ResponseArgs
<1> QED
  BY <1>5, <1>6, <1>7, Zenon

\* An error renames the answer, else the first colon names it, else OK.
LEMMA ResponseNameAppend ==
    ASSUME NEW t \in Seq(ResponseSymbol), NEW s \in ResponseSymbol
    PROVE  ResponseName(Append(t, s)) =
               IF s \in Errors THEN <<s>>
               ELSE IF At(t, Errors) # {} \/ At(t, {":"}) # {} THEN ResponseName(t)
               ELSE IF s = ":" THEN Visible(LastPiece(t))
               ELSE IF s \in Codes THEN <<"OK">> ELSE ResponseName(t)
<1>1. PICK n \in Nat : n = Len(t)
  BY TextIs
<1>2. PICK u \in Seq(ResponseSymbol) : /\ u = Append(t, s) /\ Len(u) = n + 1 /\ u[n + 1] = s
                                      /\ \A i \in 1 .. n : u[i] = t[i]
  <2>1. /\ Append(t, s) \in Seq(ResponseSymbol) /\ Len(Append(t, s)) = n + 1
        /\ Append(t, s)[n + 1] = s /\ \A i \in 1 .. n : Append(t, s)[i] = t[i]
    BY <1>1, Grown
  <2> QED
    BY <2>1, Zenon
<1>3. PICK E, C, K : /\ E = At(t, Errors) /\ E \subseteq 1 .. n
                     /\ C = At(t, {":"}) /\ C \subseteq 1 .. n
                     /\ K = At(t, Codes)
  BY <1>1, AtIs
<1>4. /\ At(u, Errors) = IF s \in Errors THEN E \cup {n + 1} ELSE E
      /\ At(u, Codes) = IF s \in Codes THEN K \cup {n + 1} ELSE K
  BY <1>1, <1>2, <1>3, AtAppend
<1>5. At(u, {":"}) = IF s = ":" THEN C \cup {n + 1} ELSE C
  <2>1. At(Append(t, s), {":"}) =
            IF s \in {":"} THEN At(t, {":"}) \cup {Len(t) + 1} ELSE At(t, {":"})
    BY AtAppend
  <2> QED
    BY <1>1, <1>2, <1>3, <2>1
<1>6. CASE s \in Errors
  <2>1. At(u, Errors) # {} /\ LastOf(At(u, Errors)) = n + 1
    BY <1>3, <1>4, <1>6, LastGrows
  <2>2. ResponseName(u) = <<u[LastOf(At(u, Errors))]>>
    BY <2>1 DEF ResponseName
  <2> QED
    BY <1>2, <1>6, <2>1, <2>2
<1>7. CASE s \notin Errors /\ E # {}
  <2>1. At(u, Errors) = E
    BY <1>4, <1>7
  <2>2. PICK l \in 1 .. n : l = LastOf(E)
    BY <1>3, <1>7, LastIs
  <2>3. ResponseName(u) = <<u[l]>> /\ ResponseName(t) = <<t[l]>>
    BY <1>3, <1>7, <2>1, <2>2 DEF ResponseName
  <2> QED
    BY <1>2, <1>3, <1>7, <2>2, <2>3
<1>8. CASE s \notin Errors /\ E = {} /\ C # {}
  <2>1. At(u, Errors) = {} /\ At(u, {":"}) # {}
    BY <1>4, <1>5, <1>8
  <2>2. FirstOf(C \cup {n + 1}) = FirstOf(C) /\ FirstOf(C) \in 1 .. n
    <3>1. FirstOf(C \cup {n + 1}) = IF C = {} THEN n + 1 ELSE FirstOf(C)
      BY <1>3, FirstGrows
    <3> QED
      BY <1>3, <1>8, <3>1, FirstIs
  <2>3. PICK f \in 1 .. n : f = FirstOf(C) /\ f = FirstOf(At(u, {":"}))
    BY <1>5, <2>2
  <2>4. Before(u, f) = Before(t, f)
    <3>1. f \in 1 .. Len(t) + 1
      BY <1>1
    <3> QED
      BY <1>2, <3>1, BeforeIs
  <2>5. PICK h : h = Before(t, f) /\ h = Before(u, f)
    BY <2>4
  <2>6. ResponseName(u) = Visible(After(h, LastOf(At(h, {"comma"}))))
    BY <2>1, <2>3, <2>5 DEF ResponseName
  <2>7. ResponseName(t) = Visible(After(h, LastOf(At(h, {"comma"}))))
    BY <1>3, <1>8, <2>3, <2>5 DEF ResponseName
  <2> QED
    BY <1>2, <1>3, <1>8, <2>6, <2>7
<1>9. CASE s \notin Errors /\ E = {} /\ C = {} /\ s = ":"
  <2>1. At(u, Errors) = {} /\ At(u, {":"}) # {}
    BY <1>4, <1>5, <1>9
  <2>2. FirstOf(C \cup {n + 1}) = n + 1
    BY <1>3, <1>9, FirstGrows
  <2>3. Before(u, n + 1) = t
    <3>1. n + 1 \in 1 .. Len(t) + 1
      BY <1>1
    <3>2. Before(u, n + 1) = Before(t, n + 1)
      BY <1>2, <3>1, BeforeIs
    <3>3. Before(t, n + 1) = t
      BY <1>1, BeforeIs
    <3> QED
      BY <3>2, <3>3
  <2>4. FirstOf(At(u, {":"})) = n + 1
    BY <1>5, <1>9, <2>2
  <2>5. ResponseName(u) = Visible(After(t, LastOf(At(t, {"comma"}))))
    BY <2>1, <2>3, <2>4 DEF ResponseName
  <2> QED
    BY <1>2, <1>3, <1>9, <2>5 DEF LastPiece
<1>10. CASE s \notin Errors /\ E = {} /\ C = {} /\ s # ":"
  <2>1. At(u, Errors) = {} /\ At(u, {":"}) = {}
    BY <1>4, <1>5, <1>10
  <2>2. ResponseName(u) = IF At(u, Codes) = {} THEN <<>> ELSE <<"OK">>
    BY <2>1 DEF ResponseName
  <2>3. ResponseName(t) = IF K = {} THEN <<>> ELSE <<"OK">>
    BY <1>3, <1>10 DEF ResponseName
  <2> QED
    BY <1>2, <1>3, <1>4, <1>10, <2>2, <2>3
<1> QED
  BY <1>6, <1>7, <1>8, <1>9, <1>10
-----------------------------------------------------------------------------
\* The same for answers: a lemma has no operator as a parameter.
LEMMA ResponseIter ==
    ASSUME NEW t
    PROVE  \A n \in Nat : \E f : f = [s \in SUBSET (1 .. n) |->
               IF s = {} THEN ResponseStart ELSE ResponseStep(f[s \ {Max(s)}], t[Max(s)])]
<1> DEFINE N == {n \in Nat : \E f : f = [s \in SUBSET (1 .. n) |->
               IF s = {} THEN ResponseStart ELSE ResponseStep(f[s \ {Max(s)}], t[Max(s)])]}
<1>1. 0 \in N
  <2>1. SUBSET (1 .. 0) = {{}}
    OBVIOUS
  <2>2. PICK f : f = [s \in SUBSET (1 .. 0) |-> ResponseStart]
    OBVIOUS
  <2>3. f = [s \in SUBSET (1 .. 0) |->
               IF s = {} THEN ResponseStart ELSE ResponseStep(f[s \ {Max(s)}], t[Max(s)])]
    BY <2>1, <2>2, Zenon
  <2> QED
    BY <2>3
<1>2. ASSUME NEW n \in N \cap Nat PROVE n + 1 \in N
  <2>1. PICK f : f = [s \in SUBSET (1 .. n) |->
               IF s = {} THEN ResponseStart ELSE ResponseStep(f[s \ {Max(s)}], t[Max(s)])]
    OBVIOUS
  <2>2. \A s \in SUBSET (1 .. n) : f[s] =
               IF s = {} THEN ResponseStart ELSE ResponseStep(f[s \ {Max(s)}], t[Max(s)])
    BY <2>1, Zenon
  <2>3. PICK g : g = [s \in SUBSET (1 .. n + 1) |->
               IF n + 1 \in s THEN ResponseStep(f[s \ {n + 1}], t[n + 1]) ELSE f[s]]
    OBVIOUS
  <2>4. ASSUME NEW s \in SUBSET (1 .. n + 1)
        PROVE  g[s] = IF s = {} THEN ResponseStart ELSE ResponseStep(g[s \ {Max(s)}], t[Max(s)])
    <3>1. CASE n + 1 \in s
      <4>1. Max(s) = n + 1 /\ s # {}
        <5>1. n + 1 \in Nat /\ n + 1 # 0 /\ s \subseteq 1 .. n + 1
          OBVIOUS
        <5> QED
          BY <3>1, <5>1, MaxIs
      <4>2. s \ {n + 1} \in SUBSET (1 .. n + 1) /\ n + 1 \notin s \ {n + 1}
        OBVIOUS
      <4>3. g[s \ {n + 1}] = f[s \ {n + 1}] /\ g[s] = ResponseStep(f[s \ {n + 1}], t[n + 1])
        BY <2>3, <3>1, <4>2, Zenon
      <4> QED
        BY <4>1, <4>3, Zenon
    <3>2. CASE n + 1 \notin s
      <4>1. s \in SUBSET (1 .. n)
        BY <3>2
      <4>2. g[s] = f[s]
        BY <2>3, <3>2, Zenon
      <4>3. CASE s = {}
        BY <2>2, <4>1, <4>2, <4>3, Zenon
      <4>4. CASE s # {}
        <5>1. PICK r : r = s \ {Max(s)}
          OBVIOUS
        <5>2. r \in SUBSET (1 .. n + 1) /\ n + 1 \notin r
          BY <3>2, <5>1
        <5>3. g[r] = f[r]
          BY <2>3, <5>2, Zenon
        <5> QED
          BY <2>2, <4>1, <4>2, <4>4, <5>1, <5>3, Zenon
      <4> QED
        BY <4>3, <4>4
    <3> QED
      BY <3>1, <3>2
  <2>5. g = [s \in SUBSET (1 .. n + 1) |->
               IF s = {} THEN ResponseStart ELSE ResponseStep(g[s \ {Max(s)}], t[Max(s)])]
    BY <2>3, <2>4, Zenon
  <2>6. n + 1 \in Nat
    OBVIOUS
  <2> QED
    BY <2>5, <2>6, Zenon
<1>3. Nat \subseteq N
  <2> HIDE DEF N
  <2> QED
    BY <1>1, <1>2, EveryNumber
<1> QED
  BY <1>3, Zenon

LEMMA ResponseFoldIs ==
    ASSUME NEW T, NEW t \in Seq(T)
    PROVE  \E f : /\ FoldLeft(ResponseStep, ResponseStart, t) = f[1 .. Len(t)]
                  /\ \A s \in SUBSET (1 .. Len(t)) : f[s] =
                        IF s = {} THEN ResponseStart
                        ELSE ResponseStep(f[s \ {Max(s)}], t[Max(s)])
<1>1. PICK n \in Nat : n = Len(t) /\ DOMAIN t = 1 .. n
  BY TextIs
<1> DEFINE Is(f) == f = [s \in SUBSET (1 .. n) |->
               IF s = {} THEN ResponseStart ELSE ResponseStep(f[s \ {Max(s)}], t[Max(s)])]
<1>2. \E f : Is(f)
  BY ResponseIter, Zenon
<1>3. PICK f : f = CHOOSE g : Is(g)
  OBVIOUS
<1>4. Is(f)
  <2> HIDE DEF Is
  <2> QED
    BY <1>2, <1>3, Zenon
<1>5. FoldLeft(ResponseStep, ResponseStart, t) = f[1 .. n]
  <2>1. FoldLeft(ResponseStep, ResponseStart, t) =
            (CHOOSE g : g = [s \in SUBSET DOMAIN t |->
               IF s = {} THEN ResponseStart ELSE ResponseStep(g[s \ {Max(s)}], t[Max(s)])])[DOMAIN t]
    BY Zenon DEF FoldLeft, MapThenFoldSet
  <2> QED
    BY <1>1, <1>3, <2>1, Zenon
<1> QED
  BY <1>1, <1>4, <1>5, Zenon

LEMMA ResponseFold ==
    ASSUME NEW T, NEW t \in Seq(T), NEW e \in T
    PROVE  /\ FoldLeft(ResponseStep, ResponseStart, <<>>) = ResponseStart
           /\ FoldLeft(ResponseStep, ResponseStart, Append(t, e)) =
                  ResponseStep(FoldLeft(ResponseStep, ResponseStart, t), e)
<1>1. FoldLeft(ResponseStep, ResponseStart, <<>>) = ResponseStart
  <2>1. <<>> \in Seq({}) /\ Len(<<>>) = 0
    BY EmptySeq
  <2>2. PICK f : /\ FoldLeft(ResponseStep, ResponseStart, <<>>) = f[1 .. Len(<<>>)]
                 /\ \A s \in SUBSET (1 .. Len(<<>>)) : f[s] =
                        IF s = {} THEN ResponseStart
                        ELSE ResponseStep(f[s \ {Max(s)}], <<>>[Max(s)])
    BY <2>1, ResponseFoldIs, Zenon
  <2>3. 1 .. Len(<<>>) = {}
    BY <2>1
  <2> QED
    BY <2>2, <2>3, Zenon
<1>2. PICK n \in Nat : n = Len(t)
  BY TextIs
<1>3. PICK u \in Seq(T) : /\ u = Append(t, e) /\ Len(u) = n + 1 /\ u[n + 1] = e
                          /\ \A i \in 1 .. n : u[i] = t[i]
  <2>1. /\ Append(t, e) \in Seq(T) /\ Len(Append(t, e)) = n + 1 /\ Append(t, e)[n + 1] = e
        /\ \A i \in 1 .. n : Append(t, e)[i] = t[i]
    BY <1>2, Grown
  <2> QED
    BY <2>1, Zenon
<1>4. PICK f : /\ FoldLeft(ResponseStep, ResponseStart, t) = f[1 .. n]
               /\ \A s \in SUBSET (1 .. n) : f[s] =
                     IF s = {} THEN ResponseStart
                     ELSE ResponseStep(f[s \ {Max(s)}], t[Max(s)])
  BY <1>2, ResponseFoldIs, Zenon
<1>5. PICK g : /\ FoldLeft(ResponseStep, ResponseStart, u) = g[1 .. Len(u)]
               /\ \A s \in SUBSET (1 .. Len(u)) : g[s] =
                     IF s = {} THEN ResponseStart
                     ELSE ResponseStep(g[s \ {Max(s)}], u[Max(s)])
  BY ResponseFoldIs, Zenon
<1>6. ASSUME NEW k \in Nat
      PROVE  1 .. k + 1 # {} /\ Max(1 .. k + 1) = k + 1 /\ (1 .. k + 1) \ {k + 1} = 1 .. k
  <2>1. k + 1 \in Nat /\ k + 1 # 0 /\ k + 1 \in 1 .. k + 1
    OBVIOUS
  <2>2. (1 .. k + 1) \ {k + 1} = 1 .. k
    OBVIOUS
  <2> QED
    BY <2>1, <2>2, MaxIs, Zenon
<1> DEFINE N == {k \in Nat : k <= n => f[1 .. k] = g[1 .. k]}
<1>7. 0 \in N
  <2>1. 1 .. 0 = {} /\ {} \in SUBSET (1 .. n) /\ {} \in SUBSET (1 .. Len(u))
    OBVIOUS
  <2> QED
    BY <1>4, <1>5, <2>1, Zenon
<1>8. ASSUME NEW k \in N \cap Nat PROVE k + 1 \in N
  <2> SUFFICES ASSUME k + 1 <= n PROVE f[1 .. k + 1] = g[1 .. k + 1]
    OBVIOUS
  <2>1. k <= n /\ k + 1 \in 1 .. n
    OBVIOUS
  <2>2. f[1 .. k] = g[1 .. k]
    BY <2>1
  <2>3. 1 .. k + 1 \in SUBSET (1 .. n) /\ 1 .. k + 1 \in SUBSET (1 .. Len(u))
    <3>1. 1 .. k + 1 \in SUBSET (1 .. n) /\ 1 .. k + 1 \in SUBSET (1 .. n + 1)
      OBVIOUS
    <3> QED
      BY <1>3, <3>1
  <2>4. f[1 .. k + 1] = ResponseStep(f[1 .. k], t[k + 1])
    <3>1. f[1 .. k + 1] = IF 1 .. k + 1 = {} THEN ResponseStart
            ELSE ResponseStep(f[(1 .. k + 1) \ {Max(1 .. k + 1)}], t[Max(1 .. k + 1)])
      BY <1>4, <2>3, Zenon
    <3>2. 1 .. k + 1 # {} /\ Max(1 .. k + 1) = k + 1 /\ (1 .. k + 1) \ {k + 1} = 1 .. k
      BY <1>6
    <3> QED
      BY <3>1, <3>2, Zenon
  <2>5. g[1 .. k + 1] = ResponseStep(g[1 .. k], u[k + 1])
    <3>1. g[1 .. k + 1] = IF 1 .. k + 1 = {} THEN ResponseStart
            ELSE ResponseStep(g[(1 .. k + 1) \ {Max(1 .. k + 1)}], u[Max(1 .. k + 1)])
      BY <1>5, <2>3, Zenon
    <3>2. 1 .. k + 1 # {} /\ Max(1 .. k + 1) = k + 1 /\ (1 .. k + 1) \ {k + 1} = 1 .. k
      BY <1>6
    <3> QED
      BY <3>1, <3>2, Zenon
  <2> QED
    BY <1>3, <2>1, <2>2, <2>4, <2>5, Zenon
<1>9. f[1 .. n] = g[1 .. n]
  <2>1. n \in N
    <3> HIDE DEF N
    <3> QED
      BY <1>7, <1>8, EveryNumber
  <2> QED
    BY <2>1
<1>10. g[1 .. n + 1] = ResponseStep(g[1 .. n], u[n + 1])
  <2>1. 1 .. n + 1 \in SUBSET (1 .. Len(u))
    BY <1>3
  <2> QED
    <3>1. g[1 .. n + 1] = IF 1 .. n + 1 = {} THEN ResponseStart
            ELSE ResponseStep(g[(1 .. n + 1) \ {Max(1 .. n + 1)}], u[Max(1 .. n + 1)])
      BY <1>5, <2>1, Zenon
    <3>2. 1 .. n + 1 # {} /\ Max(1 .. n + 1) = n + 1 /\ (1 .. n + 1) \ {n + 1} = 1 .. n
      BY <1>6
    <3> QED
      BY <3>1, <3>2, Zenon
<1> QED
  BY <1>1, <1>3, <1>4, <1>5, <1>9, <1>10, Zenon

\* The last result code is the type of the answer.
AnswerType(t) == IF At(t, Codes) = {} THEN "URC" ELSE t[LastOf(At(t, Codes))]

\* Only a code changes the type.
LEMMA AnswerTypeAppend ==
    ASSUME NEW t \in Seq(ResponseSymbol), NEW s \in ResponseSymbol
    PROVE  AnswerType(Append(t, s)) = IF s \in Codes THEN s ELSE AnswerType(t)
<1>1. PICK n \in Nat : n = Len(t)
  BY TextIs
<1>2. PICK u \in Seq(ResponseSymbol) : /\ u = Append(t, s) /\ Len(u) = n + 1 /\ u[n + 1] = s
                                      /\ \A i \in 1 .. n : u[i] = t[i]
  <2>1. /\ Append(t, s) \in Seq(ResponseSymbol) /\ Len(Append(t, s)) = n + 1
        /\ Append(t, s)[n + 1] = s /\ \A i \in 1 .. n : Append(t, s)[i] = t[i]
    BY <1>1, Grown
  <2> QED
    BY <2>1, Zenon
<1>3. PICK C : C = At(t, Codes) /\ C \subseteq 1 .. n
  BY <1>1, AtIs
<1>4. At(u, Codes) = IF s \in Codes THEN C \cup {n + 1} ELSE C
  BY <1>1, <1>2, <1>3, AtAppend
<1>5. LastOf(C \cup {n + 1}) = n + 1
  BY <1>3, LastGrows
<1>6. C # {} => LastOf(C) \in 1 .. n
  BY <1>3, LastIs
<1> QED
  BY <1>2, <1>3, <1>4, <1>5, <1>6 DEF AnswerType

\* Until the first colon nothing is stretched.
LEMMA NoColon ==
    ASSUME NEW t \in Seq(ResponseSymbol), At(t, {":"}) = {}
    PROVE  Stretch(LastPiece(t)) = LastPiece(t) /\ ~Skipping(LastPiece(t))
<1>1. PICK n \in Nat : n = Len(t) /\ DOMAIN t = 1 .. n
  BY TextIs
<1>2. PICK l \in 0 .. n : l = LastOf(At(t, {"comma"}))
  <2>1. At(t, {"comma"}) \subseteq 1 .. n
    BY <1>1, AtIs
  <2> QED
    BY <2>1, LastIs
<1>3. PICK f \in Seq(ResponseSymbol) : /\ f = After(t, l)
                                      /\ Len(f) = n - l /\ \A j \in 1 .. n - l : f[j] = t[l + j]
  <2>1. /\ After(t, l) \in Seq(ResponseSymbol) /\ Len(After(t, l)) = n - l
        /\ \A j \in 1 .. n - l : After(t, l)[j] = t[l + j]
    <3>1. l \in 0 .. Len(t)
      BY <1>1
    <3>2. /\ After(t, l) \in Seq(ResponseSymbol) /\ Len(After(t, l)) = Len(t) - l
          /\ \A j \in 1 .. Len(t) - l : After(t, l)[j] = t[l + j]
      BY <3>1, AfterIs, Zenon
    <3> QED
      BY <1>1, <3>2, Zenon
  <2> QED
    BY <2>1
<1>4. f = LastPiece(t)
  BY <1>2, <1>3 DEF LastPiece
<1>5. At(f, {":"}) = {}
  <2> SUFFICES ASSUME NEW j \in At(f, {":"}) PROVE FALSE
    OBVIOUS
  <2>1. j \in 1 .. n - l /\ f[j] = ":"
    BY <1>3, AtIs DEF At
  <2>2. l + j \in 1 .. n /\ t[l + j] = ":"
    BY <1>3, <2>1
  <2>3. l + j \in At(t, {":"})
    BY <1>1, <2>2 DEF At
  <2> QED
    BY <2>3
<1>6. Stretch(f) = f /\ ~Skipping(f)
  BY <1>5 DEF Stretch, Skipping, LastOf
<1> QED
  BY <1>4, <1>6

\* The parser holds what a reader of the answer so far finds by positions.
ResponseReads(t, r) ==
    LET commas == At(t, {"comma"})
    IN  /\ r.name = ResponseName(t)
        /\ r.named <=> At(t, Errors) # {} \/ At(t, {":"}) # {}
        /\ r.type = AnswerType(t)
        /\ r.args = Seen(t, commas) /\ r.tmp = Visible(Stretch(LastPiece(t)))
        /\ r.nul <=> At(Stretch(LastPiece(t)), Codes) # {}
        /\ r.skipping <=> Skipping(LastPiece(t))

\* A further symbol keeps the parser in agreement with the answer.
LEMMA ResponseReadsStep ==
    ASSUME NEW t \in Seq(ResponseSymbol), NEW s \in ResponseSymbol, NEW r \in ResponseState,
           ResponseReads(t, r)
    PROVE  ResponseStep(r, s) \in ResponseState /\ ResponseReads(Append(t, s), ResponseStep(r, s))
<1>1. PICK n \in Nat : n = Len(t)
  BY TextIs
<1>2. PICK u : u = Append(t, s)
  OBVIOUS
<1>3. PICK d : d = ResponseStep(r, s)
  OBVIOUS
<1>4. PICK S, R : S = At(t, {"comma"}) /\ R = At(u, {"comma"})
  OBVIOUS
<1>5. PICK f \in Seq(ResponseSymbol) : f = LastPiece(t)
  BY CommasAppend
<1>6. PICK g \in Seq(ResponseSymbol) : g = Stretch(f)
  BY StretchAppend
<1>7. /\ r.name = ResponseName(t)
      /\ r.named <=> At(t, Errors) # {} \/ At(t, {":"}) # {}
      /\ r.type = AnswerType(t)
      /\ r.args = Seen(t, S) /\ r.tmp = Visible(g)
      /\ r.nul <=> At(g, Codes) # {}
      /\ r.skipping <=> Skipping(f)
  BY <1>4, <1>5, <1>6, Zenon DEF ResponseReads
<1>8. /\ R = IF s = "comma" THEN S \cup {n + 1} ELSE S
      /\ LastPiece(u) = IF s = "comma" THEN <<>> ELSE Append(f, s)
  BY <1>1, <1>2, <1>4, <1>5, CommasAppend
<1>9. At(u, Errors) = IF s \in Errors THEN At(t, Errors) \cup {n + 1} ELSE At(t, Errors)
  BY <1>1, <1>2, AtAppend
<1>10. At(u, {":"}) = IF s = ":" THEN At(t, {":"}) \cup {n + 1} ELSE At(t, {":"})
  <2>1. At(Append(t, s), {":"}) =
            IF s \in {":"} THEN At(t, {":"}) \cup {Len(t) + 1} ELSE At(t, {":"})
    BY AtAppend
  <2> QED
    BY <1>1, <1>2, <2>1
<1>11. ResponseName(u) =
           IF s \in Errors THEN <<s>>
           ELSE IF At(t, Errors) # {} \/ At(t, {":"}) # {} THEN ResponseName(t)
           ELSE IF s = ":" THEN Visible(f)
           ELSE IF s \in Codes THEN <<"OK">> ELSE ResponseName(t)
  BY <1>2, <1>5, ResponseNameAppend
<1>12. AnswerType(u) = IF s \in Codes THEN s ELSE AnswerType(t)
  BY <1>2, AnswerTypeAppend
<1>13. Seen(u, S) = Seen(t, S)
  BY <1>2, <1>4, SeenGrows
<1>14. /\ Stretch(Append(f, s)) =
              IF s = ":" THEN <<>>
              ELSE IF s = "space" /\ Skipping(f) THEN g ELSE Append(g, s)
       /\ Skipping(Append(f, s)) <=> s = ":" \/ (s = "space" /\ Skipping(f))
  BY <1>6, StretchAppend
<1>15. /\ Visible(Append(g, s)) =
              IF At(g, Codes) # {} \/ s \in Codes \/ s = "CR" THEN Visible(g)
              ELSE Append(Visible(g), s)
       /\ At(Append(g, s), Codes) # {} <=> At(g, Codes) # {} \/ s \in Codes
  <2>1. At(Append(g, s), Codes) =
            IF s \in Codes THEN At(g, Codes) \cup {Len(g) + 1} ELSE At(g, Codes)
    BY AtAppend
  <2>2. s \in Codes => At(Append(g, s), Codes) # {}
    BY <2>1
  <2>3. s \notin Codes => At(Append(g, s), Codes) = At(g, Codes)
    BY <2>1
  <2>4. Visible(Append(g, s)) =
            IF At(g, Codes) # {} \/ s \in Codes \/ s = "CR" THEN Visible(g)
            ELSE Append(Visible(g), s)
    BY VisibleAppend
  <2> QED
    BY <2>2, <2>3, <2>4
<1>16. Errors \subseteq Codes /\ (s \in Codes => s \in Errors \/ s = "OK") /\ "OK" \notin Errors
  BY DEF Codes, Errors
<1>17. CASE s \in Codes
  <2>1. /\ d \in ResponseState
        /\ d = [name |-> IF s \in Errors \/ ~r.named THEN <<s>> ELSE r.name,
                named |-> r.named \/ s \in Errors, type |-> s, args |-> r.args, tmp |-> r.tmp,
                nul |-> TRUE, skipping |-> FALSE]
    BY <1>3, <1>17, CodeStep
  <2>2. s # "comma" /\ s # ":" /\ s # "space" /\ s # "CR"
    BY <1>17, ResponseSymbols
  <2>3. R = S /\ LastPiece(u) = Append(f, s)
    BY <1>8, <2>2
  <2>4. Stretch(LastPiece(u)) = Append(g, s) /\ ~Skipping(LastPiece(u))
    BY <1>14, <2>2, <2>3
  <2>5. d.tmp = r.tmp /\ d.args = r.args /\ d.nul = TRUE /\ d.skipping = FALSE /\ d.type = s
    BY <2>1
  <2>6. d.named <=> At(u, Errors) # {} \/ At(u, {":"}) # {}
    <3>1. d.named <=> r.named \/ s \in Errors
      BY <2>1
    <3>2. At(u, {":"}) = At(t, {":"})
      BY <1>10, <2>2
    <3>3. At(u, Errors) # {} <=> At(t, Errors) # {} \/ s \in Errors
      BY <1>9
    <3> QED
      BY <1>7, <3>1, <3>2, <3>3
  <2>7. d.name = ResponseName(u)
    <3>1. d.name = IF s \in Errors \/ ~r.named THEN <<s>> ELSE r.name
      BY <2>1
    <3> QED
      BY <1>7, <1>11, <1>16, <1>17, <2>2, <3>1
  <2>8. d.tmp = Visible(Stretch(LastPiece(u))) /\ At(Stretch(LastPiece(u)), Codes) # {}
    BY <1>7, <1>15, <1>17, <2>4, <2>5
  <2>9. d.type = AnswerType(u) /\ d.args = Seen(u, R)
    BY <1>7, <1>12, <1>13, <1>17, <2>3, <2>5
  <2> QED
    BY <1>2, <1>3, <1>4, <2>1, <2>4, <2>5, <2>6, <2>7, <2>8, <2>9, Zenon DEF ResponseReads
<1>18. CASE s = ":"
  <2>1. /\ d \in ResponseState
        /\ d = [name |-> IF r.named THEN r.name ELSE r.tmp, named |-> TRUE,
                type |-> r.type, args |-> r.args, tmp |-> <<>>, nul |-> FALSE, skipping |-> TRUE]
    BY <1>3, <1>18, ColonStep
  <2>2. s # "comma" /\ s \notin Codes /\ s \notin Errors
    BY <1>16, <1>18, ResponseSymbols
  <2>3. R = S /\ LastPiece(u) = Append(f, s)
    BY <1>8, <2>2
  <2>4. Stretch(LastPiece(u)) = <<>> /\ Skipping(LastPiece(u))
    BY <1>14, <1>18, <2>3
  <2>5. d.tmp = <<>> /\ d.args = r.args /\ d.nul = FALSE /\ d.skipping = TRUE /\ d.type = r.type
        /\ d.named = TRUE
    BY <2>1
  <2>6. At(u, {":"}) # {}
    BY <1>10, <1>18
  <2>7. d.name = ResponseName(u)
    <3>1. d.name = IF r.named THEN r.name ELSE r.tmp
      BY <2>1
    <3>2. ~r.named => g = f
      BY <1>5, <1>6, <1>7, NoColon
    <3> QED
      BY <1>7, <1>11, <1>18, <2>2, <3>1, <3>2
  <2>8. Visible(Stretch(LastPiece(u))) = <<>> /\ At(Stretch(LastPiece(u)), Codes) = {}
    BY <2>4, VisibleEmpty, AtEmpty
  <2>9. d.type = AnswerType(u) /\ d.args = Seen(u, R)
    BY <1>7, <1>12, <1>13, <2>2, <2>3, <2>5
  <2> QED
    BY <1>2, <1>3, <1>4, <2>1, <2>4, <2>5, <2>6, <2>7, <2>8, <2>9, Zenon DEF ResponseReads
<1>19. CASE s = "comma"
  <2>1. /\ d \in ResponseState
        /\ d = [name |-> r.name, named |-> r.named, type |-> r.type,
                args |-> Append(r.args, r.tmp), tmp |-> <<>>, nul |-> FALSE, skipping |-> FALSE]
    BY <1>3, <1>19, SplitStep
  <2>2. s # ":" /\ s \notin Codes /\ s \notin Errors
    BY <1>16, <1>19, ResponseSymbols
  <2>3. R = S \cup {n + 1} /\ LastPiece(u) = <<>>
    BY <1>8, <1>19
  <2>4. Stretch(LastPiece(u)) = <<>> /\ ~Skipping(LastPiece(u))
    BY <2>3, StretchEmpty
  <2>5. d.tmp = <<>> /\ d.args = Append(r.args, r.tmp) /\ d.nul = FALSE /\ d.skipping = FALSE
        /\ d.type = r.type /\ d.named = r.named /\ d.name = r.name
    BY <2>1
  <2>6. At(u, {":"}) = At(t, {":"}) /\ At(u, Errors) = At(t, Errors)
    BY <1>9, <1>10, <2>2
  <2>7. d.name = ResponseName(u)
    BY <1>7, <1>11, <2>2, <2>5
  <2>8. Visible(Stretch(LastPiece(u))) = <<>> /\ At(Stretch(LastPiece(u)), Codes) = {}
    BY <2>4, VisibleEmpty, AtEmpty
  <2>9. d.type = AnswerType(u)
    BY <1>7, <1>12, <2>2, <2>5
  <2>10. d.args = Seen(u, R)
    <3>1. PICK Q : Q = Seq(Letters \cup {"space"}) /\ r.args \in Seq(Q) /\ r.tmp \in Q
      BY DEF ResponseState
    <3>2. Seen(t, S) \in Seq(Q) /\ Visible(Stretch(LastPiece(t))) \in Q
      BY <1>5, <1>6, <1>7, <3>1
    <3>3. R = S \cup {Len(t) + 1}
      BY <1>1, <2>3
    <3>4. Append(Seen(t, S), Visible(Stretch(LastPiece(t)))) = ResponseArgs(t)
      BY <1>4, <3>2, SeenAll
    <3>5. Seen(Append(t, s), R) = ResponseArgs(t)
      BY <1>4, <3>3, SeenSplit
    <3> QED
      BY <1>2, <1>5, <1>6, <1>7, <2>5, <3>4, <3>5
  <2> QED
    BY <1>2, <1>3, <1>4, <1>7, <2>1, <2>4, <2>5, <2>6, <2>7, <2>8, <2>9, <2>10, Zenon
    DEF ResponseReads
<1>20. CASE s \in {"CR"} \cup (Letters \cup {"space"})
  <2>1. /\ d \in ResponseState
        /\ d = [name |-> r.name, named |-> r.named, type |-> r.type, args |-> r.args,
                tmp |-> IF s = "CR" \/ r.nul \/ (s = "space" /\ r.skipping) THEN r.tmp
                        ELSE Append(r.tmp, s),
                nul |-> r.nul, skipping |-> s = "space" /\ r.skipping]
    BY <1>3, <1>20, OtherStep
  <2>2. s # ":" /\ s # "comma" /\ s \notin Codes /\ s \notin Errors
    BY <1>16, <1>20, ResponseSymbols
  <2>3. R = S /\ LastPiece(u) = Append(f, s)
    BY <1>8, <2>2
  <2>4. /\ Stretch(LastPiece(u)) = IF s = "space" /\ Skipping(f) THEN g ELSE Append(g, s)
        /\ Skipping(LastPiece(u)) <=> s = "space" /\ Skipping(f)
    BY <1>14, <2>2, <2>3
  <2>5. d.args = r.args /\ d.nul = r.nul /\ d.type = r.type /\ d.named = r.named
        /\ d.name = r.name
    BY <2>1
  <2>6. At(u, {":"}) = At(t, {":"}) /\ At(u, Errors) = At(t, Errors)
    BY <1>9, <1>10, <2>2
  <2>7. d.name = ResponseName(u)
    BY <1>7, <1>11, <2>2, <2>5
  <2>8. d.type = AnswerType(u) /\ d.args = Seen(u, R)
    BY <1>7, <1>12, <1>13, <2>2, <2>3, <2>5
  <2>9. d.skipping <=> Skipping(LastPiece(u))
    <3>1. d.skipping <=> s = "space" /\ r.skipping
      BY <2>1
    <3> QED
      BY <1>7, <2>4, <3>1
  <2>10. d.tmp = Visible(Stretch(LastPiece(u))) /\ (d.nul <=> At(Stretch(LastPiece(u)), Codes) # {})
    <3>1. d.tmp = IF s = "CR" \/ r.nul \/ (s = "space" /\ r.skipping) THEN r.tmp
                  ELSE Append(r.tmp, s)
      BY <2>1
    <3> QED
      BY <1>7, <1>15, <2>2, <2>4, <2>5, <3>1
  <2> QED
    BY <1>2, <1>3, <1>4, <1>7, <2>1, <2>5, <2>6, <2>7, <2>8, <2>9, <2>10, Zenon
    DEF ResponseReads
<1> QED
  BY <1>17, <1>18, <1>19, <1>20, ResponseSymbols

LEMMA ResponseReadsStart == ResponseReads(<<>>, ResponseStart)
<1>1. <<>> \in Seq(ResponseSymbol) /\ Len(<<>>) = 0
  BY EmptySeq
<1>2. \A S : At(<<>>, S) = {}
  BY AtEmpty
<1>3. LastPiece(<<>>) = <<>>
  <2>1. LastOf(At(<<>>, {"comma"})) = 0
    BY <1>2 DEF LastOf
  <2>2. After(<<>>, 0) = <<>>
    BY <1>1, AfterIs
  <2> QED
    BY <2>1, <2>2 DEF LastPiece
<1>4. Stretch(<<>>) = <<>> /\ ~Skipping(<<>>) /\ Visible(<<>>) = <<>>
  BY StretchEmpty, VisibleEmpty
<1>5. Seen(<<>>, {}) = <<>>
  <2>1. Seen(<<>>, {}) = [k \in 1 .. 0 |-> Visible(Stretch(Pieces(<<>>, {})[k]))]
    BY FS_EmptySet, Zenon DEF Seen
  <2>2. Seen(<<>>, {}) = [k \in 1 .. 0 |-> Seen(<<>>, {})[k]]
    BY <2>1, Zenon
  <2> QED
    BY <2>2, NoEntries
<1>6. ResponseName(<<>>) = <<>> /\ AnswerType(<<>>) = "URC"
  BY <1>2 DEF ResponseName, AnswerType
<1>7. /\ ResponseStart.name = <<>> /\ ResponseStart.named = FALSE /\ ResponseStart.type = "URC"
      /\ ResponseStart.args = <<>> /\ ResponseStart.tmp = <<>> /\ ResponseStart.nul = FALSE
      /\ ResponseStart.skipping = FALSE
  BY DEF ResponseStart
<1> QED
  BY <1>2, <1>3, <1>4, <1>5, <1>6, <1>7, Zenon DEF ResponseReads

\* After any answer the parser holds what the answer says.
LEMMA Responses ==
    \A t \in Seq(ResponseSymbol) :
        /\ FoldLeft(ResponseStep, ResponseStart, t) \in ResponseState
        /\ ResponseReads(t, FoldLeft(ResponseStep, ResponseStart, t))
<1> DEFINE Good == {t \in Seq(ResponseSymbol) :
                        /\ FoldLeft(ResponseStep, ResponseStart, t) \in ResponseState
                        /\ ResponseReads(t, FoldLeft(ResponseStep, ResponseStart, t))}
<1>1. <<>> \in Good
  <2>1. <<>> \in Seq(ResponseSymbol)
    BY EmptySeq
  <2>2. FoldLeft(ResponseStep, ResponseStart, <<>>) = ResponseStart
    <3>1. <<>> \in Seq({"CR"}) /\ "CR" \in {"CR"}
      BY EmptySeq
    <3> QED
      BY <3>1, ResponseFold, Zenon
  <2> QED
    BY <2>1, <2>2, ResponseStartIs, ResponseReadsStart, Zenon
<1>2. ASSUME NEW t \in Good \cap Seq(ResponseSymbol), NEW s \in ResponseSymbol
      PROVE  Append(t, s) \in Good
  <2>1. PICK r \in ResponseState :
            r = FoldLeft(ResponseStep, ResponseStart, t) /\ ResponseReads(t, r)
    BY Zenon
  <2>2. FoldLeft(ResponseStep, ResponseStart, Append(t, s)) = ResponseStep(r, s)
    BY <2>1, ResponseFold, Zenon
  <2>3. ResponseStep(r, s) \in ResponseState /\ ResponseReads(Append(t, s), ResponseStep(r, s))
    BY <2>1, ResponseReadsStep, Zenon
  <2>4. Append(t, s) \in Seq(ResponseSymbol)
    BY AppendProperties
  <2> QED
    BY <2>2, <2>3, <2>4, Zenon
<1>3. Seq(ResponseSymbol) \subseteq Good
  <2> HIDE DEF Good
  <2> QED
    BY <1>1, <1>2, EveryText
<1> QED
  BY <1>3, Zenon

\* What ParseResponse makes of it.
LEMMA ResponseEndIs ==
    ASSUME NEW t \in Seq(ResponseSymbol)
    PROVE  /\ ParseResponse(t).name = ResponseName(t)
           /\ ParseResponse(t).type = AnswerType(t)
           /\ ParseResponse(t).args = ResponseArgs(t)
           /\ ParseResponse(t).args \in Seq(Seq(Letters \cup {"space"}))
<1>1. PICK r \in ResponseState : r = FoldLeft(ResponseStep, ResponseStart, t) /\ ResponseReads(t, r)
  BY Responses, Zenon
<1>2. PICK S : S = At(t, {"comma"})
  OBVIOUS
<1>3. /\ r.name = ResponseName(t) /\ r.type = AnswerType(t)
      /\ r.args = Seen(t, S) /\ r.tmp = Visible(Stretch(LastPiece(t)))
  BY <1>1, <1>2, Zenon DEF ResponseReads
<1>4. PICK Q : Q = Seq(Letters \cup {"space"}) /\ r.args \in Seq(Q) /\ r.tmp \in Q
  BY DEF ResponseState
<1>5. PICK a : a = Append(r.args, r.tmp) /\ a \in Seq(Q)
  <2>1. Append(r.args, r.tmp) \in Seq(Q)
    BY <1>4, AppendProperties
  <2> QED
    BY <2>1
<1>6. a = ResponseArgs(t)
  <2>1. Seen(t, S) \in Seq(Q) /\ Visible(Stretch(LastPiece(t))) \in Q
    BY <1>3, <1>4
  <2>2. Append(Seen(t, S), Visible(Stretch(LastPiece(t)))) = ResponseArgs(t)
    BY <1>2, <2>1, SeenAll
  <2> QED
    BY <1>3, <1>5, <2>2
<1>7. ParseResponse(t) = [name |-> r.name, type |-> r.type, args |-> a]
  BY <1>1, <1>5, Zenon DEF ParseResponse
<1>8. ParseResponse(t).name = r.name /\ ParseResponse(t).type = r.type /\ ParseResponse(t).args = a
  BY <1>7
<1> QED
  BY <1>3, <1>4, <1>5, <1>6, <1>8

\* The whole of ParseCommand by positions.
LEMMA CommandAgreesIs ==
    ASSUME NEW t \in Seq(CommandSymbol), Len(t) > 2
    PROVE  LET marks == At(t, Marks)
               name  == IF marks = {} THEN t ELSE Before(t, FirstOf(marks))
           IN  /\ ParseCommand(t).type = CommandForm(t)
               /\ ParseCommand(t).name = Without(name, Dropped)
               /\ ParseCommand(t).type = "WRITE" => ParseCommand(t).args = CommandArgs(t)
<1>1. PICK c \in CommandState : c = FoldLeft(CommandStep, CommandStart, t) /\ CommandReads(t, c)
  BY Commands, Zenon
<1>2. PICK S : S = Separators(t)
  OBVIOUS
<1>3. c.tmp = LastValue(t, S) /\ c.args = Values(t, S)
  BY <1>1, <1>2, Zenon DEF CommandReads
<1>4. PICK Q : Q = Seq(Letters \cup {"comma"}) /\ c.args \in Seq(Q) /\ c.tmp \in Q
  BY DEF CommandState
<1>5. Values(t, S) \in Seq(Q) /\ LastValue(t, S) \in Q
  BY <1>3, <1>4
<1>6. CommandArgs(t) = IF LastValue(t, S) = <<>> THEN Values(t, S)
                       ELSE Append(Values(t, S), LastValue(t, S))
  BY <1>2, <1>5, CommandArgsIs
<1> QED
  BY <1>2, <1>6, CommandEndIs

-----------------------------------------------------------------------------
(***************************************************************************)
(* The texts that are written, and what is made of them.                   *)
(***************************************************************************)
Written ==
    /\ side \in {"host", "modem"} /\ Len(text) <= MaxLen
    /\ side = "host" => text \in Seq(CommandSymbol)
    /\ side = "modem" => text \in Seq(ResponseSymbol)

\* A host writes command symbols, a modem answer symbols.
LEMMA WrittenInvariant == Spec => []Written
<1>1. Init => Written
  <2> SUFFICES ASSUME Init PROVE Written
    OBVIOUS
  <2>1. <<>> \in Seq(CommandSymbol) /\ <<>> \in Seq(ResponseSymbol) /\ Len(<<>>) = 0
    BY EmptySeq
  <2>2. 0 <= MaxLen
    BY MaxLenAssumption
  <2> QED
    BY <2>1, <2>2 DEF Init, Written
<1>2. Written /\ [Next]_vars => Written'
  <2> SUFFICES ASSUME Written, [Next]_vars PROVE Written'
    OBVIOUS
  <2>1. ASSUME NEW s \in CommandSymbol, HostTypes(s) PROVE Written'
    <3>1. side = "host" /\ text \in Seq(CommandSymbol) /\ Len(text) < MaxLen
      BY <2>1 DEF HostTypes, Written
    <3>2. text' = Append(text, s) /\ side' = side
      BY <2>1 DEF HostTypes
    <3>3. PICK n \in Nat : n = Len(text)
      BY <3>1, TextIs
    <3>4. Append(text, s) \in Seq(CommandSymbol) /\ Len(Append(text, s)) = n + 1
      BY <3>1, <3>3, Grown
    <3>5. Len(text') <= MaxLen
      BY <3>1, <3>2, <3>3, <3>4, MaxLenAssumption
    <3> QED
      BY <3>1, <3>2, <3>4, <3>5 DEF Written
  <2>2. ASSUME NEW s \in ResponseSymbol, ModemEmits(s) PROVE Written'
    <3>1. side = "modem" /\ text \in Seq(ResponseSymbol) /\ Len(text) < MaxLen
      BY <2>2 DEF ModemEmits, Written
    <3>2. text' = Append(text, s) /\ side' = side
      BY <2>2 DEF ModemEmits
    <3>3. PICK n \in Nat : n = Len(text)
      BY <3>1, TextIs
    <3>4. Append(text, s) \in Seq(ResponseSymbol) /\ Len(Append(text, s)) = n + 1
      BY <3>1, <3>3, Grown
    <3>5. Len(text') <= MaxLen
      BY <3>1, <3>2, <3>3, <3>4, MaxLenAssumption
    <3> QED
      BY <3>1, <3>2, <3>4, <3>5 DEF Written
  <2>3. CASE UNCHANGED vars
    BY <2>3 DEF vars, Written
  <2> QED
    BY <2>1, <2>2, <2>3 DEF Next
<1> QED
  BY <1>1, <1>2, PTL DEF Spec

\* Whatever is written, the parsers yield arguments without the symbols they
\* drop, skip or cut at.
THEOREM Typing == Spec => []TypeOK
<1>1. Written => TypeOK
  <2> SUFFICES ASSUME Written PROVE TypeOK
    OBVIOUS
  <2>1. ASSUME side = "host" PROVE ParseCommand(text).args \in Seq(Seq(Letters \cup {"comma"}))
    <3>1. text \in Seq(CommandSymbol)
      BY <2>1 DEF Written
    <3>2. CASE Len(text) > 2
      BY <3>1, <3>2, CommandEndIs
    <3>3. CASE ~(Len(text) > 2)
      <4>1. ParseCommand(text).args = <<>>
        BY <3>3 DEF ParseCommand, Unparsed
      <4> QED
        BY <4>1, EmptySeq
    <3> QED
      BY <3>2, <3>3
  <2>2. ASSUME side = "modem" PROVE ParseResponse(text).args \in Seq(Seq(Letters \cup {"space"}))
    <3>1. text \in Seq(ResponseSymbol)
      BY <2>2 DEF Written
    <3> QED
      BY <3>1, ResponseEndIs
  <2> QED
    BY <2>1, <2>2 DEF TypeOK, Written
<1> QED
  BY <1>1, WrittenInvariant, PTL

\* The one pass of onDataAvailable over a command finds the name, the type and
\* the arguments that its positions define, for every length and alphabet.
THEOREM CommandParsing == Spec => []CommandAgrees
<1>1. Written => CommandAgrees
  <2> SUFFICES ASSUME Written, side = "host", Len(text) > 2 PROVE CommandAgrees
    BY DEF CommandAgrees
  <2>1. text \in Seq(CommandSymbol)
    BY DEF Written
  <2>2. LET marks == At(text, Marks)
            name  == IF marks = {} THEN text ELSE Before(text, FirstOf(marks))
        IN  /\ ParseCommand(text).type = CommandForm(text)
            /\ ParseCommand(text).name = Without(name, Dropped)
            /\ ParseCommand(text).type = "WRITE" => ParseCommand(text).args = CommandArgs(text)
    BY <2>1, CommandAgreesIs
  <2> QED
    BY <2>2, Zenon DEF CommandAgrees
<1> QED
  BY <1>1, WrittenInvariant, PTL

\* The same of AtResponseParser, for every run of lines and result codes that
\* arrives in one read.
THEOREM ResponseParsing == Spec => []ResponseAgrees
<1>1. Written => ResponseAgrees
  <2> SUFFICES ASSUME Written, side = "modem" PROVE ResponseAgrees
    BY DEF ResponseAgrees
  <2>1. text \in Seq(ResponseSymbol)
    BY DEF Written
  <2>2. /\ ParseResponse(text).name = ResponseName(text)
        /\ ParseResponse(text).type = AnswerType(text)
        /\ ParseResponse(text).args = ResponseArgs(text)
    BY <2>1, ResponseEndIs
  <2> QED
    BY <2>2, Zenon DEF ResponseAgrees, AnswerType
<1> QED
  BY <1>1, WrittenInvariant, PTL

-----------------------------------------------------------------------------
(***************************************************************************)
(* Two reads of one answer.                                                *)
(***************************************************************************)
\* What is visible holds no result code.
LEMMA VisibleIs ==
    ASSUME NEW t \in Seq(ResponseSymbol), NEW code \in Codes
    PROVE  Visible(t) # <<code>>
<1>1. PICK n \in Nat : n = Len(t) /\ DOMAIN t = 1 .. n
  BY TextIs
<1>2. PICK C : C = At(t, Codes) /\ C \subseteq 1 .. n
  BY <1>1, AtIs
<1>3. PICK v \in Seq(ResponseSymbol) : /\ v = IF C = {} THEN t ELSE Before(t, FirstOf(C))
                                       /\ \A i \in 1 .. Len(v) : v[i] \notin Codes
  <2>1. CASE C = {}
    <3>1. \A i \in 1 .. Len(t) : t[i] \notin Codes
      BY <1>1, <1>2, <2>1 DEF At
    <3> QED
      BY <2>1, <3>1
  <2>2. CASE C # {}
    <3>1. PICK f \in 1 .. n : f = FirstOf(C) /\ \A i \in C : f <= i
      BY <1>2, <2>2, FirstIs
    <3>2. f \in 1 .. Len(t) + 1
      BY <1>1
    <3>3. PICK w \in Seq(ResponseSymbol) : w = Before(t, f) /\ Len(w) = f - 1
      BY <3>2, BeforeIs
    <3>4. \A i \in 1 .. f - 1 : w[i] = t[i]
      BY <3>2, <3>3, BeforeIs
    <3>5. ASSUME NEW i \in 1 .. f - 1 PROVE w[i] \notin Codes
      <4>1. i \in 1 .. n /\ i \notin C
        BY <3>1
      <4>2. t[i] \notin Codes
        BY <1>1, <1>2, <4>1 DEF At
      <4> QED
        BY <3>4, <4>2
    <3> QED
      BY <2>2, <3>1, <3>3, <3>5
  <2> QED
    BY <2>1, <2>2
<1>4. v \in Seq(ResponseSymbol \ Codes)
  <2>1. PICK m \in Nat : /\ m = Len(v) /\ DOMAIN v = 1 .. m
                         /\ \A i \in 1 .. m : v[i] \in ResponseSymbol
    BY TextIs
  <2>2. v \in [1 .. m -> ResponseSymbol \ Codes]
    <3>1. v \in [1 .. Len(v) -> ResponseSymbol]
      BY LenProperties
    <3> QED
      BY <1>3, <2>1, <3>1
  <2> QED
    BY <2>2, SeqDef
<1>5. PICK x \in Seq((ResponseSymbol \ Codes) \ {"CR"}) : x = Visible(t)
  BY <1>2, <1>3, <1>4, WithoutIs DEF Visible
<1>6. SUFFICES ASSUME x = <<code>> PROVE FALSE
  BY <1>5
<1>7. 1 \in 1 .. Len(x) /\ x[1] = code
  BY <1>6
<1>8. x[1] \in (ResponseSymbol \ Codes) \ {"CR"}
  BY <1>7, TextIs
<1> QED
  BY <1>7, <1>8

\* Whether a read takes a command depends on its name and its type.
LEMMA TakesIs ==
    ASSUME NEW t \in Seq(ResponseSymbol)
    PROVE  LET taken == \/ \E code \in Codes : ResponseName(t) = <<code>>
                        \/ ResponseName(t) = Ccid /\ AnswerType(t) # "URC"
           IN  Takes(t) = IF taken THEN 1 ELSE 0
<1>1. PICK r : r = ParseResponse(t) /\ r.name = ResponseName(t) /\ r.type = AnswerType(t)
  BY ResponseEndIs
<1>2. t = <<>> => ResponseName(t) = <<>>
  BY AtEmpty DEF ResponseName
<1>3. \A code \in Codes : <<>> # <<code>>
  OBVIOUS
<1>4. <<>> # Ccid
  BY DEF Ccid
<1>5. Takes(t) = IF t # <<>> /\ TakesPending(r) THEN 1 ELSE 0
  BY <1>1, Zenon DEF Takes
<1>6. TakesPending(r) <=> \/ \E code \in Codes : ResponseName(t) = <<code>>
                          \/ ResponseName(t) = Ccid /\ AnswerType(t) # "URC"
  BY <1>1, Zenon DEF TakesPending
<1> QED
  BY <1>2, <1>3, <1>4, <1>5, <1>6, Zenon

\* The head of a text with a colon.
LEMMA HeadIs ==
    ASSUME NEW t \in Seq(ResponseSymbol), At(t, {":"}) # {}
    PROVE  LET head == Before(t, FirstOf(At(t, {":"})))
           IN  After(head, LastOf(At(head, {"comma"}))) \in Seq(ResponseSymbol)
<1>1. PICK n \in Nat : n = Len(t)
  BY TextIs
<1>2. PICK C : C = At(t, {":"}) /\ C \subseteq 1 .. n
  BY <1>1, AtIs
<1>3. PICK f \in 1 .. Len(t) + 1 : f = FirstOf(C)
  <2>1. FirstOf(C) \in 1 .. n
    BY <1>2, FirstIs
  <2> QED
    BY <1>1, <2>1
<1>4. PICK h \in Seq(ResponseSymbol) : h = Before(t, f)
  BY <1>3, BeforeIs
<1>5. PICK l \in 0 .. Len(h) : l = LastOf(At(h, {"comma"}))
  <2>1. Len(h) \in Nat /\ At(h, {"comma"}) \subseteq 1 .. Len(h)
    BY TextIs, AtIs
  <2> QED
    BY <2>1, LastIs
<1>6. After(h, l) \in Seq(ResponseSymbol)
  BY <1>5, AfterIs
<1> QED
  BY <1>2, <1>3, <1>4, <1>5, <1>6

\* A read without a result code takes none.
LEMMA NoCode ==
    ASSUME NEW t \in Seq(ResponseSymbol), At(t, Codes) = {}
    PROVE  Takes(t) = 0
<1>1. At(t, Errors) = {}
  BY DEF At, Codes
<1>2. AnswerType(t) = "URC"
  BY DEF AnswerType
<1>3. ASSUME NEW code \in Codes PROVE ResponseName(t) # <<code>>
  <2>1. CASE At(t, {":"}) = {}
    <3>1. ResponseName(t) = <<>>
      BY <1>1, <2>1 DEF ResponseName
    <3> QED
      BY <3>1
  <2>2. CASE At(t, {":"}) # {}
    <3>1. PICK h : h = Before(t, FirstOf(At(t, {":"})))
      OBVIOUS
    <3>2. ResponseName(t) = Visible(After(h, LastOf(At(h, {"comma"}))))
      BY <1>1, <2>2, <3>1 DEF ResponseName
    <3>3. After(h, LastOf(At(h, {"comma"}))) \in Seq(ResponseSymbol)
      BY <2>2, <3>1, HeadIs
    <3> QED
      BY <3>2, <3>3, VisibleIs
  <2> QED
    BY <2>1, <2>2
<1> QED
  BY <1>2, <1>3, TakesIs

\* A read with a result code takes one, unless it is hidden.
LEMMA WithCode ==
    ASSUME NEW t \in Seq(ResponseSymbol), At(t, Codes) # {}
    PROVE  Takes(t) = IF Hidden(t) THEN 0 ELSE 1
<1>1. PICK n \in Nat : n = Len(t)
  BY TextIs
<1>2. CASE At(t, Errors) # {}
  <2>1. PICK l : l = LastOf(At(t, Errors)) /\ l \in At(t, Errors)
    <3>1. At(t, Errors) \subseteq 1 .. n
      BY <1>1, AtIs
    <3> QED
      BY <1>2, <3>1, LastIs
  <2>2. t[l] \in Codes
    BY <2>1 DEF At, Codes
  <2>3. ResponseName(t) = <<t[l]>>
    BY <1>2, <2>1 DEF ResponseName
  <2>4. Takes(t) = 1
    BY <2>2, <2>3, TakesIs, Zenon
  <2> QED
    BY <1>2, <2>4 DEF Hidden
<1>3. CASE At(t, Errors) = {} /\ At(t, {":"}) # {}
  <2>1. PICK h : h = Before(t, FirstOf(At(t, {":"})))
    OBVIOUS
  <2>2. PICK v : v = Visible(After(h, LastOf(At(h, {"comma"}))))
    OBVIOUS
  <2>3. ResponseName(t) = v
    BY <1>3, <2>1, <2>2 DEF ResponseName
  <2>4. Hidden(t) <=> v # Ccid
    BY <1>3, <2>1, <2>2, Zenon DEF Hidden
  <2>5. \A code \in Codes : v # <<code>>
    <3>1. After(h, LastOf(At(h, {"comma"}))) \in Seq(ResponseSymbol)
      BY <1>3, <2>1, HeadIs
    <3> QED
      BY <2>2, <3>1, VisibleIs
  <2>6. AnswerType(t) # "URC"
    <3>1. At(t, Codes) \subseteq 1 .. n
      BY <1>1, AtIs
    <3>2. PICK l : l = LastOf(At(t, Codes)) /\ l \in At(t, Codes)
      BY <3>1, LastIs
    <3>3. AnswerType(t) \in Codes
      BY <3>2 DEF AnswerType, At
    <3> QED
      BY <3>3 DEF Codes, Errors
  <2> QED
    BY <2>3, <2>4, <2>5, <2>6, TakesIs, Zenon
<1>4. CASE At(t, Errors) = {} /\ At(t, {":"}) = {}
  <2>1. ResponseName(t) = <<"OK">>
    BY <1>4 DEF ResponseName
  <2>2. "OK" \in Codes
    BY DEF Codes
  <2>3. Takes(t) = 1
    BY <2>1, <2>2, TakesIs, Zenon
  <2> QED
    BY <1>4, <2>3 DEF Hidden
<1> QED
  BY <1>2, <1>3, <1>4

\* A cut leaves the one result code in one of the two reads.
LEMMA CutIs ==
    ASSUME NEW t \in Seq(ResponseSymbol), IsAnswer(t), NEW cut \in 0 .. Len(t) - 1
    PROVE  /\ SubSeq(t, 1, cut) \in Seq(ResponseSymbol) /\ After(t, cut) \in Seq(ResponseSymbol)
           /\ At(SubSeq(t, 1, cut), Codes) # {} <=> At(After(t, cut), Codes) = {}
<1>1. PICK n \in Nat : n = Len(t) /\ DOMAIN t = 1 .. n
  BY TextIs
<1>2. PICK C : C = At(t, Codes) /\ C \subseteq 1 .. n
  BY <1>1, AtIs
<1>3. PICK k : C = {k}
  <2>1. IsFiniteSet(C)
    BY <1>2, CardIs
  <2>2. Cardinality(C) = 1
    BY <1>2 DEF IsAnswer
  <2> QED
    BY <2>1, <2>2, FS_Singleton
<1>4. k \in 1 .. n /\ t[k] \in Codes /\ \A i \in 1 .. n : t[i] \in Codes => i = k
  BY <1>1, <1>2, <1>3 DEF At
<1>5. cut \in Nat /\ cut \in 0 .. n /\ cut + 1 \in 1 .. n + 1
  BY <1>1
<1>6. PICK one \in Seq(ResponseSymbol) : /\ one = SubSeq(t, 1, cut) /\ Len(one) = cut
                                        /\ \A i \in 1 .. cut : one[i] = t[i]
  <2>1. cut + 1 \in 1 .. Len(t) + 1 /\ (cut + 1) - 1 = cut
    BY <1>1, <1>5
  <2>2. Before(t, cut + 1) = SubSeq(t, 1, cut)
    BY <2>1 DEF Before
  <2>3. /\ Before(t, cut + 1) \in Seq(ResponseSymbol) /\ Len(Before(t, cut + 1)) = (cut + 1) - 1
        /\ \A i \in 1 .. (cut + 1) - 1 : Before(t, cut + 1)[i] = t[i]
    BY <2>1, BeforeIs, Zenon
  <2> QED
    BY <2>1, <2>2, <2>3
<1>7. PICK two \in Seq(ResponseSymbol) : /\ two = After(t, cut) /\ Len(two) = n - cut
                                        /\ \A i \in 1 .. n - cut : two[i] = t[cut + i]
  <2>1. cut \in 0 .. Len(t)
    BY <1>1, <1>5
  <2>2. /\ After(t, cut) \in Seq(ResponseSymbol) /\ Len(After(t, cut)) = Len(t) - cut
        /\ \A i \in 1 .. Len(t) - cut : After(t, cut)[i] = t[cut + i]
    BY <2>1, AfterIs, Zenon
  <2> QED
    BY <1>1, <2>2
<1>8. DOMAIN one = 1 .. cut /\ DOMAIN two = 1 .. n - cut
  BY <1>6, <1>7, TextIs
<1>9. CASE k <= cut
  <2>1. k \in At(one, Codes)
    BY <1>4, <1>6, <1>8, <1>9 DEF At
  <2>2. At(two, Codes) = {}
    <3> SUFFICES ASSUME NEW i \in At(two, Codes) PROVE FALSE
      OBVIOUS
    <3>1. i \in 1 .. n - cut /\ two[i] \in Codes
      BY <1>8 DEF At
    <3>2. cut + i \in 1 .. n /\ t[cut + i] \in Codes
      BY <1>5, <1>7, <3>1
    <3>3. cut + i = k
      BY <1>4, <3>2
    <3> QED
      BY <1>5, <1>9, <3>1, <3>3
  <2> QED
    BY <1>6, <1>7, <2>1, <2>2
<1>10. CASE ~(k <= cut)
  <2>1. k - cut \in At(two, Codes)
    <3>1. k - cut \in 1 .. n - cut /\ cut + (k - cut) = k
      BY <1>4, <1>5, <1>10
    <3>2. two[k - cut] = t[k]
      BY <1>7, <3>1
    <3> QED
      BY <1>4, <1>8, <3>1, <3>2 DEF At
  <2>2. At(one, Codes) = {}
    <3> SUFFICES ASSUME NEW i \in At(one, Codes) PROVE FALSE
      OBVIOUS
    <3>1. i \in 1 .. cut /\ one[i] \in Codes
      BY <1>8 DEF At
    <3>2. i \in 1 .. n /\ t[i] \in Codes
      BY <1>5, <1>6, <3>1
    <3>3. i = k
      BY <1>4, <3>2
    <3> QED
      BY <1>5, <1>10, <3>1, <3>3
  <2> QED
    BY <1>6, <1>7, <2>1, <2>2
<1> QED
  BY <1>9, <1>10

\* However the transport cuts an answer, it completes one pending command, and
\* none only if its OK is hidden behind an information line.
THEOREM OneCompletion == Spec => []AnswerTakesOne
<1>1. Written => AnswerTakesOne
  <2> SUFFICES ASSUME Written, side = "modem", IsAnswer(text), NEW cut \in 0 .. Len(text) - 1
               PROVE  LET one   == SubSeq(text, 1, cut)
                          two   == After(text, cut)
                          final == IF At(one, Codes) # {} THEN one ELSE two
                      IN  Takes(one) + Takes(two) = IF Hidden(final) THEN 0 ELSE 1
    BY DEF AnswerTakesOne
  <2>1. text \in Seq(ResponseSymbol)
    BY DEF Written
  <2>2. PICK one \in Seq(ResponseSymbol), two \in Seq(ResponseSymbol) :
            /\ one = SubSeq(text, 1, cut) /\ two = After(text, cut)
            /\ At(one, Codes) # {} <=> At(two, Codes) = {}
    BY <2>1, CutIs
  <2>3. CASE At(one, Codes) # {}
    <3>1. Takes(two) = 0 /\ Takes(one) = IF Hidden(one) THEN 0 ELSE 1
      BY <2>2, <2>3, NoCode, WithCode
    <3> QED
      BY <2>2, <2>3, <3>1
  <2>4. CASE At(one, Codes) = {}
    <3>1. Takes(one) = 0 /\ Takes(two) = IF Hidden(two) THEN 0 ELSE 1
      BY <2>2, <2>4, NoCode, WithCode
    <3> QED
      BY <2>2, <2>4, <3>1
  <2> QED
    BY <2>3, <2>4
<1> QED
  BY <1>1, WrittenInvariant, PTL
=============================================================================
