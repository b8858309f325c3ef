------------------------- MODULE PersistenceProofs -------------------------
(***************************************************************************)
(* Theorems about Persistence, for every text the host may pass and every  *)
(* garbage behind the file: what is scanned back from a file that begins   *)
(* with a printed record is that record, and so a record that was stored   *)
(* in full comes back.                                                     *)
(***************************************************************************)
EXTENDS Persistence, SequenceTheorems, WellFoundedInduction, TLAPS

Fields  == {"cid", "apn", "pdpType", "auth", "name", "pwd"}
Context == [cid : Text, apn : Text, pdpType : Text, auth : Text, name : Text, pwd : Text]

Digits(t) == t # Empty /\ \A i \in DOMAIN t : IsDigit(t[i])
-----------------------------------------------------------------------------
(***************************************************************************)
(* Pieces of text.                                                         *)
(***************************************************************************)
LEMMA MinIs ==
    ASSUME NEW T, T \subseteq Nat, T # {}
    PROVE  Min(T) \in T /\ \A y \in T : Min(T) <= y
<1>1. PICK x \in T : \A y \in T : ~(<<y, x>> \in OpToRel(<, Nat))
  BY WFMin, NatLessThanWellFounded
<1>2. ASSUME NEW y \in T PROVE x <= y
  <2>1. x \in Nat /\ y \in Nat
    OBVIOUS
  <2>2. ~(y < x)
    BY <1>1, <2>1 DEF OpToRel
  <2> QED
    BY <2>1, <2>2
<1> QED
  BY <1>1, <1>2 DEF Min

LEMMA TextIs ==
    ASSUME NEW t \in Text
    PROVE  /\ Len(t) \in Nat /\ DOMAIN t = 1 .. Len(t)
           /\ t = Empty <=> Len(t) = 0
           /\ \A i \in 1 .. Len(t) : t[i] \in Char
<1>1. Len(t) \in Nat /\ DOMAIN t = 1 .. Len(t) /\ \A i \in 1 .. Len(t) : t[i] \in Char
  BY LenProperties, ElementOfSeq DEF Text
<1>2. t = Empty <=> Len(t) = 0
  BY EmptySeq DEF Text, Empty
<1> QED
  BY <1>1, <1>2

LEMMA RunIs ==
    ASSUME NEW t \in Text, NEW stops \in SUBSET DOMAIN t
    PROVE  /\ RunLength(t, stops) \in 0 .. Len(t)
           /\ \A i \in 1 .. RunLength(t, stops) : i \in DOMAIN t \ stops
           /\ \A n \in 0 .. Len(t) :
                 (\A i \in 1 .. n : i \notin stops) /\ (n = Len(t) \/ n + 1 \in stops)
                    => RunLength(t, stops) = n
<1>1. PICK l \in Nat : l = Len(t)
  BY TextIs
<1>2. stops \subseteq 1 .. l /\ DOMAIN t = 1 .. l
  BY <1>1, TextIs
<1>3. PICK k : k = RunLength(t, stops)
  OBVIOUS
<1> SUFFICES /\ k \in 0 .. l /\ \A i \in 1 .. k : i \in (1 .. l) \ stops
             /\ \A n \in 0 .. l :
                   (\A i \in 1 .. n : i \notin stops) /\ (n = l \/ n + 1 \in stops) => k = n
  BY <1>1, <1>2, <1>3
<1>4. CASE stops = {}
  <2>1. k = l
    BY <1>1, <1>3, <1>4 DEF RunLength
  <2> QED
    BY <1>4, <2>1
<1>5. CASE stops # {}
  <2>1. stops \subseteq Nat
    BY <1>2
  <2>2. PICK m \in stops : Min(stops) = m /\ \A y \in stops : m <= y
    BY <1>5, <2>1, MinIs
  <2>3. k = m - 1
    BY <1>3, <1>5, <2>2 DEF RunLength
  <2>4. m \in 1 .. l
    BY <1>2
  <2>5. ASSUME NEW i \in 1 .. m - 1 PROVE i \in (1 .. l) \ stops
    BY <2>2, <2>4
  <2>6. ASSUME NEW n \in 0 .. l, \A i \in 1 .. n : i \notin stops, n = l \/ n + 1 \in stops
        PROVE  m - 1 = n
    <3>1. ~(m <= n)
      BY <2>4, <2>6
    <3>2. n + 1 \in stops
      BY <2>4, <2>6, <3>1
    <3>3. m <= n + 1
      BY <2>2, <3>2
    <3> QED
      BY <2>4, <3>1, <3>3
  <2> QED
    BY <2>3, <2>4, <2>5, <2>6
<1> QED
  BY <1>4, <1>5

LEMMA DropIs ==
    ASSUME NEW t \in Text, NEW n \in Nat
    PROVE  /\ Drop(t, n) \in Text
           /\ Len(Drop(t, n)) = IF n <= Len(t) THEN Len(t) - n ELSE 0
           /\ \A i \in 1 .. Len(t) - n : Drop(t, n)[i] = t[n + i]
<1>1. PICK l \in Nat : l = Len(t)
  BY TextIs
<1>2. PICK m \in Nat : m = n + 1
  OBVIOUS
<1>3. \A i \in m .. l : t[i] \in Char
  BY <1>1, <1>2, TextIs
<1>4. PICK d : d = SubSeq(t, m, l)
  OBVIOUS
<1>5. /\ d \in Seq(Char) /\ Len(d) = IF m <= l THEN l - m + 1 ELSE 0
      /\ \A i \in 1 .. l - m + 1 : d[i] = t[m + i - 1]
  BY <1>3, <1>4, SubSeqProperties
<1>6. Len(d) = IF n <= l THEN l - n ELSE 0
  <2>1. PICK k : k = Len(d)
    OBVIOUS
  <2>2. k = IF m <= l THEN l - m + 1 ELSE 0
    BY <1>5, <2>1
  <2>3. k = IF n <= l THEN l - n ELSE 0
    BY <1>2, <2>2
  <2> QED
    BY <2>1, <2>3
<1>7. ASSUME NEW i \in 1 .. l - n PROVE d[i] = t[n + i]
  <2>1. i \in 1 .. l - m + 1 /\ m + i - 1 = n + i
    BY <1>1, <1>2
  <2> QED
    BY <1>5, <2>1
<1>8. d = Drop(t, n)
  BY <1>1, <1>2, <1>4 DEF Drop
<1> QED
  BY <1>1, <1>5, <1>6, <1>7, <1>8 DEF Text

LEMMA BeginIs ==
    ASSUME NEW t \in Text, NEW n \in 0 .. Len(t)
    PROVE  /\ SubSeq(t, 1, n) \in Text /\ Len(SubSeq(t, 1, n)) = n
           /\ \A i \in 1 .. n : SubSeq(t, 1, n)[i] = t[i]
<1>1. Len(t) \in Nat /\ \A i \in 1 .. n : t[i] \in Char
  BY TextIs
<1>2. PICK b : b = SubSeq(t, 1, n)
  OBVIOUS
<1>3. /\ b \in Seq(Char) /\ Len(b) = IF 1 <= n THEN n - 1 + 1 ELSE 0
      /\ \A i \in 1 .. n - 1 + 1 : b[i] = t[1 + i - 1]
  BY <1>1, <1>2, SubSeqProperties
<1>4. Len(b) = n /\ \A i \in 1 .. n : b[i] = t[i]
  BY <1>1, <1>3
<1> QED
  BY <1>2, <1>3, <1>4 DEF Text

LEMMA CatIs ==
    ASSUME NEW a \in Text, NEW b \in Text
    PROVE  /\ a \o b \in Text /\ Len(a \o b) = Len(a) + Len(b)
           /\ \A i \in 1 .. Len(a) : (a \o b)[i] = a[i]
           /\ \A i \in 1 .. Len(b) : (a \o b)[Len(a) + i] = b[i]
<1>1. Len(a) \in Nat /\ Len(b) \in Nat
  BY TextIs
<1>2. PICK c : c = a \o b
  OBVIOUS
<1>3. /\ c \in Seq(Char) /\ Len(c) = Len(a) + Len(b)
      /\ \A i \in 1 .. Len(a) + Len(b) : c[i] = IF i <= Len(a) THEN a[i] ELSE b[i - Len(a)]
  BY <1>2, ConcatProperties DEF Text
<1>4. \A i \in 1 .. Len(a) : c[i] = a[i]
  BY <1>1, <1>3
<1>5. \A i \in 1 .. Len(b) : c[Len(a) + i] = b[i]
  BY <1>1, <1>3
<1> QED
  BY <1>2, <1>3, <1>4, <1>5 DEF Text

LEMMA StartsAs ==
    ASSUME NEW a \in Text, NEW b \in Text, a # Empty
    PROVE  a \o b # Empty /\ (a \o b)[1] = a[1]
<1>1. PICK k \in Nat, m \in Nat : k = Len(a) /\ m = Len(b) /\ k # 0
  BY TextIs
<1>2. PICK c \in Text : c = a \o b
  BY CatIs
<1>3. PICK n \in Nat : n = Len(c)
  BY <1>2, TextIs
<1>4. n = k + m /\ \A i \in 1 .. k : c[i] = a[i]
  BY <1>1, <1>2, <1>3, CatIs
<1>5. 1 \in 1 .. k /\ n # 0
  BY <1>1, <1>4
<1> QED
  BY <1>2, <1>3, <1>4, <1>5, TextIs

LEMMA CatAssociates ==
    ASSUME NEW a \in Text, NEW b \in Text, NEW c \in Text
    PROVE  (a \o b) \o c = a \o (b \o c)
BY ConcatAssociative DEF Text

\* A text taken apart where it was put together.
LEMMA Apart ==
    ASSUME NEW a \in Text, NEW b \in Text
    PROVE  /\ Drop(a \o b, Len(a)) = b
           /\ SubSeq(a \o b, 1, Len(a)) = a
           /\ IsPrefix(a, a \o b)
<1>1. Len(a) \in Nat /\ Len(b) \in Nat
  BY TextIs
<1>2. PICK c \in Text : c = a \o b
  BY CatIs
<1>3. /\ Len(c) = Len(a) + Len(b)
      /\ \A i \in 1 .. Len(a) : c[i] = a[i]
      /\ \A i \in 1 .. Len(b) : c[Len(a) + i] = b[i]
  BY <1>2, CatIs
<1>4. Drop(c, Len(a)) = b
  <2>1. PICK d \in Text : d = Drop(c, Len(a))
    BY <1>1, DropIs
  <2>2. Len(d) = Len(b) /\ \A i \in 1 .. Len(c) - Len(a) : d[i] = c[Len(a) + i]
    <3>1. PICK k \in Nat, l \in Nat : k = Len(a) /\ l = Len(b)
      BY <1>1
    <3>2. k <= k + l /\ (k + l) - k = l
      BY <3>1
    <3>3. Len(d) = l /\ \A i \in 1 .. Len(c) - k : d[i] = c[k + i]
      BY <1>3, <2>1, <3>1, <3>2, DropIs
    <3> QED
      BY <3>1, <3>3
  <2>3. \A i \in 1 .. Len(d) : d[i] = b[i]
    BY <1>1, <1>3, <2>2
  <2> QED
    BY <2>1, <2>2, <2>3, SeqEqual DEF Text
<1>5. SubSeq(c, 1, Len(a)) = a
  <2>1. Len(a) \in 0 .. Len(c)
    BY <1>1, <1>3
  <2>2. PICK d \in Text : /\ d = SubSeq(c, 1, Len(a)) /\ Len(d) = Len(a)
                          /\ \A i \in 1 .. Len(a) : d[i] = c[i]
    BY <2>1, BeginIs
  <2>3. \A i \in 1 .. Len(d) : d[i] = a[i]
    BY <1>3, <2>2
  <2> QED
    BY <2>2, <2>3, SeqEqual DEF Text
<1>6. IsPrefix(a, c)
  <2>1. SubSeq(a, 1, Len(a)) = a
    BY SubSeqFull DEF Text
  <2>2. Len(a) <= Len(c)
    BY <1>1, <1>3
  <2> QED
    BY <1>5, <2>1, <2>2 DEF IsPrefix
<1> QED
  BY <1>2, <1>4, <1>5, <1>6

LEMMA SpaceIs == Space \in Text /\ Len(Space) = 1 /\ Space # Empty
<1>1. Space \in Text
  BY TextsAssumption
<1>2. Len(Space) = 1
  BY DEF Space
<1> QED
  BY <1>1, <1>2, TextIs

\* A run ends where a piece without a stop meets one that begins with a stop.
LEMMA RunOver ==
    ASSUME NEW a \in Text, NEW b \in Text, NEW stops \in SUBSET DOMAIN (a \o b),
           \A i \in 1 .. Len(a) : i \notin stops, Len(a) + 1 \in stops
    PROVE  RunLength(a \o b, stops) = Len(a)
<1>1. a \o b \in Text /\ Len(a \o b) = Len(a) + Len(b) /\ Len(a) \in Nat /\ Len(b) \in Nat
  BY CatIs, TextIs
<1>2. Len(a) \in 0 .. Len(a \o b)
  BY <1>1
<1> QED
  BY <1>1, <1>2, RunIs

LEMMA UnspacedIs ==
    ASSUME NEW b \in Text, b # Empty, b[1] # Space[1]
    PROVE  Unspaced(b) = b /\ Unspaced(Space \o b) = b
<1>1. Len(b) \in Nat /\ Len(b) >= 1 /\ DOMAIN b = 1 .. Len(b)
  BY TextIs
<1>2. Unspaced(b) = b
  <2>1. NonSpaces(b) \in SUBSET DOMAIN b /\ 1 \in NonSpaces(b)
    BY <1>1 DEF NonSpaces
  <2>2. 0 \in 0 .. Len(b)
    BY <1>1
  <2>3. RunLength(b, NonSpaces(b)) = 0
    BY <2>1, <2>2, RunIs
  <2>4. Drop(b, 0) = b
    BY SubSeqFull DEF Drop, Text
  <2> QED
    BY <2>3, <2>4 DEF Unspaced
<1>3. Unspaced(Space \o b) = b
  <2>1. PICK c \in Text : c = Space \o b
    BY SpaceIs, CatIs
  <2>2. /\ Len(c) = 1 + Len(b) /\ DOMAIN c = 1 .. Len(c) /\ c[1] = Space[1] /\ c[1 + 1] = b[1]
    <3>1. 1 \in 1 .. Len(b) /\ 1 \in 1 .. 1
      BY <1>1
    <3>2. /\ Len(Space \o b) = Len(Space) + Len(b)
          /\ \A i \in 1 .. Len(Space) : (Space \o b)[i] = Space[i]
          /\ \A i \in 1 .. Len(b) : (Space \o b)[Len(Space) + i] = b[i]
      BY SpaceIs, CatIs
    <3>3. c[1] = Space[1] /\ c[1 + 1] = b[1]
      BY <2>1, <3>1, <3>2, SpaceIs
    <3>4. Len(c) = 1 + Len(b)
      BY <2>1, <3>2, SpaceIs
    <3> QED
      BY <2>1, <3>3, <3>4, TextIs
  <2>3. /\ NonSpaces(c) \in SUBSET DOMAIN c
        /\ \A i \in 1 .. 1 : i \notin NonSpaces(c)
        /\ 1 + 1 \in NonSpaces(c)
    BY <1>1, <2>2 DEF NonSpaces
  <2>4. RunLength(c, NonSpaces(c)) = 1
    BY <2>1, <2>3, SpaceIs, RunOver
  <2>5. Drop(c, 1) = b
    <3>1. Drop(Space \o b, Len(Space)) = b
      BY SpaceIs, Apart
    <3> QED
      BY <2>1, <3>1, SpaceIs
  <2> QED
    BY <2>1, <2>4, <2>5 DEF Unspaced
<1> QED
  BY <1>2, <1>3
-----------------------------------------------------------------------------
(***************************************************************************)
(* One field, printed and scanned.                                         *)
(***************************************************************************)
\* One value more.
Grows(v, w, x) ==
    /\ w \in Seq(Text) /\ Len(w) = Len(v) + 1 /\ w[Len(v) + 1] = x
    /\ \A i \in 1 .. Len(v) : w[i] = v[i]

LEMMA AppendGrows ==
    ASSUME NEW v \in Seq(Text), NEW x \in Text
    PROVE  Grows(v, Append(v, x), x)
BY AppendProperties DEF Grows

LEMMA FieldNames ==
    /\ "cid" \in Fields /\ "apn" \in Fields /\ "pdpType" \in Fields
    /\ "auth" \in Fields /\ "name" \in Fields /\ "pwd" \in Fields
BY DEF Fields

LEMMA LabelIs ==
    ASSUME NEW f \in Fields
    PROVE  Label[f] \in Text /\ Label[f] # Empty /\ Label[f][1] # Space[1]
<1>1. DOMAIN Label = Fields
  BY DEF Label, Fields
<1>2. Label[f] \in Text
  BY <1>1, TextsAssumption
<1>3. PICK w \in {"cid", "apn", "pdptype", "auth", "name", "pwd"}, n \in 4 .. 8 : Label[f] = Word(w, n)
  BY DEF Label, Fields
<1>4. Word(w, n)[1] = <<w, 1>> /\ Len(Word(w, n)) = n
  BY DEF Word
<1>5. <<w, 1>> # Space[1] /\ n # 0
  BY DEF Space
<1>6. Label[f][1] # Space[1] /\ Len(Label[f]) # 0
  BY <1>3, <1>4, <1>5
<1> QED
  BY <1>2, <1>6, TextIs

Value(f, v) == IF f \in Numeric THEN Digits(v) ELSE Plain(v)

LEMMA SpaceIsNoDigit == ~IsDigit(Space[1])
<1>1. ASSUME NEW t \in Cids \cup AuthModes PROVE Space[1] \notin ToSet(t)
  BY NumbersAssumption DEF Plain, ToSet
<1>2. Space[1] \notin ToSet(NoCid) /\ Space[1] \notin ToSet(AuthDisabled)
  BY DEF NoCid, AuthDisabled, Word, Space, ToSet
<1> QED
  BY <1>1, <1>2 DEF IsDigit

LEMMA ValueIs ==
    ASSUME NEW f, NEW v \in Text, Value(f, v)
    PROVE  v # Empty /\ \A i \in DOMAIN v : v[i] # Space[1]
BY SpaceIsNoDigit DEF Value, Digits, Plain

LEMMA FieldOver ==
    ASSUME NEW c \in Context, NEW f \in Fields, NEW r \in Text
    PROVE  /\ Field(c, f) \in Text
           /\ Field(c, f) \o r = Label[f] \o (c[f] \o (Space \o r))
<1>1. \A a \in Text : (a \o Space) \o r = a \o (Space \o r)
  BY SpaceIs, CatAssociates
<1>2. PICK e \in Text : e = Space \o r
  BY SpaceIs, CatIs
<1>3. PICK v \in Text, l \in Text : v = c[f] /\ l = Label[f]
  BY LabelIs DEF Context, Fields
<1>4. l \o v \in Text /\ (l \o v) \o e = l \o (v \o e)
  BY CatIs, CatAssociates
<1>5. (l \o v) \o Space \in Text
  BY <1>4, SpaceIs, CatIs
<1>6. ((l \o v) \o Space) \o r = l \o (v \o e)
  BY <1>1, <1>2, <1>4
<1> QED
  BY <1>2, <1>3, <1>5, <1>6 DEF Field
-----------------------------------------------------------------------------
(***************************************************************************)
(* The record, printed and scanned.                                        *)
(***************************************************************************)
\* What is behind a field is behind the field and what follows it.
LEMMA FieldFirst ==
    ASSUME NEW c \in Context, NEW r \in Text
    PROVE  \A k \in Fields, p \in Text :
              \E q \in Text : q = Field(c, k) \o p /\ q \o r = Field(c, k) \o (p \o r)
<1> TAKE k \in Fields, p \in Text
<1>1. Field(c, k) \in Text
  BY FieldOver
<1>2. \A a \in Text : (a \o p) \o r = a \o (p \o r)
  BY CatAssociates
<1>3. \A a \in Text : a \o p \in Text
  BY CatIs
<1> QED
  BY <1>1, <1>2, <1>3

LEMMA FieldIsSome ==
    ASSUME NEW c \in Context, NEW k \in Fields, NEW p \in Text
    PROVE  Field(c, k) \o p # Empty
<1>1. PICK l \in Text : l = Label[k] /\ l # Empty
  BY LabelIs
<1>2. PICK v \in Text : v = c[k] \o (Space \o p)
  <2>1. c[k] \in Text
    BY DEF Fields, Context
  <2>2. Space \o p \in Text
    BY SpaceIs, CatIs
  <2> QED
    BY <2>1, <2>2, CatIs
<1>3. l \o v # Empty
  BY <1>1, StartsAs
<1>4. Field(c, k) \o p = Label[k] \o (c[k] \o (Space \o p))
  BY FieldOver
<1> QED
  BY <1>1, <1>2, <1>3, <1>4

LEMMA PrintedOver ==
    ASSUME NEW c \in Context, NEW r \in Text
    PROVE  /\ Printed(c) \in Text /\ Printed(c) # Empty
           /\ Printed(c) \o r =
                 Field(c, "cid") \o (Field(c, "apn") \o (Field(c, "pdpType") \o
                    (Field(c, "auth") \o (Field(c, "name") \o (Field(c, "pwd") \o r)))))
<1>1. \A k \in Fields, p \in Text :
         \E q \in Text : q = Field(c, k) \o p /\ q \o r = Field(c, k) \o (p \o r)
  BY FieldFirst
<1>2. \A k \in Fields, p \in Text : Field(c, k) \o p # Empty
  BY FieldIsSome
<1>3. PICK k1 \in Fields, k2 \in Fields, k3 \in Fields, k4 \in Fields, k5 \in Fields, k6 \in Fields :
         /\ k1 = "cid" /\ k2 = "apn" /\ k3 = "pdpType" /\ k4 = "auth" /\ k5 = "name" /\ k6 = "pwd"
  BY FieldNames
<1>4. PICK p6 \in Text : p6 = Field(c, k6)
  BY FieldOver
<1>5. PICK p5 \in Text : p5 = Field(c, k5) \o p6 /\ p5 \o r = Field(c, k5) \o (p6 \o r)
  BY <1>1
<1>6. PICK p4 \in Text : p4 = Field(c, k4) \o p5 /\ p4 \o r = Field(c, k4) \o (p5 \o r)
  BY <1>1
<1>7. PICK p3 \in Text : p3 = Field(c, k3) \o p4 /\ p3 \o r = Field(c, k3) \o (p4 \o r)
  BY <1>1
<1>8. PICK p2 \in Text : p2 = Field(c, k2) \o p3 /\ p2 \o r = Field(c, k2) \o (p3 \o r)
  BY <1>1
<1>9. PICK p1 \in Text : p1 = Field(c, k1) \o p2 /\ p1 \o r = Field(c, k1) \o (p2 \o r)
  BY <1>1
<1>10. p1 # Empty
  BY <1>2, <1>9
<1>11. Printed(c) = p1
  BY <1>3, <1>4, <1>5, <1>6, <1>7, <1>8, <1>9 DEF Printed
<1>12. p1 \o r = Field(c, k1) \o (Field(c, k2) \o (Field(c, k3) \o
                    (Field(c, k4) \o (Field(c, k5) \o (Field(c, k6) \o r)))))
  BY <1>4, <1>5, <1>6, <1>7, <1>8, <1>9
<1> QED
  BY <1>3, <1>10, <1>11, <1>12

Recorded(c) ==
    /\ Digits(c.cid) /\ Plain(c.apn) /\ Plain(c.pdpType) /\ Digits(c.auth)

Live == [rest : Text, values : Seq(Text), failed : {FALSE}]

\* One field of a record scanned where the record begins or the last one ended.
LEMMA ScanPrinted ==
    ASSUME NEW c \in Context
    PROVE  \A k \in Fields, t \in Text, s \in Live :
              Value(k, c[k]) /\ (s.rest = Field(c, k) \o t \/ s.rest = Space \o (Field(c, k) \o t)) =>
                 \E u \in Live : u = ScanField(s, k) /\ u.rest = Space \o t /\ Grows(s.values, u.values, c[k])
<1> SUFFICES
      ASSUME NEW f \in Fields, NEW r \in Text, NEW s \in Live, Value(f, c[f]),
             s.rest = Field(c, f) \o r \/ s.rest = Space \o (Field(c, f) \o r)
      PROVE  \E u \in Live : u = ScanField(s, f) /\ u.rest = Space \o r /\ Grows(s.values, u.values, c[f])
  OBVIOUS
<1>0. PICK v \in Text : v = c[f] /\ Value(f, v)
  BY DEF Context, Fields
<1>1. Label[f] \in Text /\ Label[f] # Empty /\ Label[f][1] # Space[1]
  BY LabelIs
<1>2. PICK e \in Text : e = Space \o r
  BY SpaceIs, CatIs
<1>3. PICK d \in Text : d = v \o e
  BY CatIs
<1>4. PICK b \in Text : b = Label[f] \o d
  BY <1>1, CatIs
<1>5. v # Empty /\ v[1] # Space[1]
  <2>1. Len(v) \in Nat /\ Len(v) # 0 /\ DOMAIN v = 1 .. Len(v)
    BY <1>0, ValueIs, TextIs
  <2>2. 1 \in 1 .. Len(v)
    BY <2>1
  <2> QED
    BY <1>0, <2>1, <2>2, ValueIs
<1>6. Unspaced(s.rest) = b
  <2>1. b # Empty /\ b[1] # Space[1]
    BY <1>1, <1>4, StartsAs
  <2>2. s.rest = b \/ s.rest = Space \o b
    BY <1>0, <1>2, <1>3, <1>4, FieldOver
  <2> QED
    BY <2>1, <2>2, UnspacedIs
<1>7. IsPrefix(Label[f], b) /\ Drop(b, Len(Label[f])) = d
  BY <1>1, <1>4, Apart
<1>8. Behind(s.rest, f) = d
  <2>1. d # Empty /\ d[1] # Space[1]
    BY <1>3, <1>5, StartsAs
  <2> QED
    BY <1>6, <1>7, <2>1, UnspacedIs DEF Behind
<1>9. Width(d, f) = Len(v) /\ Len(v) # 0
  <2>1. PICK stops : stops = IF f \in Numeric THEN NonDigits(d) ELSE Spaces(d)
    OBVIOUS
  <2>2. PICK k \in Nat, m \in Nat, n \in Nat : k = Len(v) /\ m = Len(e) /\ n = Len(d)
    BY TextIs
  <2>3. n = k + m /\ k # 0 /\ m # 0
    <3>1. k # 0
      BY <1>5, <2>2, TextIs
    <3>2. m # 0
      BY <1>2, <2>2, SpaceIs, StartsAs, TextIs
    <3>3. n = k + m
      BY <1>3, <2>2, CatIs
    <3> QED
      BY <3>1, <3>2, <3>3
  <2>4. DOMAIN d = 1 .. n /\ DOMAIN v = 1 .. k
    BY <2>2, TextIs
  <2>5. (\A i \in 1 .. k : d[i] = v[i]) /\ \A i \in 1 .. m : d[k + i] = e[i]
    BY <1>3, <2>2, CatIs
  <2>6. e[1] = Space[1]
    BY <1>2, SpaceIs, StartsAs
  <2>7. 1 \in 1 .. m /\ k + 1 \in 1 .. n /\ \A i \in 1 .. k : i \in 1 .. n
    BY <2>3
  <2>8. stops \in SUBSET DOMAIN d
    BY <2>1 DEF NonDigits, Spaces
  <2>9. k + 1 \in stops
    <3>1. k + 1 \in DOMAIN d /\ d[k + 1] = Space[1]
      BY <2>4, <2>5, <2>6, <2>7
    <3> QED
      BY <2>1, <3>1, SpaceIsNoDigit DEF NonDigits, Spaces
  <2>10. ASSUME NEW i \in 1 .. k PROVE i \notin stops
    <3>1. i \in DOMAIN v /\ d[i] = v[i]
      BY <2>4, <2>5
    <3>2. f \notin Numeric => d[i] # Space[1]
      BY <1>0, <3>1, ValueIs
    <3>3. f \in Numeric => IsDigit(d[i])
      BY <1>0, <3>1 DEF Value, Digits
    <3> QED
      BY <2>1, <3>2, <3>3 DEF NonDigits, Spaces
  <2>11. RunLength(d, stops) = Len(v)
    BY <1>3, <2>2, <2>8, <2>9, <2>10, RunOver
  <2>12. Width(d, f) = RunLength(d, stops)
    BY <2>1 DEF Width
  <2> QED
    BY <2>2, <2>3, <2>11, <2>12
<1>10. Drop(d, Len(v)) = e /\ SubSeq(d, 1, Len(v)) = v
  BY <1>3, Apart
<1>11. ~s.failed /\ Matches(s.rest, f)
  BY <1>6, <1>7, <1>8, <1>9 DEF Matches, Live
<1>12. ScanField(s, f) = Take(s, d, Len(v))
  BY <1>8, <1>9, <1>11 DEF ScanField
<1>13. Take(s, d, Len(v)) = [rest |-> e, values |-> Append(s.values, v), failed |-> FALSE]
  BY <1>10 DEF Take
<1>14. s.values \in Seq(Text)
  BY DEF Live
<1>15. PICK w \in Seq(Text) : w = Append(s.values, v) /\ Grows(s.values, w, v)
  BY <1>14, AppendProperties, AppendGrows
<1>16. [rest |-> e, values |-> w, failed |-> FALSE] \in Live
  BY DEF Live
<1> QED
  BY <1>0, <1>2, <1>12, <1>13, <1>15, <1>16

\* The values of the four fields every record has.
Begins(v, c) ==
    Len(v) >= 4 /\ v[1] = c.cid /\ v[2] = c.apn /\ v[3] = c.pdpType /\ v[4] = c.auth

\* A text that begins with a printed record is scanned back into it.
LEMMA ScansBack ==
    ASSUME NEW c \in Context, Recorded(c), NEW r \in Text
    PROVE  /\ Begins(Four(Printed(c) \o r).values, c) /\ ~Four(Printed(c) \o r).failed
           /\ Plain(c.name) /\ Plain(c.pwd) =>
                 LET v == Scanned(Printed(c) \o r)
                 IN  Begins(v, c) /\ Len(v) = 6 /\ v[5] = c.name /\ v[6] = c.pwd
<1>1. c \in Context
  OBVIOUS
<1>2. PICK k1 \in Fields, k2 \in Fields, k3 \in Fields, k4 \in Fields, k5 \in Fields, k6 \in Fields :
         /\ k1 = "cid" /\ k2 = "apn" /\ k3 = "pdpType" /\ k4 = "auth" /\ k5 = "name" /\ k6 = "pwd"
  BY FieldNames
<1>3. \A k \in Fields, t \in Text : \E q \in Text : q = Field(c, k) \o t
  BY <1>1, FieldOver, CatIs
<1>4. \A k \in Fields, t \in Text, s \in Live :
         Value(k, c[k]) /\ (s.rest = Field(c, k) \o t \/ s.rest = Space \o (Field(c, k) \o t)) =>
            \E u \in Live : u = ScanField(s, k) /\ u.rest = Space \o t /\ Grows(s.values, u.values, c[k])
  BY ScanPrinted
<1>5. Value(k1, c[k1]) /\ Value(k2, c[k2]) /\ Value(k3, c[k3]) /\ Value(k4, c[k4])
  BY <1>2 DEF Value, Numeric, Recorded
<1>6. PICK b6 \in Text : b6 = Field(c, k6) \o r
  BY <1>3
<1>7. PICK b5 \in Text : b5 = Field(c, k5) \o b6
  BY <1>3
<1>8. PICK b4 \in Text : b4 = Field(c, k4) \o b5
  BY <1>3
<1>9. PICK b3 \in Text : b3 = Field(c, k3) \o b4
  BY <1>3
<1>10. PICK b2 \in Text : b2 = Field(c, k2) \o b3
  BY <1>3
<1>11. PICK b1 \in Text : b1 = Field(c, k1) \o b2
  BY <1>3
<1>12. Printed(c) \o r = b1
  <2>1. Printed(c) \o r = Field(c, k1) \o (Field(c, k2) \o (Field(c, k3) \o
                         (Field(c, k4) \o (Field(c, k5) \o (Field(c, k6) \o r)))))
    BY <1>2, PrintedOver
  <2> QED
    BY <1>6, <1>7, <1>8, <1>9, <1>10, <1>11, <2>1
<1>13. PICK s0 \in Live : s0 = Scan(b1) /\ s0.rest = b1 /\ Len(s0.values) = 0
  <2>1. PICK e \in Seq(Text) : e = <<>> /\ Len(e) = 0
    BY EmptySeq
  <2>2. Scan(b1) = [rest |-> b1, values |-> e, failed |-> FALSE]
    BY <2>1, Zenon DEF Scan
  <2>3. [rest |-> b1, values |-> e, failed |-> FALSE] \in Live
    BY DEF Live
  <2> QED
    BY <2>1, <2>2, <2>3
<1>14. PICK s1 \in Live : s1 = ScanField(s0, k1) /\ s1.rest = Space \o b2 /\ Grows(s0.values, s1.values, c[k1])
  BY <1>4, <1>5, <1>11, <1>13
<1>15. PICK s2 \in Live : s2 = ScanField(s1, k2) /\ s2.rest = Space \o b3 /\ Grows(s1.values, s2.values, c[k2])
  BY <1>4, <1>5, <1>10, <1>14
<1>16. PICK s3 \in Live : s3 = ScanField(s2, k3) /\ s3.rest = Space \o b4 /\ Grows(s2.values, s3.values, c[k3])
  BY <1>4, <1>5, <1>9, <1>15
<1>17. PICK s4 \in Live : s4 = ScanField(s3, k4) /\ s4.rest = Space \o b5 /\ Grows(s3.values, s4.values, c[k4])
  BY <1>4, <1>5, <1>8, <1>16
<1>18. s4 = Four(b1)
  BY <1>2, <1>13, <1>14, <1>15, <1>16, <1>17 DEF Four
<1>19. /\ Len(s4.values) = 4 /\ s4.values[1] = c[k1] /\ s4.values[2] = c[k2]
       /\ s4.values[3] = c[k3] /\ s4.values[4] = c[k4]
  BY <1>13, <1>14, <1>15, <1>16, <1>17 DEF Grows
<1>20. Begins(s4.values, c) /\ ~s4.failed
  <2>1. ~s4.failed
    BY DEF Live
  <2>2. PICK v : v = s4.values
    OBVIOUS
  <2> QED
    BY <1>2, <1>19, <2>1, <2>2 DEF Begins
<1>21. ASSUME Plain(c.name), Plain(c.pwd)
       PROVE  LET v == Scanned(b1)
              IN  Begins(v, c) /\ Len(v) = 6 /\ v[5] = c.name /\ v[6] = c.pwd
  <2>1. Value(k5, c[k5]) /\ Value(k6, c[k6])
    BY <1>2, <1>21 DEF Value, Numeric
  <2>2. PICK s5 \in Live : s5 = ScanField(s4, k5) /\ s5.rest = Space \o b6 /\ Grows(s4.values, s5.values, c[k5])
    BY <1>4, <1>7, <1>17, <2>1
  <2>3. PICK s6 \in Live : s6 = ScanField(s5, k6) /\ Grows(s5.values, s6.values, c[k6])
    BY <1>4, <1>6, <2>1, <2>2
  <2>4. PICK v : v = s6.values /\ v = Scanned(b1)
    BY <1>2, <1>18, <2>2, <2>3 DEF Scanned
  <2>5. /\ Len(v) = 6 /\ v[1] = c[k1] /\ v[2] = c[k2] /\ v[3] = c[k3] /\ v[4] = c[k4]
        /\ v[5] = c[k5] /\ v[6] = c[k6]
    BY <1>19, <2>2, <2>3, <2>4 DEF Grows
  <2> QED
    BY <1>2, <2>4, <2>5 DEF Begins
<1> QED
  BY <1>12, <1>18, <1>20, <1>21
-----------------------------------------------------------------------------
(***************************************************************************)
(* Whatever the text is.                                                   *)
(***************************************************************************)
LEMMA UnspacedText ==
    ASSUME NEW t \in Text
    PROVE  Unspaced(t) \in Text
<1>1. PICK stops \in SUBSET DOMAIN t : stops = NonSpaces(t)
  BY DEF NonSpaces
<1>2. PICK n \in Nat : n = RunLength(t, stops)
  BY RunIs, TextIs
<1> QED
  BY <1>1, <1>2, DropIs DEF Unspaced

LEMMA TakenIs ==
    ASSUME NEW d \in Text, NEW f, Width(d, f) # 0
    PROVE  /\ Drop(d, Width(d, f)) \in Text
           /\ SubSeq(d, 1, Width(d, f)) \in Text /\ Value(f, SubSeq(d, 1, Width(d, f)))
<1>1. PICK stops \in SUBSET DOMAIN d : stops = IF f \in Numeric THEN NonDigits(d) ELSE Spaces(d)
  BY DEF NonDigits, Spaces
<1>2. PICK w \in 0 .. Len(d) : w = RunLength(d, stops)
  BY RunIs
<1>3. w = Width(d, f) /\ w # 0
  BY <1>1, <1>2 DEF Width
<1>4. \A i \in 1 .. w : i \in DOMAIN d \ stops
  BY <1>2, RunIs
<1>5. PICK v \in Text : /\ v = SubSeq(d, 1, w) /\ Len(v) = w
                        /\ \A i \in 1 .. w : v[i] = d[i]
  BY BeginIs
<1>6. DOMAIN v = 1 .. w /\ v # Empty
  BY <1>3, <1>5, TextIs
<1>7. Value(f, v)
  BY <1>1, <1>4, <1>5, <1>6 DEF Value, Digits, Plain, NonDigits, Spaces
<1>8. w \in Nat
  BY TextIs
<1>9. Drop(d, w) \in Text
  BY <1>8, DropIs
<1> QED
  BY <1>3, <1>5, <1>7, <1>9

\* A scan of the first k fields: a value for each, of the field's kind, or as
\* many as there were before the first that failed.
Order == <<"cid", "apn", "pdpType", "auth", "name", "pwd">>

Sane(s, k) ==
    /\ s \in [rest : Text, values : Seq(Text), failed : BOOLEAN]
    /\ Len(s.values) <= k /\ (~s.failed => Len(s.values) = k)
    /\ \A i \in 1 .. Len(s.values) : Value(Order[i], s.values[i])

Extends(s, t) ==
    /\ Len(s.values) <= Len(t.values)
    /\ \A i \in 1 .. Len(s.values) : t.values[i] = s.values[i]

LEMMA ScanStep ==
    ASSUME NEW k \in Nat, NEW s, Sane(s, k)
    PROVE  Sane(ScanField(s, Order[k + 1]), k + 1) /\ Extends(s, ScanField(s, Order[k + 1]))
<1>1. PICK f : f = Order[k + 1]
  OBVIOUS
<1>2. PICK t : t = ScanField(s, f)
  OBVIOUS
<1>3. /\ s.rest \in Text /\ s.values \in Seq(Text) /\ s.failed \in BOOLEAN
      /\ s = [rest |-> s.rest, values |-> s.values, failed |-> s.failed]
  BY DEF Sane
<1>4. PICK n \in Nat : n = Len(s.values) /\ n <= k /\ (~s.failed => n = k)
  BY <1>3, LenProperties DEF Sane
<1>5. \A i \in 1 .. n : Value(Order[i], s.values[i])
  BY <1>4 DEF Sane
<1>6. CASE ~s.failed /\ Matches(s.rest, f)
  <2>1. PICK d : d = Behind(s.rest, f)
    OBVIOUS
  <2>2. d \in Text
    <3>1. PICK h \in Text : h = Unspaced(s.rest)
      BY <1>3, UnspacedText
    <3>2. IsPrefix(Label[f], h)
      BY <1>6, <3>1 DEF Matches
    <3>3. Len(Label[f]) \in Nat
      BY <3>2
    <3>4. Drop(h, Len(Label[f])) \in Text
      BY <3>3, DropIs
    <3> QED
      BY <2>1, <3>1, <3>4, UnspacedText DEF Behind
  <2>3. Width(d, f) # 0
    BY <1>6, <2>1 DEF Matches
  <2>4. PICK v \in Text, e \in Text :
           v = SubSeq(d, 1, Width(d, f)) /\ e = Drop(d, Width(d, f)) /\ Value(f, v)
    BY <2>2, <2>3, TakenIs
  <2>5. PICK w \in Seq(Text) : w = Append(s.values, v) /\ Grows(s.values, w, v)
    BY <1>3, AppendProperties, AppendGrows
  <2>6. t = [rest |-> e, values |-> w, failed |-> FALSE]
    BY <1>2, <1>6, <2>1, <2>4, <2>5 DEF ScanField, Take
  <2>7. Len(w) = n + 1 /\ w[n + 1] = v /\ \A i \in 1 .. n : w[i] = s.values[i]
    BY <1>4, <2>5 DEF Grows
  <2>8. \A i \in 1 .. n + 1 : Value(Order[i], w[i])
    <3> TAKE i \in 1 .. n + 1
    <3>1. CASE i = n + 1
      <4>1. n + 1 = k + 1
        BY <1>4, <1>6
      <4> QED
        BY <1>1, <2>4, <2>7, <3>1, <4>1
    <3>2. CASE i # n + 1
      <4>1. i \in 1 .. n
        BY <3>2
      <4> QED
        BY <1>5, <2>7, <4>1
    <3> QED
      BY <3>1, <3>2
  <2>9. t \in [rest : Text, values : Seq(Text), failed : BOOLEAN] /\ t.values = w /\ ~t.failed
    BY <2>6
  <2>10. Sane(t, k + 1)
    BY <1>4, <1>6, <2>7, <2>8, <2>9 DEF Sane
  <2>11. Extends(s, t)
    BY <1>4, <2>7, <2>9 DEF Extends
  <2> QED
    BY <1>1, <1>2, <2>10, <2>11
<1>7. CASE ~(~s.failed /\ Matches(s.rest, f))
  <2>1. t = [s EXCEPT !.failed = TRUE]
    BY <1>2, <1>7 DEF ScanField
  <2>2. t = [rest |-> s.rest, values |-> s.values, failed |-> TRUE]
    BY <1>3, <2>1
  <2>3. t \in [rest : Text, values : Seq(Text), failed : BOOLEAN] /\ t.values = s.values /\ t.failed
    BY <1>3, <2>2
  <2>4. Sane(t, k + 1)
    BY <1>4, <1>5, <2>3 DEF Sane
  <2>5. Extends(s, t)
    BY <1>4, <2>3 DEF Extends
  <2> QED
    BY <1>1, <1>2, <2>4, <2>5
<1> QED
  BY <1>6, <1>7

LEMMA ScannedIs ==
    ASSUME NEW t \in Text
    PROVE  \E u : Sane(Four(t), 4) /\ Sane(u, 6) /\ Scanned(t) = u.values /\ Extends(Four(t), u)
<1>1. PICK s0 : s0 = Scan(t) /\ Sane(s0, 0)
  <2>1. PICK e \in Seq(Text) : e = <<>> /\ Len(e) = 0
    BY EmptySeq
  <2>2. Scan(t) = [rest |-> t, values |-> e, failed |-> FALSE]
    BY <2>1, Zenon DEF Scan
  <2>3. [rest |-> t, values |-> e, failed |-> FALSE] \in [rest : Text, values : Seq(Text), failed : BOOLEAN]
    OBVIOUS
  <2>4. Sane([rest |-> t, values |-> e, failed |-> FALSE], 0)
    BY <2>1, <2>3 DEF Sane
  <2> QED
    BY <2>2, <2>4
<1>2. PICK s1 : s1 = ScanField(s0, "cid") /\ Sane(s1, 1)
  BY <1>1, ScanStep DEF Order
<1>3. PICK s2 : s2 = ScanField(s1, "apn") /\ Sane(s2, 2)
  BY <1>2, ScanStep DEF Order
<1>4. PICK s3 : s3 = ScanField(s2, "pdpType") /\ Sane(s3, 3)
  BY <1>3, ScanStep DEF Order
<1>5. PICK s4 : s4 = ScanField(s3, "auth") /\ Sane(s4, 4)
  BY <1>4, ScanStep DEF Order
<1>6. PICK s5 : s5 = ScanField(s4, "name") /\ Sane(s5, 5) /\ Extends(s4, s5)
  BY <1>5, ScanStep DEF Order
<1>7. PICK s6 : s6 = ScanField(s5, "pwd") /\ Sane(s6, 6) /\ Extends(s5, s6)
  BY <1>6, ScanStep DEF Order
<1>8. s4 = Four(t) /\ s6.values = Scanned(t)
  BY <1>1, <1>2, <1>3, <1>4, <1>5, <1>6, <1>7 DEF Four, Scanned
<1>9. Extends(s4, s6)
  BY <1>5, <1>6, <1>7 DEF Extends, Sane
<1> QED
  BY <1>5, <1>7, <1>8, <1>9

\* What loadDcContext makes of a context: nothing, or one that was scanned.
LEMMA LoadIs ==
    ASSUME NEW c \in Context, NEW g \in Text, file.text \in Text
    PROVE  /\ loadDcContext(c, g) \in Context
           /\ loadDcContext(c, g) = c \/ Recorded(loadDcContext(c, g))
<1>1. CASE ~file.exists \/ file.text = Empty
  BY <1>1 DEF loadDcContext
<1>2. CASE ~(~file.exists \/ file.text = Empty)
  <2>1. PICK t \in Text : t = file.text \o g
    BY CatIs
  <2>2. PICK u : Sane(u, 6) /\ Scanned(t) = u.values
    BY ScannedIs
  <2>3. PICK v \in Seq(Text) : v = u.values /\ \A i \in 1 .. Len(v) : Value(Order[i], v[i])
    BY <2>2 DEF Sane
  <2>4. loadDcContext(c, g) = Loaded(c, v)
    BY <1>2, <2>1, <2>2, <2>3 DEF loadDcContext
  <2>5. CASE Len(v) < 4
    BY <2>4, <2>5 DEF Loaded
  <2>6. CASE ~(Len(v) < 4)
    <3>1. PICK n \in Nat : n = Len(v) /\ ~(n < 4)
      BY <2>6, LenProperties
    <3>2. \A i \in 1 .. n : v[i] \in Text /\ Value(Order[i], v[i])
      BY <2>3, <3>1, ElementOfSeq
    <3>3. 1 \in 1 .. n /\ 2 \in 1 .. n /\ 3 \in 1 .. n /\ 4 \in 1 .. n /\ (n = 6 => 5 \in 1 .. n /\ 6 \in 1 .. n)
      BY <3>1
    <3>4. /\ v[1] \in Text /\ v[2] \in Text /\ v[3] \in Text /\ v[4] \in Text
          /\ n = 6 => v[5] \in Text /\ v[6] \in Text
          /\ Digits(v[1]) /\ Plain(v[2]) /\ Plain(v[3]) /\ Digits(v[4])
      BY <3>2, <3>3 DEF Order, Value, Numeric
    <3>5. PICK name \in Text, pwd \in Text :
             /\ name = IF n = 6 THEN v[5] ELSE c.name
             /\ pwd = IF n = 6 THEN v[6] ELSE c.pwd
      BY <3>4 DEF Context
    <3>6. Loaded(c, v) = [cid |-> v[1], apn |-> v[2], pdpType |-> v[3], auth |-> v[4],
                          name |-> name, pwd |-> pwd]
      BY <3>1, <3>5 DEF Loaded
    <3>7. Loaded(c, v) \in Context /\ Recorded(Loaded(c, v))
      BY <3>4, <3>6 DEF Context, Recorded
    <3> QED
      BY <2>4, <3>7
  <2> QED
    BY <2>5, <2>6
<1> QED
  BY <1>1, <1>2

\* What it makes of a file that begins with a printed record.
LEMMA LoadsBack ==
    ASSUME NEW c \in Context, NEW d \in Context, Recorded(d), NEW g \in Text, NEW r \in Text,
           file.exists, file.text \in Text, file.text = Printed(d) \o r
    PROVE  LET l == loadDcContext(c, g)
           IN  /\ l.cid = d.cid /\ l.apn = d.apn /\ l.pdpType = d.pdpType /\ l.auth = d.auth
               /\ Plain(d.name) /\ Plain(d.pwd) => l.name = d.name /\ l.pwd = d.pwd
<1>0. \A a \in Text : (a \o r) \o g = a \o (r \o g)
  BY CatAssociates
<1>1. PICK e \in Text : e = r \o g
  BY CatIs
<1>2. PICK p \in Text : p = Printed(d) /\ p # Empty
  BY PrintedOver
<1>3. file.text \o g = Printed(d) \o e /\ file.text # Empty
  <2>1. file.text = p \o r
    BY <1>2
  <2>2. (p \o r) \o g = p \o (r \o g)
    BY <1>0
  <2>3. p \o r # Empty
    BY <1>2, StartsAs
  <2> QED
    BY <1>1, <1>2, <2>1, <2>2, <2>3
<1>4. PICK t \in Text : t = Printed(d) \o e
  BY <1>2, CatIs
<1>5. PICK u : Sane(Four(t), 4) /\ Sane(u, 6) /\ Scanned(t) = u.values /\ Extends(Four(t), u)
  BY ScannedIs
<1>6. PICK v \in Seq(Text) : v = Scanned(t)
  BY <1>5 DEF Sane
<1>7. loadDcContext(c, g) = Loaded(c, v)
  BY <1>3, <1>4, <1>6 DEF loadDcContext
<1>8. Begins(Four(t).values, d)
  BY <1>4, ScansBack
<1>9. Begins(v, d)
  <2>1. PICK w \in Seq(Text), n \in Nat : w = Four(t).values /\ n = Len(w)
    BY <1>5, LenProperties DEF Sane
  <2>2. n >= 4 /\ w[1] = d.cid /\ w[2] = d.apn /\ w[3] = d.pdpType /\ w[4] = d.auth
    BY <1>8, <2>1 DEF Begins
  <2> QED
    BY <1>5, <1>6, <2>1, <2>2 DEF Begins, Extends
<1>10. /\ Loaded(c, v).cid = d.cid /\ Loaded(c, v).apn = d.apn
       /\ Loaded(c, v).pdpType = d.pdpType /\ Loaded(c, v).auth = d.auth
  BY <1>9 DEF Begins, Loaded
<1>11. ASSUME Plain(d.name), Plain(d.pwd)
       PROVE  Loaded(c, v).name = d.name /\ Loaded(c, v).pwd = d.pwd
  <2>1. Len(v) = 6 /\ v[5] = d.name /\ v[6] = d.pwd
    BY <1>4, <1>6, <1>11, ScansBack
  <2> QED
    BY <2>1 DEF Loaded
<1> QED
  BY <1>7, <1>10, <1>11
-----------------------------------------------------------------------------
(***************************************************************************)
(* The invariant.  The context in memory is of texts, and while it is      *)
(* being stored it is one that scans back; what was stored in full begins  *)
(* the file; and a command that is storing has left the fields it does not *)
(* own as they were stored last.                                           *)
(***************************************************************************)
TypeInv ==
    /\ dc \in Context /\ committed \in Context /\ file \in [exists : BOOLEAN, text : Text]
    /\ Digits(dc.cid) /\ Digits(dc.auth)
    /\ dc.apn \in Apns \/ dc.apn = Empty \/ Plain(dc.apn)
    /\ Plain(dc.pdpType) \/ dc.cid = NoCid
    /\ at \in [pc : {"open", "write"}, cmd : {"CGDCONT", "XGAUTH"}] \cup {AtIdle}
    /\ file.text # Empty => file.exists

CountersInv ==
    /\ commands \in 0 .. MaxCommands /\ restarts \in 0 .. MaxRestarts
    /\ shortWrites \in 0 .. MaxShortWrites /\ torn \in BOOLEAN

StoredInv == at # AtIdle => dc.cid \in Cids

CommittedInv ==
    committed # NewContext =>
        committed.cid \in Cids /\ Plain(committed.pdpType) /\ Digits(committed.auth)

FileInv ==
    committed # NewContext /\ ~torn =>
        /\ file.exists
        /\ file.text = Printed(committed) \o Drop(file.text, Len(Printed(committed)))

\* The fields of a context that a command does not own.
Kept(c, d, cmd) ==
    /\ cmd # "CGDCONT" => c.cid = d.cid /\ c.apn = d.apn /\ c.pdpType = d.pdpType
    /\ cmd # "XGAUTH" =>
          /\ c.auth = d.auth
          /\ Plain(d.name) /\ Plain(d.pwd) => c.name = d.name /\ c.pwd = d.pwd

OwnInv == at # AtIdle /\ Intact(committed) => Kept(dc, committed, at.cmd)

IInv == TypeInv /\ CountersInv /\ StoredInv /\ CommittedInv /\ FileInv /\ OwnInv

LEMMA NewContextIs ==
    /\ NewContext \in Context /\ Empty \in Text /\ IpType \in Text /\ Plain(IpType)
    /\ Digits(NewContext.cid) /\ Digits(NewContext.auth)
    /\ NewContext.cid = NoCid /\ NewContext.apn = Empty
<1>1. NoCid \in Text /\ AuthDisabled \in Text /\ IpType \in Text
  BY TextsAssumption
<1>2. Empty \in Text
  BY EmptySeq DEF Text, Empty
<1>3. NoCid # Empty /\ AuthDisabled # Empty /\ IpType # Empty
  <2>1. Len(NoCid) = 2 /\ Len(AuthDisabled) = 1 /\ Len(IpType) = 2
    BY DEF NoCid, AuthDisabled, IpType, Word
  <2>2. \A t \in Text : Len(t) # 0 => t # Empty
    BY TextIs
  <2> QED
    BY <1>1, <2>1, <2>2
<1>4. Digits(NoCid) /\ Digits(AuthDisabled)
  BY <1>3 DEF Digits, IsDigit, ToSet
<1>5. Plain(IpType)
  BY <1>3 DEF Plain, IpType, Word, Space
<1> QED
  BY <1>1, <1>2, <1>4, <1>5 DEF NewContext, Context

LEMMA CidIs ==
    ASSUME NEW t \in Cids \cup AuthModes
    PROVE  t \in Text /\ Digits(t) /\ t # NoCid
BY TextsAssumption, NumbersAssumption DEF Digits, IsDigit, ToSet, Plain

LEMMA InitInv == Init => IInv
<1> SUFFICES ASSUME Init PROVE IInv
  OBVIOUS
<1>1. dc = NewContext /\ committed = NewContext /\ file = [exists |-> FALSE, text |-> Empty] /\ at = AtIdle
  BY DEF Init
<1>2. TypeInv
  BY <1>1, NewContextIs DEF TypeInv
<1>3. CountersInv
  <2>1. commands = 0 /\ restarts = 0 /\ shortWrites = 0 /\ torn = FALSE
    BY DEF Init
  <2>2. torn \in BOOLEAN
    BY <2>1
  <2> QED
    BY <2>1, <2>2, BoundsAssumption DEF CountersInv
<1>4. StoredInv /\ CommittedInv /\ FileInv /\ OwnInv
  BY <1>1 DEF StoredInv, CommittedInv, FileInv, OwnInv, Intact
<1> QED
  BY <1>2, <1>3, <1>4 DEF IInv

\* What a command finds: the context as it was stored, if it was stored in full.
LEMMA Found ==
    ASSUME IInv, NEW c \in Context, NEW g \in Garbage
    PROVE  /\ loadDcContext(c, g) \in Context
           /\ loadDcContext(c, g) = c \/ Recorded(loadDcContext(c, g))
           /\ Intact(committed) =>
                 LET l == loadDcContext(c, g)
                 IN  /\ l.cid = committed.cid /\ l.apn = committed.apn
                     /\ l.pdpType = committed.pdpType /\ l.auth = committed.auth
                     /\ Plain(committed.name) /\ Plain(committed.pwd) =>
                           l.name = committed.name /\ l.pwd = committed.pwd
<1>1. g \in Text /\ file.text \in Text /\ committed \in Context
  BY TextsAssumption DEF IInv, TypeInv
<1>2. loadDcContext(c, g) \in Context /\ (loadDcContext(c, g) = c \/ Recorded(loadDcContext(c, g)))
  BY <1>1, LoadIs
<1>3. ASSUME Intact(committed)
      PROVE  LET l == loadDcContext(c, g)
             IN  /\ l.cid = committed.cid /\ l.apn = committed.apn
                 /\ l.pdpType = committed.pdpType /\ l.auth = committed.auth
                 /\ Plain(committed.name) /\ Plain(committed.pwd) =>
                       l.name = committed.name /\ l.pwd = committed.pwd
  <2>1. file.exists /\ file.text = Printed(committed) \o Drop(file.text, Len(Printed(committed)))
    BY <1>3 DEF IInv, FileInv, Intact
  <2>2. PICK p \in Text, n \in Nat : p = Printed(committed) /\ n = Len(p)
    BY <1>1, PrintedOver, TextIs
  <2>3. PICK r \in Text : r = Drop(file.text, n)
    BY <1>1, DropIs
  <2>4. Recorded(committed)
    BY <1>3, CidIs DEF IInv, CommittedInv, Intact, Recorded
  <2>5. file.text = Printed(committed) \o r
    BY <2>1, <2>2, <2>3
  <2> QED
    BY <1>1, <2>1, <2>4, <2>5, LoadsBack
<1> QED
  BY <1>2, <1>3

\* A step that leaves what a part of the invariant is about leaves the part.
LEMMA Unchanged ==
    /\ UNCHANGED <<file, committed, torn>> => (FileInv => FileInv')
    /\ UNCHANGED committed => (CommittedInv => CommittedInv')
    /\ UNCHANGED <<dc, at, history>> => (OwnInv => OwnInv')
<1>1. UNCHANGED <<file, committed, torn>> => (FileInv => FileInv')
  BY DEF FileInv
<1>2. UNCHANGED committed => (CommittedInv => CommittedInv')
  BY DEF CommittedInv
<1>3. UNCHANGED <<dc, at, history>> => (OwnInv => OwnInv')
  BY DEF OwnInv, Kept, Intact, history
<1> QED
  BY <1>1, <1>2, <1>3

LEMMA QueryStep == IInv /\ Query => IInv'
<1> SUFFICES ASSUME IInv, Query PROVE IInv'
  OBVIOUS
<1>1. PICK g \in Garbage : HostCommands /\ dc' = loadDcContext(dc, g) /\ UNCHANGED at
  BY DEF Query
<1>2. /\ at.pc = "idle" /\ commands < MaxCommands /\ commands' = commands + 1
      /\ UNCHANGED <<at, file, restarts, shortWrites, committed, torn>>
  BY <1>1 DEF HostCommands, history
<1>3. at = AtIdle
  BY <1>2 DEF IInv, TypeInv
<1>4. dc' \in Context /\ (dc' = dc \/ Recorded(dc'))
  BY <1>1, Found DEF IInv, TypeInv
<1>5. TypeInv'
  BY <1>2, <1>4 DEF IInv, TypeInv, Recorded
<1>6. CountersInv'
  BY <1>2, BoundsAssumption DEF IInv, CountersInv
<1>7. StoredInv' /\ OwnInv'
  BY <1>2, <1>3 DEF StoredInv, OwnInv
<1> QED
  BY <1>2, <1>5, <1>6, <1>7, Unchanged DEF IInv

LEMMA CgdcontStep ==
    ASSUME IInv, NEW cid \in Cids, NEW apn \in Apns, Cgdcont(cid, apn)
    PROVE  IInv'
<1>1. PICK g \in Garbage :
         /\ HostCommands
         /\ dc' = [loadDcContext(dc, g) EXCEPT !.cid = cid, !.apn = apn, !.pdpType = IpType]
         /\ at' = [pc |-> "open", cmd |-> "CGDCONT"]
  BY DEF Cgdcont
<1>2. /\ at.pc = "idle" /\ commands < MaxCommands /\ commands' = commands + 1
      /\ UNCHANGED <<file, restarts, shortWrites, committed, torn>>
  BY <1>1 DEF HostCommands, history
<1>3. PICK l \in Context :
         /\ l = loadDcContext(dc, g) /\ (l = dc \/ Recorded(l))
         /\ Intact(committed) =>
               /\ l.auth = committed.auth
               /\ Plain(committed.name) /\ Plain(committed.pwd) =>
                     l.name = committed.name /\ l.pwd = committed.pwd
  BY Found DEF IInv, TypeInv
<1>4. dc' = [cid |-> cid, apn |-> apn, pdpType |-> IpType, auth |-> l.auth,
             name |-> l.name, pwd |-> l.pwd]
  BY <1>1, <1>3 DEF Context
<1>5. cid \in Text /\ Digits(cid) /\ apn \in Text /\ IpType \in Text /\ Plain(IpType)
  BY CidIs, NewContextIs, TextsAssumption
<1>6. Digits(l.auth)
  BY <1>3 DEF IInv, TypeInv, Recorded
<1>7. TypeInv'
  <2>1. dc' \in Context
    BY <1>3, <1>4, <1>5 DEF Context
  <2>2. dc'.cid = cid /\ dc'.apn = apn /\ dc'.pdpType = IpType /\ dc'.auth = l.auth
    BY <1>4
  <2> QED
    BY <1>1, <1>2, <1>5, <1>6, <2>1, <2>2 DEF IInv, TypeInv
<1>8. CountersInv'
  BY <1>2, BoundsAssumption DEF IInv, CountersInv
<1>9. StoredInv'
  BY <1>4 DEF StoredInv
<1>10. OwnInv'
  <2>1. at'.cmd = "CGDCONT"
    BY <1>1
  <2>2. dc'.auth = l.auth /\ dc'.name = l.name /\ dc'.pwd = l.pwd
    BY <1>4
  <2>3. Intact(committed)' => Intact(committed)
    BY <1>2 DEF Intact
  <2> QED
    BY <1>2, <1>3, <2>1, <2>2, <2>3 DEF OwnInv, Kept
<1> QED
  BY <1>2, <1>7, <1>8, <1>9, <1>10, Unchanged DEF IInv

LEMMA XgauthStep ==
    ASSUME IInv, NEW cid \in Cids, NEW auth \in AuthModes, NEW name \in Names, NEW pwd \in Passwords,
           Xgauth(cid, auth, name, pwd)
    PROVE  IInv'
<1>1. PICK g \in Garbage :
         /\ HostCommands
         /\ IF loadDcContext(dc, g).cid = cid
            THEN /\ dc' = [loadDcContext(dc, g) EXCEPT !.auth = auth, !.name = name, !.pwd = pwd]
                 /\ at' = [pc |-> "open", cmd |-> "XGAUTH"]
            ELSE dc' = loadDcContext(dc, g) /\ UNCHANGED at
  BY DEF Xgauth
<1>2. /\ at.pc = "idle" /\ commands < MaxCommands /\ commands' = commands + 1
      /\ UNCHANGED <<file, restarts, shortWrites, committed, torn>>
  BY <1>1 DEF HostCommands, history
<1>3. PICK l \in Context :
         /\ l = loadDcContext(dc, g) /\ (l = dc \/ Recorded(l))
         /\ Intact(committed) =>
               l.cid = committed.cid /\ l.apn = committed.apn /\ l.pdpType = committed.pdpType
  BY Found DEF IInv, TypeInv
<1>4. CountersInv'
  BY <1>2, BoundsAssumption DEF IInv, CountersInv
<1>5. CASE l.cid = cid
  <2>1. dc' = [cid |-> l.cid, apn |-> l.apn, pdpType |-> l.pdpType, auth |-> auth,
               name |-> name, pwd |-> pwd] /\ at' = [pc |-> "open", cmd |-> "XGAUTH"]
    BY <1>1, <1>3, <1>5 DEF Context
  <2>2. auth \in Text /\ Digits(auth) /\ name \in Text /\ pwd \in Text
    BY CidIs, TextsAssumption
  <2>3. /\ Digits(l.cid) /\ (l.apn \in Apns \/ l.apn = Empty \/ Plain(l.apn))
        /\ Plain(l.pdpType) \/ l.cid = NoCid
    BY <1>3 DEF IInv, TypeInv, Recorded
  <2>4. TypeInv'
    <3>1. dc' \in Context
      BY <1>3, <2>1, <2>2 DEF Context
    <3>2. dc'.cid = l.cid /\ dc'.apn = l.apn /\ dc'.pdpType = l.pdpType /\ dc'.auth = auth
      BY <2>1
    <3> QED
      BY <1>2, <2>1, <2>2, <2>3, <3>1, <3>2 DEF IInv, TypeInv
  <2>5. StoredInv'
    BY <1>5, <2>1 DEF StoredInv
  <2>6. OwnInv'
    <3>1. dc'.cid = l.cid /\ dc'.apn = l.apn /\ dc'.pdpType = l.pdpType /\ at'.cmd = "XGAUTH"
      BY <2>1
    <3>2. Intact(committed)' => Intact(committed)
      BY <1>2 DEF Intact
    <3> QED
      BY <1>2, <1>3, <3>1, <3>2 DEF OwnInv, Kept
  <2> QED
    BY <1>2, <1>4, <2>4, <2>5, <2>6, Unchanged DEF IInv
<1>6. CASE l.cid # cid
  <2>1. dc' = l /\ UNCHANGED at /\ at = AtIdle
    BY <1>1, <1>2, <1>3, <1>6 DEF IInv, TypeInv
  <2>2. TypeInv'
    BY <1>2, <1>3, <2>1 DEF IInv, TypeInv, Recorded
  <2>3. StoredInv' /\ OwnInv'
    BY <2>1 DEF StoredInv, OwnInv
  <2> QED
    BY <1>2, <1>4, <2>2, <2>3, Unchanged DEF IInv
<1> QED
  BY <1>5, <1>6

\* A store that ends without having changed the file.
LEMMA StoreEnds ==
    ASSUME IInv, at' = AtIdle, UNCHANGED <<dc, file, counters, history>>
    PROVE  IInv'
<1>1. TypeInv'
  BY DEF IInv, TypeInv, history
<1>2. CountersInv'
  BY DEF IInv, CountersInv, counters, history
<1>3. StoredInv' /\ OwnInv'
  BY DEF StoredInv, OwnInv
<1>4. FileInv' /\ CommittedInv'
  BY Unchanged DEF IInv, history
<1> QED
  BY <1>1, <1>2, <1>3, <1>4 DEF IInv

LEMMA OpenStep == IInv /\ Open => IInv'
<1> SUFFICES ASSUME IInv, Open PROVE IInv'
  OBVIOUS
<1>1. /\ at.pc = "open" /\ at' = [at EXCEPT !.pc = "write"]
      /\ file' = [file EXCEPT !.exists = TRUE]
      /\ UNCHANGED <<dc, commands, restarts, shortWrites, committed, torn>>
  BY DEF Open, counters, history
<1>2. at \in [pc : {"open", "write"}, cmd : {"CGDCONT", "XGAUTH"}] /\ at # AtIdle
  BY <1>1 DEF IInv, TypeInv, AtIdle
<1>3. at' \in [pc : {"open", "write"}, cmd : {"CGDCONT", "XGAUTH"}] /\ at'.cmd = at.cmd
  BY <1>1, <1>2
<1>4. file' \in [exists : BOOLEAN, text : Text] /\ file'.exists /\ file'.text = file.text
  BY <1>1 DEF IInv, TypeInv
<1>5. TypeInv'
  BY <1>1, <1>3, <1>4 DEF IInv, TypeInv
<1>6. CountersInv'
  BY <1>1 DEF IInv, CountersInv
<1>7. StoredInv'
  BY <1>1, <1>2 DEF IInv, StoredInv
<1>8. FileInv'
  BY <1>1, <1>4 DEF IInv, FileInv
<1>9. OwnInv'
  BY <1>1, <1>2, <1>3 DEF IInv, OwnInv, Kept, Intact
<1> QED
  BY <1>1, <1>5, <1>6, <1>7, <1>8, <1>9, Unchanged DEF IInv

LEMMA WriteStep == IInv /\ Write => IInv'
<1> SUFFICES ASSUME IInv, Write PROVE IInv'
  OBVIOUS
<1>1. /\ at.pc = "write" /\ at' = AtIdle /\ file' = Over(Printed(dc)) /\ committed' = dc /\ torn' = FALSE
      /\ UNCHANGED <<dc, commands, restarts, shortWrites>>
  BY DEF Write, counters
<1>2. dc \in Context /\ file.text \in Text
  BY DEF IInv, TypeInv
<1>3. PICK p \in Text, n \in Nat : p = Printed(dc) /\ n = Len(p)
  BY <1>2, PrintedOver, TextIs
<1>4. PICK e \in Text : e = Drop(file.text, n)
  BY <1>2, DropIs
<1>5. file' = [exists |-> TRUE, text |-> p \o e]
  BY <1>1, <1>3, <1>4 DEF Over
<1>6. p \o e \in Text /\ Drop(p \o e, n) = e
  BY <1>3, CatIs, Apart
<1>7. file' \in [exists : BOOLEAN, text : Text] /\ file'.exists /\ file'.text = p \o e
  BY <1>5, <1>6
<1>8. dc.cid \in Cids /\ dc.cid # NoCid
  <2>1. at # AtIdle
    BY <1>1 DEF AtIdle
  <2> QED
    BY <2>1, CidIs DEF IInv, StoredInv
<1>9. TypeInv'
  BY <1>1, <1>7 DEF IInv, TypeInv
<1>10. CountersInv'
  BY <1>1 DEF IInv, CountersInv
<1>11. StoredInv' /\ OwnInv'
  BY <1>1 DEF StoredInv, OwnInv
<1>12. CommittedInv'
  BY <1>1, <1>8 DEF IInv, TypeInv, CommittedInv
<1>13. FileInv'
  <2>1. PICK q \in Text : q = p \o e /\ Drop(q, n) = e
    BY <1>6
  <2>2. file'.text = q /\ q = p \o Drop(q, n)
    BY <1>7, <2>1
  <2>3. Printed(committed') = p /\ Len(Printed(committed')) = n
    BY <1>1, <1>3
  <2> QED
    BY <1>7, <2>2, <2>3 DEF FileInv
<1> QED
  BY <1>9, <1>10, <1>11, <1>12, <1>13 DEF IInv

LEMMA WriteIsShortStep ==
    ASSUME IInv, NEW n \in 1 .. Len(Printed(dc)), WriteIsShort(n)
    PROVE  IInv'
<1>1. /\ at' = AtIdle /\ shortWrites < MaxShortWrites /\ shortWrites' = shortWrites + 1
      /\ file' = Over(SubSeq(Printed(dc), 1, n)) /\ torn' = TRUE
      /\ UNCHANGED <<dc, commands, restarts, committed>>
  BY DEF WriteIsShort
<1>2. dc \in Context /\ file.text \in Text
  BY DEF IInv, TypeInv
<1>3. PICK p \in Text, l \in Nat : p = Printed(dc) /\ l = Len(p)
  BY <1>2, PrintedOver, TextIs
<1>4. PICK b \in Text, k \in Nat : b = SubSeq(p, 1, n) /\ k = Len(b)
  <2>1. n \in 0 .. Len(p)
    BY <1>3
  <2> QED
    BY <2>1, BeginIs, TextIs
<1>5. PICK e \in Text : e = Drop(file.text, k)
  BY <1>2, DropIs
<1>6. file' = [exists |-> TRUE, text |-> b \o e] /\ b \o e \in Text
  BY <1>1, <1>3, <1>4, <1>5, CatIs DEF Over
<1>7. file' \in [exists : BOOLEAN, text : Text] /\ file'.exists
  BY <1>6
<1>8. TypeInv'
  BY <1>1, <1>7 DEF IInv, TypeInv
<1>9. CountersInv'
  BY <1>1, BoundsAssumption DEF IInv, CountersInv
<1>10. StoredInv' /\ OwnInv' /\ FileInv'
  BY <1>1 DEF StoredInv, OwnInv, FileInv
<1> QED
  BY <1>1, <1>8, <1>9, <1>10, Unchanged DEF IInv

LEMMA RestartStep == IInv /\ Restart => IInv'
<1> SUFFICES ASSUME IInv, Restart PROVE IInv'
  OBVIOUS
<1>1. /\ restarts < MaxRestarts /\ restarts' = restarts + 1 /\ dc' = NewContext /\ at' = AtIdle
      /\ UNCHANGED <<file, commands, shortWrites, committed, torn>>
  BY DEF Restart, history
<1>2. TypeInv'
  BY <1>1, NewContextIs DEF IInv, TypeInv
<1>3. CountersInv'
  BY <1>1, BoundsAssumption DEF IInv, CountersInv
<1>4. StoredInv' /\ OwnInv'
  BY <1>1 DEF StoredInv, OwnInv
<1> QED
  BY <1>1, <1>2, <1>3, <1>4, Unchanged DEF IInv

LEMMA NextStep == IInv /\ [Next]_vars => IInv'
<1> SUFFICES ASSUME IInv, [Next]_vars PROVE IInv'
  OBVIOUS
<1>1. CASE Query
  BY <1>1, QueryStep
<1>2. CASE \E cid \in Cids, apn \in Apns : Cgdcont(cid, apn)
  BY <1>2, CgdcontStep
<1>3. CASE \E cid \in Cids, auth \in AuthModes, name \in Names, pwd \in Passwords :
              Xgauth(cid, auth, name, pwd)
  BY <1>3, XgauthStep
<1>4. CASE OpenFails \/ WriteFails
  BY <1>4, StoreEnds DEF OpenFails, WriteFails
<1>5. CASE Open
  BY <1>5, OpenStep
<1>6. CASE Write
  BY <1>6, WriteStep
<1>7. CASE \E n \in 1 .. Len(Printed(dc)) : WriteIsShort(n)
  BY <1>7, WriteIsShortStep
<1>8. CASE Restart
  BY <1>8, RestartStep
<1>9. CASE UNCHANGED vars
  <2>1. UNCHANGED <<dc, file, at, commands, restarts, shortWrites, committed, torn>>
    BY <1>9 DEF vars, counters, history
  <2>2. TypeInv'
    BY <2>1 DEF IInv, TypeInv
  <2>3. CountersInv' /\ StoredInv'
    BY <2>1 DEF IInv, CountersInv, StoredInv
  <2> QED
    BY <2>1, <2>2, <2>3, Unchanged DEF IInv, history
<1> QED
  BY <1>1, <1>2, <1>3, <1>4, <1>5, <1>6, <1>7, <1>8, <1>9 DEF Next
-----------------------------------------------------------------------------
(***************************************************************************)
(* The theorems.                                                           *)
(***************************************************************************)
LEMMA Invariant == Spec => []IInv
<1> QED
  BY InitInv, NextStep, PTL DEF Spec

\* Whatever the file has become, the shape of the state is kept: what
\* loadDcContext reads for the cid and the mode are digits, and for the access
\* point name no half of a word and a space.
THEOREM ContextsKeepTheirShape == Spec => []TypeOK
<1>1. IInv => TypeOK
  <2> SUFFICES ASSUME IInv PROVE TypeOK
    OBVIOUS
  <2>1. \A f \in Numeric : dc[f] # Empty /\ \A i \in DOMAIN dc[f] : IsDigit(dc[f][i])
    BY DEF IInv, TypeInv, Digits, Numeric
  <2>2. committed.cid \in Cids \cup {NoCid}
    BY NewContextIs DEF IInv, CommittedInv
  <2> QED
    BY <2>1, <2>2 DEF TypeOK, IInv, TypeInv, CountersInv
<1> QED
  BY <1>1, Invariant, PTL

\* A record that storeDcContext wrote in full comes back from loadDcContext, for
\* every text the host may pass and whatever lies behind the file in the buffer.
THEOREM RecordsComeBack == Spec => []PlainRecordSurvives
<1>1. IInv => PlainRecordSurvives
  <2> SUFFICES ASSUME IInv, Intact(committed), NEW g \in Garbage,
                      NEW f \in {"cid", "apn", "pdpType", "auth"}
               PROVE  loadDcContext(NewContext, g)[f] = committed[f]
    BY DEF PlainRecordSurvives
  <2> QED
    BY Found, NewContextIs
<1> QED
  BY <1>1, Invariant, PTL

\* And so do its credentials, if neither is empty nor has a space.
THEOREM CredentialsComeBack == Spec => []CredentialsSurvive
<1>1. IInv => CredentialsSurvive
  <2> SUFFICES ASSUME IInv, Intact(committed), Plain(committed.name), Plain(committed.pwd),
                      NEW g \in Garbage, NEW f \in {"name", "pwd"}
               PROVE  loadDcContext(NewContext, g)[f] = committed[f]
    BY DEF CredentialsSurvive
  <2> QED
    BY Found, NewContextIs
<1> QED
  BY <1>1, Invariant, PTL

\* A command that stores the context changes what its handler sets and nothing
\* else of the record that was there.
THEOREM CommandsKeepToTheirFields == Spec => StoresOnlyItsOwn
<1>1. IInv /\ [Next]_vars =>
        [ committed' # committed /\ Intact(committed) =>
             \A f \in DOMAIN committed \ Own[at.cmd] :
                \/ committed'[f] = committed[f]
                \/ f \in {"name", "pwd"} /\ ~(Plain(committed.name) /\ Plain(committed.pwd)) ]_vars
  <2> SUFFICES ASSUME IInv, Next, committed' # committed, Intact(committed),
                      NEW f \in DOMAIN committed \ Own[at.cmd]
               PROVE  \/ committed'[f] = committed[f]
                      \/ f \in {"name", "pwd"} /\ ~(Plain(committed.name) /\ Plain(committed.pwd))
    OBVIOUS
  <2>1. committed' = dc /\ at.pc = "write"
    BY DEF Next, Query, Cgdcont, Xgauth, HostCommands, OpenFails, Open, Write, WriteFails,
           WriteIsShort, Restart, history
  <2>2. at \in [pc : {"open", "write"}, cmd : {"CGDCONT", "XGAUTH"}] /\ at # AtIdle
    BY <2>1 DEF IInv, TypeInv, AtIdle
  <2>3. Kept(dc, committed, at.cmd)
    BY <2>2 DEF IInv, OwnInv
  <2>4. f \in {"cid", "apn", "pdpType", "auth", "name", "pwd"}
    BY DEF IInv, TypeInv, Context
  <2>5. CASE at.cmd = "CGDCONT"
    BY <2>1, <2>3, <2>4, <2>5 DEF Kept, Own
  <2>6. CASE at.cmd = "XGAUTH"
    BY <2>1, <2>3, <2>4, <2>6 DEF Kept, Own
  <2> QED
    BY <2>2, <2>5, <2>6
<1> QED
  BY <1>1, Invariant, PTL DEF Spec, StoresOnlyItsOwn
=============================================================================
