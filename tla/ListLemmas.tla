----------------------------- MODULE ListLemmas -----------------------------
(***************************************************************************)
(* What the proofs need to know of lists and of the least element of a set *)
(* of numbers.                                                             *)
(***************************************************************************)
EXTENDS Integers, SequencesExt, Functions, TLAPS, WellFoundedInduction, SequenceTheorems

\* A set of naturals that is not empty has a least element.
LEMMA MinOfNats ==
    ASSUME NEW S \in SUBSET Nat, S # {}
    PROVE  \E x \in S : \A y \in S : x <= y
<1>1. \E x \in S : \A y \in S : <<y, x>> \notin OpToRel(<, Nat)
  BY NatLessThanWellFounded, WFMin, Zenon
<1>2. PICK x \in S : \A y \in S : <<y, x>> \notin {ss \in Nat \X Nat : ss[1] < ss[2]}
  BY <1>1, Zenon DEF OpToRel
<1>3. ASSUME NEW y \in S PROVE x <= y
  <2>1. <<y, x>> \in Nat \X Nat /\ ~(y < x)
    BY <1>2
  <2> QED BY <2>1
<1> QED BY <1>3

\* The unused list of a kind of object: the head is taken on creation,
LEMMA TakeFirst ==
    ASSUME NEW S, NEW q \in Seq(S), q # <<>>, IsInjective(q)
    PROVE  /\ Head(q) \in S /\ Contains(q, Head(q))
           /\ Tail(q) \in Seq(S) /\ IsInjective(Tail(q)) /\ ~Contains(Tail(q), Head(q))
           /\ \A z \in S \ {Head(q)} : Contains(Tail(q), z) <=> Contains(q, z)
<1> DEFINE s == Head(q)
           r == Tail(q)
<1>1. /\ s \in S /\ s = q[1] /\ 1 \in 1 .. Len(q) /\ DOMAIN q = 1 .. Len(q)
      /\ r \in Seq(S) /\ Len(q) \in Nat /\ Len(r) = Len(q) - 1
      /\ DOMAIN r = 1 .. Len(r) /\ \A i \in 1 .. Len(r) : r[i] = q[i + 1]
  OBVIOUS
<1> HIDE DEF s, r
<1>2. Contains(q, s)
  BY <1>1 DEF Contains
<1>3. IsInjective(r)
  <2>1. SUFFICES ASSUME NEW a \in DOMAIN r, NEW b \in DOMAIN r, r[a] = r[b]
                 PROVE  a = b
    BY DEF IsInjective
  <2>2. a \in 1 .. Len(r) /\ b \in 1 .. Len(r) /\ q[a + 1] = q[b + 1]
    BY <1>1, <2>1
  <2>3. a + 1 \in DOMAIN q /\ b + 1 \in DOMAIN q
    BY <1>1, <2>2
  <2>4. a + 1 = b + 1
    BY <2>2, <2>3 DEF IsInjective
  <2> QED BY <1>1, <2>2, <2>4
<1>4. ASSUME Contains(r, s) PROVE FALSE
  <2>1. PICK i \in 1 .. Len(r) : r[i] = s
    BY <1>4 DEF Contains
  <2>2. i + 1 \in 1 .. Len(q) /\ q[i + 1] = q[1] /\ i + 1 # 1
    BY <1>1, <2>1
  <2> QED BY <1>1, <2>2 DEF IsInjective
<1>5. ASSUME NEW z \in S \ {s}, Contains(r, z) PROVE Contains(q, z)
  <2>1. PICK i \in 1 .. Len(r) : r[i] = z
    BY <1>5 DEF Contains
  <2>2. i + 1 \in 1 .. Len(q) /\ q[i + 1] = z
    BY <1>1, <2>1
  <2> QED BY <2>2 DEF Contains
<1>6. ASSUME NEW z \in S \ {s}, Contains(q, z) PROVE Contains(r, z)
  <2>1. PICK i \in 1 .. Len(q) : q[i] = z
    BY <1>6 DEF Contains
  <2>2. i - 1 \in 1 .. Len(r) /\ r[i - 1] = z
    BY <1>1, <2>1
  <2> QED BY <2>2 DEF Contains
<1> QED BY <1>1, <1>2, <1>3, <1>4, <1>5, <1>6 DEF s, r

\* and an object is put back there on deletion.
LEMMA PutFirst ==
    ASSUME NEW S, NEW q \in Seq(S), IsInjective(q), NEW s \in S, ~Contains(q, s)
    PROVE  /\ <<s>> \o q \in Seq(S) /\ IsInjective(<<s>> \o q) /\ Contains(<<s>> \o q, s)
           /\ \A z \in S \ {s} : Contains(<<s>> \o q, z) <=> Contains(q, z)
<1> DEFINE r == <<s>> \o q
<1>1. /\ r \in Seq(S) /\ Len(r) = Len(q) + 1 /\ Len(q) \in Nat
      /\ DOMAIN q = 1 .. Len(q) /\ DOMAIN r = 1 .. Len(r)
      /\ r[1] = s /\ \A i \in 2 .. Len(r) : r[i] = q[i - 1]
  OBVIOUS
<1> HIDE DEF r
<1>2. IsInjective(r)
  <2>1. \A i \in 2 .. Len(r) : r[i] # s
    BY <1>1 DEF Contains
  <2>2. SUFFICES ASSUME NEW a \in DOMAIN r, NEW b \in DOMAIN r, r[a] = r[b]
                 PROVE  a = b
    BY DEF IsInjective
  <2>3. a \in 1 .. Len(r) /\ b \in 1 .. Len(r) /\ (a = 1 <=> b = 1)
    BY <1>1, <2>1, <2>2
  <2>4. CASE a = 1
    BY <2>3, <2>4
  <2>5. CASE a # 1
    <3>1. a - 1 \in DOMAIN q /\ b - 1 \in DOMAIN q /\ q[a - 1] = q[b - 1]
      BY <1>1, <2>2, <2>3, <2>5
    <3>2. a - 1 = b - 1
      BY <3>1 DEF IsInjective
    <3> QED BY <2>3, <3>2
  <2> QED BY <2>4, <2>5
<1>3. Contains(r, s)
  BY <1>1 DEF Contains
<1>4. ASSUME NEW z \in S \ {s}, Contains(r, z) PROVE Contains(q, z)
  <2>1. PICK i \in 1 .. Len(r) : r[i] = z
    BY <1>4 DEF Contains
  <2>2. i - 1 \in 1 .. Len(q) /\ q[i - 1] = z
    BY <1>1, <2>1
  <2> QED BY <2>2 DEF Contains
<1>5. ASSUME NEW z \in S \ {s}, Contains(q, z) PROVE Contains(r, z)
  <2>1. PICK i \in 1 .. Len(q) : q[i] = z
    BY <1>5 DEF Contains
  <2>2. i + 1 \in 1 .. Len(r) /\ r[i + 1] = z
    BY <1>1, <2>1
  <2> QED BY <2>2 DEF Contains
<1> QED BY <1>1, <1>2, <1>3, <1>4, <1>5 DEF r

\* A set of indices that is not empty has a greatest element.
LEMMA MaxOfInterval ==
    ASSUME NEW n \in Nat, NEW S \in SUBSET (1 .. n), S # {}
    PROVE  \E x \in S : \A y \in S : x >= y
<1> DEFINE R == {i \in Nat : \E x \in S : i = n - x}
<1>1. R \in SUBSET Nat
  OBVIOUS
<1>2. R # {}
  <2>1. PICK x \in S : TRUE
    OBVIOUS
  <2>2. n - x \in R
    BY <2>1
  <2> QED BY <2>2
<1>3. PICK m \in R : \A i \in R : m <= i
  BY <1>1, <1>2, MinOfNats
<1>4. PICK x \in S : m = n - x
  BY <1>3
<1>5. ASSUME NEW y \in S PROVE x >= y
  <2>1. n - y \in R
    OBVIOUS
  <2> QED BY <1>3, <1>4, <2>1
<1> QED BY <1>5

\* Part of a list is a list.
LEMMA PartOfSeq ==
    ASSUME NEW S, NEW s \in Seq(S), NEW m \in 1 .. Len(s) + 1, NEW n \in 0 .. Len(s)
    PROVE  SubSeq(s, m, n) \in Seq(S)
<1>1. \A i \in m .. n : s[i] \in S
  OBVIOUS
<1> QED BY <1>1, SubSeqProperties

-----------------------------------------------------------------------------
(* A node leaves a list, or joins it: what is on the list, and its order. *)

\* LOS_ListDelete of a node: a list that it is not on stays as it is,
LEMMA UnlinkAbsent ==
    ASSUME NEW s, NEW t, ~Contains(s, t)
    PROVE  RemoveFirst(s, t) = s
  BY DEF RemoveFirst, Contains

\* and one that it is on loses the position it has there.
LEMMA UnlinkPresent ==
    ASSUME NEW S, NEW s \in Seq(S), NEW t, Contains(s, t)
    PROVE  /\ RemoveFirst(s, t) \in Seq(S)
           /\ Len(RemoveFirst(s, t)) = Len(s) - 1
           /\ \E j \in 1 .. Len(s) :
                 /\ s[j] = t
                 /\ \A i \in 1 .. Len(s) - 1 :
                       RemoveFirst(s, t)[i] = IF i < j THEN s[i] ELSE s[i + 1]
<1> DEFINE I == {i \in 1 .. Len(s) : s[i] = t}
           j == CHOOSE x \in I : \A y \in I : x =< y
           r == RemoveFirst(s, t)
<1>0. Len(s) \in Nat
  OBVIOUS
<1>1. I \in SUBSET Nat /\ I # {}
  BY DEF Contains
<1>2. j \in I
  <2>1. \E x \in I : \A y \in I : x =< y
    BY <1>1, MinOfNats
  <2> QED BY <2>1
<1>3. r = SubSeq(s, 1, j - 1) \o SubSeq(s, j + 1, Len(s))
  BY <1>1 DEF Contains, RemoveFirst, RemoveAt, SelectInSeq, Min
<1>4. j \in 1 .. Len(s) /\ s[j] = t
  BY <1>2
<1> HIDE DEF j, I, r
<1> DEFINE a == SubSeq(s, 1, j - 1)
           b == SubSeq(s, j + 1, Len(s))
<1>5. /\ a \in Seq(S) /\ Len(a) = j - 1 /\ \A i \in 1 .. j - 1 : a[i] = s[i]
      /\ b \in Seq(S) /\ Len(b) = Len(s) - j /\ \A i \in 1 .. Len(s) - j : b[i] = s[j + i]
  <2>1. j - 1 \in 0 .. Len(s) /\ j + 1 \in 1 .. Len(s) + 1 /\ Len(s) \in 0 .. Len(s)
    BY <1>0, <1>4
  <2>2. a \in Seq(S) /\ b \in Seq(S)
    BY <1>0, <2>1, PartOfSeq
  <2> QED BY <1>0, <1>4, <2>2, SubSeqProperties
<1> HIDE DEF a, b
<1>6. r \in Seq(S) /\ Len(r) = Len(s) - 1
  <2>1. r = a \o b
    BY <1>3 DEF a, b
  <2> QED BY <1>0, <1>4, <1>5, <2>1
<1>7. \A i \in 1 .. Len(s) - 1 : r[i] = IF i < j THEN s[i] ELSE s[i + 1]
  <2>1. r = a \o b
    BY <1>3 DEF a, b
  <2> SUFFICES ASSUME NEW i \in 1 .. Len(s) - 1
               PROVE  r[i] = IF i < j THEN s[i] ELSE s[i + 1]
    OBVIOUS
  <2>2. CASE i < j
    BY <1>0, <1>4, <1>5, <2>1, <2>2
  <2>3. CASE ~(i < j)
    <3>1. i - (j - 1) \in 1 .. Len(s) - j /\ i > Len(a) /\ i \in 1 .. Len(a) + Len(b)
      BY <1>0, <1>4, <1>5, <2>3
    <3>2. r[i] = b[i - (j - 1)]
      BY <1>5, <2>1, <3>1
    <3>3. b[i - (j - 1)] = s[j + (i - (j - 1))]
      BY <1>5, <3>1
    <3>4. j + (i - (j - 1)) = i + 1
      BY <1>0, <1>4
    <3> QED BY <2>3, <3>2, <3>3, <3>4
  <2> QED BY <2>2, <2>3
<1> QED BY <1>4, <1>6, <1>7 DEF r

\* A node leaves a list.
LEMMA UnlinkOnce ==
    ASSUME NEW S, NEW s \in Seq(S), IsInjective(s), NEW t
    PROVE  /\ RemoveFirst(s, t) \in Seq(S) /\ IsInjective(RemoveFirst(s, t))
           /\ ~Contains(RemoveFirst(s, t), t)
           /\ \A z : z # t => (Contains(RemoveFirst(s, t), z) <=> Contains(s, z))
<1>1. CASE ~Contains(s, t)
  BY <1>1, UnlinkAbsent
<1>2. CASE Contains(s, t)
  <2> DEFINE r == RemoveFirst(s, t)
             n == Len(s)
  <2>1. /\ r \in Seq(S) /\ n \in Nat /\ DOMAIN r = 1 .. n - 1 /\ Len(r) = n - 1
        /\ DOMAIN s = 1 .. n
    BY <1>2, UnlinkPresent
  <2>2. PICK j \in 1 .. n : s[j] = t /\ \A i \in 1 .. n - 1 : r[i] = IF i < j THEN s[i] ELSE s[i + 1]
    BY <1>2, UnlinkPresent
  <2> HIDE DEF r, n
  <2>3. \A a, b \in 1 .. n : s[a] = s[b] => a = b
    BY <2>1 DEF IsInjective
  <2> DEFINE at(i) == IF i < j THEN i ELSE i + 1
  <2>4. \A i \in 1 .. n - 1 : at(i) \in 1 .. n /\ at(i) # j /\ r[i] = s[at(i)]
    BY <2>1, <2>2
  <2>5. \A a, b \in 1 .. n - 1 : at(a) = at(b) => a = b
    BY <2>1, <2>2
  <2>6. IsInjective(r)
    BY <2>1, <2>3, <2>4, <2>5 DEF IsInjective
  <2>7. ~Contains(r, t)
    <3>1. \A i \in 1 .. n - 1 : r[i] # t
      BY <2>2, <2>3, <2>4
    <3> QED BY <2>1, <3>1 DEF Contains
  <2>8. ASSUME NEW z, z # t, Contains(r, z) PROVE Contains(s, z)
    <3>1. PICK i \in 1 .. n - 1 : r[i] = z
      BY <2>1, <2>8 DEF Contains
    <3>2. at(i) \in 1 .. n /\ s[at(i)] = z
      BY <2>4, <3>1
    <3> HIDE DEF at
    <3> QED BY <3>2 DEF Contains, n
  <2>9. ASSUME NEW z, z # t, Contains(s, z) PROVE Contains(r, z)
    <3>1. PICK i \in 1 .. n : s[i] = z
      BY <2>9 DEF Contains, n
    <3>2. i # j
      BY <2>2, <2>9, <3>1
    <3>3. CASE i < j
      <4>1. i \in 1 .. n - 1 /\ r[i] = z
        BY <2>1, <2>2, <3>1, <3>3
      <4> QED BY <2>1, <4>1 DEF Contains
    <3>4. CASE i > j
      <4>1. i - 1 \in 1 .. n - 1 /\ ~(i - 1 < j) /\ (i - 1) + 1 = i
        BY <2>1, <3>4
      <4>2. r[i - 1] = z
        BY <2>2, <3>1, <4>1
      <4> QED BY <2>1, <4>1, <4>2 DEF Contains
    <3> QED BY <2>1, <3>1, <3>2, <3>3, <3>4
  <2> QED BY <2>1, <2>6, <2>7, <2>8, <2>9 DEF r
<1> QED BY <1>1, <1>2

\* A list of numbered nodes stays in order when one of them leaves it.
LEMMA UnlinkOrder ==
    ASSUME NEW S, NEW s \in Seq(S), NEW t, NEW d \in [S -> Int],
           \A i, j \in 1 .. Len(s) : i < j => d[s[i]] <= d[s[j]]
    PROVE  \A i, j \in 1 .. Len(RemoveFirst(s, t)) :
              i < j => d[RemoveFirst(s, t)[i]] <= d[RemoveFirst(s, t)[j]]
<1>1. CASE ~Contains(s, t)
  BY <1>1, UnlinkAbsent
<1>2. CASE Contains(s, t)
  <2> DEFINE r == RemoveFirst(s, t)
             n == Len(s)
  <2>1. r \in Seq(S) /\ n \in Nat /\ Len(r) = n - 1
    BY <1>2, UnlinkPresent
  <2>2. PICK m \in 1 .. n :
           s[m] = t /\ \A i \in 1 .. n - 1 : r[i] = IF i < m THEN s[i] ELSE s[i + 1]
    BY <1>2, UnlinkPresent
  <2> HIDE DEF r, n
  <2> DEFINE at(i) == IF i < m THEN i ELSE i + 1
  <2>3. SUFFICES ASSUME NEW i \in 1 .. n - 1, NEW j \in 1 .. n - 1, i < j
                 PROVE  d[r[i]] <= d[r[j]]
    BY <2>1 DEF r
  <2>4. \A h \in 1 .. n - 1 : at(h) \in 1 .. n /\ r[h] = s[at(h)]
    BY <2>1, <2>2
  <2>5. at(i) < at(j)
    BY <2>1, <2>3
  <2> HIDE DEF at
  <2> QED BY <2>4, <2>5 DEF n
<1> QED BY <1>1, <1>2

\* A node is inserted, at any position of a list.
LEMMA InsertAtPos ==
    ASSUME NEW S, NEW s \in Seq(S), NEW t \in S, NEW m \in 1 .. Len(s) + 1
    PROVE  /\ InsertAt(s, m, t) \in Seq(S) /\ Len(InsertAt(s, m, t)) = Len(s) + 1
           /\ \A i \in 1 .. Len(s) + 1 :
                 InsertAt(s, m, t)[i] = IF i < m THEN s[i] ELSE IF i = m THEN t ELSE s[i - 1]
<1> DEFINE n == Len(s)
           a == SubSeq(s, 1, m - 1)
           b == SubSeq(s, m, Len(s))
           r == InsertAt(s, m, t)
<1>0. n \in Nat /\ m \in 1 .. n + 1
  OBVIOUS
<1>1. r = (a \o <<t>>) \o b
  BY DEF InsertAt
<1>2. /\ a \in Seq(S) /\ Len(a) = m - 1 /\ \A i \in 1 .. m - 1 : a[i] = s[i]
      /\ b \in Seq(S) /\ Len(b) = n - m + 1 /\ \A i \in 1 .. n - m + 1 : b[i] = s[m + i - 1]
  <2>1. m - 1 \in 0 .. Len(s) /\ m \in 1 .. Len(s) + 1 /\ n \in 0 .. Len(s) /\ 1 \in 1 .. Len(s) + 1
    BY <1>0
  <2>2. a \in Seq(S) /\ b \in Seq(S)
    BY <2>1, PartOfSeq
  <2> QED BY <1>0, <2>2, SubSeqProperties
<1> HIDE DEF a, b, r
<1> DEFINE c == a \o <<t>>
<1>3. /\ c \in Seq(S) /\ Len(c) = m /\ c[m] = t /\ \A i \in 1 .. m - 1 : c[i] = s[i]
  <2>1. c \in Seq(S) /\ Len(c) = m
    BY <1>0, <1>2
  <2>2. \A i \in 1 .. m : c[i] = IF i < m THEN a[i] ELSE t
    BY <1>0, <1>2
  <2> QED BY <1>0, <1>2, <2>1, <2>2
<1> HIDE DEF c
<1>4. r \in Seq(S) /\ Len(r) = n + 1
  <2>1. r = c \o b
    BY <1>1 DEF c
  <2>2. r \in Seq(S) /\ Len(r) = Len(c) + Len(b)
    <3>1. b \in Seq(S) /\ c \in Seq(S)
      BY <1>2, <1>3
    <3> QED BY <2>1, <3>1, ConcatProperties
  <2> QED BY <1>0, <1>2, <1>3, <2>2
<1>5. ASSUME NEW i \in 1 .. n + 1
      PROVE  r[i] = IF i < m THEN s[i] ELSE IF i = m THEN t ELSE s[i - 1]
  <2>1. r = c \o b
    BY <1>1 DEF c
  <2>2. CASE i <= m
    <3>1. r[i] = c[i]
      BY <1>0, <1>2, <1>3, <2>1, <2>2
    <3> QED BY <1>0, <1>3, <2>2, <3>1
  <2>3. CASE i > m
    <3>1. i - m \in 1 .. n - m + 1 /\ i > Len(c) /\ i \in 1 .. Len(c) + Len(b)
      BY <1>0, <1>2, <1>3, <2>3
    <3>2. r[i] = b[i - m]
      BY <1>2, <1>3, <2>1, <3>1
    <3>3. b[i - m] = s[m + (i - m) - 1] /\ m + (i - m) - 1 = i - 1
      BY <1>0, <1>2, <3>1
    <3> QED BY <1>0, <2>3, <3>2, <3>3
  <2> QED BY <1>0, <2>2, <2>3
<1> QED BY <1>4, <1>5 DEF r

LEMMA InsertAtOnce ==
    ASSUME NEW S, NEW s \in Seq(S), IsInjective(s), NEW t \in S, ~Contains(s, t),
           NEW m \in 1 .. Len(s) + 1
    PROVE  /\ InsertAt(s, m, t) \in Seq(S) /\ IsInjective(InsertAt(s, m, t))
           /\ Contains(InsertAt(s, m, t), t)
           /\ \A z : z # t => (Contains(InsertAt(s, m, t), z) <=> Contains(s, z))
<1> DEFINE n == Len(s)
           r == InsertAt(s, m, t)
<1>1. /\ r \in Seq(S) /\ Len(r) = n + 1 /\ n \in Nat /\ m \in 1 .. n + 1
      /\ DOMAIN r = 1 .. n + 1 /\ DOMAIN s = 1 .. n
      /\ \A i \in 1 .. n + 1 : r[i] = IF i < m THEN s[i] ELSE IF i = m THEN t ELSE s[i - 1]
  BY InsertAtPos
<1>2. \A i \in 1 .. n : s[i] # t
  BY DEF Contains
<1>3. \A a, b \in 1 .. n : s[a] = s[b] => a = b
  BY <1>1 DEF IsInjective
<1> HIDE DEF r
<1> DEFINE at(i) == IF i < m THEN i ELSE i - 1
<1>4. \A i \in 1 .. n + 1 : i # m => at(i) \in 1 .. n /\ r[i] = s[at(i)]
  BY <1>1
<1>5. \A a, b \in 1 .. n + 1 : a # m /\ b # m /\ at(a) = at(b) => a = b
  BY <1>1
<1>6. IsInjective(r)
  <2>1. SUFFICES ASSUME NEW a \in 1 .. n + 1, NEW b \in 1 .. n + 1, r[a] = r[b]
                 PROVE  a = b
    BY <1>1 DEF IsInjective
  <2>2. r[m] = t
    BY <1>1
  <2>3. a = m <=> b = m
    BY <1>2, <1>4, <2>1, <2>2
  <2> QED BY <1>3, <1>4, <1>5, <2>1, <2>3
<1>7. Contains(r, t)
  BY <1>1 DEF Contains
<1>8. ASSUME NEW z, z # t, Contains(r, z) PROVE Contains(s, z)
  <2>1. PICK i \in 1 .. n + 1 : r[i] = z
    BY <1>1, <1>8 DEF Contains
  <2>2. i # m
    BY <1>1, <1>8, <2>1
  <2>3. at(i) \in 1 .. n /\ s[at(i)] = z
    BY <1>4, <2>1, <2>2
  <2> HIDE DEF at
  <2> QED BY <2>3 DEF Contains
<1>9. ASSUME NEW z, z # t, Contains(s, z) PROVE Contains(r, z)
  <2>1. PICK i \in 1 .. n : s[i] = z
    BY <1>9 DEF Contains
  <2>2. CASE i < m
    <3>1. i \in 1 .. n + 1 /\ r[i] = z
      BY <1>1, <2>1, <2>2
    <3> QED BY <1>1, <3>1 DEF Contains
  <2>3. CASE i >= m
    <3>1. i + 1 \in 1 .. n + 1 /\ ~(i + 1 < m) /\ i + 1 # m /\ (i + 1) - 1 = i
      BY <1>1, <2>3
    <3>2. r[i + 1] = z
      BY <1>1, <2>1, <3>1
    <3> QED BY <1>1, <3>1, <3>2 DEF Contains
  <2> QED BY <1>1, <2>2, <2>3
<1> QED BY <1>1, <1>6, <1>7, <1>8, <1>9 DEF r

\* It keeps the order, if no node before the position has a greater number than
\* it, and no node from there on a smaller one.
LEMMA InsertAtOrder ==
    ASSUME NEW S, NEW s \in Seq(S), NEW t \in S, NEW m \in 1 .. Len(s) + 1,
           NEW d \in [S -> Int],
           \A i, j \in 1 .. Len(s) : i < j => d[s[i]] <= d[s[j]],
           \A i \in 1 .. Len(s) : i < m => d[s[i]] <= d[t],
           \A i \in 1 .. Len(s) : i >= m => d[t] <= d[s[i]]
    PROVE  \A i, j \in 1 .. Len(InsertAt(s, m, t)) :
              i < j => d[InsertAt(s, m, t)[i]] <= d[InsertAt(s, m, t)[j]]
<1> DEFINE n == Len(s)
           r == InsertAt(s, m, t)
<1>1. /\ Len(r) = n + 1 /\ n \in Nat /\ m \in 1 .. n + 1
      /\ \A i \in 1 .. n + 1 : r[i] = IF i < m THEN s[i] ELSE IF i = m THEN t ELSE s[i - 1]
  BY InsertAtPos
<1> HIDE DEF r
<1> SUFFICES ASSUME NEW i \in 1 .. n + 1, NEW j \in 1 .. n + 1, i < j
             PROVE  d[r[i]] <= d[r[j]]
  BY <1>1 DEF r
<1> DEFINE at(h) == IF h < m THEN h ELSE h - 1
<1>2. \A h \in 1 .. n + 1 : h # m => at(h) \in 1 .. n /\ r[h] = s[at(h)]
  BY <1>1
<1>3. r[m] = t
  BY <1>1
<1>4. CASE i = m
  <2>1. at(j) >= m /\ at(j) \in 1 .. n /\ r[j] = s[at(j)]
    BY <1>1, <1>2, <1>4
  <2> HIDE DEF at
  <2> QED BY <1>3, <1>4, <2>1
<1>5. CASE j = m
  <2>1. at(i) < m /\ at(i) \in 1 .. n /\ r[i] = s[at(i)]
    BY <1>1, <1>2, <1>5
  <2> HIDE DEF at
  <2> QED BY <1>3, <1>5, <2>1
<1>6. CASE i # m /\ j # m
  <2>1. at(i) \in 1 .. n /\ r[i] = s[at(i)] /\ at(j) \in 1 .. n /\ r[j] = s[at(j)]
    BY <1>2, <1>6
  <2>2. at(i) < at(j)
    BY <1>1, <1>6
  <2> HIDE DEF at
  <2> QED BY <2>1, <2>2
<1> QED BY <1>4, <1>5, <1>6

\* A node is appended, or put in front.
LEMMA AppendOnce ==
    ASSUME NEW S, NEW s \in Seq(S), IsInjective(s), NEW t \in S, ~Contains(s, t)
    PROVE  /\ Append(s, t) \in Seq(S) /\ IsInjective(Append(s, t)) /\ Contains(Append(s, t), t)
           /\ \A z : z # t => (Contains(Append(s, t), z) <=> Contains(s, z))
<1> DEFINE n == Len(s)
           r == Append(s, t)
<1>1. /\ r \in Seq(S) /\ Len(r) = n + 1 /\ n \in Nat
      /\ DOMAIN r = 1 .. n + 1 /\ DOMAIN s = 1 .. n
      /\ r[n + 1] = t /\ \A i \in 1 .. n : r[i] = s[i]
  OBVIOUS
<1> HIDE DEF r, n
<1>2. \A i \in 1 .. n : s[i] # t
  BY DEF Contains, n
<1>3. \A i \in 1 .. n + 1 : i \in 1 .. n \/ i = n + 1
  BY <1>1
<1>4. IsInjective(r)
  BY <1>1, <1>2, <1>3 DEF IsInjective
<1>5. Contains(r, t)
  BY <1>1 DEF Contains
<1>6. ASSUME NEW z, z # t PROVE Contains(r, z) <=> Contains(s, z)
  BY <1>1, <1>3, <1>6 DEF Contains, n
<1> QED BY <1>1, <1>4, <1>5, <1>6 DEF r

LEMMA PutFirstOnce ==
    ASSUME NEW S, NEW s \in Seq(S), IsInjective(s), NEW t \in S, ~Contains(s, t)
    PROVE  /\ <<t>> \o s \in Seq(S) /\ IsInjective(<<t>> \o s) /\ Contains(<<t>> \o s, t)
           /\ \A z \in S : z # t => (Contains(<<t>> \o s, z) <=> Contains(s, z))
  BY PutFirst

\* A list is empty if no node is on it.
LEMMA EmptyList ==
    ASSUME NEW S, NEW s \in Seq(S)
    PROVE  /\ s = <<>> <=> \A z \in S : ~Contains(s, z)
           /\ s # <<>> => Head(s) \in S /\ Contains(s, Head(s))
<1>1. CASE s = <<>>
  BY <1>1 DEF Contains
<1>2. CASE s # <<>>
  <2>1. 1 \in 1 .. Len(s) /\ Head(s) = s[1] /\ Head(s) \in S
    BY <1>2
  <2> QED BY <1>2, <2>1 DEF Contains
<1> QED BY <1>1, <1>2

LEMMA ContainsType ==
    ASSUME NEW S, NEW s \in Seq(S), NEW z, Contains(s, z)
    PROVE  z \in S
  BY DEF Contains

\* To leave a list is to be cut out of it;
LEMMA UnlinkCut ==
    ASSUME NEW S, NEW s \in Seq(S), NEW t, Contains(s, t)
    PROVE  \E i \in DOMAIN s : /\ s[i] = t
                               /\ RemoveFirst(s, t) = SubSeq(s, 1, i - 1) \o SubSeq(s, i + 1, Len(s))
<1> DEFINE I == {i \in 1 .. Len(s) : s[i] = t}
           j == CHOOSE x \in I : \A y \in I : x =< y
<1>1. I \in SUBSET Nat /\ I # {}
  BY DEF Contains
<1>2. j \in I
  <2>1. \E x \in I : \A y \in I : x =< y
    BY <1>1, MinOfNats
  <2> QED BY <2>1
<1>3. RemoveFirst(s, t) = SubSeq(s, 1, j - 1) \o SubSeq(s, j + 1, Len(s))
  BY <1>1 DEF Contains, RemoveFirst, RemoveAt, SelectInSeq, Min
<1>4. j \in DOMAIN s /\ s[j] = t
  BY <1>2
<1> HIDE DEF j, I
<1> QED BY <1>3, <1>4

\* the first node leaves the rest of it.
LEMMA UnlinkHead ==
    ASSUME NEW S, NEW s \in Seq(S), s # <<>>, IsInjective(s)
    PROVE  RemoveFirst(s, Head(s)) = Tail(s)
<1>1. Head(s) = s[1] /\ 1 \in DOMAIN s /\ DOMAIN s = 1 .. Len(s) /\ Len(s) \in Nat
  OBVIOUS
<1>2. Contains(s, Head(s))
  BY <1>1 DEF Contains
<1>3. PICK i \in DOMAIN s : /\ s[i] = Head(s)
                            /\ RemoveFirst(s, Head(s)) = SubSeq(s, 1, i - 1) \o SubSeq(s, i + 1, Len(s))
  BY <1>2, UnlinkCut
<1>4. i = 1
  BY <1>1, <1>3 DEF IsInjective
<1> DEFINE a == SubSeq(s, 1, 0)
           b == SubSeq(s, 2, Len(s))
<1>5. RemoveFirst(s, Head(s)) = a \o b
  BY <1>3, <1>4
<1>6. a = <<>>
  BY SubSeqProperties
<1>7. b = Tail(s)
  BY <1>1, SubSeqProperties
<1>8. b \in Seq(S)
  BY <1>7
<1> HIDE DEF a, b
<1> QED BY <1>5, <1>6, <1>7, <1>8

\* Induction on the natural numbers, as a least element: WFInduction takes an operator.
LEMMA LeastNumber ==
    ASSUME NEW S, S \subseteq Nat, S # {}
    PROVE  \E n \in S : \A m \in S : n <= m
<1>1. IsWellFoundedOn({ss \in Nat \X Nat : ss[1] < ss[2]}, Nat)
  BY NatLessThanWellFounded DEF OpToRel
<1> DEFINE R == {ss \in Nat \X Nat : ss[1] < ss[2]}
<1>2. IsWellFoundedOn(R, Nat)
  BY <1>1
<1> HIDE DEF R
<1>3. PICK n \in S : \A m \in S : ~(<<m, n>> \in R)
  BY <1>2, WFMin
<1>4. \A m \in S : ~(m < n)
  BY <1>3 DEF R
<1> QED BY <1>4

=============================================================================
