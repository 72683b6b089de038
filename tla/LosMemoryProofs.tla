-------------------------- MODULE LosMemoryProofs ---------------------------
(***************************************************************************)
(* For a pool of any size, any list granularity and any requests: after    *)
(* any sequence of allocations, aligned ones too, reallocations and        *)
(* releases the headers tile the pool, the free lists have exactly the     *)
(* free nodes, the account of used space is what the used nodes take, and  *)
(* each used node is one caller's, whose pointer LOS_MemFree accepts.      *)
(*                                                                         *)
(* HeapIsSound is inductive but for two things.  It speaks of the node of  *)
(* a pointer through the very function that LOS_MemFree uses, which reads  *)
(* headers; the invariant says where in its node a block is (Held), and    *)
(* that no gap is remembered of a pointer nobody has.  And it says that    *)
(* the sum over the used nodes is kept, which is counted here as the       *)
(* number of words they cover (Cover).                                     *)
(*                                                                         *)
(* And a pool implements Heap, where no aligned block is reallocated.  For *)
(* that the invariant has in addition that the content of a block is where *)
(* its pointer says (Placed).                                              *)
(*                                                                         *)
(* Between the steps of a call the pool is in none of the states that the  *)
(* invariant allows: a node is off the list and still free, a node has     *)
(* been cut and its rest is on no list, two free nodes are neighbours.     *)
(* The lemmas are about those states: Chain is the headers alone, and      *)
(* Listed the lists with respect to any set of nodes (Sound has both);     *)
(* IsSplit, Joined, IsAlloc and IsResize say what the operators do.        *)
(***************************************************************************)
EXTENDS LosMemoryRefinement, ListLemmas, FiniteSetTheorems

-----------------------------------------------------------------------------
(* The index of a list.                                                     *)

\* A power of two, without what the provers make of ^.
Two(k) == 2 ^ k

LEMMA Powers ==
    ASSUME NEW k \in 0 .. 31
    PROVE  /\ Two(k) \in Nat \ {0} /\ k < Two(k) /\ Two(k + 1) = 2 * Two(k)
           /\ Two(0) = 1
<1>1. /\ Two(0) = 1 /\ Two(1) = 2 /\ Two(2) = 4 /\ Two(3) = 8
      /\ Two(4) = 16 /\ Two(5) = 32 /\ Two(6) = 64 /\ Two(7) = 128
      /\ Two(8) = 256 /\ Two(9) = 512 /\ Two(10) = 1024 /\ Two(11) = 2048
      /\ Two(12) = 4096 /\ Two(13) = 8192 /\ Two(14) = 16384 /\ Two(15) = 32768
      /\ Two(16) = 65536 /\ Two(17) = 131072 /\ Two(18) = 262144 /\ Two(19) = 524288
      /\ Two(20) = 1048576 /\ Two(21) = 2097152 /\ Two(22) = 4194304 /\ Two(23) = 8388608
      /\ Two(24) = 16777216 /\ Two(25) = 33554432 /\ Two(26) = 67108864 /\ Two(27) = 134217728
      /\ Two(28) = 268435456 /\ Two(29) = 536870912 /\ Two(30) = 1073741824 /\ Two(31) = 2147483648
      /\ Two(32) = 4294967296
  BY DEF Two
<1>2. CASE 0 <= k /\ k < 4
  <2>1. k = 0 \/ k = 1 \/ k = 2 \/ k = 3
    BY <1>2
  <2> QED BY <2>1, <1>1
<1>3. CASE 4 <= k /\ k < 8
  <2>1. k = 4 \/ k = 5 \/ k = 6 \/ k = 7
    BY <1>3
  <2> QED BY <2>1, <1>1
<1>4. CASE 8 <= k /\ k < 12
  <2>1. k = 8 \/ k = 9 \/ k = 10 \/ k = 11
    BY <1>4
  <2> QED BY <2>1, <1>1
<1>5. CASE 12 <= k /\ k < 16
  <2>1. k = 12 \/ k = 13 \/ k = 14 \/ k = 15
    BY <1>5
  <2> QED BY <2>1, <1>1
<1>6. CASE 16 <= k /\ k < 20
  <2>1. k = 16 \/ k = 17 \/ k = 18 \/ k = 19
    BY <1>6
  <2> QED BY <2>1, <1>1
<1>7. CASE 20 <= k /\ k < 24
  <2>1. k = 20 \/ k = 21 \/ k = 22 \/ k = 23
    BY <1>7
  <2> QED BY <2>1, <1>1
<1>8. CASE 24 <= k /\ k < 28
  <2>1. k = 24 \/ k = 25 \/ k = 26 \/ k = 27
    BY <1>8
  <2> QED BY <2>1, <1>1
<1>9. CASE 28 <= k /\ k < 32
  <2>1. k = 28 \/ k = 29 \/ k = 30 \/ k = 31
    BY <1>9
  <2> QED BY <2>1, <1>1
<1> QED BY <1>2, <1>3, <1>4, <1>5, <1>6, <1>7, <1>8, <1>9

LEMMA PowersGrow ==
    ASSUME NEW a \in 0 .. 31, NEW b \in 0 .. 31, a < b
    PROVE  Two(a + 1) <= Two(b)
<1> DEFINE S == {m \in Nat : a < m /\ m <= 31 /\ ~(Two(a + 1) <= Two(m))}
<1>1. SUFFICES ASSUME S # {} PROVE FALSE
  OBVIOUS
<1>2. PICK m \in S : \A i \in S : m <= i
  BY <1>1, MinOfNats
<1>3. CASE m = a + 1
  BY <1>3, Powers
<1>4. CASE m # a + 1
  <2>1. m - 1 \in Nat /\ m - 1 \in 0 .. 31 /\ a < m - 1 /\ m - 1 \notin S
    BY <1>2, <1>4
  <2>2. Two(a + 1) <= Two(m - 1)
    BY <2>1
  <2>3. Two(m - 1 + 1) = 2 * Two(m - 1) /\ Two(m - 1) \in Nat
    BY <2>1, Powers
  <2>4. Two(m) = 2 * Two(m - 1)
    <3>1. m - 1 + 1 = m
      OBVIOUS
    <3> QED BY <3>1, <2>3
  <2>5. Two(a + 1) \in Nat
    BY Powers
  <2> QED BY <2>2, <2>3, <2>4, <2>5
<1> QED BY <1>3, <1>4

LEMMA Log2Is ==
    ASSUME NEW n \in Nat \ {0}, NEW m \in 0 .. 31, n < Two(m)
    PROVE  /\ Log2(n) \in 0 .. m - 1
           /\ Two(Log2(n)) <= n /\ n < Two(Log2(n) + 1)
<1> DEFINE S == {i \in Nat : i <= m /\ n < Two(i)}
<1>1. PICK f \in S : \A i \in S : f <= i
  <2>1. m \in S /\ S \in SUBSET Nat
    OBVIOUS
  <2> HIDE DEF S
  <2> QED BY <2>1, MinOfNats
<1>2. f # 0
  <2>1. Two(0) = 1
    BY Powers
  <2> QED BY <1>1, <2>1
<1>3. f - 1 \in Nat /\ f - 1 \in 0 .. m - 1 /\ f - 1 \notin S /\ f - 1 + 1 = f
  BY <1>1, <1>2
<1>4. Two(f - 1) <= n /\ n < Two(f - 1 + 1)
  <2>1. Two(f - 1) \in Nat
    BY <1>3, Powers
  <2>2. n < Two(f)
    BY <1>1
  <2> QED BY <1>3, <2>1, <2>2
<1>5. f - 1 \in 0 .. 31
  BY <1>3
<1>6. \E i \in 0 .. 31 : Two(i) <= n /\ n < Two(i + 1)
  BY <1>4, <1>5
<1>7. Log2(n) \in 0 .. 31 /\ Two(Log2(n)) <= n /\ n < Two(Log2(n) + 1)
  <2>1. Log2(n) = CHOOSE i \in 0 .. 31 : Two(i) <= n /\ n < Two(i + 1)
    BY Zenon DEF Log2, Two
  <2> QED BY <1>6, <2>1
<1>8. ASSUME NEW i \in 0 .. 31, Two(i) <= n PROVE i < m
  <2>2. Two(m + 1) = 2 * Two(m) /\ Two(m) \in Nat
    BY Powers
  <2>3. Two(i) \in Nat
    BY Powers
  <2>1. CASE i > m
    <3>1. Two(m + 1) <= Two(i)
      BY <2>1, PowersGrow
    <3> QED BY <3>1, <2>2, <2>3, <1>8
  <2>4. CASE i = m
    BY <2>4, <2>2, <1>8
  <2> QED BY <2>1, <2>4
<1> QED BY <1>7, <1>8

Limit == StartBucket + LargeCount

\* Division, as the lists' indexes need it.
LEMMA DivBounds ==
    ASSUME NEW x \in Nat, NEW d \in Nat \ {0}
    PROVE  x \div d \in Nat /\ d * (x \div d) <= x /\ x < d * (x \div d) + d
  OBVIOUS

LEMMA TimesGrows ==
    ASSUME NEW a \in Nat, NEW b \in Nat, NEW c \in Nat, a <= b
    PROVE  a * c <= b * c /\ a * c \in Nat /\ b * c \in Nat
<1>1. PICK d \in Nat : b = a + d
  <2>1. b - a \in Nat /\ b = a + (b - a)
    OBVIOUS
  <2> QED BY <2>1
<1>2. b * c = a * c + d * c
  BY <1>1
<1>3. d * c \in Nat /\ a * c \in Nat
  OBVIOUS
<1> QED BY <1>2, <1>3

LEMMA DivGrows ==
    ASSUME NEW x \in Nat, NEW y \in Nat, NEW d \in Nat \ {0}, x <= y
    PROVE  x \div d <= y \div d
<1> DEFINE a == x \div d
           b == y \div d
<1>1. a \in Nat /\ b \in Nat /\ d * a <= x /\ y < d * b + d
  BY DivBounds
<1> HIDE DEF a, b
<1>2. SUFFICES ASSUME b + 1 <= a PROVE FALSE
  BY <1>1 DEF a, b
<1>3. (b + 1) * d <= a * d
  BY <1>1, <1>2, TimesGrows
<1>4. (b + 1) * d = d * b + d /\ a * d = d * a
  BY <1>1
<1> QED BY <1>1, <1>3, <1>4

LEMMA IndexIs ==
    ASSUME NEW s \in Nat \ {0}, s < Two(Limit)
    PROVE  LET L == Log2(s)
               K == Two(SLI)
           IN  /\ K \in Nat \ {0} /\ SmallMax = Two(StartBucket) /\ SmallMax \in Nat \ {0}
               /\ OsMemFreeListIndexGet(s) \in ListIndex
               /\ s < SmallMax => OsMemFreeListIndexGet(s) = s - 1
               /\ s >= SmallMax =>
                     \E r \in 0 .. K - 1 :
                        /\ L \in StartBucket .. Limit - 1 /\ Two(L) \in Nat \ {0}
                        /\ OsMemFreeListIndexGet(s) = SmallCount + (L - StartBucket) * K + r
                        /\ r = ((s * K) \div Two(L)) - K
<1> DEFINE L == Log2(s)
           K == Two(SLI)
           D == Two(L)
           q == (s * K) \div D
<1>1. /\ StartBucket \in 0 .. 31 /\ SLI \in 0 .. 31 /\ Limit \in 0 .. 31 /\ LargeCount \in Nat
      /\ Limit = StartBucket + LargeCount
  BY MemoryAssumption DEF Limit
<1>2. K \in Nat \ {0} /\ Two(StartBucket) \in Nat \ {0}
  BY <1>1, Powers
<1>3. SmallMax = Two(StartBucket) /\ SmallCount = SmallMax - 1
  BY DEF SmallMax, SmallCount, Two
<1>4. LargeCount * K \in Nat
  BY <1>1, <1>2
<1>5. ListCount = SmallCount + LargeCount * K
  BY Zenon DEF ListCount, Two
<1>6. CASE s < SmallMax
  <2>1. OsMemFreeListIndexGet(s) = s - 1
    BY <1>2, <1>3, <1>6 DEF OsMemFreeListIndexGet, OsMemFlGet
  <2>2. s - 1 \in ListIndex
    BY <1>2, <1>3, <1>4, <1>5, <1>6 DEF ListIndex
  <2> QED BY <2>1, <2>2, <1>2, <1>3, <1>6
<1>7. CASE ~(s < SmallMax)
  <2>1. /\ L \in 0 .. Limit - 1 /\ D <= s /\ s < Two(L + 1)
    BY <1>1, Log2Is
  <2>2. Two(L + 1) = 2 * D /\ D \in Nat \ {0}
    BY <1>1, <2>1, Powers
  <2>3. L >= StartBucket
    <3> SUFFICES ASSUME L < StartBucket PROVE FALSE
      BY <1>1, <2>1
    <3>1. Two(L + 1) <= Two(StartBucket)
      BY <1>1, <2>1, PowersGrow
    <3> QED BY <3>1, <2>1, <2>2, <1>2, <1>3, <1>7
  <2> HIDE DEF L, K, D
  <2>4. s * K \in Nat /\ q \in Nat /\ D * q <= s * K /\ s * K < D * q + D
    <3>1. s * K \in Nat
      BY <1>2
    <3> QED BY <3>1, <2>2, DivBounds
  <2> HIDE DEF q
  <2>5. q >= K
    <3> SUFFICES ASSUME q + 1 <= K PROVE FALSE
      BY <2>4, <1>2
    <3>1. (q + 1) * D <= K * D
      BY <2>2, <2>4, <1>2, TimesGrows
    <3>2. D * K <= s * K
      BY <2>1, <2>2, <1>2, TimesGrows
    <3>3. (q + 1) * D = D * q + D /\ K * D = D * K
      BY <2>2, <2>4, <1>2
    <3> QED BY <3>1, <3>2, <3>3, <2>4, <2>2, <1>2
  <2>6. q < 2 * K
    <3> SUFFICES ASSUME 2 * K <= q PROVE FALSE
      BY <2>4, <1>2
    <3>1. (2 * K) * D <= q * D
      BY <2>2, <2>4, <1>2, TimesGrows
    <3>2. (s + 1) * K <= (2 * D) * K
      BY <2>1, <2>2, <1>2, TimesGrows
    <3>3. (s + 1) * K = s * K + K /\ (2 * D) * K = (2 * K) * D /\ q * D = D * q
      BY <2>2, <2>4, <1>2
    <3> QED BY <3>1, <3>2, <3>3, <2>4, <2>2, <1>2
  <2>7. OsMemSlGet(s) = q - K
    BY Zenon DEF OsMemSlGet, q, K, L, D, Two
  <2>8. OsMemFreeListIndexGet(s) = SmallCount + (L - StartBucket) * K + (q - K)
    <3>1. OsMemFlGet(s) = L - StartBucket + SmallCount
      BY <1>7 DEF OsMemFlGet, L
    <3>2. ~(OsMemFlGet(s) < SmallCount) /\ OsMemFlGet(s) - SmallCount = L - StartBucket
      BY <3>1, <2>1, <2>3, <1>1, <1>2, <1>3
    <3>3. OsMemFreeListIndexGet(s)
            = SmallCount + (OsMemFlGet(s) - SmallCount) * 2 ^ SLI + OsMemSlGet(s)
      BY <3>2, Zenon DEF OsMemFreeListIndexGet
    <3> QED BY <3>2, <3>3, <2>7, Zenon DEF K, Two
  <2>9. (L - StartBucket) * K + K <= LargeCount * K /\ (L - StartBucket) * K \in Nat
    <3>1. L - StartBucket \in Nat /\ L - StartBucket + 1 \in Nat /\ L - StartBucket + 1 <= LargeCount
      BY <1>1, <2>1, <2>3
    <3>2. (L - StartBucket + 1) * K <= LargeCount * K
      BY <3>1, <1>1, <1>2, TimesGrows
    <3>4. (L - StartBucket) * K \in Nat
      BY <3>1, <1>2
    <3>3. (L - StartBucket + 1) * K = (L - StartBucket) * K + K
      BY <3>1, <1>2
    <3> QED BY <3>2, <3>3, <3>4
  <2>10. OsMemFreeListIndexGet(s) \in ListIndex
    BY <2>8, <2>9, <2>5, <2>6, <2>4, <1>2, <1>3, <1>4, <1>5 DEF ListIndex
  <2>11. q - K \in 0 .. K - 1
    BY <2>4, <2>5, <2>6, <1>2
  <2>12. L \in StartBucket .. Limit - 1
    BY <1>1, <2>1, <2>3
  <2> QED BY <1>2, <1>3, <1>7, <2>2, <2>8, <2>10, <2>11, <2>12 DEF q, L, K, D
<1> QED BY <1>6, <1>7

\* The larger the size the later the list.
LEMMA IndexGrows ==
    ASSUME NEW s \in Nat \ {0}, NEW t \in Nat \ {0}, s <= t, t < Two(Limit)
    PROVE  OsMemFreeListIndexGet(s) <= OsMemFreeListIndexGet(t)
<1> DEFINE K == Two(SLI)
           c == SmallCount
           d(x) == Log2(x) - StartBucket
<1>1. s < Two(Limit) /\ Two(Limit) \in Nat
  <2>1. Limit \in 0 .. 31
    BY MemoryAssumption DEF Limit
  <2>2. Two(Limit) \in Nat
    BY <2>1, Powers
  <2> QED BY <2>2
<1>2. SmallMax \in Nat \ {0} /\ K \in Nat \ {0} /\ c = SmallMax - 1
  <2>1. SmallMax \in Nat \ {0} /\ K \in Nat \ {0}
    BY IndexIs, <1>1
  <2> QED BY <2>1 DEF SmallCount
<1>3. CASE t < SmallMax
  <2>1. OsMemFreeListIndexGet(s) = s - 1 /\ OsMemFreeListIndexGet(t) = t - 1
    BY <1>1, <1>2, <1>3, IndexIs
  <2> QED BY <2>1
<1>4. CASE ~(t < SmallMax)
  <2>1. PICK r \in 0 .. K - 1 :
          /\ Log2(t) \in StartBucket .. Limit - 1 /\ Two(Log2(t)) \in Nat \ {0}
          /\ OsMemFreeListIndexGet(t) = c + d(t) * K + r
          /\ r = ((t * K) \div Two(Log2(t))) - K
    BY <1>1, <1>2, <1>4, IndexIs
  <2>2. StartBucket \in Int /\ Limit \in Int /\ StartBucket \in 0 .. 31 /\ Limit \in 0 .. 31
    BY MemoryAssumption DEF Limit
  <2>3. d(t) \in Nat /\ d(t) * K \in Nat
    BY <2>1, <2>2, <1>2
  <2>4. CASE s < SmallMax
    <3>1. OsMemFreeListIndexGet(s) = s - 1
      BY <1>1, <1>2, <2>4, IndexIs
    <3> HIDE DEF d
    <3> QED BY <3>1, <2>1, <2>3, <2>4, <1>2
  <2>5. CASE ~(s < SmallMax)
    <3>1. PICK i \in 0 .. K - 1 :
            /\ Log2(s) \in StartBucket .. Limit - 1 /\ Two(Log2(s)) \in Nat \ {0}
            /\ OsMemFreeListIndexGet(s) = c + d(s) * K + i
            /\ i = ((s * K) \div Two(Log2(s))) - K
      BY <1>1, <1>2, <2>5, IndexIs
    <3>2. d(s) \in Nat /\ d(s) * K \in Nat
      BY <3>1, <2>2, <1>2
    <3>3. CASE Log2(s) = Log2(t)
      <4>1. s * K <= t * K /\ s * K \in Nat /\ t * K \in Nat
        BY <1>2, TimesGrows
      <4>2. (s * K) \div Two(Log2(t)) <= (t * K) \div Two(Log2(t))
        BY <4>1, <2>1, DivGrows
      <4>3. i <= r
        BY <4>2, <3>1, <2>1, <3>3, <1>2
      <4> HIDE DEF d, K, c
      <4>4. d(s) = d(t)
        BY <3>3 DEF d
      <4> QED BY <4>3, <4>4, <3>1, <2>1, <2>3, <1>2
    <3>4. CASE Log2(s) < Log2(t)
      <4>1. d(s) + 1 <= d(t)
        BY <3>4, <3>1, <2>1, <2>2
      <4> HIDE DEF d, K, c
      <4>2. (d(s) + 1) * K <= d(t) * K
        BY <4>1, <3>2, <2>3, <1>2, TimesGrows
      <4>3. (d(s) + 1) * K = d(s) * K + K
        BY <3>2, <1>2
      <4> QED BY <4>2, <4>3, <3>1, <3>2, <2>1, <2>3, <1>2
    <3>5. CASE Log2(t) < Log2(s)
      <4>1. Two(Log2(t) + 1) <= Two(Log2(s))
        BY <3>5, <3>1, <2>1, <2>2, PowersGrow
      <4>2. t < Two(Log2(t) + 1) /\ Two(Log2(s)) <= s
        BY <2>2, <1>1, Log2Is
      <4>3. Two(Log2(t) + 1) \in Nat
        BY <2>1, <2>2, Powers
      <4> QED BY <4>1, <4>2, <4>3, <3>1
    <3> QED BY <3>1, <2>1, <2>2, <3>3, <3>4, <3>5
  <2> QED BY <2>4, <2>5
<1> QED BY <1>3, <1>4
-----------------------------------------------------------------------------
(* The chain of headers. *)

Header(N) == [size : 0 .. End - First, used : BOOLEAN, aligned : BOOLEAN, prev : DOMAIN N]

\* The chain without what a node knows of the one before it.
Forward(N) ==
    /\ DOMAIN N \subseteq First .. End /\ First \in DOMAIN N /\ End \in DOMAIN N
    /\ N \in [DOMAIN N -> Header(N)]
    /\ N[End].used
    /\ \A n \in DOMAIN N \ {End} :
          /\ n + N[n].size \in DOMAIN N /\ N[n].size >= MinLeft
          /\ \A m \in DOMAIN N : ~(n < m /\ m < n + N[n].size)

Backward(N) ==
    /\ N[First].prev = End
    /\ \A n \in DOMAIN N \ {End} : N[n + N[n].size].prev = n
    /\ \A m \in DOMAIN N \ {First} :
          N[m].prev \in DOMAIN N \ {End} /\ N[m].prev + N[N[m].prev].size = m

Chain(N) == Forward(N) /\ Backward(N)

LEMMA PoolIs ==
    /\ First \in Nat /\ End \in Nat /\ First < End /\ 0 < First /\ End - First \in Nat
    /\ Pool \in Nat /\ Pool < First /\ MinLeft = 4 /\ HeadSize = 2
  BY MemoryAssumption DEF MinLeft, HeadSize

LEMMA NodeIs ==
    ASSUME NEW N, Forward(N), NEW n \in DOMAIN N
    PROVE  /\ n \in First .. End /\ n \in Nat /\ N[n].size \in 0 .. End - First /\ N[n].size \in Nat
           /\ N[n].used \in BOOLEAN /\ N[n].aligned \in BOOLEAN /\ N[n].prev \in DOMAIN N
           /\ N[n] = [size |-> N[n].size, used |-> N[n].used, aligned |-> N[n].aligned,
                      prev |-> N[n].prev]
           /\ n # End => /\ n + N[n].size \in DOMAIN N /\ n + N[n].size \in First .. End
                         /\ n < n + N[n].size /\ N[n].size >= MinLeft
                         /\ n + N[n].size # First
<1>1. N[n] \in Header(N) /\ n \in First .. End
  BY DEF Forward
<1>2. /\ N[n].size \in 0 .. End - First
      /\ N[n].used \in BOOLEAN /\ N[n].aligned \in BOOLEAN /\ N[n].prev \in DOMAIN N
      /\ N[n] = [size |-> N[n].size, used |-> N[n].used, aligned |-> N[n].aligned,
                 prev |-> N[n].prev]
  BY <1>1 DEF Header
<1>3. ASSUME n # End
      PROVE  n + N[n].size \in DOMAIN N /\ N[n].size >= MinLeft /\ n + N[n].size \in First .. End
  BY <1>3 DEF Forward
<1> QED BY <1>1, <1>2, <1>3, PoolIs

\* Nodes do not overlap.
LEMMA NodesApart ==
    ASSUME NEW N, Forward(N), NEW n \in DOMAIN N \ {End}, NEW m \in DOMAIN N, n < m
    PROVE  n + N[n].size <= m
<1>1. ~(m < n + N[n].size)
  BY DEF Forward
<1> QED BY <1>1, NodeIs

\* The flags of headers change.
LEMMA FlagsChain ==
    ASSUME NEW N, Chain(N), NEW M, DOMAIN M = DOMAIN N, M \in [DOMAIN M -> Header(M)],
           M[End].used,
           \A n \in DOMAIN N : M[n].size = N[n].size /\ M[n].prev = N[n].prev
    PROVE  Chain(M)
<1>1. Forward(M)
  BY DEF Chain, Forward
<1>2. Backward(M)
  <2>1. M[First].prev = End
    BY DEF Chain, Backward, Forward
  <2>2. ASSUME NEW n \in DOMAIN M \ {End} PROVE M[n + M[n].size].prev = n
    <3>1. n + N[n].size \in DOMAIN N /\ N[n + N[n].size].prev = n
      BY DEF Chain, Backward, Forward
    <3> QED BY <3>1
  <2>3. ASSUME NEW m \in DOMAIN M \ {First}
        PROVE  M[m].prev \in DOMAIN M \ {End} /\ M[m].prev + M[M[m].prev].size = m
    BY DEF Chain, Backward
  <2> QED BY <2>1, <2>2, <2>3 DEF Backward
<1> QED BY <1>1, <1>2 DEF Chain

-----------------------------------------------------------------------------
(* Merging and splitting. *)

\* M is N with node n merged into the one before it.
Merges(N, M, n) ==
    LET p == N[n].prev
        x == n + N[n].size
    IN  /\ DOMAIN M = DOMAIN N \ {n}
        /\ M[p] = [N[p] EXCEPT !.size = @ + N[n].size]
        /\ M[x] = [N[x] EXCEPT !.prev = p]
        /\ \A m \in DOMAIN M \ {p, x} : M[m] = N[m]

\* M is N with node n cut after size words.
Carves(N, M, n, size) ==
    LET r == n + size
        x == n + N[n].size
    IN  /\ DOMAIN M = DOMAIN N \cup {r}
        /\ M[r] = [size |-> N[n].size - size, used |-> FALSE, aligned |-> FALSE, prev |-> n]
        /\ M[n] = [N[n] EXCEPT !.size = size]
        /\ M[x] = [N[x] EXCEPT !.prev = r]
        /\ \A m \in DOMAIN M \ {r, n, x} : M[m] = N[m]

LEMMA MergePlaces ==
    ASSUME NEW N, Chain(N), NEW n \in DOMAIN N \ {First, End}
    PROVE  LET p == N[n].prev
               x == n + N[n].size
           IN  /\ p \in DOMAIN N /\ x \in DOMAIN N /\ p # End /\ x # First
               /\ p < n /\ n < x /\ p + N[p].size = n /\ N[x].prev = n
               /\ p \in Nat /\ n \in Nat /\ x \in Nat
<1>1. /\ N[n].prev \in DOMAIN N \ {End} /\ N[n].prev + N[N[n].prev].size = n
      /\ N[n + N[n].size].prev = n
  BY DEF Chain, Backward
<1> QED BY <1>1, NodeIs DEF Chain

LEMMA MergeChain ==
    ASSUME NEW N, Chain(N), NEW n \in DOMAIN N \ {First, End}, NEW M, Merges(N, M, n),
           M = [m \in DOMAIN M |-> M[m]]
    PROVE  /\ Chain(M)
           /\ M[N[n].prev].size = N[N[n].prev].size + N[n].size
           /\ \A m \in DOMAIN M : /\ M[m].used = N[m].used /\ M[m].aligned = N[m].aligned
                                  /\ (m # N[n].prev => M[m].size = N[m].size)
<1> DEFINE p == N[n].prev
           x == n + N[n].size
<1>1. /\ p \in DOMAIN N /\ x \in DOMAIN N /\ p # End /\ x # First
      /\ p < n /\ n < x /\ p + N[p].size = n /\ N[x].prev = n
      /\ p \in Nat /\ n \in Nat /\ x \in Nat
  BY MergePlaces
<1>2. /\ DOMAIN M = DOMAIN N \ {n}
      /\ M[p] = [N[p] EXCEPT !.size = @ + N[n].size]
      /\ M[x] = [N[x] EXCEPT !.prev = p]
      /\ \A m \in DOMAIN M \ {p, x} : M[m] = N[m]
  BY DEF Merges
<1> HIDE DEF p, x
<1>3. /\ M[p].size = N[p].size + N[n].size /\ M[p].prev = N[p].prev
      /\ M[p].used = N[p].used /\ M[p].aligned = N[p].aligned
      /\ M[p] = [size |-> N[p].size + N[n].size, used |-> N[p].used, aligned |-> N[p].aligned,
                 prev |-> N[p].prev]
  <2>1. N[p] = [size |-> N[p].size, used |-> N[p].used, aligned |-> N[p].aligned,
                prev |-> N[p].prev]
    BY <1>1, NodeIs DEF Chain
  <2> QED BY <2>1, <1>2
<1>4. /\ M[x].size = N[x].size /\ M[x].prev = p
      /\ M[x].used = N[x].used /\ M[x].aligned = N[x].aligned
      /\ M[x] = [size |-> N[x].size, used |-> N[x].used, aligned |-> N[x].aligned, prev |-> p]
  <2>1. N[x] = [size |-> N[x].size, used |-> N[x].used, aligned |-> N[x].aligned,
                prev |-> N[x].prev]
    BY <1>1, NodeIs DEF Chain
  <2> QED BY <2>1, <1>2
<1>5. \A m \in DOMAIN M : /\ M[m].used = N[m].used /\ M[m].aligned = N[m].aligned
                         /\ (m # p => M[m].size = N[m].size)
                         /\ (m # x => M[m].prev = N[m].prev)
  BY <1>2, <1>3, <1>4
<1>6. p + M[p].size = x /\ p \in DOMAIN M /\ x \in DOMAIN M /\ n \notin DOMAIN M
  BY <1>1, <1>2, <1>3, NodeIs DEF x, Chain
<1>7. M \in [DOMAIN M -> Header(M)]
  <2> SUFFICES ASSUME NEW m \in DOMAIN M PROVE M[m] \in Header(M)
    OBVIOUS
  <2>1. CASE m = p
    <3>1. N[p].size + N[n].size \in 0 .. End - First
      BY <1>1, NodeIs, PoolIs DEF x, Chain
    <3>2. N[p].prev \in DOMAIN M
      <4>1. N[p].prev \in DOMAIN N
        BY <1>1, NodeIs DEF Chain
      <4>2. N[p].prev # n
        <5>1. CASE p = First
          BY <5>1 DEF Chain, Backward
        <5>2. CASE p # First
          <6>1. N[p].prev < p
            <7>1. p \in DOMAIN N \ {First, End}
              BY <1>1, <5>2
            <7> QED BY <7>1, MergePlaces
          <6> QED BY <6>1, <1>1
        <5> QED BY <5>1, <5>2
      <4> QED BY <4>1, <4>2, <1>2
    <3>3. N[p].used \in BOOLEAN /\ N[p].aligned \in BOOLEAN
      BY <1>1, NodeIs DEF Chain
    <3> QED BY <3>1, <3>2, <3>3, <2>1, <1>3 DEF Header
  <2>2. CASE m = x
    <3>1. N[x].size \in 0 .. End - First /\ N[x].used \in BOOLEAN /\ N[x].aligned \in BOOLEAN
      BY <1>1, NodeIs DEF Chain
    <3> QED BY <3>1, <2>2, <1>4, <1>6 DEF Header
  <2>3. CASE m # p /\ m # x
    <3>1. M[m] = N[m] /\ m \in DOMAIN N
      BY <2>3, <1>2
    <3>2. /\ N[m].size \in 0 .. End - First /\ N[m].used \in BOOLEAN /\ N[m].aligned \in BOOLEAN
          /\ N[m].prev \in DOMAIN N
          /\ N[m] = [size |-> N[m].size, used |-> N[m].used, aligned |-> N[m].aligned,
                     prev |-> N[m].prev]
      BY <3>1, NodeIs DEF Chain
    <3>3. N[m].prev # n
      <4>1. CASE m = First
        BY <4>1 DEF Chain, Backward
      <4>2. CASE m # First
        <5>1. N[m].prev + N[N[m].prev].size = m
          BY <3>1, <4>2 DEF Chain, Backward
        <5> QED BY <5>1, <2>3 DEF x
      <4> QED BY <4>1, <4>2
    <3> QED BY <3>1, <3>2, <3>3, <1>2 DEF Header
  <2> QED BY <2>1, <2>2, <2>3
<1>8. Forward(M)
  <2>1. DOMAIN M \subseteq First .. End /\ First \in DOMAIN M /\ End \in DOMAIN M /\ M[End].used
    BY <1>2, <1>5 DEF Chain, Forward
  <2>2. ASSUME NEW m \in DOMAIN M \ {End}
        PROVE  /\ m + M[m].size \in DOMAIN M /\ M[m].size >= MinLeft
               /\ \A k \in DOMAIN M : ~(m < k /\ k < m + M[m].size)
    <3>1. CASE m = p
      <4>1. N[p].size >= MinLeft /\ N[p].size \in Nat /\ N[n].size \in Nat
        BY <1>1, NodeIs DEF Chain
      <4>2. M[p].size >= MinLeft
        BY <4>1, <1>3, PoolIs
      <4>3. ASSUME NEW k \in DOMAIN M, p < k, k < x PROVE FALSE
        <5>1. k \in DOMAIN N /\ k # n
          BY <1>2, <4>3
        <5>2. ~(p < k /\ k < p + N[p].size) /\ ~(n < k /\ k < n + N[n].size)
          BY <5>1, <1>1 DEF Chain, Forward
        <5>3. k \in Nat
          BY <5>1, NodeIs DEF Chain
        <5> QED BY <5>1, <5>2, <5>3, <4>3, <1>1 DEF x
      <4> QED BY <3>1, <4>2, <4>3, <1>6
    <3>2. CASE m # p
      <4>1. M[m].size = N[m].size /\ m \in DOMAIN N \ {End}
        BY <1>5, <1>2, <3>2
      <4>2. m + N[m].size # n
        <5>1. N[m + N[m].size].prev = m
          BY <4>1 DEF Chain, Backward
        <5> QED BY <5>1, <3>2 DEF p
      <4> QED BY <4>1, <4>2, <1>2 DEF Chain, Forward
    <3> QED BY <3>1, <3>2
  <2> QED BY <1>7, <2>1, <2>2 DEF Forward
<1>9. Backward(M)
  <2>1. M[First].prev = End
    BY <1>5, <1>1, <1>2 DEF Chain, Backward, Forward
  <2>2. ASSUME NEW m \in DOMAIN M \ {End} PROVE M[m + M[m].size].prev = m
    <3>1. CASE m = p
      BY <3>1, <1>6, <1>4
    <3>2. CASE m # p
      <4>1. M[m].size = N[m].size /\ m \in DOMAIN N \ {End}
        BY <1>5, <1>2, <3>2
      <4>2. N[m + N[m].size].prev = m
        BY <4>1 DEF Chain, Backward
      <4>3. m + N[m].size # n /\ m + N[m].size # x
        <5>1. N[n].prev = p /\ N[x].prev = n /\ m # n
          BY <1>1, <1>2 DEF p
        <5> QED BY <5>1, <4>2, <3>2
      <4>4. m + M[m].size \in DOMAIN M
        BY <1>8 DEF Forward
      <4> QED BY <4>1, <4>2, <4>3, <4>4, <1>5
    <3> QED BY <3>1, <3>2
  <2>3. ASSUME NEW m \in DOMAIN M \ {First}
        PROVE  M[m].prev \in DOMAIN M \ {End} /\ M[m].prev + M[M[m].prev].size = m
    <3>1. CASE m = x
      BY <3>1, <1>1, <1>4, <1>6
    <3>2. CASE m # x
      <4>1. M[m].prev = N[m].prev /\ m \in DOMAIN N \ {First}
        BY <1>5, <1>2, <3>2
      <4>2. N[m].prev \in DOMAIN N \ {End} /\ N[m].prev + N[N[m].prev].size = m
        BY <4>1 DEF Chain, Backward
      <4>3. N[m].prev # n /\ N[m].prev # p
        <5>1. m # n
          BY <1>2
        <5> QED BY <5>1, <4>2, <3>2, <1>1 DEF x
      <4>4. M[N[m].prev].size = N[N[m].prev].size /\ N[m].prev \in DOMAIN M
        BY <4>2, <4>3, <1>5, <1>2
      <4> QED BY <4>1, <4>2, <4>4
    <3> QED BY <3>1, <3>2
  <2> QED BY <2>1, <2>2, <2>3 DEF Backward
<1> QED BY <1>3, <1>5, <1>8, <1>9 DEF Chain, p
LEMMA CarveChain ==
    ASSUME NEW N, Chain(N), NEW n \in DOMAIN N \ {End}, NEW size \in Nat, NEW M,
           MinLeft <= size, size + MinLeft <= N[n].size, Carves(N, M, n, size),
           M = [m \in DOMAIN M |-> M[m]]
    PROVE  LET r == n + size
           IN  /\ Chain(M) /\ r \notin DOMAIN N /\ r # End /\ r # n
               /\ r + M[r].size = n + N[n].size /\ ~M[r].used /\ ~M[r].aligned
               /\ M[n].size = size
               /\ \A m \in DOMAIN N : /\ M[m].used = N[m].used /\ M[m].aligned = N[m].aligned
                                      /\ (m # n => M[m].size = N[m].size)
<1> DEFINE r == n + size
           x == n + N[n].size
<1>1. /\ x \in DOMAIN N /\ x # First /\ n \in Nat /\ x \in Nat /\ r \in Nat
      /\ n < r /\ r < x /\ N[x].prev = n /\ x \in First .. End /\ n \in First .. End
      /\ N[n].size \in 0 .. End - First
  <2>1. N[x].prev = n
    BY DEF Chain, Backward
  <2> QED BY <2>1, NodeIs, PoolIs DEF Chain
<1>2. r \notin DOMAIN N /\ r # End /\ r \in First .. End
  <2>1. ~(r \in DOMAIN N /\ n < r /\ r < n + N[n].size)
    BY DEF Chain, Forward
  <2> QED BY <2>1, <1>1, PoolIs
<1>3. /\ DOMAIN M = DOMAIN N \cup {r}
      /\ M[r] = [size |-> N[n].size - size, used |-> FALSE, aligned |-> FALSE, prev |-> n]
      /\ M[n] = [N[n] EXCEPT !.size = size]
      /\ M[x] = [N[x] EXCEPT !.prev = r]
      /\ \A m \in DOMAIN M \ {r, n, x} : M[m] = N[m]
  BY DEF Carves
<1> HIDE DEF r, x
<1>4. /\ M[n].size = size /\ M[n].prev = N[n].prev
      /\ M[n].used = N[n].used /\ M[n].aligned = N[n].aligned
      /\ M[n] = [size |-> size, used |-> N[n].used, aligned |-> N[n].aligned, prev |-> N[n].prev]
  <2>1. N[n] = [size |-> N[n].size, used |-> N[n].used, aligned |-> N[n].aligned,
                prev |-> N[n].prev]
    BY NodeIs DEF Chain
  <2> QED BY <2>1, <1>3
<1>5. /\ M[x].size = N[x].size /\ M[x].prev = r
      /\ M[x].used = N[x].used /\ M[x].aligned = N[x].aligned
      /\ M[x] = [size |-> N[x].size, used |-> N[x].used, aligned |-> N[x].aligned, prev |-> r]
  <2>1. N[x] = [size |-> N[x].size, used |-> N[x].used, aligned |-> N[x].aligned,
                prev |-> N[x].prev]
    BY <1>1, NodeIs DEF Chain
  <2> QED BY <2>1, <1>3
<1>6. \A m \in DOMAIN N : /\ M[m].used = N[m].used /\ M[m].aligned = N[m].aligned
                         /\ (m # n => M[m].size = N[m].size)
                         /\ (m # x => M[m].prev = N[m].prev)
  BY <1>2, <1>3, <1>4, <1>5
<1>7. r + M[r].size = x /\ M[r].size = N[n].size - size /\ n + M[n].size = r /\ M[r].prev = n
  BY <1>1, <1>3, <1>4, NodeIs DEF x, r, Chain
<1>8. M \in [DOMAIN M -> Header(M)]
  <2> SUFFICES ASSUME NEW m \in DOMAIN M PROVE M[m] \in Header(M)
    OBVIOUS
  <2>1. CASE m = r
    <3>1. N[n].size - size \in 0 .. End - First /\ n \in DOMAIN M
      BY <1>1, <1>3, PoolIs
    <3> QED BY <3>1, <2>1, <1>3 DEF Header
  <2>2. CASE m = n
    <3>1. size \in 0 .. End - First /\ N[n].used \in BOOLEAN /\ N[n].aligned \in BOOLEAN
          /\ N[n].prev \in DOMAIN M
      BY <1>1, <1>3, NodeIs, PoolIs DEF Chain
    <3> QED BY <3>1, <2>2, <1>4 DEF Header
  <2>3. CASE m = x
    <3>1. N[x].size \in 0 .. End - First /\ N[x].used \in BOOLEAN /\ N[x].aligned \in BOOLEAN
          /\ r \in DOMAIN M
      BY <1>1, <1>3, NodeIs DEF Chain
    <3> QED BY <3>1, <2>3, <1>5 DEF Header
  <2>4. CASE m \notin {r, n, x}
    <3>1. M[m] = N[m] /\ m \in DOMAIN N
      BY <2>4, <1>3
    <3>2. /\ N[m].size \in 0 .. End - First /\ N[m].used \in BOOLEAN /\ N[m].aligned \in BOOLEAN
          /\ N[m].prev \in DOMAIN M
          /\ N[m] = [size |-> N[m].size, used |-> N[m].used, aligned |-> N[m].aligned,
                     prev |-> N[m].prev]
      BY <3>1, <1>3, NodeIs DEF Chain
    <3> QED BY <3>1, <3>2 DEF Header
  <2> QED BY <2>1, <2>2, <2>3, <2>4
<1>9. Forward(M)
  <2>1. DOMAIN M \subseteq First .. End /\ First \in DOMAIN M /\ End \in DOMAIN M /\ M[End].used
    BY <1>2, <1>3, <1>6 DEF Chain, Forward
  <2>2. ASSUME NEW m \in DOMAIN M \ {End}
        PROVE  /\ m + M[m].size \in DOMAIN M /\ M[m].size >= MinLeft
               /\ \A k \in DOMAIN M : ~(m < k /\ k < m + M[m].size)
    <3>0. /\ MinLeft \in Nat
          /\ \A k \in DOMAIN N : k \in Nat /\ ~(n < k /\ k < x)
      BY PoolIs, NodeIs DEF Chain, Forward, x
    <3>1. CASE m = r
      <4>1. M[r].size >= MinLeft
        BY <3>0, <1>1, <1>7
      <4>2. \A k \in DOMAIN M : ~(r < k /\ k < x)
        BY <3>0, <1>1, <1>3
      <4> QED BY <3>1, <4>1, <4>2, <1>7, <1>1, <1>3
    <3>2. CASE m = n
      <4>1. \A k \in DOMAIN M : ~(n < k /\ k < r)
        BY <3>0, <1>1, <1>3
      <4> QED BY <3>2, <4>1, <1>7, <1>4, <1>3
    <3>3. CASE m # r /\ m # n
      <4>1. M[m].size = N[m].size /\ m \in DOMAIN N \ {End}
        BY <1>6, <1>3, <3>3
      <4>2. /\ m + N[m].size \in DOMAIN M /\ N[m].size >= MinLeft
            /\ \A k \in DOMAIN N : ~(m < k /\ k < m + N[m].size)
        BY <4>1, <1>3 DEF Chain, Forward
      <4>3. ~(m < r /\ r < m + N[m].size)
        <5>1. CASE m < n
          <6>1. m + N[m].size <= n
            BY <4>1, <5>1, NodesApart DEF Chain
          <6>2. m + N[m].size \in Nat
            BY <4>1, NodeIs DEF Chain
          <6> QED BY <6>1, <6>2, <1>1
        <5>2. CASE n < m
          <6>1. x <= m
            BY <4>1, <5>2, NodesApart DEF Chain, x
          <6>2. m \in Nat
            BY <4>1, <3>0
          <6> QED BY <6>1, <6>2, <1>1
        <5> QED BY <5>1, <5>2, <3>3, <3>0, <4>1, <1>1
      <4> QED BY <4>1, <4>2, <4>3, <1>3
    <3> QED BY <3>1, <3>2, <3>3
  <2> QED BY <1>8, <2>1, <2>2 DEF Forward
<1>10. Backward(M)
  <2>1. M[First].prev = End
    BY <1>6, <1>1 DEF Chain, Backward, Forward
  <2>2. ASSUME NEW m \in DOMAIN M \ {End} PROVE M[m + M[m].size].prev = m
    <3>1. CASE m = r
      BY <3>1, <1>7, <1>5
    <3>2. CASE m = n
      BY <3>2, <1>7
    <3>3. CASE m # n /\ m # r
      <4>1. M[m].size = N[m].size /\ m \in DOMAIN N \ {End}
        BY <1>6, <1>3, <3>3
      <4>2. N[m + N[m].size].prev = m /\ m + N[m].size \in DOMAIN N
        BY <4>1 DEF Chain, Backward, Forward
      <4>3. m + N[m].size # x
        BY <4>2, <3>3, <1>1
      <4> QED BY <4>1, <4>2, <4>3, <1>6
    <3> QED BY <3>1, <3>2, <3>3
  <2>3. ASSUME NEW m \in DOMAIN M \ {First}
        PROVE  M[m].prev \in DOMAIN M \ {End} /\ M[m].prev + M[M[m].prev].size = m
    <3>1. CASE m = x
      BY <3>1, <1>2, <1>3, <1>5, <1>7
    <3>2. CASE m = r
      BY <3>2, <1>3, <1>7
    <3>3. CASE m # x /\ m # r
      <4>1. M[m].prev = N[m].prev /\ m \in DOMAIN N \ {First}
        BY <1>6, <1>3, <3>3
      <4>2. N[m].prev \in DOMAIN N \ {End} /\ N[m].prev + N[N[m].prev].size = m
        BY <4>1 DEF Chain, Backward
      <4>3. N[m].prev # n
        BY <4>2, <3>3 DEF x
      <4> QED BY <4>1, <4>2, <4>3, <1>6, <1>3
    <3> QED BY <3>1, <3>2, <3>3
  <2> QED BY <2>1, <2>2, <2>3 DEF Backward
<1> QED BY <1>2, <1>1, <1>3, <1>4, <1>6, <1>7, <1>9, <1>10 DEF Chain, r, x
-----------------------------------------------------------------------------
(* The lists. *)

\* The nodes of S are on the lists of their sizes.
Listed(F, B, N, S) ==
    /\ F \in [ListIndex -> Seq(First .. End)]
    /\ B = {i \in ListIndex : F[i] # <<>>}
    /\ \A i \in ListIndex :
          /\ IsInjective(F[i])
          /\ \A n : Contains(F[i], n) <=> n \in S /\ OsMemFreeListIndexGet(N[n].size) = i

LEMMA NodeIndex ==
    ASSUME NEW N, Forward(N), NEW n \in DOMAIN N \ {End}
    PROVE  /\ OsMemFreeListIndexGet(N[n].size) \in ListIndex
           /\ N[n].size \in Nat \ {0} /\ N[n].size < Two(Limit)
<1>1. N[n].size \in Nat \ {0} /\ N[n].size <= End - First
  BY NodeIs, PoolIs
<1>2. End - First < Two(Limit) /\ Limit \in 0 .. 31
  BY MemoryAssumption DEF Two, Limit
<1>3. Two(Limit) \in Nat
  BY <1>2, Powers
<1>4. N[n].size < Two(Limit)
  BY <1>1, <1>2, <1>3, PoolIs
<1>5. OsMemFreeListIndexGet(N[n].size) \in ListIndex
  BY <1>1, <1>4, IndexIs
<1> QED BY <1>1, <1>4, <1>5

\* Only the last node leaves an empty list.
LEMMA EmptiedList ==
    ASSUME NEW S, NEW s \in Seq(S), NEW t, Contains(s, t)
    PROVE  RemoveFirst(s, t) = <<>> <=> s = <<t>>
<1>1. PICK r : r = RemoveFirst(s, t)
  OBVIOUS
<1>2. Len(r) = Len(s) - 1 /\ r \in Seq(S) /\ Len(s) \in Nat
  BY <1>1, UnlinkPresent
<1>3. PICK k \in 1 .. Len(s) : s[k] = t
  BY DEF Contains
<1>4. ASSUME s = <<t>> PROVE r = <<>>
  <2>1. Len(s) = 1
    BY <1>4
  <2> QED BY <1>2, <2>1
<1>5. ASSUME r = <<>> PROVE s = <<t>>
  <2>1. Len(r) = 0
    BY <1>5
  <2>2. Len(s) = 1
    BY <2>1, <1>2
  <2>3. s[1] = t
    BY <2>2, <1>3
  <2> QED BY <2>2, <2>3
<1> QED BY <1>1, <1>4, <1>5

LEMMA DeleteListed ==
    ASSUME NEW F, NEW B, NEW N, NEW S, Listed(F, B, N, S), NEW n \in S, NEW i \in ListIndex,
           i = OsMemFreeListIndexGet(N[n].size)
    PROVE  Listed([F EXCEPT ![i] = RemoveFirst(@, n)],
                  IF F[i] = <<n>> THEN B \ {i} ELSE B, N, S \ {n})
<1> DEFINE G == [F EXCEPT ![i] = RemoveFirst(@, n)]
           C == IF F[i] = <<n>> THEN B \ {i} ELSE B
<1>1. /\ F \in [ListIndex -> Seq(First .. End)] /\ B = {j \in ListIndex : F[j] # <<>>}
      /\ F[i] \in Seq(First .. End) /\ IsInjective(F[i]) /\ Contains(F[i], n)
  BY DEF Listed
<1>2. /\ G[i] = RemoveFirst(F[i], n) /\ DOMAIN G = ListIndex
      /\ \A j \in ListIndex : j # i => G[j] = F[j]
  BY <1>1
<1> HIDE DEF G
<1>3. /\ G[i] \in Seq(First .. End) /\ IsInjective(G[i]) /\ ~Contains(G[i], n)
      /\ \A z : z # n => (Contains(G[i], z) <=> Contains(F[i], z))
  BY <1>1, <1>2, UnlinkOnce
<1>4. G \in [ListIndex -> Seq(First .. End)]
  BY <1>1, <1>2, <1>3 DEF G
<1>5. G[i] = <<>> <=> F[i] = <<n>>
  BY <1>1, <1>2, EmptiedList
<1>6. C = {j \in ListIndex : G[j] # <<>>}
  <2>1. \A j : j \in C <=> j \in B /\ ~(j = i /\ F[i] = <<n>>)
    OBVIOUS
  <2>2. F[i] # <<>>
    BY <1>1 DEF Contains
  <2> HIDE DEF C, G
  <2>3. \A j : j \in C <=> j \in ListIndex /\ G[j] # <<>>
    BY <2>1, <2>2, <1>1, <1>2, <1>5
  <2> QED BY <2>3
<1>7. ASSUME NEW j \in ListIndex
      PROVE  /\ IsInjective(G[j])
             /\ \A m : Contains(G[j], m)
                      <=> m \in S \ {n} /\ OsMemFreeListIndexGet(N[m].size) = j
  <2>1. CASE j = i
    <3>1. \A m : Contains(F[i], m) <=> m \in S /\ OsMemFreeListIndexGet(N[m].size) = i
      BY DEF Listed
    <3> QED BY <3>1, <2>1, <1>3
  <2>2. CASE j # i
    <3>1. /\ IsInjective(F[j])
          /\ \A m : Contains(F[j], m) <=> m \in S /\ OsMemFreeListIndexGet(N[m].size) = j
      BY DEF Listed
    <3> QED BY <3>1, <2>2, <1>2
  <2> QED BY <2>1, <2>2
<1> HIDE DEF G, C
<1> QED BY <1>4, <1>6, <1>7 DEF Listed, G, C

LEMMA AddListed ==
    ASSUME NEW F, NEW B, NEW N, NEW S, Listed(F, B, N, S), NEW n \in First .. End, n \notin S,
           NEW i \in ListIndex, i = OsMemFreeListIndexGet(N[n].size)
    PROVE  Listed([F EXCEPT ![i] = <<n>> \o @], B \cup {i}, N, S \cup {n})
<1> DEFINE G == [F EXCEPT ![i] = <<n>> \o @]
           C == B \cup {i}
<1>1. /\ F \in [ListIndex -> Seq(First .. End)] /\ B = {j \in ListIndex : F[j] # <<>>}
      /\ F[i] \in Seq(First .. End) /\ IsInjective(F[i]) /\ ~Contains(F[i], n)
  BY DEF Listed
<1>2. /\ G[i] = <<n>> \o F[i] /\ DOMAIN G = ListIndex
      /\ \A j \in ListIndex : j # i => G[j] = F[j]
  BY <1>1
<1>3. /\ G[i] \in Seq(First .. End) /\ IsInjective(G[i]) /\ Contains(G[i], n)
      /\ \A z \in First .. End : z # n => (Contains(G[i], z) <=> Contains(F[i], z))
  BY <1>1, <1>2, PutFirstOnce
<1>4. \A z : z # n => (Contains(G[i], z) <=> Contains(F[i], z))
  BY <1>1, <1>3, ContainsType
<1>5. G \in [ListIndex -> Seq(First .. End)]
  BY <1>1, <1>3
<1>6. G[i] # <<>>
  BY <1>3 DEF Contains
<1>7. C = {j \in ListIndex : G[j] # <<>>}
  BY <1>1, <1>2, <1>6
<1>8. ASSUME NEW j \in ListIndex
      PROVE  /\ IsInjective(G[j])
             /\ \A m : Contains(G[j], m)
                      <=> m \in S \cup {n} /\ OsMemFreeListIndexGet(N[m].size) = j
  <2>1. CASE j = i
    <3>1. \A m : Contains(F[i], m) <=> m \in S /\ OsMemFreeListIndexGet(N[m].size) = i
      BY DEF Listed
    <3> QED BY <3>1, <2>1, <1>3, <1>4
  <2>2. CASE j # i
    <3>1. /\ IsInjective(F[j])
          /\ \A m : Contains(F[j], m) <=> m \in S /\ OsMemFreeListIndexGet(N[m].size) = j
      BY DEF Listed
    <3> QED BY <3>1, <2>2, <1>2
  <2> QED BY <2>1, <2>2
<1> HIDE DEF G, C
<1> QED BY <1>5, <1>7, <1>8 DEF Listed, G, C

LEMMA SameListed ==
    ASSUME NEW F, NEW B, NEW N, NEW M, NEW S, Listed(F, B, N, S),
           \A n \in S : M[n].size = N[n].size
    PROVE  Listed(F, B, M, S)
  BY DEF Listed

-----------------------------------------------------------------------------
(* The heap's record: nodes and lists agree about the nodes of S. *)

IsHeap(h) ==
    \E nodes, freeList, bitmap, gap, curUsedSize, waterLine :
        h = [nodes |-> nodes, freeList |-> freeList, bitmap |-> bitmap, gap |-> gap,
             curUsedSize |-> curUsedSize, waterLine |-> waterLine]

NodesSet(g, h, X) == g = [h EXCEPT !.nodes = X]

LEMMA SetNodes ==
    ASSUME NEW h, IsHeap(h), NEW X, NEW g, NodesSet(g, h, X)
    PROVE  /\ IsHeap(g)
           /\ g.nodes = X /\ g.freeList = h.freeList /\ g.bitmap = h.bitmap
           /\ g.gap = h.gap /\ g.curUsedSize = h.curUsedSize /\ g.waterLine = h.waterLine
<1>1. PICK a, b, c, d, e, f :
        h = [nodes |-> a, freeList |-> b, bitmap |-> c, gap |-> d,
             curUsedSize |-> e, waterLine |-> f]
  BY Zenon DEF IsHeap
<1>2. g = [nodes |-> X, freeList |-> b, bitmap |-> c, gap |-> d,
             curUsedSize |-> e, waterLine |-> f]
  BY <1>1 DEF NodesSet
<1>3. IsHeap(g)
  BY <1>2, Zenon DEF IsHeap
<1> QED BY <1>1, <1>2, <1>3

FreeListSet(g, h, X) == g = [h EXCEPT !.freeList = X]

LEMMA SetFreeList ==
    ASSUME NEW h, IsHeap(h), NEW X, NEW g, FreeListSet(g, h, X)
    PROVE  /\ IsHeap(g)
           /\ g.nodes = h.nodes /\ g.freeList = X /\ g.bitmap = h.bitmap
           /\ g.gap = h.gap /\ g.curUsedSize = h.curUsedSize /\ g.waterLine = h.waterLine
<1>1. PICK a, b, c, d, e, f :
        h = [nodes |-> a, freeList |-> b, bitmap |-> c, gap |-> d,
             curUsedSize |-> e, waterLine |-> f]
  BY Zenon DEF IsHeap
<1>2. g = [nodes |-> a, freeList |-> X, bitmap |-> c, gap |-> d,
             curUsedSize |-> e, waterLine |-> f]
  BY <1>1 DEF FreeListSet
<1>3. IsHeap(g)
  BY <1>2, Zenon DEF IsHeap
<1> QED BY <1>1, <1>2, <1>3

BitmapSet(g, h, X) == g = [h EXCEPT !.bitmap = X]

LEMMA SetBitmap ==
    ASSUME NEW h, IsHeap(h), NEW X, NEW g, BitmapSet(g, h, X)
    PROVE  /\ IsHeap(g)
           /\ g.nodes = h.nodes /\ g.freeList = h.freeList /\ g.bitmap = X
           /\ g.gap = h.gap /\ g.curUsedSize = h.curUsedSize /\ g.waterLine = h.waterLine
<1>1. PICK a, b, c, d, e, f :
        h = [nodes |-> a, freeList |-> b, bitmap |-> c, gap |-> d,
             curUsedSize |-> e, waterLine |-> f]
  BY Zenon DEF IsHeap
<1>2. g = [nodes |-> a, freeList |-> b, bitmap |-> X, gap |-> d,
             curUsedSize |-> e, waterLine |-> f]
  BY <1>1 DEF BitmapSet
<1>3. IsHeap(g)
  BY <1>2, Zenon DEF IsHeap
<1> QED BY <1>1, <1>2, <1>3

GapSet(g, h, X) == g = [h EXCEPT !.gap = X]

LEMMA SetGap ==
    ASSUME NEW h, IsHeap(h), NEW X, NEW g, GapSet(g, h, X)
    PROVE  /\ IsHeap(g)
           /\ g.nodes = h.nodes /\ g.freeList = h.freeList /\ g.bitmap = h.bitmap
           /\ g.gap = X /\ g.curUsedSize = h.curUsedSize /\ g.waterLine = h.waterLine
<1>1. PICK a, b, c, d, e, f :
        h = [nodes |-> a, freeList |-> b, bitmap |-> c, gap |-> d,
             curUsedSize |-> e, waterLine |-> f]
  BY Zenon DEF IsHeap
<1>2. g = [nodes |-> a, freeList |-> b, bitmap |-> c, gap |-> X,
             curUsedSize |-> e, waterLine |-> f]
  BY <1>1 DEF GapSet
<1>3. IsHeap(g)
  BY <1>2, Zenon DEF IsHeap
<1> QED BY <1>1, <1>2, <1>3

UsedSet(g, h, X) == g = [h EXCEPT !.curUsedSize = X]

LEMMA SetUsed ==
    ASSUME NEW h, IsHeap(h), NEW X, NEW g, UsedSet(g, h, X)
    PROVE  /\ IsHeap(g)
           /\ g.nodes = h.nodes /\ g.freeList = h.freeList /\ g.bitmap = h.bitmap
           /\ g.gap = h.gap /\ g.curUsedSize = X /\ g.waterLine = h.waterLine
<1>1. PICK a, b, c, d, e, f :
        h = [nodes |-> a, freeList |-> b, bitmap |-> c, gap |-> d,
             curUsedSize |-> e, waterLine |-> f]
  BY Zenon DEF IsHeap
<1>2. g = [nodes |-> a, freeList |-> b, bitmap |-> c, gap |-> d,
             curUsedSize |-> X, waterLine |-> f]
  BY <1>1 DEF UsedSet
<1>3. IsHeap(g)
  BY <1>2, Zenon DEF IsHeap
<1> QED BY <1>1, <1>2, <1>3

WaterSet(g, h, X) == g = [h EXCEPT !.waterLine = X]

LEMMA SetWater ==
    ASSUME NEW h, IsHeap(h), NEW X, NEW g, WaterSet(g, h, X)
    PROVE  /\ IsHeap(g)
           /\ g.nodes = h.nodes /\ g.freeList = h.freeList /\ g.bitmap = h.bitmap
           /\ g.gap = h.gap /\ g.curUsedSize = h.curUsedSize /\ g.waterLine = X
<1>1. PICK a, b, c, d, e, f :
        h = [nodes |-> a, freeList |-> b, bitmap |-> c, gap |-> d,
             curUsedSize |-> e, waterLine |-> f]
  BY Zenon DEF IsHeap
<1>2. g = [nodes |-> a, freeList |-> b, bitmap |-> c, gap |-> d,
             curUsedSize |-> e, waterLine |-> X]
  BY <1>1 DEF WaterSet
<1>3. IsHeap(g)
  BY <1>2, Zenon DEF IsHeap
<1> QED BY <1>1, <1>2, <1>3

Sound(h, S) ==
    /\ IsHeap(h) /\ Chain(h.nodes)
    /\ S \subseteq DOMAIN h.nodes \ {End}
    /\ Listed(h.freeList, h.bitmap, h.nodes, S)

SameAccounts(g, h) ==
    g.gap = h.gap /\ g.curUsedSize = h.curUsedSize /\ g.waterLine = h.waterLine

LEMMA ListDelete ==
    ASSUME NEW h, NEW S, Sound(h, S), NEW n \in S, NEW i,
           i = OsMemFreeListIndexGet(h.nodes[n].size)
    PROVE  LET g == OsMemListDelete(h, i, n)
           IN  Sound(g, S \ {n}) /\ g.nodes = h.nodes /\ SameAccounts(g, h)
<1> DEFINE g == OsMemListDelete(h, i, n)
<1>1. /\ IsHeap(g) /\ g.nodes = h.nodes /\ SameAccounts(g, h)
      /\ g.freeList = [h.freeList EXCEPT ![i] = RemoveFirst(@, n)]
      /\ g.bitmap = IF h.freeList[i] = <<n>> THEN h.bitmap \ {i} ELSE h.bitmap
  <2>1. PICK X, Y : X = [h.freeList EXCEPT ![i] = RemoveFirst(@, n)]
                   /\ Y = IF h.freeList[i] = <<n>> THEN h.bitmap \ {i} ELSE h.bitmap
    OBVIOUS
  <2>2. PICK k : FreeListSet(k, h, X)
    BY DEF FreeListSet
  <2>3. BitmapSet(g, k, Y)
    BY <2>1, <2>2, Zenon DEF OsMemListDelete, FreeListSet, BitmapSet
  <2> HIDE DEF g
  <2>4. IsHeap(h)
    BY DEF Sound
  <2>5. /\ IsHeap(k) /\ k.freeList = X /\ k.bitmap = h.bitmap /\ k.nodes = h.nodes
        /\ k.gap = h.gap /\ k.curUsedSize = h.curUsedSize /\ k.waterLine = h.waterLine
    BY <2>2, <2>4, SetFreeList
  <2>6. /\ IsHeap(g) /\ g.freeList = k.freeList /\ g.bitmap = Y /\ g.nodes = k.nodes
        /\ g.gap = k.gap /\ g.curUsedSize = k.curUsedSize /\ g.waterLine = k.waterLine
    BY <2>3, <2>5, SetBitmap
  <2> QED BY <2>1, <2>5, <2>6, Zenon DEF SameAccounts
<1>2. n \in DOMAIN h.nodes \ {End} /\ Forward(h.nodes)
  BY DEF Sound, Chain
<1>3. i \in ListIndex
  BY <1>2, NodeIndex
<1>4. Listed([h.freeList EXCEPT ![i] = RemoveFirst(@, n)],
             IF h.freeList[i] = <<n>> THEN h.bitmap \ {i} ELSE h.bitmap, h.nodes, S \ {n})
  BY <1>3, DeleteListed DEF Sound
<1> HIDE DEF g
<1>5. Sound(g, S \ {n})
  BY <1>1, <1>4 DEF Sound
<1> QED BY <1>1, <1>5 DEF g

LEMMA NodeDelete ==
    ASSUME NEW h, NEW S, Sound(h, S), NEW n \in S
    PROVE  LET g == OsMemFreeNodeDelete(h, n)
           IN  Sound(g, S \ {n}) /\ g.nodes = h.nodes /\ SameAccounts(g, h)
  BY ListDelete DEF OsMemFreeNodeDelete

LEMMA NodeAdd ==
    ASSUME NEW h, NEW S, Sound(h, S), NEW n \in DOMAIN h.nodes \ {End}, n \notin S
    PROVE  LET g == OsMemFreeNodeAdd(h, n)
           IN  Sound(g, S \cup {n}) /\ g.nodes = h.nodes /\ SameAccounts(g, h)
<1> DEFINE g == OsMemFreeNodeAdd(h, n)
           i == OsMemFreeListIndexGet(h.nodes[n].size)
<1>1. /\ IsHeap(g) /\ g.nodes = h.nodes /\ SameAccounts(g, h)
      /\ g.freeList = [h.freeList EXCEPT ![i] = <<n>> \o @]
      /\ g.bitmap = h.bitmap \cup {i}
  <2>1. PICK X, Y : X = [h.freeList EXCEPT ![i] = <<n>> \o @]
                   /\ Y = h.bitmap \cup {i}
    OBVIOUS
  <2>2. PICK k : FreeListSet(k, h, X)
    BY DEF FreeListSet
  <2>3. BitmapSet(g, k, Y)
    BY <2>1, <2>2, Zenon DEF OsMemFreeNodeAdd, OsMemListAdd, FreeListSet, BitmapSet
  <2> HIDE DEF g
  <2>4. IsHeap(h)
    BY DEF Sound
  <2>5. /\ IsHeap(k) /\ k.freeList = X /\ k.bitmap = h.bitmap /\ k.nodes = h.nodes
        /\ k.gap = h.gap /\ k.curUsedSize = h.curUsedSize /\ k.waterLine = h.waterLine
    BY <2>2, <2>4, SetFreeList
  <2>6. /\ IsHeap(g) /\ g.freeList = k.freeList /\ g.bitmap = Y /\ g.nodes = k.nodes
        /\ g.gap = k.gap /\ g.curUsedSize = k.curUsedSize /\ g.waterLine = k.waterLine
    BY <2>3, <2>5, SetBitmap
  <2> QED BY <2>1, <2>5, <2>6, Zenon DEF SameAccounts
<1>2. Forward(h.nodes) /\ n \in First .. End
  BY NodeIs DEF Sound, Chain
<1>3. i \in ListIndex
  BY <1>2, NodeIndex
<1> HIDE DEF i
<1>4. Listed([h.freeList EXCEPT ![i] = <<n>> \o @], h.bitmap \cup {i}, h.nodes, S \cup {n})
  BY <1>2, <1>3, AddListed DEF Sound, i
<1> HIDE DEF g
<1>5. Sound(g, S \cup {n})
  BY <1>1, <1>4 DEF Sound
<1> QED BY <1>1, <1>5 DEF g

LEMMA MergeSound ==
    ASSUME NEW h, NEW S, Sound(h, S), NEW n \in DOMAIN h.nodes \ {First, End}, n \notin S,
           h.nodes[n].prev \notin S
    PROVE  LET g == OsMemMergeNode(h, n)
           IN  Sound(g, S) /\ Merges(h.nodes, g.nodes, n) /\ SameAccounts(g, h)
               /\ g.nodes = [m \in DOMAIN g.nodes |-> g.nodes[m]]
<1> DEFINE g == OsMemMergeNode(h, n)
           N == h.nodes
           p == N[n].prev
           x == n + N[n].size
<1>1. /\ IsHeap(g) /\ SameAccounts(g, h) /\ g.freeList = h.freeList /\ g.bitmap = h.bitmap
      /\ g.nodes = [m \in DOMAIN N \ {n} |->
                       CASE m = p -> [N[m] EXCEPT !.size = @ + N[n].size]
                         [] m = x -> [N[m] EXCEPT !.prev = p]
                         [] OTHER -> N[m]]
  <2>1. IsHeap(h)
    BY DEF Sound
  <2> QED BY <2>1, SetNodes DEF NodesSet, OsMemMergeNode, NextNode, SameAccounts
<1>2. p \in DOMAIN N /\ x \in DOMAIN N /\ p # x /\ p # n /\ x # n
  BY MergePlaces DEF Sound
<1> HIDE DEF p, x, g
<1>3. /\ DOMAIN g.nodes = DOMAIN N \ {n}
      /\ g.nodes[p] = [N[p] EXCEPT !.size = @ + N[n].size]
      /\ g.nodes[x] = [N[x] EXCEPT !.prev = p]
      /\ \A m \in DOMAIN g.nodes \ {p, x} : g.nodes[m] = N[m]
  BY <1>1, <1>2
<1>4. Merges(N, g.nodes, n)
  BY <1>3 DEF Merges, p, x
<1>5. g.nodes = [m \in DOMAIN g.nodes |-> g.nodes[m]]
  BY <1>1
<1>6. Chain(g.nodes) /\ \A m \in DOMAIN g.nodes : m # p => g.nodes[m].size = N[m].size
  BY <1>4, <1>5, MergeChain DEF Sound, p
<1>7. S \subseteq DOMAIN g.nodes \ {End} /\ p \notin S
  BY <1>3 DEF Sound, p
<1>8. Listed(g.freeList, g.bitmap, g.nodes, S)
  <2>1. Listed(h.freeList, h.bitmap, N, S) /\ \A m \in S : g.nodes[m].size = N[m].size
    BY <1>6, <1>7 DEF Sound
  <2> QED BY <2>1, <1>1, SameListed
<1> QED BY <1>1, <1>4, <1>5, <1>6, <1>7, <1>8 DEF Sound, g

LEMMA CarveSound ==
    ASSUME NEW h, NEW S, Sound(h, S), NEW n \in DOMAIN h.nodes \ {End}, n \notin S,
           NEW size \in Nat, MinLeft <= size, size + MinLeft <= h.nodes[n].size
    PROVE  LET g == Carved(h, n, size)
           IN  Sound(g, S) /\ Carves(h.nodes, g.nodes, n, size) /\ SameAccounts(g, h)
               /\ g.nodes = [m \in DOMAIN g.nodes |-> g.nodes[m]]
<1> DEFINE g == Carved(h, n, size)
           N == h.nodes
           r == n + size
           x == n + N[n].size
<1>1. /\ IsHeap(g) /\ SameAccounts(g, h) /\ g.freeList = h.freeList /\ g.bitmap = h.bitmap
      /\ g.nodes = [m \in DOMAIN N \cup {r} |->
                       CASE m = r -> [size |-> N[n].size - size, used |-> FALSE,
                                      aligned |-> FALSE, prev |-> n]
                         [] m = n -> [N[n] EXCEPT !.size = size]
                         [] m = x -> [N[m] EXCEPT !.prev = r]
                         [] OTHER -> N[m]]
  <2>1. IsHeap(h)
    BY DEF Sound
  <2> QED BY <2>1, SetNodes DEF NodesSet, Carved, NextNode, SameAccounts
<1>2. r # n /\ r # x /\ x # n /\ x \in DOMAIN N
  BY NodeIs, PoolIs DEF Sound, Chain
<1> HIDE DEF r, x, g
<1>3. /\ DOMAIN g.nodes = DOMAIN N \cup {r}
      /\ g.nodes[r] = [size |-> N[n].size - size, used |-> FALSE, aligned |-> FALSE, prev |-> n]
      /\ g.nodes[n] = [N[n] EXCEPT !.size = size]
      /\ g.nodes[x] = [N[x] EXCEPT !.prev = r]
      /\ \A m \in DOMAIN g.nodes \ {r, n, x} : g.nodes[m] = N[m]
  BY <1>1, <1>2
<1>4. Carves(N, g.nodes, n, size)
  BY <1>3 DEF Carves, r, x
<1>5. g.nodes = [m \in DOMAIN g.nodes |-> g.nodes[m]]
  BY <1>1
<1>6. Chain(g.nodes) /\ \A m \in DOMAIN N : m # n => g.nodes[m].size = N[m].size
  BY <1>4, <1>5, CarveChain DEF Sound
<1>7. S \subseteq DOMAIN g.nodes \ {End}
  BY <1>3 DEF Sound
<1>8. Listed(g.freeList, g.bitmap, g.nodes, S)
  <2>1. Listed(h.freeList, h.bitmap, N, S) /\ \A m \in S : g.nodes[m].size = N[m].size
    BY <1>6, <1>7 DEF Sound
  <2> QED BY <2>1, <1>1, SameListed
<1> QED BY <1>1, <1>4, <1>5, <1>6, <1>7, <1>8 DEF Sound, g
-----------------------------------------------------------------------------
(* A node that is cut and marked as used. *)

FreeOf(N) == {n \in DOMAIN N : ~N[n].used}
UsedOf(N) == {n \in DOMAIN N \ {End} : N[n].used}

\* No two free nodes are neighbours, but for one that is about to be used.
Apart(N, X) ==
    \A n \in DOMAIN N \ ({End} \cup X) :
        ~N[n].used => N[n + N[n].size].used /\ ~N[n].aligned

Tidy(h) == Sound(h, FreeOf(h.nodes)) /\ Apart(h.nodes, {})

\* The used nodes but n stay as they are.
Others(N, M, n) ==
    /\ UsedOf(M) \ {n} = UsedOf(N) \ {n}
    /\ \A m \in UsedOf(N) \ {n} : M[m].size = N[m].size /\ M[m].aligned = N[m].aligned

\* M is N with other flags of node n.
Flags(N, M, n, used, aligned) ==
    /\ DOMAIN M = DOMAIN N
    /\ M[n] = [size |-> N[n].size, used |-> used, aligned |-> aligned, prev |-> N[n].prev]
    /\ \A m \in DOMAIN N \ {n} : M[m] = N[m]
    /\ M = [m \in DOMAIN M |-> M[m]]

LEMMA FlagsSound ==
    ASSUME NEW h, NEW S, Sound(h, S), NEW n \in DOMAIN h.nodes \ {End}, NEW used \in BOOLEAN,
           NEW aligned \in BOOLEAN, NEW g, IsHeap(g), Flags(h.nodes, g.nodes, n, used, aligned),
           g.freeList = h.freeList, g.bitmap = h.bitmap
    PROVE  Sound(g, S)
<1> DEFINE N == h.nodes
           M == g.nodes
<1>1. /\ DOMAIN M = DOMAIN N
      /\ M[n] = [size |-> N[n].size, used |-> used, aligned |-> aligned, prev |-> N[n].prev]
      /\ \A m \in DOMAIN N \ {n} : M[m] = N[m]
      /\ M = [m \in DOMAIN M |-> M[m]]
  BY Zenon DEF Flags
<1>2. Chain(N) /\ Forward(N)
  BY DEF Sound, Chain
<1> HIDE DEF N, M
<1>3. M \in [DOMAIN M -> Header(M)]
  <2>1. Header(M) = Header(N)
    BY <1>1 DEF Header
  <2>2. M[n] \in Header(N)
    <3>1. N[n].size \in 0 .. End - First /\ N[n].prev \in DOMAIN N
      BY <1>2, NodeIs DEF N
    <3> QED BY <3>1, <1>1 DEF Header
  <2>3. \A m \in DOMAIN N \ {n} : M[m] \in Header(N)
    BY <1>1, <1>2 DEF Forward
  <2> QED BY <1>1, <2>1, <2>2, <2>3
<1>4. \A m \in DOMAIN N : M[m].size = N[m].size /\ M[m].prev = N[m].prev
  BY <1>1
<1>5. M[End].used
  BY <1>1, <1>2 DEF Forward
<1>6. Chain(M)
  BY <1>1, <1>2, <1>3, <1>4, <1>5, FlagsChain
<1>7. S \subseteq DOMAIN M \ {End}
  BY <1>1 DEF Sound, N
<1>8. Listed(g.freeList, g.bitmap, M, S)
  <2>1. Listed(h.freeList, h.bitmap, N, S) /\ \A m \in S : M[m].size = N[m].size
    BY <1>1, <1>4, <1>7 DEF Sound, N
  <2> QED BY <2>1, SameListed
<1> QED BY <1>6, <1>7, <1>8 DEF Sound, M

IsHeader(v, a, b, c, d) == v = [size |-> a, used |-> b, aligned |-> c, prev |-> d]
UsedFlag(w, v, b) == w = [v EXCEPT !.used = b]
AlignedFlag(w, v, c) == w = [v EXCEPT !.aligned = c]

LEMMA HeaderFields ==
    ASSUME NEW v, NEW a, NEW b, NEW c, NEW d, IsHeader(v, a, b, c, d), NEW w, NEW e
    PROVE  /\ UsedFlag(w, v, e) => IsHeader(w, a, e, c, d)
           /\ AlignedFlag(w, v, e) => IsHeader(w, a, b, e, d)
  BY DEF IsHeader, UsedFlag, AlignedFlag

LEMMA FlagsSet ==
    ASSUME NEW N, Forward(N), NEW n \in DOMAIN N, NEW b, NEW c, NEW X, NEW Y,
           X = [N EXCEPT ![n].used = b], Y = [X EXCEPT ![n].aligned = c]
    PROVE  Flags(N, Y, n, b, c)
<1>1. N[n] = [size |-> N[n].size, used |-> N[n].used, aligned |-> N[n].aligned,
              prev |-> N[n].prev]
  BY NodeIs
<1>2. /\ DOMAIN X = DOMAIN N /\ \A m \in DOMAIN N \ {n} : X[m] = N[m]
      /\ X[n] = [size |-> N[n].size, used |-> b, aligned |-> N[n].aligned, prev |-> N[n].prev]
  BY <1>1
<1>3. /\ DOMAIN Y = DOMAIN N /\ \A m \in DOMAIN N \ {n} : Y[m] = X[m]
      /\ Y[n] = [size |-> N[n].size, used |-> b, aligned |-> c, prev |-> N[n].prev]
  <2>1. PICK v : v = X[n]
    OBVIOUS
  <2>2. v = [size |-> N[n].size, used |-> b, aligned |-> N[n].aligned, prev |-> N[n].prev]
    BY <1>2, <2>1
  <2>3. PICK w : AlignedFlag(w, v, c)
    BY DEF AlignedFlag
  <2>4. IsHeader(v, N[n].size, b, N[n].aligned, N[n].prev)
    BY <2>2, Zenon DEF IsHeader
  <2>5. IsHeader(w, N[n].size, b, c, N[n].prev)
    BY <2>3, <2>4, HeaderFields
  <2>6. Y[n] = w
    <3>1. n \in DOMAIN X
      BY <1>2
    <3>2. Y[n] = [X[n] EXCEPT !.aligned = c]
      BY <3>1
    <3> QED BY <3>2, <2>1, <2>3, Zenon DEF AlignedFlag
  <2>7. DOMAIN Y = DOMAIN N /\ \A m \in DOMAIN N \ {n} : Y[m] = X[m]
    BY <1>2
  <2> QED BY <2>5, <2>6, <2>7, Zenon DEF IsHeader
<1>4. Y = [m \in DOMAIN Y |-> Y[m]]
  OBVIOUS
<1> QED BY <1>2, <1>3, <1>4 DEF Flags

LEMMA MarkedIs ==
    ASSUME NEW h, IsHeap(h), Forward(h.nodes), NEW n \in DOMAIN h.nodes
    PROVE  LET g == Marked(h, n)
           IN  /\ IsHeap(g) /\ Flags(h.nodes, g.nodes, n, TRUE, FALSE) /\ SameAccounts(g, h)
               /\ g.freeList = h.freeList /\ g.bitmap = h.bitmap
<1> DEFINE N == h.nodes
<1>1. PICK X, k : X = [N EXCEPT ![n].used = TRUE] /\ NodesSet(k, h, X)
  BY DEF NodesSet
<1>2. PICK Y, g : Y = [X EXCEPT ![n].aligned = FALSE] /\ NodesSet(g, k, Y)
  BY DEF NodesSet
<1>3. /\ IsHeap(k) /\ k.nodes = X /\ k.freeList = h.freeList /\ k.bitmap = h.bitmap
      /\ k.gap = h.gap /\ k.curUsedSize = h.curUsedSize /\ k.waterLine = h.waterLine
  BY <1>1, SetNodes
<1>4. /\ IsHeap(g) /\ g.nodes = Y /\ g.freeList = k.freeList /\ g.bitmap = k.bitmap
      /\ g.gap = k.gap /\ g.curUsedSize = k.curUsedSize /\ g.waterLine = k.waterLine
  BY <1>2, <1>3, SetNodes
<1>5. g = Marked(h, n)
  <2>1. k = [h EXCEPT !.nodes[n].used = TRUE]
    BY <1>1, Zenon DEF NodesSet
  <2>2. g = [k EXCEPT !.nodes[n].aligned = FALSE]
    BY <1>2, <1>3, Zenon DEF NodesSet
  <2> QED BY <2>1, <2>2, Zenon DEF Marked
<1>6. Flags(N, Y, n, TRUE, FALSE)
  BY <1>1, <1>2, FlagsSet
<1> QED BY <1>3, <1>4, <1>5, <1>6, Zenon DEF SameAccounts

\* Node n is on no list, and has room for size words and another node.
Splittable(h, n, size) ==
    /\ n \in DOMAIN h.nodes \ {End} /\ Sound(h, FreeOf(h.nodes) \ {n}) /\ Apart(h.nodes, {})
    /\ size \in Nat /\ MinLeft <= size /\ size + MinLeft <= h.nodes[n].size

IsSplit(g, h, n, size) ==
    /\ Sound(g, FreeOf(g.nodes) \ {n}) /\ Apart(g.nodes, {n})
    /\ Others(h.nodes, g.nodes, n) /\ SameAccounts(g, h)
    /\ n \in DOMAIN g.nodes /\ g.nodes[n].size = size
    /\ g.nodes[n].used = h.nodes[n].used

LEMMA SplitSound ==
    ASSUME NEW h, NEW n, NEW size, Splittable(h, n, size)
    PROVE  IsSplit(OsMemSplitNode(h, n, size), h, n, size)
<1> /\ n \in DOMAIN h.nodes \ {End} /\ Sound(h, FreeOf(h.nodes) \ {n}) /\ Apart(h.nodes, {})
    /\ size \in Nat /\ MinLeft <= size /\ size + MinLeft <= h.nodes[n].size
  BY DEF Splittable
<1> DEFINE N == h.nodes
           S == FreeOf(N) \ {n}
           r == n + size
           x == n + N[n].size
<1>1. PICK c : c = Carved(h, n, size)
  OBVIOUS
<1>2. PICK C : C = c.nodes
  OBVIOUS
<1>3. Chain(N) /\ Forward(N) /\ n \notin S
  BY DEF Sound, Chain
<1>4. /\ Sound(c, S) /\ Carves(N, C, n, size) /\ SameAccounts(c, h)
      /\ C = [m \in DOMAIN C |-> C[m]]
  BY <1>1, <1>2, <1>3, CarveSound
<1>5. /\ Chain(C) /\ r \notin DOMAIN N /\ r # End /\ r # n
      /\ r + C[r].size = x /\ ~C[r].used /\ ~C[r].aligned /\ C[n].size = size
      /\ \A m \in DOMAIN N : /\ C[m].used = N[m].used /\ C[m].aligned = N[m].aligned
                             /\ (m # n => C[m].size = N[m].size)
  BY <1>3, <1>4, CarveChain
<1>6. DOMAIN C = DOMAIN N \cup {r} /\ C[x].prev = r
  <2>1. DOMAIN C = DOMAIN N \cup {r}
    BY <1>4 DEF Carves
  <2>2. C[r + C[r].size].prev = r
    BY <1>5, <2>1 DEF Chain, Backward
  <2> QED BY <1>5, <2>1, <2>2
<1>7. x \in DOMAIN N /\ x # First /\ x # n
  BY <1>3, NodeIs
<1>8. \A m \in DOMAIN N \ {End} :
         m + N[m].size \in DOMAIN N /\ (~N[m].used => N[m + N[m].size].used /\ ~N[m].aligned)
  BY <1>3 DEF Apart, Forward
<1>9. PICK g : g = OsMemSplitNode(h, n, size)
  OBVIOUS
<1> SUFFICES IsSplit(g, h, n, size)
  BY <1>9
<1> HIDE DEF r, x
<1>10. CASE N[x].used
  <2>1. g = OsMemFreeNodeAdd(c, r)
    BY <1>1, <1>9, <1>10, Zenon DEF OsMemSplitNode, NextNode, r, x, N
  <2>2. r \in DOMAIN C \ {End} /\ r \notin S
    BY <1>5, <1>6 DEF FreeOf
  <2>3. Sound(g, S \cup {r}) /\ g.nodes = C /\ SameAccounts(g, c)
    BY <1>2, <1>4, <2>1, <2>2, NodeAdd
  <2>4. FreeOf(C) \ {n} = S \cup {r}
    BY <1>5, <1>6 DEF FreeOf
  <2>5. ASSUME NEW m \in DOMAIN C \ ({End} \cup {n}), ~C[m].used
        PROVE  C[m + C[m].size].used /\ ~C[m].aligned
    <3>1. CASE m = r
      BY <3>1, <1>5, <1>7, <1>10
    <3>2. CASE m # r
      <4>1. m \in DOMAIN N \ {End} /\ ~N[m].used /\ C[m].size = N[m].size
        BY <3>2, <2>5, <1>5, <1>6
      <4> QED BY <4>1, <1>5, <1>8
    <3> QED BY <3>1, <3>2
  <2>6. Others(N, C, n)
    BY <1>5, <1>6 DEF Others, UsedOf
  <2>7. Sound(g, FreeOf(g.nodes) \ {n}) /\ SameAccounts(g, h)
    BY <2>3, <2>4, <1>4 DEF SameAccounts
  <2>8. Apart(g.nodes, {n})
    BY <2>3, <2>5 DEF Apart
  <2>9. n \in DOMAIN C /\ C[n].used = N[n].used
    BY <1>5, <1>6
  <2> QED BY <2>3, <2>6, <2>7, <2>8, <2>9, <1>5 DEF IsSplit
<1>11. CASE ~N[x].used
  <2>1. PICK d : d = OsMemFreeNodeDelete(c, x)
    OBVIOUS
  <2>2. PICK e : e = OsMemMergeNode(d, x)
    OBVIOUS
  <2>3. PICK M : M = e.nodes
    OBVIOUS
  <2>4. g = OsMemFreeNodeAdd(e, r)
    BY <1>1, <1>9, <1>11, <2>1, <2>2, Zenon DEF OsMemSplitNode, NextNode, r, x, N
  <2>5. x # End /\ x \in S
    BY <1>3, <1>7, <1>11 DEF FreeOf, Forward
  <2>6. Sound(d, S \ {x}) /\ d.nodes = C /\ SameAccounts(d, c)
    BY <1>2, <1>4, <2>1, <2>5, NodeDelete
  <2>7. x \in DOMAIN C \ {First, End} /\ C[x].prev \notin S \ {x} /\ x \notin S \ {x}
    BY <1>5, <1>6, <1>7, <2>5 DEF FreeOf
  <2>8. /\ Sound(e, S \ {x}) /\ Merges(C, M, x) /\ SameAccounts(e, d)
        /\ M = [m \in DOMAIN M |-> M[m]]
    BY <2>2, <2>3, <2>6, <2>7, MergeSound
  <2>9. /\ M[r].size = C[r].size + C[x].size
        /\ \A m \in DOMAIN M : /\ M[m].used = C[m].used /\ M[m].aligned = C[m].aligned
                               /\ (m # r => M[m].size = C[m].size)
    BY <1>5, <1>6, <2>7, <2>8, MergeChain
  <2>10. DOMAIN M = DOMAIN C \ {x}
    BY <2>8 DEF Merges
  <2>11. r \in DOMAIN M \ {End} /\ r \notin S \ {x}
    BY <1>5, <1>6, <1>7, <2>10 DEF FreeOf
  <2>12. Sound(g, (S \ {x}) \cup {r}) /\ g.nodes = M /\ SameAccounts(g, e)
    BY <2>3, <2>4, <2>8, <2>11, NodeAdd
  <2>13. FreeOf(M) \ {n} = (S \ {x}) \cup {r}
    BY <1>5, <1>6, <2>9, <2>10, <2>11 DEF FreeOf
  <2>14. /\ x + N[x].size \in DOMAIN N /\ N[x + N[x].size].used /\ r + M[r].size = x + N[x].size
    <3>1. C[x].size = N[x].size
      BY <1>5, <1>7
    <3>2. r \in Nat /\ C[r].size \in Nat /\ C[x].size \in Nat
      BY <1>5, <1>6, <1>7, NodeIs DEF Chain
    <3>3. r + M[r].size = x + N[x].size
      BY <3>1, <3>2, <2>9, <1>5
    <3> QED BY <3>3, <1>7, <1>8, <1>11, <2>5
  <2>15. ASSUME NEW m \in DOMAIN M \ ({End} \cup {n}), ~M[m].used
         PROVE  M[m + M[m].size].used /\ ~M[m].aligned
    <3>1. CASE m = r
      <4>1. x + N[x].size \in DOMAIN M
        BY <2>14, <2>10, <1>6, <1>11
      <4>2. M[x + N[x].size].used
        BY <4>1, <2>14, <2>9, <1>5
      <4> QED BY <3>1, <4>2, <2>14, <2>9, <2>11, <1>5
    <3>2. CASE m # r
      <4>1. m \in DOMAIN N \ {End} /\ ~N[m].used /\ M[m].size = N[m].size /\ M[m].aligned = N[m].aligned
        BY <3>2, <2>15, <2>9, <2>10, <1>5, <1>6
      <4>2. m + N[m].size \in DOMAIN N /\ N[m + N[m].size].used /\ ~N[m].aligned
        BY <4>1, <1>8
      <4>3. m + N[m].size \in DOMAIN M
        BY <4>2, <2>10, <1>6, <1>11
      <4> QED BY <4>1, <4>2, <4>3, <2>9, <1>5
    <3> QED BY <3>1, <3>2
  <2>16. Others(N, M, n)
    <3>1. \A m \in DOMAIN M : m \in DOMAIN N \/ m = r
      BY <2>10, <1>6
    <3>2. ~M[r].used
      BY <2>9, <2>11, <1>5
    <3>3. \A m \in DOMAIN N \ {x} : /\ m \in DOMAIN M /\ M[m].used = N[m].used
                                     /\ M[m].aligned = N[m].aligned
                                     /\ (m # n => M[m].size = N[m].size)
      BY <2>9, <2>10, <1>5, <1>6
    <3> QED BY <3>1, <3>2, <3>3, <1>11, <2>10 DEF Others, UsedOf
  <2>17. Sound(g, FreeOf(g.nodes) \ {n}) /\ SameAccounts(g, h)
    BY <2>12, <2>13, <2>6, <2>8, <1>4 DEF SameAccounts
  <2>18. Apart(g.nodes, {n})
    BY <2>12, <2>15 DEF Apart
  <2>19. n \in DOMAIN M /\ M[n].used = N[n].used /\ M[n].size = size
    BY <1>5, <1>6, <1>7, <2>9, <2>10
  <2> QED BY <2>12, <2>16, <2>17, <2>18, <2>19 DEF IsSplit
<1> QED BY <1>10, <1>11

LEMMA CutSound ==
    ASSUME NEW h, NEW n \in DOMAIN h.nodes \ {End}, Sound(h, FreeOf(h.nodes) \ {n}),
           Apart(h.nodes, {}), NEW size \in Nat, MinLeft <= size
    PROVE  LET g == Marked(SplitIfWorthIt(h, n, size), n)
           IN  /\ Tidy(g) /\ Others(h.nodes, g.nodes, n) /\ SameAccounts(g, h)
               /\ n \in UsedOf(g.nodes) /\ ~g.nodes[n].aligned
               /\ size <= h.nodes[n].size => size <= g.nodes[n].size
               /\ g.nodes[n].size <= h.nodes[n].size
<1>1. PICK k : k = SplitIfWorthIt(h, n, size)
  OBVIOUS
<1>2. PICK g : g = Marked(k, n)
  OBVIOUS
<1>3. n \in DOMAIN h.nodes /\ h.nodes[n].size \in Nat
  BY NodeIs DEF Sound, Chain
<1>4. /\ Sound(k, FreeOf(k.nodes) \ {n}) /\ Apart(k.nodes, {n})
      /\ Others(h.nodes, k.nodes, n) /\ SameAccounts(k, h)
      /\ n \in DOMAIN k.nodes
      /\ size <= h.nodes[n].size => size <= k.nodes[n].size
      /\ k.nodes[n].size <= h.nodes[n].size
  <2>1. CASE size + MinLeft <= h.nodes[n].size
    <3>1. k = OsMemSplitNode(h, n, size)
      BY <1>1, <2>1 DEF SplitIfWorthIt
    <3>2. Splittable(h, n, size)
      BY <2>1 DEF Splittable
    <3>3. IsSplit(k, h, n, size)
      BY <3>1, <3>2, SplitSound
    <3> QED BY <1>3, <2>1, <3>3, PoolIs DEF IsSplit
  <2>2. CASE ~(size + MinLeft <= h.nodes[n].size)
    <3>1. k = h
      BY <1>1, <2>2 DEF SplitIfWorthIt
    <3> QED BY <3>1, <1>3 DEF Apart, Others, SameAccounts
  <2> QED BY <2>1, <2>2
<1>5. Forward(k.nodes) /\ IsHeap(k)
  BY <1>4 DEF Sound, Chain
<1>6. /\ IsHeap(g) /\ Flags(k.nodes, g.nodes, n, TRUE, FALSE) /\ SameAccounts(g, k)
      /\ g.freeList = k.freeList /\ g.bitmap = k.bitmap
  BY <1>2, <1>4, <1>5, MarkedIs
<1>7. Sound(g, FreeOf(k.nodes) \ {n})
  BY <1>4, <1>6, FlagsSound
<1> DEFINE K == k.nodes
           G == g.nodes
<1>8. /\ DOMAIN G = DOMAIN K /\ G[n].used /\ ~G[n].aligned
      /\ \A m \in DOMAIN K : G[m].size = K[m].size
      /\ \A m \in DOMAIN K \ {n} : G[m] = K[m]
  BY <1>6 DEF Flags
<1>9. FreeOf(G) = FreeOf(K) \ {n}
  BY <1>8 DEF FreeOf
<1>10. Apart(G, {})
  <2> SUFFICES ASSUME NEW m \in DOMAIN G \ {End}, ~G[m].used
               PROVE  G[m + G[m].size].used /\ ~G[m].aligned
    BY DEF Apart
  <2>1. m \in DOMAIN K \ ({End} \cup {n}) /\ ~K[m].used /\ G[m] = K[m]
    BY <1>8
  <2>2. K[m + K[m].size].used /\ ~K[m].aligned /\ m + K[m].size \in DOMAIN K
    BY <1>4, <1>5, <2>1 DEF Apart, Forward
  <2> QED BY <1>8, <2>1, <2>2
<1>11. Others(K, G, n) /\ n \in UsedOf(G)
  BY <1>4, <1>8 DEF Others, UsedOf
<1>12. Others(h.nodes, G, n) /\ SameAccounts(g, h)
  BY <1>4, <1>6, <1>11 DEF Others, SameAccounts
<1>13. (size <= h.nodes[n].size => size <= G[n].size) /\ G[n].size <= h.nodes[n].size
  BY <1>4, <1>8
<1> QED BY <1>1, <1>2, <1>7, <1>8, <1>9, <1>10, <1>11, <1>12, <1>13 DEF Tidy

-----------------------------------------------------------------------------
(* The node that is found. *)

LEMMA LeastIs ==
    ASSUME NEW S \in SUBSET Nat, S # {}
    PROVE  Min(S) \in S /\ \A x \in S : Min(S) <= x
<1>1. \E x \in S : \A y \in S : x <= y
  BY MinOfNats
<1> QED BY <1>1 DEF Min

LEMMA ElementOf ==
    ASSUME NEW S, NEW q \in Seq(S)
    PROVE  /\ \A k \in 1 .. Len(q) : Contains(q, q[k]) /\ q[k] \in S
           /\ q # <<>> => Contains(q, Head(q)) /\ Head(q) \in S
<1>1. \A k \in 1 .. Len(q) : Contains(q, q[k]) /\ q[k] \in S
  BY DEF Contains
<1>2. q # <<>> => 1 \in 1 .. Len(q) /\ Head(q) = q[1]
  OBVIOUS
<1> QED BY <1>1, <1>2

LEMMA ListedIs ==
    ASSUME NEW h, Tidy(h), NEW i \in ListIndex
    PROVE  /\ h.freeList[i] \in Seq(First .. End)
           /\ i \in h.bitmap <=> h.freeList[i] # <<>>
           /\ \A n : Contains(h.freeList[i], n)
                     <=> n \in FreeOf(h.nodes) /\ OsMemFreeListIndexGet(h.nodes[n].size) = i
  BY DEF Tidy, Sound, Listed

\* A node on the list fits, and if no node is found none fits.
LEMMA FoundIs ==
    ASSUME NEW h, Tidy(h), NEW size \in Nat \ {0}, size < Two(Limit),
           NEW f, f = OsMemFindNextSuitableBlock(h, size)
    PROVE  /\ f.node # Null =>
                /\ f.node \in FreeOf(h.nodes) /\ h.nodes[f.node].size >= size
                /\ f.list = OsMemFreeListIndexGet(h.nodes[f.node].size)
           /\ f.node = Null => \A n \in FreeOf(h.nodes) : h.nodes[n].size < size
<1> DEFINE own == OsMemFreeListIndexGet(size)
           from == IF size >= SmallMax THEN own + 1 ELSE own
           above == {i \in h.bitmap : i >= from}
           I == {k \in 1 .. Len(h.freeList[own]) : h.nodes[h.freeList[own][k]].size >= size}
           fits == SelectInSeq(h.freeList[own], LAMBDA n : h.nodes[n].size >= size)
<1>1. /\ own \in ListIndex /\ SmallMax \in Nat \ {0} /\ (size < SmallMax => own = size - 1)
      /\ own \in Nat /\ from \in Nat
  <2>1. own \in ListIndex /\ SmallMax \in Nat \ {0} /\ (size < SmallMax => own = size - 1)
    BY IndexIs
  <2> QED BY <2>1 DEF ListIndex
<1>2. /\ h.bitmap \subseteq ListIndex /\ ListIndex \subseteq Nat
      /\ FreeOf(h.nodes) \subseteq DOMAIN h.nodes \ {End} /\ Forward(h.nodes)
  <2>1. h.bitmap \subseteq ListIndex
    BY DEF Tidy, Sound, Listed
  <2>2. Forward(h.nodes) /\ FreeOf(h.nodes) \subseteq DOMAIN h.nodes \ {End}
    BY DEF Tidy, Sound, Chain
  <2> QED BY <2>1, <2>2 DEF ListIndex
<1>3. /\ above # {} => f = [node |-> Head(h.freeList[Min(above)]), list |-> Min(above)]
      /\ above = {} => f = IF size >= SmallMax /\ fits # 0
                          THEN [node |-> h.freeList[own][fits], list |-> own]
                          ELSE [node |-> Null, list |-> own]
  BY DEF OsMemFindNextSuitableBlock
<1>4. fits = IF I # {} THEN Min(I) ELSE 0
  BY DEF SelectInSeq
<1>5. ASSUME NEW n \in FreeOf(h.nodes)
      PROVE  LET s == h.nodes[n].size
             IN  /\ s \in Nat \ {0} /\ s < Two(Limit)
                 /\ OsMemFreeListIndexGet(s) \in ListIndex /\ OsMemFreeListIndexGet(s) \in Nat
                 /\ s <= size => OsMemFreeListIndexGet(s) <= own
                 /\ size <= s => own <= OsMemFreeListIndexGet(s)
                 /\ s < SmallMax => OsMemFreeListIndexGet(s) = s - 1
  <2> DEFINE s == h.nodes[n].size
  <2>1. s \in Nat \ {0} /\ s < Two(Limit) /\ OsMemFreeListIndexGet(s) \in ListIndex
    BY <1>2, NodeIndex
  <2> HIDE DEF s
  <2>2. /\ s <= size => OsMemFreeListIndexGet(s) <= own
        /\ size <= s => own <= OsMemFreeListIndexGet(s)
    BY <2>1, IndexGrows
  <2>3. s < SmallMax => OsMemFreeListIndexGet(s) = s - 1
    BY <2>1, IndexIs
  <2> QED BY <2>1, <2>2, <2>3, <1>2 DEF s
<1> HIDE DEF own, from, above, fits, I
<1>6. CASE above # {}
  <2>1. PICK i : i = Min(above)
    OBVIOUS
  <2>2. i \in above
    BY <1>2, <1>6, <2>1, LeastIs DEF above
  <2>3. i \in h.bitmap /\ i \in ListIndex /\ i >= from
    BY <1>2, <2>2 DEF above
  <2>4. h.freeList[i] \in Seq(First .. End) /\ h.freeList[i] # <<>>
    BY <2>3, ListedIs
  <2>5. PICK n : n = Head(h.freeList[i])
    OBVIOUS
  <2>6. Contains(h.freeList[i], n) /\ n \in First .. End
    BY <2>4, <2>5, ElementOf
  <2>7. n \in FreeOf(h.nodes) /\ OsMemFreeListIndexGet(h.nodes[n].size) = i
    BY <2>3, <2>6, ListedIs
  <2>8. f.node = n /\ f.list = i /\ n # Null
    BY <1>3, <1>6, <2>1, <2>5, <2>6, PoolIs DEF Null
  <2>9. h.nodes[n].size >= size
    <3>1. PICK s : s = h.nodes[n].size
      OBVIOUS
    <3>2. /\ s \in Nat /\ i \in Nat /\ (s <= size => i <= own) /\ (s < SmallMax => i = s - 1)
      BY <1>5, <2>7, <3>1
    <3> QED BY <1>1, <2>3, <3>1, <3>2 DEF from
  <2> QED BY <2>7, <2>8, <2>9
<1>7. CASE above = {}
  <2>1. CASE size >= SmallMax /\ fits # 0
    <3>1. I # {} /\ I \in SUBSET Nat /\ fits = Min(I)
      <4>1. I # {} /\ fits = Min(I)
        BY <1>4, <2>1
      <4>2. \A k \in I : k \in 1 .. Len(h.freeList[own])
        BY DEF I
      <4> QED BY <4>1, <4>2
    <3>2. fits \in I
      BY <3>1, LeastIs
    <3>3. PICK n : n = h.freeList[own][fits]
      OBVIOUS
    <3>4. h.freeList[own] \in Seq(First .. End)
      BY <1>1, ListedIs
    <3>5. fits \in 1 .. Len(h.freeList[own]) /\ h.nodes[n].size >= size
      BY <3>2, <3>3 DEF I
    <3>6. Contains(h.freeList[own], n) /\ n \in First .. End
      BY <3>3, <3>4, <3>5, ElementOf
    <3>7. n \in FreeOf(h.nodes) /\ OsMemFreeListIndexGet(h.nodes[n].size) = own
      BY <1>1, <3>6, ListedIs
    <3>8. f.node = n /\ f.list = own /\ n # Null
      BY <1>3, <1>7, <2>1, <3>3, <3>6, PoolIs DEF Null
    <3> QED BY <3>5, <3>7, <3>8
  <2>2. CASE ~(size >= SmallMax /\ fits # 0)
    <3>1. f.node = Null
      BY <1>3, <1>7, <2>2
    <3>2. ASSUME NEW n \in FreeOf(h.nodes), ~(h.nodes[n].size < size)
          PROVE  FALSE
      <4>1. PICK i, s : s = h.nodes[n].size /\ i = OsMemFreeListIndexGet(s)
        OBVIOUS
      <4>2. s \in Nat /\ i \in Nat /\ i \in ListIndex /\ size <= s /\ own <= i
        BY <1>5, <3>2, <4>1
      <4>3. Contains(h.freeList[i], n) /\ h.freeList[i] \in Seq(First .. End)
        BY <4>1, <4>2, ListedIs
      <4>4. i \in h.bitmap
        <5>1. h.freeList[i] # <<>>
          BY <4>3 DEF Contains
        <5> QED BY <4>2, <5>1, ListedIs
      <4>5. ~(i >= from)
        BY <1>7, <4>4 DEF above
      <4>6. size >= SmallMax /\ i = own
        BY <4>2, <4>5, <1>1 DEF from
      <4>7. PICK k \in 1 .. Len(h.freeList[own]) : n = h.freeList[own][k]
        BY <4>3, <4>6 DEF Contains
      <4>8. k \in I
        BY <4>1, <4>2, <4>7 DEF I
      <4>9. I \in SUBSET Nat /\ I # {} /\ ~(0 \in I)
        BY <4>8 DEF I
      <4> QED BY <4>6, <4>9, <2>2, <1>4, LeastIs
    <3> QED BY <3>1, <3>2, <1>5
  <2> QED BY <2>1, <2>2
<1> QED BY <1>6, <1>7

-----------------------------------------------------------------------------
(* What the operations do to the headers and the accounts. *)

SameLists(g, h) ==
    IsHeap(g) /\ g.nodes = h.nodes /\ g.freeList = h.freeList /\ g.bitmap = h.bitmap

LEMMA TidySame ==
    ASSUME NEW h, NEW g, SameLists(g, h)
    PROVE  /\ Tidy(h) => Tidy(g)
           /\ \A S : Sound(h, S) => Sound(g, S)
  BY DEF SameLists, Tidy, Sound

LEMMA WaterIs ==
    ASSUME NEW h, IsHeap(h), NEW d, NEW g, g = OsMemWaterUsedRecord(h, d)
    PROVE  /\ SameLists(g, h) /\ g.gap = h.gap /\ g.curUsedSize = h.curUsedSize + d
           /\ g.waterLine = IF h.curUsedSize + d > h.waterLine THEN h.curUsedSize + d
                            ELSE h.waterLine
<1>1. PICK X, k : X = h.curUsedSize + d /\ UsedSet(k, h, X)
  BY DEF UsedSet
<1>2. PICK Y, j : Y = (IF h.curUsedSize + d > h.waterLine THEN h.curUsedSize + d
                       ELSE h.waterLine) /\ WaterSet(j, k, Y)
  BY DEF WaterSet
<1>3. /\ IsHeap(k) /\ k.nodes = h.nodes /\ k.freeList = h.freeList /\ k.bitmap = h.bitmap
      /\ k.gap = h.gap /\ k.curUsedSize = X /\ k.waterLine = h.waterLine
  BY <1>1, SetUsed
<1>4. /\ IsHeap(j) /\ j.nodes = k.nodes /\ j.freeList = k.freeList /\ j.bitmap = k.bitmap
      /\ j.gap = k.gap /\ j.curUsedSize = k.curUsedSize /\ j.waterLine = Y
  BY <1>2, <1>3, SetWater
<1>5. g = j
  <2>1. k = [h EXCEPT !.curUsedSize = h.curUsedSize + d]
    BY <1>1, Zenon DEF UsedSet
  <2>2. j = [k EXCEPT !.waterLine = IF h.curUsedSize + d > h.waterLine THEN h.curUsedSize + d
                                    ELSE h.waterLine]
    BY <1>2, Zenon DEF WaterSet
  <2> QED BY <2>1, <2>2, Zenon DEF OsMemWaterUsedRecord
<1> QED BY <1>1, <1>2, <1>3, <1>4, <1>5, Zenon DEF SameLists

\* Node x becomes part of n, the node before it.
Joinable(h, n, x) ==
    /\ n \in DOMAIN h.nodes \ {End} /\ x = n + h.nodes[n].size /\ x # End
    /\ Sound(h, FreeOf(h.nodes) \ {n, x}) /\ Apart(h.nodes, {n, x}) /\ ~h.nodes[x].used

Joined(g, h, n, x) ==
    /\ Sound(g, FreeOf(g.nodes) \ {n}) /\ SameAccounts(g, h) /\ Apart(g.nodes, {n})
    /\ Others(h.nodes, g.nodes, n)
    /\ n \in DOMAIN g.nodes \ {End} /\ g.nodes[n].size = h.nodes[n].size + h.nodes[x].size
    /\ g.nodes[n].used = h.nodes[n].used /\ g.nodes[n].aligned = h.nodes[n].aligned
    /\ g.nodes[n + g.nodes[n].size].used = h.nodes[x + h.nodes[x].size].used

LEMMA JoinIs ==
    ASSUME NEW h, NEW n, NEW x, Joinable(h, n, x), NEW g, g = OsMemMergeNode(h, x)
    PROVE  Joined(g, h, n, x)
<1> DEFINE N == h.nodes
           M == g.nodes
           S == FreeOf(N) \ {n, x}
           y == x + N[x].size
<1>1. /\ n \in DOMAIN N \ {End} /\ x = n + N[n].size /\ x # End
      /\ Sound(h, S) /\ Apart(N, {n, x}) /\ ~N[x].used
  BY DEF Joinable
<1>2. Chain(N) /\ Forward(N) /\ Backward(N)
  BY <1>1 DEF Sound, Chain
<1>3. x \in DOMAIN N \ {First, End} /\ N[x].prev = n /\ n < x /\ n \in Nat /\ x \in Nat
  <2>1. x \in DOMAIN N /\ x # First /\ n < x /\ n \in Nat /\ x \in Nat
    BY <1>1, <1>2, NodeIs
  <2>2. N[x].prev = n
    BY <1>1, <1>2 DEF Backward
  <2> QED BY <1>1, <2>1, <2>2
<1>4. y \in DOMAIN N /\ x < y /\ y \in Nat
  BY <1>2, <1>3, NodeIs
<1>5. /\ Sound(g, S) /\ Merges(N, M, x) /\ SameAccounts(g, h) /\ M = [m \in DOMAIN M |-> M[m]]
  <2>1. x \in DOMAIN h.nodes \ {First, End} /\ x \notin S /\ h.nodes[x].prev \notin S
    BY <1>3
  <2> QED BY <1>1, <2>1, MergeSound
<1>6. /\ M[n].size = N[n].size + N[x].size
      /\ \A m \in DOMAIN M : /\ M[m].used = N[m].used /\ M[m].aligned = N[m].aligned
                             /\ (m # n => M[m].size = N[m].size)
  BY <1>2, <1>3, <1>5, MergeChain
<1>7. DOMAIN M = DOMAIN N \ {x}
  BY <1>5 DEF Merges
<1> HIDE DEF M, N
<1>8. n \in DOMAIN M \ {End} /\ y \in DOMAIN M
  BY <1>1, <1>3, <1>4, <1>7
<1>9. n + M[n].size = y
  <2>1. N[n].size \in Nat /\ N[x].size \in Nat
    BY <1>1, <1>2, <1>3, NodeIs
  <2> QED BY <1>1, <1>3, <1>6, <2>1
<1> HIDE DEF y
<1>10. FreeOf(M) \ {n} = S
  BY <1>6, <1>7 DEF FreeOf
<1>11. Apart(M, {n})
  <2> SUFFICES ASSUME NEW m \in DOMAIN M \ ({End} \cup {n}), ~M[m].used
               PROVE  M[m + M[m].size].used /\ ~M[m].aligned
    BY DEF Apart
  <2>1. m \in DOMAIN N \ ({End} \cup {n, x}) /\ ~N[m].used /\ M[m].size = N[m].size
    BY <1>6, <1>7
  <2>2. N[m + N[m].size].used /\ ~N[m].aligned
    BY <1>1, <2>1 DEF Apart
  <2>3. PICK w : w = m + N[m].size
    OBVIOUS
  <2>4. w \in DOMAIN N
    BY <2>1, <2>3, <1>2 DEF Forward
  <2>5. N[w].used /\ w # x
    BY <2>2, <2>3, <1>1
  <2>6. w \in DOMAIN M /\ m \in DOMAIN M
    BY <2>1, <2>4, <2>5, <1>7
  <2>7. M[w].used = N[w].used /\ M[m].aligned = N[m].aligned
    BY <2>6, <1>6
  <2>8. m + M[m].size = w
    BY <2>1, <2>3
  <2> QED BY <2>2, <2>5, <2>7, <2>8
<1>12. Others(N, M, n)
  BY <1>1, <1>6, <1>7 DEF Others, UsedOf
<1>13. n \in DOMAIN N /\ n \in DOMAIN M
  BY <1>1, <1>8
<1>14. /\ M[n].size = N[n].size + N[x].size
       /\ M[n].used = N[n].used /\ M[n].aligned = N[n].aligned
  BY <1>6, <1>13
<1>15. M[y].used = N[y].used
  BY <1>6, <1>8
<1>16. M[n + M[n].size].used = N[y].used
  BY <1>9, <1>15
<1>17. Sound(g, FreeOf(M) \ {n}) /\ SameAccounts(g, h)
  BY <1>5, <1>10
<1> QED BY <1>8, <1>11, <1>12, <1>14, <1>16, <1>17 DEF Joined, M, N, y

\* The words that node n takes.
WordsOf(N, n) == IF n \in UsedOf(N) THEN N[n].size ELSE 0

Water(h) == h.curUsedSize \in Int /\ h.waterLine \in Int /\ h.curUsedSize <= h.waterLine

\* Nothing happens to a used node but n, and the accounts know what happens to n.
Touched(g, h, n) ==
    /\ Tidy(g) /\ Water(g) /\ Others(h.nodes, g.nodes, n) /\ g.gap = h.gap
    /\ g.curUsedSize = h.curUsedSize + WordsOf(g.nodes, n) - WordsOf(h.nodes, n)

CanAlloc(h, size) ==
    /\ Tidy(h) /\ Water(h) /\ size \in Nat /\ MinAlloc <= size /\ size + HeadSize < Two(Limit)
    /\ Found(h, size).node # Null

IsAlloc(g, h, n, size) ==
    /\ n \in FreeOf(h.nodes) /\ Touched(g, h, n)
    /\ n \in UsedOf(g.nodes) /\ ~g.nodes[n].aligned /\ g.nodes[n].size >= size + HeadSize

LEMMA UsedIs ==
    ASSUME NEW h, Tidy(h), NEW n \in UsedOf(h.nodes)
    PROVE  /\ n \in DOMAIN h.nodes \ {End} /\ h.nodes[n].used /\ n \in Nat /\ n \in First .. End
           /\ h.nodes[n].size \in Nat /\ h.nodes[n].size \in 0 .. End - First
           /\ n + h.nodes[n].size \in DOMAIN h.nodes
           /\ n < n + h.nodes[n].size /\ n + h.nodes[n].size <= End
           /\ h.nodes[n].aligned \in BOOLEAN /\ h.nodes[n].size >= MinLeft
<1>1. n \in DOMAIN h.nodes \ {End} /\ Forward(h.nodes) /\ h.nodes[n].used
  BY DEF UsedOf, Tidy, Sound, Chain
<1> QED BY <1>1, NodeIs

LEMMA AllocIs ==
    ASSUME NEW h, NEW size, CanAlloc(h, size), NEW n, n = Found(h, size).node,
           NEW g, g = OsMemAlloc(h, size)
    PROVE  IsAlloc(g, h, n, size)
<1> DEFINE want == size + HeadSize
<1>1. /\ Tidy(h) /\ Water(h) /\ want \in Nat \ {0} /\ want < Two(Limit) /\ n # Null
      /\ MinLeft <= want
  BY PoolIs DEF CanAlloc, MinAlloc
<1> HIDE DEF want
<1>2. PICK f : f = OsMemFindNextSuitableBlock(h, want)
  OBVIOUS
<1>3. f = Found(h, size) /\ n = f.node
  BY <1>2, Zenon DEF Found, want
<1>4. /\ n \in FreeOf(h.nodes) /\ h.nodes[n].size >= want
      /\ f.list = OsMemFreeListIndexGet(h.nodes[n].size)
  BY <1>1, <1>2, <1>3, FoundIs
<1>5. PICK t : t = OsMemListDelete(h, f.list, n)
  OBVIOUS
<1>6. Sound(t, FreeOf(h.nodes) \ {n}) /\ t.nodes = h.nodes /\ SameAccounts(t, h)
  <2>1. Sound(h, FreeOf(h.nodes))
    BY <1>1 DEF Tidy
  <2> QED BY <1>4, <1>5, <2>1, ListDelete
<1>7. PICK u : u = Marked(SplitIfWorthIt(t, n, want), n)
  OBVIOUS
<1>8. n \in DOMAIN h.nodes \ {End} /\ ~h.nodes[n].used
  BY <1>1, <1>4 DEF Tidy, Sound, FreeOf
<1>9. /\ Tidy(u) /\ Others(t.nodes, u.nodes, n) /\ SameAccounts(u, t)
      /\ n \in UsedOf(u.nodes) /\ ~u.nodes[n].aligned
      /\ want <= t.nodes[n].size => want <= u.nodes[n].size
  <2>1. n \in DOMAIN t.nodes \ {End} /\ Sound(t, FreeOf(t.nodes) \ {n}) /\ Apart(t.nodes, {})
    BY <1>1, <1>6, <1>8 DEF Tidy
  <2> QED BY <1>1, <1>7, <2>1, CutSound
<1>10. u.nodes[n].size \in Nat /\ want <= u.nodes[n].size
  <2>1. t.nodes[n].size \in Nat
    BY <1>1, <1>6, <1>8, NodeIs DEF Tidy, Sound, Chain
  <2>2. u.nodes[n].size \in Nat
    BY <1>9, UsedIs
  <2> QED BY <1>1, <1>4, <1>6, <1>9, <2>1, <2>2
<1>11. g = OsMemWaterUsedRecord(u, u.nodes[n].size)
  BY <1>3, <1>5, <1>7, Zenon DEF OsMemAlloc, want
<1>12. IsHeap(u)
  BY <1>9 DEF Tidy, Sound
<1>13. /\ SameLists(g, u) /\ g.gap = u.gap /\ g.curUsedSize = u.curUsedSize + u.nodes[n].size
       /\ g.waterLine = IF u.curUsedSize + u.nodes[n].size > u.waterLine
                        THEN u.curUsedSize + u.nodes[n].size ELSE u.waterLine
  BY <1>11, <1>12, WaterIs
<1>14. u.gap = h.gap /\ u.curUsedSize = h.curUsedSize /\ u.waterLine = h.waterLine
  BY <1>6, <1>9 DEF SameAccounts
<1>15. Tidy(g) /\ g.nodes = u.nodes
  BY <1>9, <1>13, TidySame DEF SameLists
<1>16. Water(g)
  BY <1>1, <1>10, <1>13, <1>14 DEF Water
<1>17. WordsOf(g.nodes, n) = u.nodes[n].size /\ WordsOf(h.nodes, n) = 0
  BY <1>8, <1>9, <1>15 DEF WordsOf, UsedOf
<1>18. g.curUsedSize = h.curUsedSize + WordsOf(g.nodes, n) - WordsOf(h.nodes, n)
  BY <1>1, <1>10, <1>13, <1>14, <1>17 DEF Water
<1>19. Others(h.nodes, g.nodes, n)
  BY <1>6, <1>9, <1>15
<1> QED BY <1>4, <1>9, <1>10, <1>13, <1>14, <1>15, <1>16, <1>18, <1>19 DEF IsAlloc, Touched, want

LEMMA FreedIs ==
    ASSUME NEW h, IsHeap(h), Forward(h.nodes), NEW n \in DOMAIN h.nodes, NEW g, g = Freed(h, n)
    PROVE  /\ IsHeap(g) /\ Flags(h.nodes, g.nodes, n, FALSE, FALSE)
           /\ g.freeList = h.freeList /\ g.bitmap = h.bitmap /\ g.gap = h.gap
           /\ g.curUsedSize = h.curUsedSize - h.nodes[n].size /\ g.waterLine = h.waterLine
<1> DEFINE N == h.nodes
<1>1. PICK X, k : X = [N EXCEPT ![n].used = FALSE] /\ NodesSet(k, h, X)
  BY DEF NodesSet
<1>2. PICK Y, j : Y = [X EXCEPT ![n].aligned = FALSE] /\ NodesSet(j, k, Y)
  BY DEF NodesSet
<1>3. PICK U, l : U = h.curUsedSize - N[n].size /\ UsedSet(l, j, U)
  BY DEF UsedSet
<1>4. /\ IsHeap(k) /\ k.nodes = X /\ k.freeList = h.freeList /\ k.bitmap = h.bitmap
      /\ k.gap = h.gap /\ k.curUsedSize = h.curUsedSize /\ k.waterLine = h.waterLine
  BY <1>1, SetNodes
<1>5. /\ IsHeap(j) /\ j.nodes = Y /\ j.freeList = k.freeList /\ j.bitmap = k.bitmap
      /\ j.gap = k.gap /\ j.curUsedSize = k.curUsedSize /\ j.waterLine = k.waterLine
  BY <1>2, <1>4, SetNodes
<1>6. /\ IsHeap(l) /\ l.nodes = j.nodes /\ l.freeList = j.freeList /\ l.bitmap = j.bitmap
      /\ l.gap = j.gap /\ l.curUsedSize = U /\ l.waterLine = j.waterLine
  BY <1>3, <1>5, SetUsed
<1>7. g = l
  <2>1. k = [h EXCEPT !.nodes[n].used = FALSE]
    BY <1>1, Zenon DEF NodesSet
  <2>2. j = [k EXCEPT !.nodes[n].aligned = FALSE]
    BY <1>2, <1>4, Zenon DEF NodesSet
  <2>3. l = [j EXCEPT !.curUsedSize = j.curUsedSize - h.nodes[n].size]
    BY <1>3, <1>4, <1>5, Zenon DEF UsedSet
  <2> QED BY <2>1, <2>2, <2>3, Zenon DEF Freed
<1>8. Flags(N, Y, n, FALSE, FALSE)
  BY <1>1, <1>2, FlagsSet
<1> QED BY <1>3, <1>4, <1>5, <1>6, <1>7, <1>8

\* Node n is free, but on no list.
Loose(h, n) ==
    /\ n \in DOMAIN h.nodes \ {End} /\ ~h.nodes[n].used /\ ~h.nodes[n].aligned
    /\ Sound(h, FreeOf(h.nodes) \ {n}) /\ Apart(h.nodes, {n})

LEMMA DeleteJoinable ==
    ASSUME NEW h, NEW n, n \in DOMAIN h.nodes \ {End}, NEW x, x = NextNode(h, n),
           ~h.nodes[x].used, Sound(h, FreeOf(h.nodes) \ {n}), Apart(h.nodes, {n}),
           NEW d, d = OsMemFreeNodeDelete(h, x)
    PROVE  Joinable(d, n, x) /\ d.nodes = h.nodes /\ SameAccounts(d, h)
<1>1. Forward(h.nodes) /\ x = n + h.nodes[n].size
  BY DEF Sound, Chain, NextNode
<1>2. x \in DOMAIN h.nodes \ {End} /\ x # n /\ x \in FreeOf(h.nodes) \ {n}
  BY <1>1, NodeIs DEF Forward, FreeOf
<1>3. /\ Sound(d, (FreeOf(h.nodes) \ {n}) \ {x}) /\ d.nodes = h.nodes /\ SameAccounts(d, h)
  BY <1>2, NodeDelete
<1>4. (FreeOf(h.nodes) \ {n}) \ {x} = FreeOf(h.nodes) \ {n, x}
  OBVIOUS
<1>5. Apart(d.nodes, {n, x})
  BY <1>3 DEF Apart
<1> QED BY <1>1, <1>2, <1>3, <1>4, <1>5 DEF Joinable

\* Its neighbours are used then.
LEMMA WithNextIs ==
    ASSUME NEW h, NEW n, Loose(h, n), NEW g, g = WithNext(h, n)
    PROVE  /\ Loose(g, n) /\ Apart(g.nodes, {}) /\ SameAccounts(g, h)
           /\ Others(h.nodes, g.nodes, n)
<1>1. PICK x : x = NextNode(h, n)
  OBVIOUS
<1>2. /\ n \in DOMAIN h.nodes \ {End} /\ ~h.nodes[n].used /\ ~h.nodes[n].aligned
      /\ Sound(h, FreeOf(h.nodes) \ {n}) /\ Apart(h.nodes, {n})
  BY DEF Loose
<1>3. CASE h.nodes[x].used
  <2>1. g = h
    BY <1>1, <1>3 DEF WithNext
  <2>2. h.nodes[n + h.nodes[n].size].used
    BY <1>1, <1>3 DEF NextNode
  <2>3. Apart(h.nodes, {})
    BY <1>2, <2>2 DEF Apart
  <2> QED BY <2>1, <2>3 DEF Others, SameAccounts
<1>4. CASE ~h.nodes[x].used
  <2>1. PICK d : d = OsMemFreeNodeDelete(h, x)
    OBVIOUS
  <2>2. g = OsMemMergeNode(d, x)
    BY <1>1, <1>4, <2>1 DEF WithNext
  <2>3. Joinable(d, n, x) /\ d.nodes = h.nodes /\ SameAccounts(d, h)
    BY <1>1, <1>2, <1>4, <2>1, DeleteJoinable
  <2>4. Joined(g, d, n, x)
    BY <2>2, <2>3, JoinIs
  <2>5. /\ n \in DOMAIN g.nodes \ {End} /\ ~g.nodes[n].used /\ ~g.nodes[n].aligned
        /\ Sound(g, FreeOf(g.nodes) \ {n}) /\ Apart(g.nodes, {n})
        /\ g.nodes[n + g.nodes[n].size].used = h.nodes[x + h.nodes[x].size].used
        /\ Others(h.nodes, g.nodes, n)
    BY <1>2, <2>3, <2>4 DEF Joined
  <2>6. h.nodes[x + h.nodes[x].size].used
    <3>1. x \in DOMAIN h.nodes \ ({End} \cup {n})
      BY <2>3, <1>2, NodeIs DEF Joinable, Sound, Chain
    <3> QED BY <3>1, <1>2, <1>4 DEF Apart
  <2>7. Apart(g.nodes, {})
    BY <2>5, <2>6 DEF Apart
  <2>8. SameAccounts(g, h)
    BY <2>3, <2>4 DEF Joined, SameAccounts
  <2> QED BY <2>5, <2>7, <2>8 DEF Loose
<1> QED BY <1>3, <1>4

LEMMA AloneLoose ==
    ASSUME NEW h, Tidy(h), NEW n \in UsedOf(h.nodes), NEW f, f = Freed(h, n),
           f.nodes[f.nodes[n].prev].used
    PROVE  Loose(f, n)
<1> DEFINE N == h.nodes
           F == f.nodes
<1>1. IsHeap(h) /\ Chain(N) /\ Forward(N) /\ Backward(N) /\ Sound(h, FreeOf(N)) /\ Apart(N, {})
  BY DEF Tidy, Sound, Chain
<1>2. n \in DOMAIN N \ {End} /\ N[n].used
  BY DEF UsedOf
<1>3. IsHeap(f) /\ Flags(N, F, n, FALSE, FALSE) /\ f.freeList = h.freeList /\ f.bitmap = h.bitmap
  BY <1>1, <1>2, FreedIs
<1>4. Sound(f, FreeOf(N))
  BY <1>1, <1>2, <1>3, FlagsSound
<1>5. /\ DOMAIN F = DOMAIN N /\ ~F[n].used /\ ~F[n].aligned /\ F[n].prev = N[n].prev
      /\ \A m \in DOMAIN N : F[m].size = N[m].size
      /\ \A m \in DOMAIN N \ {n} : F[m] = N[m]
  BY <1>3 DEF Flags
<1> HIDE DEF N, F
<1>6. FreeOf(F) \ {n} = FreeOf(N)
  BY <1>2, <1>5 DEF FreeOf
<1>7. Apart(F, {n})
  <2> SUFFICES ASSUME NEW m \in DOMAIN F \ ({End} \cup {n}), ~F[m].used
               PROVE  F[m + F[m].size].used /\ ~F[m].aligned
    BY DEF Apart
  <2>1. m \in DOMAIN N \ {End} /\ ~N[m].used /\ m # n /\ F[m] = N[m]
    BY <1>5
  <2>2. /\ N[m + N[m].size].used /\ ~N[m].aligned /\ m + N[m].size \in DOMAIN N
        /\ N[m + N[m].size].prev = m
    BY <2>1, <1>1 DEF Apart, Forward, Backward
  <2>3. m + N[m].size # n
    <3>1. N[n].prev # m
      BY <2>1, <1>5 DEF F
    <3> QED BY <3>1, <2>2
  <2> QED BY <2>1, <2>2, <2>3, <1>5
<1> QED BY <1>2, <1>4, <1>5, <1>6, <1>7 DEF Loose, F

LEMMA PrevJoinable ==
    ASSUME NEW h, Tidy(h), NEW n \in UsedOf(h.nodes), NEW f, f = Freed(h, n),
           NEW p, p = f.nodes[n].prev, ~f.nodes[p].used,
           NEW d, d = OsMemFreeNodeDelete(f, p)
    PROVE  /\ Joinable(d, p, n) /\ d.nodes = f.nodes /\ SameAccounts(d, f)
           /\ ~f.nodes[p].aligned /\ p \notin UsedOf(f.nodes)
<1> DEFINE N == h.nodes
           F == f.nodes
<1>1. IsHeap(h) /\ Chain(N) /\ Forward(N) /\ Backward(N) /\ Sound(h, FreeOf(N)) /\ Apart(N, {})
  BY DEF Tidy, Sound, Chain
<1>2. n \in DOMAIN N \ {End} /\ N[n].used /\ n \in Nat
  BY <1>1, NodeIs DEF UsedOf
<1>3. IsHeap(f) /\ Flags(N, F, n, FALSE, FALSE) /\ f.freeList = h.freeList /\ f.bitmap = h.bitmap
  BY <1>1, <1>2, FreedIs
<1>4. Sound(f, FreeOf(N))
  BY <1>1, <1>2, <1>3, FlagsSound
<1>5. /\ DOMAIN F = DOMAIN N /\ ~F[n].used /\ ~F[n].aligned /\ F[n].prev = N[n].prev
      /\ \A m \in DOMAIN N : F[m].size = N[m].size
      /\ \A m \in DOMAIN N \ {n} : F[m] = N[m]
  BY <1>3 DEF Flags
<1> HIDE DEF N, F
<1>6. n # First
  <2>1. ASSUME n = First PROVE FALSE
    <3>1. p = End /\ End \in DOMAIN N \ {n} /\ N[End].used
      BY <2>1, <1>1, <1>2, <1>5 DEF F, Forward, Backward
    <3> QED BY <3>1, <1>5 DEF F
  <2> QED BY <2>1
<1>7. p \in DOMAIN N \ {End} /\ p + N[p].size = n
  BY <1>1, <1>2, <1>5, <1>6 DEF Backward, F
<1>8. p # n
  BY <1>1, <1>2, <1>7, NodeIs
<1>9. F[p] = N[p] /\ p \in FreeOf(N) /\ ~N[p].aligned
  <2>1. F[p] = N[p] /\ ~N[p].used
    BY <1>5, <1>7, <1>8 DEF F
  <2> QED BY <2>1, <1>1, <1>7 DEF FreeOf, Apart
<1>10. Sound(d, FreeOf(N) \ {p}) /\ d.nodes = F /\ SameAccounts(d, f)
  BY <1>4, <1>9, NodeDelete DEF F
<1>11. FreeOf(F) \ {p, n} = FreeOf(N) \ {p}
  BY <1>2, <1>5 DEF FreeOf
<1>12. Apart(F, {p, n})
  <2> SUFFICES ASSUME NEW m \in DOMAIN F \ ({End} \cup {p, n}), ~F[m].used
               PROVE  F[m + F[m].size].used /\ ~F[m].aligned
    BY DEF Apart
  <2>1. m \in DOMAIN N \ {End} /\ ~N[m].used /\ m # n /\ m # p /\ F[m] = N[m]
    BY <1>5
  <2>2. /\ N[m + N[m].size].used /\ ~N[m].aligned /\ m + N[m].size \in DOMAIN N
        /\ N[m + N[m].size].prev = m
    BY <2>1, <1>1 DEF Apart, Forward, Backward
  <2>3. m + N[m].size # n
    <3>1. N[n].prev # m
      BY <2>1, <1>5 DEF F
    <3> QED BY <3>1, <2>2
  <2> QED BY <2>1, <2>2, <2>3, <1>5
<1>13. p \notin UsedOf(F)
  BY DEF UsedOf, F
<1> QED BY <1>2, <1>5, <1>7, <1>9, <1>10, <1>11, <1>12, <1>13 DEF Joinable, F

LEMMA FreeIs ==
    ASSUME NEW h, Tidy(h), Water(h), NEW n \in UsedOf(h.nodes), NEW g, g = OsMemFree(h, n)
    PROVE  Touched(g, h, n) /\ n \notin UsedOf(g.nodes)
<1> DEFINE N == h.nodes
<1>1. PICK f : f = Freed(h, n)
  OBVIOUS
<1>2. PICK p : p = f.nodes[n].prev
  OBVIOUS
<1>3. IsHeap(h) /\ Forward(N) /\ n \in DOMAIN N \ {End} /\ N[n].size \in Nat
  BY UsedIs DEF Tidy, Sound, Chain
<1>4. /\ Flags(N, f.nodes, n, FALSE, FALSE) /\ f.gap = h.gap
      /\ f.curUsedSize = h.curUsedSize - N[n].size /\ f.waterLine = h.waterLine
  BY <1>1, <1>3, FreedIs
<1>5. UsedOf(f.nodes) = UsedOf(N) \ {n} /\ \A m \in UsedOf(N) \ {n} : f.nodes[m] = N[m]
  BY <1>4 DEF Flags, UsedOf
<1>6. PICK b, m : /\ Loose(b, m) /\ g = OsMemFreeNodeAdd(WithNext(b, m), m)
                  /\ Others(f.nodes, b.nodes, m) /\ SameAccounts(b, f) /\ m \notin UsedOf(f.nodes)
  <2>1. CASE f.nodes[p].used
    <3>1. g = OsMemFreeNodeAdd(WithNext(f, n), n)
      BY <1>1, <1>2, <2>1, Zenon DEF OsMemFree
    <3>2. Loose(f, n)
      BY <1>1, <1>2, <2>1, AloneLoose
    <3> QED BY <3>1, <3>2, <1>5 DEF Others, SameAccounts
  <2>2. CASE ~f.nodes[p].used
    <3>1. PICK d : d = OsMemFreeNodeDelete(f, p)
      OBVIOUS
    <3>2. PICK b : b = OsMemMergeNode(d, n)
      OBVIOUS
    <3>3. g = OsMemFreeNodeAdd(WithNext(b, p), p)
      BY <1>1, <1>2, <2>2, <3>1, <3>2, Zenon DEF OsMemFree
    <3>4. /\ Joinable(d, p, n) /\ d.nodes = f.nodes /\ SameAccounts(d, f)
          /\ ~f.nodes[p].aligned /\ p \notin UsedOf(f.nodes)
      BY <1>1, <1>2, <2>2, <3>1, PrevJoinable
    <3>5. Joined(b, d, p, n)
      BY <3>2, <3>4, JoinIs
    <3>6. Loose(b, p) /\ Others(f.nodes, b.nodes, p)
      BY <2>2, <3>4, <3>5 DEF Joined, Loose
    <3>7. SameAccounts(b, f)
      BY <3>4, <3>5 DEF Joined, SameAccounts
    <3> QED BY <3>3, <3>4, <3>6, <3>7
  <2> QED BY <2>1, <2>2
<1>7. PICK w : w = WithNext(b, m)
  OBVIOUS
<1>8. Loose(w, m) /\ Apart(w.nodes, {}) /\ SameAccounts(w, b) /\ Others(b.nodes, w.nodes, m)
  BY <1>6, <1>7, WithNextIs
<1>9. /\ Sound(g, (FreeOf(w.nodes) \ {m}) \cup {m}) /\ g.nodes = w.nodes /\ SameAccounts(g, w)
  <2>1. g = OsMemFreeNodeAdd(w, m)
    BY <1>6, <1>7
  <2>2. Sound(w, FreeOf(w.nodes) \ {m}) /\ m \in DOMAIN w.nodes \ {End}
    BY <1>8 DEF Loose
  <2>3. m \notin FreeOf(w.nodes) \ {m}
    OBVIOUS
  <2> QED BY <2>1, <2>2, <2>3, NodeAdd
<1>10. (FreeOf(w.nodes) \ {m}) \cup {m} = FreeOf(w.nodes)
  BY <1>8 DEF Loose, FreeOf
<1>11. Tidy(g)
  BY <1>8, <1>9, <1>10 DEF Tidy
<1>12. g.gap = h.gap /\ g.curUsedSize = h.curUsedSize - N[n].size /\ g.waterLine = h.waterLine
  BY <1>4, <1>6, <1>8, <1>9 DEF SameAccounts
<1>13. m \notin UsedOf(w.nodes) /\ m \notin UsedOf(b.nodes)
  BY <1>6, <1>8 DEF Loose, UsedOf
<1>14. UsedOf(g.nodes) = UsedOf(N) \ {n}
  BY <1>5, <1>6, <1>8, <1>9, <1>13 DEF Others
<1>15. Others(N, g.nodes, n)
  <2>1. \A k \in UsedOf(N) \ {n} : /\ k \in UsedOf(f.nodes) \ {m} /\ k \in UsedOf(b.nodes) \ {m}
    BY <1>5, <1>6 DEF Others
  <2>2. \A k \in UsedOf(N) \ {n} : g.nodes[k].size = N[k].size /\ g.nodes[k].aligned = N[k].aligned
    BY <2>1, <1>5, <1>6, <1>8, <1>9 DEF Others
  <2> QED BY <2>2, <1>14 DEF Others
<1>16. WordsOf(g.nodes, n) = 0 /\ WordsOf(N, n) = N[n].size
  BY <1>14 DEF WordsOf
<1>17. g.curUsedSize = h.curUsedSize + WordsOf(g.nodes, n) - WordsOf(N, n) /\ Water(g)
  BY <1>3, <1>12, <1>16 DEF Water
<1> QED BY <1>11, <1>12, <1>14, <1>15, <1>17 DEF Touched

CanCut(h, n, size) ==
    /\ Tidy(h) /\ Water(h) /\ n \in UsedOf(h.nodes) /\ size \in Nat /\ MinLeft <= size

IsResize(g, h, n, size) ==
    /\ Touched(g, h, n) /\ n \in UsedOf(g.nodes) /\ ~g.nodes[n].aligned
    /\ g.nodes[n].size >= size

LEMMA SmallerIs ==
    ASSUME NEW h, NEW n, NEW size, CanCut(h, n, size), size <= h.nodes[n].size,
           NEW g, g = OsMemReAllocSmaller(h, n, size)
    PROVE  IsResize(g, h, n, size)
<1> DEFINE N == h.nodes
<1>1. /\ Tidy(h) /\ Water(h) /\ n \in UsedOf(N) /\ size \in Nat /\ MinLeft <= size
  BY DEF CanCut
<1>2. /\ Sound(h, FreeOf(N) \ {n}) /\ Apart(N, {}) /\ n \in DOMAIN N \ {End} /\ N[n].size \in Nat
  <2>1. n \in DOMAIN N \ {End} /\ N[n].used /\ N[n].size \in Nat
    BY <1>1, UsedIs
  <2>2. FreeOf(N) \ {n} = FreeOf(N)
    BY <2>1 DEF FreeOf
  <2> QED BY <1>1, <2>1, <2>2 DEF Tidy
<1>3. PICK u : u = Marked(SplitIfWorthIt(h, n, size), n)
  OBVIOUS
<1>4. /\ Tidy(u) /\ Others(N, u.nodes, n) /\ SameAccounts(u, h)
      /\ n \in UsedOf(u.nodes) /\ ~u.nodes[n].aligned
      /\ size <= u.nodes[n].size /\ u.nodes[n].size <= N[n].size
  BY <1>1, <1>2, <1>3, CutSound
<1>5. u.nodes[n].size \in Nat /\ IsHeap(u)
  BY <1>4, UsedIs DEF Tidy, Sound
<1>6. UsedSet(g, u, u.curUsedSize - (N[n].size - u.nodes[n].size))
  <2>1. g = [u EXCEPT !.curUsedSize = u.curUsedSize - (N[n].size - u.nodes[n].size)]
    BY <1>3, Zenon DEF OsMemReAllocSmaller
  <2> QED BY <2>1, Zenon DEF UsedSet
<1>7. /\ SameLists(g, u) /\ g.gap = u.gap /\ g.waterLine = u.waterLine
      /\ g.curUsedSize = u.curUsedSize - (N[n].size - u.nodes[n].size)
  BY <1>5, <1>6, SetUsed DEF SameLists
<1>8. Tidy(g) /\ g.nodes = u.nodes
  BY <1>4, <1>7, TidySame DEF SameLists
<1>9. WordsOf(g.nodes, n) = u.nodes[n].size /\ WordsOf(N, n) = N[n].size
  BY <1>1, <1>4, <1>8 DEF WordsOf
<1>10. g.gap = h.gap /\ u.curUsedSize = h.curUsedSize /\ g.waterLine = h.waterLine
  BY <1>4, <1>7 DEF SameAccounts
<1>11. g.curUsedSize = h.curUsedSize + WordsOf(g.nodes, n) - WordsOf(N, n) /\ Water(g)
  BY <1>1, <1>2, <1>4, <1>5, <1>7, <1>9, <1>10 DEF Water
<1> QED BY <1>4, <1>8, <1>10, <1>11 DEF IsResize, Touched

LEMMA BiggerIs ==
    ASSUME NEW h, NEW n, NEW size, CanCut(h, n, size), CanGrow(h, n, size),
           NEW g, g = OsMemMergeNodeForReAllocBigger(h, n, size)
    PROVE  IsResize(g, h, n, size)
<1> DEFINE N == h.nodes
<1>1. /\ Tidy(h) /\ Water(h) /\ n \in UsedOf(N) /\ size \in Nat /\ MinLeft <= size
  BY DEF CanCut
<1>2. /\ Sound(h, FreeOf(N) \ {n}) /\ Apart(N, {n}) /\ n \in DOMAIN N \ {End} /\ N[n].used
      /\ N[n].size \in Nat /\ Forward(N)
  <2>1. n \in DOMAIN N \ {End} /\ N[n].used /\ N[n].size \in Nat
    BY <1>1, UsedIs
  <2>2. FreeOf(N) \ {n} = FreeOf(N)
    BY <2>1 DEF FreeOf
  <2>3. Apart(N, {n})
    BY <1>1 DEF Tidy, Apart
  <2> QED BY <1>1, <2>1, <2>2, <2>3 DEF Tidy, Sound, Chain
<1>3. PICK x : x = NextNode(h, n)
  OBVIOUS
<1>4. ~N[x].used /\ N[x].size + N[n].size >= size
  BY <1>3, Zenon DEF CanGrow
<1>5. PICK d : d = OsMemFreeNodeDelete(h, x)
  OBVIOUS
<1>6. Joinable(d, n, x) /\ d.nodes = N /\ SameAccounts(d, h)
  BY <1>2, <1>3, <1>4, <1>5, DeleteJoinable
<1>7. PICK j : j = OsMemMergeNode(d, x)
  OBVIOUS
<1>8. Joined(j, d, n, x)
  BY <1>6, <1>7, JoinIs
<1>9. /\ Sound(j, FreeOf(j.nodes) \ {n}) /\ Others(N, j.nodes, n)
      /\ n \in DOMAIN j.nodes \ {End} /\ j.nodes[n].size = N[n].size + N[x].size
      /\ j.nodes[n].used /\ Apart(j.nodes, {n})
  BY <1>2, <1>6, <1>8 DEF Joined
<1>10. Apart(j.nodes, {})
  BY <1>9 DEF Apart
<1>11. SameAccounts(j, h)
  BY <1>6, <1>8 DEF Joined, SameAccounts
<1>12. N[x].size \in Nat /\ size <= j.nodes[n].size
  <2>1. N[x].size \in Nat
    BY <1>2, <1>3, NodeIs DEF NextNode, Forward
  <2> QED BY <1>1, <1>2, <1>4, <1>9, <2>1
<1>13. PICK u : u = Marked(SplitIfWorthIt(j, n, size), n)
  OBVIOUS
<1>14. /\ Tidy(u) /\ Others(j.nodes, u.nodes, n) /\ SameAccounts(u, j)
       /\ n \in UsedOf(u.nodes) /\ ~u.nodes[n].aligned /\ size <= u.nodes[n].size
  BY <1>1, <1>9, <1>10, <1>12, <1>13, CutSound
<1>15. u.nodes[n].size \in Nat /\ IsHeap(u)
  BY <1>14, UsedIs DEF Tidy, Sound
<1>16. g = OsMemWaterUsedRecord(u, u.nodes[n].size - N[n].size)
  BY <1>3, <1>5, <1>7, <1>13, Zenon DEF OsMemMergeNodeForReAllocBigger
<1>17. PICK k : k = u.nodes[n].size - N[n].size
  OBVIOUS
<1>18. /\ SameLists(g, u) /\ g.gap = u.gap /\ g.curUsedSize = u.curUsedSize + k
       /\ g.waterLine = IF u.curUsedSize + k > u.waterLine THEN u.curUsedSize + k ELSE u.waterLine
  BY <1>15, <1>16, <1>17, WaterIs
<1>19. Tidy(g) /\ g.nodes = u.nodes
  BY <1>14, <1>18, TidySame DEF SameLists
<1>20. WordsOf(g.nodes, n) = u.nodes[n].size /\ WordsOf(N, n) = N[n].size
  BY <1>1, <1>14, <1>19 DEF WordsOf
<1>21. u.gap = h.gap /\ u.curUsedSize = h.curUsedSize /\ u.waterLine = h.waterLine
  BY <1>11, <1>14 DEF SameAccounts
<1>22. g.curUsedSize = h.curUsedSize + WordsOf(g.nodes, n) - WordsOf(N, n) /\ Water(g)
  BY <1>1, <1>2, <1>15, <1>17, <1>18, <1>20, <1>21 DEF Water
<1>23. Others(N, u.nodes, n)
  BY <1>9, <1>14 DEF Others
<1> QED BY <1>14, <1>18, <1>19, <1>21, <1>22, <1>23 DEF IsResize, Touched

-----------------------------------------------------------------------------
(* The accounts. *)

Base == First - Pool + HeadSize

\* The words of the nodes of U.
Cover(U, N) == {w \in First .. End : \E n \in U : n <= w /\ w < n + N[n].size}

Accounts(h) == h.curUsedSize = Base + Cardinality(Cover(UsedOf(h.nodes), h.nodes))

LEMMA UsedApart ==
    ASSUME NEW h, Tidy(h), NEW n \in UsedOf(h.nodes), NEW m \in UsedOf(h.nodes), n # m, NEW w \in Int
    PROVE  ~(n <= w /\ w < n + h.nodes[n].size /\ m <= w /\ w < m + h.nodes[m].size)
<1>1. /\ n \in DOMAIN h.nodes \ {End} /\ n \in Nat /\ h.nodes[n].size \in Nat
      /\ m \in DOMAIN h.nodes \ {End} /\ m \in Nat /\ h.nodes[m].size \in Nat
  BY UsedIs
<1>2. Forward(h.nodes)
  BY DEF Tidy, Sound, Chain
<1>3. n < m => n + h.nodes[n].size <= m
  BY <1>1, <1>2, NodesApart
<1>4. m < n => m + h.nodes[m].size <= n
  BY <1>1, <1>2, NodesApart
<1> QED BY <1>1, <1>3, <1>4

LEMMA CoverSum ==
    ASSUME NEW h, Tidy(h), NEW n
    PROVE  LET N == h.nodes
               U == UsedOf(N)
           IN  /\ Cardinality(Cover(U, N)) = Cardinality(Cover(U \ {n}, N)) + WordsOf(N, n)
               /\ Cardinality(Cover(U, N)) \in Nat /\ Cardinality(Cover(U \ {n}, N)) \in Nat
<1> DEFINE N == h.nodes
           U == UsedOf(N)
           A == Cover(U, N)
           B == Cover(U \ {n}, N)
<1>1. A \in SUBSET (First .. End) /\ B \in SUBSET (First .. End)
  BY DEF Cover
<1>2. First \in Int /\ End \in Int
  BY PoolIs
<1> HIDE DEF A, B
<1>3. IsFiniteSet(First .. End)
  BY <1>2, FS_Interval
<1>4. IsFiniteSet(A) /\ IsFiniteSet(B)
  BY <1>1, <1>3, FS_Subset
<1>5. Cardinality(A) \in Nat /\ Cardinality(B) \in Nat
  BY <1>4, FS_CardinalityType
<1>6. Cardinality(A) = Cardinality(B) + WordsOf(N, n)
  <2>1. CASE n \notin U
    <3>1. U \ {n} = U
      BY <2>1
    <3> QED BY <2>1, <3>1, <1>5 DEF A, B, WordsOf
  <2>2. CASE n \in U
    <3> DEFINE s == N[n].size
               I == n .. n + s - 1
    <3>1. /\ n \in Nat /\ n \in First .. End /\ s \in Nat /\ n < n + s /\ n + s <= End
      BY <2>2, UsedIs
    <3>2. IsFiniteSet(I) /\ Cardinality(I) = s
      <4>1. n \in Int /\ n + s - 1 \in Int /\ ~(n > n + s - 1) /\ (n + s - 1) - n + 1 = s
        BY <3>1
      <4> QED BY <4>1, FS_Interval
    <3>3. A = B \cup I
      <4>1. ASSUME NEW w \in A PROVE w \in B \cup I
        <5>1. w \in First .. End /\ \E m \in U : m <= w /\ w < m + N[m].size
          BY <4>1 DEF A, Cover
        <5>2. PICK m \in U : m <= w /\ w < m + N[m].size
          BY <5>1
        <5>3. CASE m = n
          BY <5>1, <5>2, <5>3, <3>1, <1>2
        <5>4. CASE m # n
          BY <5>1, <5>2, <5>4 DEF B, Cover
        <5> QED BY <5>3, <5>4
      <4>2. ASSUME NEW w \in B PROVE w \in A
        BY <4>2 DEF A, B, Cover
      <4>3. ASSUME NEW w \in I PROVE w \in A
        <5>1. w \in First .. End /\ n <= w /\ w < n + N[n].size
          BY <3>1, <4>3, <1>2
        <5> QED BY <2>2, <5>1 DEF A, Cover
      <4> QED BY <4>1, <4>2, <4>3
    <3>4. B \cap I = {}
      <4> SUFFICES ASSUME NEW w \in B, w \in I PROVE FALSE
        OBVIOUS
      <4>1. PICK m \in U \ {n} : m <= w /\ w < m + N[m].size
        BY DEF B, Cover
      <4>2. w \in Int /\ n <= w /\ w < n + N[n].size
        BY <3>1
      <4> QED BY <2>2, <4>1, <4>2, UsedApart
    <3>5. Cardinality(B \cap I) = 0
      BY <3>4, FS_EmptySet
    <3>6. Cardinality(A) = Cardinality(B) + Cardinality(I) - Cardinality(B \cap I)
      BY <3>2, <3>3, <1>4, FS_Union
    <3> QED BY <2>2, <3>1, <3>2, <3>5, <3>6, <1>5 DEF WordsOf
  <2> QED BY <2>1, <2>2
<1> QED BY <1>5, <1>6 DEF A, B

LEMMA TouchedAccounts ==
    ASSUME NEW h, NEW g, NEW n, Tidy(h), Water(h), Accounts(h), Touched(g, h, n)
    PROVE  Accounts(g)
<1> DEFINE N == h.nodes
           M == g.nodes
<1>1. Tidy(g) /\ Others(N, M, n) /\ g.curUsedSize = h.curUsedSize + WordsOf(M, n) - WordsOf(N, n)
  BY DEF Touched
<1>2. Cover(UsedOf(M) \ {n}, M) = Cover(UsedOf(N) \ {n}, N)
  <2>1. UsedOf(M) \ {n} = UsedOf(N) \ {n} /\ \A m \in UsedOf(N) \ {n} : M[m].size = N[m].size
    BY <1>1 DEF Others
  <2> QED BY <2>1 DEF Cover
<1>3. PICK a, b, c : /\ a = Cardinality(Cover(UsedOf(N), N)) /\ b = Cardinality(Cover(UsedOf(M), M))
                     /\ c = Cardinality(Cover(UsedOf(N) \ {n}, N))
  OBVIOUS
<1>4. a = c + WordsOf(N, n) /\ a \in Nat /\ c \in Nat
  BY <1>3, CoverSum
<1>5. b = c + WordsOf(M, n) /\ b \in Nat
  BY <1>1, <1>2, <1>3, CoverSum
<1>6. h.curUsedSize = Base + a /\ Base \in Int
  BY <1>3, PoolIs DEF Accounts, Base
<1>7. WordsOf(N, n) \in Int /\ WordsOf(M, n) \in Int
  <2>1. \A k \in UsedOf(N) : N[k].size \in Int
    BY UsedIs
  <2>2. \A k \in UsedOf(M) : M[k].size \in Int
    BY <1>1, UsedIs
  <2> QED BY <2>1, <2>2 DEF WordsOf
<1>8. g.curUsedSize = Base + b
  BY <1>1, <1>4, <1>5, <1>6, <1>7
<1> QED BY <1>3, <1>8 DEF Accounts

-----------------------------------------------------------------------------
(* Who holds what. *)

\* The word before the gap of block b is w, a word of node n: its first one, or
\* one that the gap says how far it is from that.
AtWord(N, gap, b, n, w) ==
    /\ n <= w /\ w < n + N[n].size /\ b.ptr = w + HeadSize
    /\ w = n => ~N[n].aligned
    /\ w # n => b.ptr \in DOMAIN gap /\ gap[b.ptr] = w - n

At(N, gap, b, n) == \E w \in Nat : AtWord(N, gap, b, n, w)

\* The nodes of U do not overlap.
Spread(U, N) ==
    /\ U \subseteq Nat /\ \A n \in U : N[n].size \in Nat
    /\ \A n, m \in U, w \in Int :
          ~(n # m /\ n <= w /\ w < n + N[n].size /\ m <= w /\ w < m + N[m].size)

\* The blocks of B are in the nodes of U, one in each.
Held(U, N, gap, B) ==
    /\ Spread(U, N)
    /\ \A b \in B : \E n \in U : At(N, gap, b, n)
    /\ \A n \in U : \E b \in B : At(N, gap, b, n)
    /\ \A b, c \in B : \A n \in U : At(N, gap, b, n) /\ At(N, gap, c, n) => b = c
    /\ \A p \in DOMAIN gap : \E b \in B : b.ptr = p

LEMMA UsedSpread ==
    ASSUME NEW h, Tidy(h)
    PROVE  Spread(UsedOf(h.nodes), h.nodes)
<1>1. \A n \in UsedOf(h.nodes) : n \in Nat /\ h.nodes[n].size \in Nat
  BY UsedIs
<1>2. \A n, m \in UsedOf(h.nodes), w \in Int :
          ~(n # m /\ n <= w /\ w < n + h.nodes[n].size /\ m <= w /\ w < m + h.nodes[m].size)
  BY UsedApart
<1> QED BY <1>1, <1>2 DEF Spread

\* A pointer is of one node.
LEMMA OneNode ==
    ASSUME NEW U, NEW N, Spread(U, N), NEW gap, NEW b, NEW c, b.ptr = c.ptr,
           NEW n \in U, NEW m \in U, At(N, gap, b, n), NEW gip, At(N, gip, c, m)
    PROVE  n = m
<1>1. PICK w \in Nat : AtWord(N, gap, b, n, w)
  BY DEF At
<1>2. PICK v \in Nat : AtWord(N, gip, c, m, v)
  BY DEF At
<1>3. w + HeadSize = v + HeadSize
  BY <1>1, <1>2 DEF AtWord
<1>4. w = v
  BY <1>3, PoolIs
<1> QED BY <1>1, <1>2, <1>4 DEF AtWord, Spread

LEMMA AtKept ==
    ASSUME NEW N, NEW gap, NEW M, NEW gip, NEW b, NEW n, At(N, gap, b, n),
           M[n].size = N[n].size, M[n].aligned = N[n].aligned,
           b.ptr \in DOMAIN gap => b.ptr \in DOMAIN gip /\ gip[b.ptr] = gap[b.ptr]
    PROVE  At(M, gip, b, n)
<1>1. PICK w \in Nat : AtWord(N, gap, b, n, w)
  BY DEF At
<1>2. AtWord(M, gip, b, n, w)
  BY <1>1 DEF AtWord
<1> QED BY <1>2 DEF At

\* Others happen to the nodes of other blocks.
LEMMA HeldSame ==
    ASSUME NEW U, NEW N, NEW gap, NEW B, Held(U, N, gap, B), NEW M,
           \A n \in U : M[n].size = N[n].size /\ M[n].aligned = N[n].aligned
    PROVE  Held(U, M, gap, B)
<1>1. \A b \in B : \A n \in U : At(M, gap, b, n) <=> At(N, gap, b, n)
  BY DEF At, AtWord
<1>2. Spread(U, M)
  BY DEF Held, Spread
<1> QED BY <1>1, <1>2 DEF Held

LEMMA HeldDrop ==
    ASSUME NEW U, NEW N, NEW gap, NEW B, Held(U, N, gap, B), NEW b \in B, NEW n \in U,
           At(N, gap, b, n), NEW gip, gip = [p \in DOMAIN gap \ {b.ptr} |-> gap[p]]
    PROVE  Held(U \ {n}, N, gip, B \ {b})
<1>1. Spread(U, N) /\ Spread(U \ {n}, N)
  BY DEF Held, Spread
<1>2. ASSUME NEW c \in B, NEW m \in U, At(N, gap, c, m), c # b
      PROVE  m # n /\ c.ptr # b.ptr /\ At(N, gip, c, m)
  <2>1. m # n
    BY <1>2 DEF Held
  <2>2. c.ptr # b.ptr
    BY <1>1, <1>2, <2>1, OneNode
  <2>3. c.ptr \in DOMAIN gap => c.ptr \in DOMAIN gip /\ gip[c.ptr] = gap[c.ptr]
    BY <2>2
  <2> QED BY <1>2, <2>1, <2>2, <2>3, AtKept
<1>3. ASSUME NEW c \in B \ {b} PROVE \E m \in U \ {n} : At(N, gip, c, m) /\ At(N, gap, c, m)
  <2>1. PICK m \in U : At(N, gap, c, m)
    BY DEF Held
  <2> QED BY <1>2, <2>1
<1>4. ASSUME NEW m \in U \ {n} PROVE \E c \in B \ {b} : At(N, gip, c, m)
  <2>1. PICK c \in B : At(N, gap, c, m)
    BY DEF Held
  <2>2. c # b
    BY <1>1, <2>1, OneNode
  <2> QED BY <1>2, <2>1, <2>2
<1>5. ASSUME NEW c \in B \ {b}, NEW d \in B \ {b}, NEW m \in U \ {n},
             At(N, gip, c, m), At(N, gip, d, m)
      PROVE  c = d
  <2>1. PICK i \in U \ {n} : At(N, gip, c, i) /\ At(N, gap, c, i)
    BY <1>3
  <2>2. PICK j \in U \ {n} : At(N, gip, d, j) /\ At(N, gap, d, j)
    BY <1>3
  <2>3. i = m /\ j = m
    BY <1>1, <1>5, <2>1, <2>2, OneNode
  <2> QED BY <2>1, <2>2, <2>3 DEF Held
<1>6. ASSUME NEW p \in DOMAIN gip PROVE \E c \in B \ {b} : c.ptr = p
  <2>1. p \in DOMAIN gap /\ p # b.ptr
    OBVIOUS
  <2> QED BY <2>1 DEF Held
<1> QED BY <1>1, <1>3, <1>4, <1>5, <1>6 DEF Held

LEMMA HeldAdd ==
    ASSUME NEW U, NEW N, NEW gap, NEW B, Held(U, N, gap, B), NEW b, NEW n, n \notin U,
           Spread(U \cup {n}, N), NEW gip, At(N, gip, b, n),
           \A p \in DOMAIN gap : p \in DOMAIN gip /\ gip[p] = gap[p],
           \A p \in DOMAIN gip : p \in DOMAIN gap \/ p = b.ptr
    PROVE  Held(U \cup {n}, N, gip, B \cup {b})
<1> DEFINE V == U \cup {n}
<1>1. ASSUME NEW c \in B PROVE \E m \in U : At(N, gap, c, m) /\ At(N, gip, c, m)
  <2>1. PICK m \in U : At(N, gap, c, m)
    BY DEF Held
  <2> QED BY <2>1, AtKept
<1>2. ASSUME NEW c \in B, NEW m \in V, At(N, gip, c, m) PROVE m \in U /\ At(N, gap, c, m)
  <2>1. PICK k \in U : At(N, gap, c, k) /\ At(N, gip, c, k)
    BY <1>1
  <2>2. k = m
    BY <1>2, <2>1, OneNode
  <2> QED BY <2>1, <2>2
<1>3. ASSUME NEW m \in V, At(N, gip, b, m) PROVE m = n
  <2>1. n \in V
    OBVIOUS
  <2> QED BY <1>3, <2>1, OneNode
<1>4. \A c \in B \cup {b} : \E m \in V : At(N, gip, c, m)
  BY <1>1
<1>5. ASSUME NEW m \in V PROVE \E c \in B \cup {b} : At(N, gip, c, m)
  <2>1. CASE m = n
    BY <2>1
  <2>2. CASE m # n
    <3>1. PICK c \in B : At(N, gap, c, m)
      BY <2>2 DEF Held
    <3>2. At(N, gip, c, m)
      BY <3>1, AtKept
    <3> QED BY <3>2
  <2> QED BY <2>1, <2>2
<1>6. ASSUME NEW c \in B \cup {b}, NEW d \in B \cup {b}, NEW m \in V,
             At(N, gip, c, m), At(N, gip, d, m)
      PROVE  c = d
  <2>1. CASE c = b /\ d # b
    BY <1>2, <1>3, <1>6, <2>1
  <2>2. CASE c # b /\ d = b
    BY <1>2, <1>3, <1>6, <2>2
  <2>3. CASE c # b /\ d # b
    <3>1. m \in U /\ At(N, gap, c, m) /\ At(N, gap, d, m) /\ c \in B /\ d \in B
      BY <1>2, <1>6, <2>3
    <3> QED BY <3>1 DEF Held
  <2> QED BY <2>1, <2>2, <2>3
<1>7. ASSUME NEW p \in DOMAIN gip PROVE \E c \in B \cup {b} : c.ptr = p
  <2>1. p \in DOMAIN gap \/ p = b.ptr
    OBVIOUS
  <2> QED BY <2>1 DEF Held
<1> QED BY <1>4, <1>5, <1>6, <1>7 DEF Held

-----------------------------------------------------------------------------
(* The invariant, and that it says what the runs check. *)

Sane(h, B) ==
    /\ Tidy(h) /\ Water(h) /\ Accounts(h)
    /\ Held(UsedOf(h.nodes), h.nodes, h.gap, B)

HeapInv == Sane(heap, blocks)

LEMMA RealPtr ==
    ASSUME NEW h, Tidy(h), NEW b, NEW n \in UsedOf(h.nodes), At(h.nodes, h.gap, b, n)
    PROVE  OsGetRealPtr(h, b.ptr) = n + HeadSize
<1> DEFINE N == h.nodes
<1>1. PICK w \in Nat : AtWord(N, h.gap, b, n, w)
  BY DEF At
<1>2. /\ n <= w /\ w < n + N[n].size /\ b.ptr = w + HeadSize
      /\ w = n => ~N[n].aligned
      /\ w # n => b.ptr \in DOMAIN h.gap /\ h.gap[b.ptr] = w - n
  BY <1>1 DEF AtWord
<1>3. n \in DOMAIN N \ {End} /\ n \in Nat /\ n \in First .. End /\ Forward(N)
  BY UsedIs DEF Tidy, Sound, Chain
<1>4. b.ptr - HeadSize = w
  BY <1>2, PoolIs
<1>5. CASE w = n
  <2>1. b.ptr - HeadSize \in DOMAIN N /\ ~N[b.ptr - HeadSize].aligned
    BY <1>2, <1>3, <1>4, <1>5
  <2>2. OsGetRealPtr(h, b.ptr) = b.ptr
    BY <2>1 DEF OsGetRealPtr
  <2> QED BY <2>2, <1>2, <1>5
<1>6. CASE w # n
  <2>1. ~(b.ptr - HeadSize \in DOMAIN N)
    BY <1>2, <1>3, <1>4, <1>6 DEF Forward
  <2>2. ~(h.gap[b.ptr] > b.ptr - HeadSize - Pool)
    BY <1>2, <1>3, <1>4, <1>6, PoolIs
  <2>3. OsGetRealPtr(h, b.ptr) = b.ptr - h.gap[b.ptr]
    BY <2>1, <2>2 DEF OsGetRealPtr
  <2> QED BY <2>3, <1>2, <1>3, <1>6, PoolIs
<1> QED BY <1>5, <1>6

LEMMA UsedNodeChecks ==
    ASSUME NEW h, Tidy(h), NEW n \in UsedOf(h.nodes)
    PROVE  OsMemCheckUsedNode(h, n)
<1> DEFINE N == h.nodes
<1>1. /\ n \in DOMAIN N \ {End} /\ N[n].used /\ Forward(N) /\ Backward(N)
  BY DEF UsedOf, Tidy, Sound, Chain
<1>2. ASSUME NEW m \in DOMAIN N PROVE OsMemIsNodeValid(h, m)
  <2>1. m \in First .. End /\ N[m].prev \in First .. End
    BY <1>1, <1>2, NodeIs DEF Forward
  <2>2. N[m].prev \in First .. End + HeadSize - 1
    BY <2>1, PoolIs
  <2> QED BY <2>1, <2>2, <1>2 DEF OsMemIsNodeValid
<1>3. n + N[n].size \in DOMAIN N /\ N[n + N[n].size].prev = n
  BY <1>1 DEF Forward, Backward
<1>4. n # First => N[n].prev \in DOMAIN N /\ N[n].prev + N[N[n].prev].size = n
  BY <1>1 DEF Backward
<1> QED BY <1>1, <1>2, <1>3, <1>4 DEF OsMemCheckUsedNode, NextNode

LEMMA PtrAccepted ==
    ASSUME NEW h, Tidy(h), NEW b, NEW n \in UsedOf(h.nodes), At(h.nodes, h.gap, b, n)
    PROVE  /\ Accepted(h, b.ptr) /\ OsGetRealPtr(h, b.ptr) - HeadSize = n
           /\ OsGetRealPtr(h, b.ptr) = n + HeadSize
<1>1. OsGetRealPtr(h, b.ptr) = n + HeadSize /\ n \in Nat
  BY RealPtr, UsedIs
<1>2. OsGetRealPtr(h, b.ptr) - HeadSize = n /\ OsGetRealPtr(h, b.ptr) # Null
  BY <1>1, PoolIs DEF Null
<1>3. OsMemCheckUsedNode(h, n)
  BY UsedNodeChecks
<1> QED BY <1>1, <1>2, <1>3 DEF Accepted

LEMMA InvTypes ==
    ASSUME HeapInv
    PROVE  HeapTypeOK
<1> DEFINE N == heap.nodes
<1>1. /\ Tidy(heap) /\ Water(heap) /\ Accounts(heap) /\ Forward(N)
      /\ Listed(heap.freeList, heap.bitmap, N, FreeOf(N))
  BY DEF HeapInv, Sane, Tidy, Sound, Chain
<1>2. Node \subseteq First .. End /\ {First, End} \subseteq Node
  BY <1>1 DEF Forward, Node
<1>3. N \in [Node -> [size : 0 .. End - First, used : BOOLEAN, aligned : BOOLEAN, prev : Node]]
  BY <1>1 DEF Forward, Header, Node
<1>4. heap.freeList \in [ListIndex -> Seq(Node)] /\ heap.bitmap \subseteq ListIndex
  <2>1. /\ heap.freeList \in [ListIndex -> Seq(First .. End)] /\ heap.bitmap \subseteq ListIndex
        /\ \A i \in ListIndex : \A n : Contains(heap.freeList[i], n) => n \in FreeOf(N)
    BY <1>1 DEF Listed
  <2>2. ASSUME NEW i \in ListIndex PROVE heap.freeList[i] \in Seq(Node)
    <3>1. PICK q : q = heap.freeList[i]
      OBVIOUS
    <3>2. q \in Seq(First .. End)
      BY <2>1, <3>1
    <3>3. \A k \in 1 .. Len(q) : q[k] \in Node
      <4>1. \A k \in 1 .. Len(q) : Contains(q, q[k])
        BY <3>2, ElementOf
      <4> QED BY <2>1, <3>1, <4>1 DEF FreeOf, Node
    <3> QED BY <3>1, <3>2, <3>3
  <2> QED BY <2>1, <2>2
<1>5. heap.curUsedSize \in Nat /\ heap.waterLine \in Nat
  <2>1. PICK a : a = Cardinality(Cover(UsedOf(N), N))
    OBVIOUS
  <2>2. a \in Nat
    BY <1>1, <2>1, CoverSum
  <2>3. heap.curUsedSize = Base + a /\ Base \in Nat
    BY <1>1, <2>1, PoolIs DEF Accounts, Base
  <2> QED BY <1>1, <2>2, <2>3 DEF Water
<1> QED BY <1>2, <1>3, <1>4, <1>5 DEF HeapTypeOK

LEMMA InvTiles ==
    ASSUME HeapInv
    PROVE  NodesTile
<1> DEFINE N == heap.nodes
<1>1. Forward(N) /\ Backward(N) /\ Apart(N, {})
  BY DEF HeapInv, Sane, Tidy, Sound, Chain
<1>2. N[First].prev = End /\ N[End].used
  BY <1>1 DEF Forward, Backward
<1>3. ASSUME NEW n \in Node \ {End}
      PROVE  LET next == NextNode(heap, n)
             IN  /\ next \in Node /\ N[next].prev = n
                 /\ Node \cap n + 1 .. next - 1 = {}
                 /\ N[n].size >= MinLeft
                 /\ ~N[n].used => N[next].used /\ ~N[n].aligned
  <2>1. n \in DOMAIN N \ {End} /\ n \in Nat /\ N[n].size \in Nat
    BY <1>1, NodeIs DEF Node
  <2>2. /\ n + N[n].size \in DOMAIN N /\ N[n].size >= MinLeft
        /\ N[n + N[n].size].prev = n
        /\ \A m \in DOMAIN N : ~(n < m /\ m < n + N[n].size)
    BY <1>1, <2>1 DEF Forward, Backward
  <2>3. ~N[n].used => N[n + N[n].size].used /\ ~N[n].aligned
    BY <1>1, <2>1 DEF Apart
  <2>4. Node \cap n + 1 .. (n + N[n].size) - 1 = {}
    BY <2>1, <2>2 DEF Node
  <2> QED BY <2>2, <2>3, <2>4 DEF NextNode, Node
<1> QED BY <1>2, <1>3 DEF NodesTile

LEMMA InvLists ==
    ASSUME HeapInv
    PROVE  FreeListsMatchNodes
<1> DEFINE N == heap.nodes
           F == heap.freeList
<1>1. Listed(F, heap.bitmap, N, FreeOf(N))
  BY DEF HeapInv, Sane, Tidy, Sound
<1>2. heap.bitmap = {i \in ListIndex : F[i] # <<>>}
  BY <1>1 DEF Listed
<1>3. ASSUME NEW i \in ListIndex
      PROVE  /\ IsInjective(F[i])
             /\ ToSet(F[i]) = {n \in Node : ~N[n].used /\ OsMemFreeListIndexGet(N[n].size) = i}
  <2>1. /\ IsInjective(F[i]) /\ F[i] \in Seq(First .. End)
        /\ \A n : Contains(F[i], n) <=> n \in FreeOf(N) /\ OsMemFreeListIndexGet(N[n].size) = i
    BY <1>1 DEF Listed
  <2>2. ToSet(F[i]) = {F[i][k] : k \in 1 .. Len(F[i])}
    BY <2>1 DEF ToSet
  <2>3. \A n : n \in ToSet(F[i]) <=> Contains(F[i], n)
    BY <2>2 DEF Contains
  <2> QED BY <2>1, <2>3 DEF FreeOf, Node
<1> QED BY <1>2, <1>3 DEF FreeListsMatchNodes

LEMMA InvBalance ==
    ASSUME HeapInv
    PROVE  AccountsBalance
<1>1. Accounts(heap) /\ Water(heap)
  BY DEF HeapInv, Sane
<1>2. UsedNode = UsedOf(heap.nodes)
  BY DEF UsedNode, UsedOf, Node
<1>3. Cover(UsedOf(heap.nodes), heap.nodes)
         = {w \in First .. End : \E n \in UsedNode : n <= w /\ w < NextNode(heap, n)}
  BY <1>2 DEF Cover, NextNode
<1> QED BY <1>1, <1>3 DEF Accounts, Water, AccountsBalance, Base

LEMMA InvHeld ==
    ASSUME HeapInv
    PROVE  NothingLeaks
<1> DEFINE U == UsedOf(heap.nodes)
           A(b, n) == At(heap.nodes, heap.gap, b, n)
           Real(b) == OsGetRealPtr(heap, b.ptr) - HeadSize
<1>1. Tidy(heap) /\ Held(U, heap.nodes, heap.gap, blocks)
  BY DEF HeapInv, Sane
<1>2. UsedNode = U
  BY DEF UsedNode, UsedOf, Node
<1>3. /\ \A b \in blocks : \E n \in U : A(b, n)
      /\ \A n \in U : \E b \in blocks : A(b, n)
      /\ \A b, c \in blocks : \A n \in U : A(b, n) /\ A(c, n) => b = c
  BY <1>1 DEF Held
<1>4. ASSUME NEW b, NEW n \in U, A(b, n)
      PROVE  Accepted(heap, b.ptr) /\ Real(b) = n
  BY <1>1, <1>4, PtrAccepted
<1> HIDE DEF A, Real, U
<1>5. \A b \in blocks : Accepted(heap, b.ptr)
  BY <1>3, <1>4
<1>6. U = {Real(b) : b \in blocks}
  BY <1>3, <1>4
<1>7. Cardinality(U) = Cardinality(blocks)
  <2>1. IsFiniteSet(U)
    <3>1. U \in SUBSET (First .. End)
      BY <1>1, UsedIs DEF U
    <3>2. IsFiniteSet(First .. End)
      BY PoolIs, FS_Interval
    <3> QED BY <3>1, <3>2, FS_Subset
  <2> DEFINE f == [n \in U |-> CHOOSE b \in blocks : A(b, n)]
  <2>2. \A n \in U : f[n] \in blocks /\ A(f[n], n)
    BY <1>3
  <2>3. f \in [U -> blocks]
    BY <2>2
  <2> HIDE DEF f
  <2>4. ASSUME NEW n \in U, NEW m \in U, f[n] = f[m] PROVE n = m
    <3>1. A(f[n], n) /\ A(f[n], m)
      BY <2>2, <2>4
    <3> QED BY <3>1, <1>4
  <2>5. \A b \in blocks : \E n \in U : f[n] = b
    BY <1>3, <2>2
  <2>6. f \in Bijection(U, blocks)
    BY <2>3, <2>4, <2>5 DEF Bijection, Injection, Surjection, IsInjective
  <2>7. ExistsBijection(U, blocks)
    BY <2>6 DEF ExistsBijection
  <2> QED BY <2>1, <2>7, FS_Bijection
<1> QED BY <1>2, <1>5, <1>6, <1>7 DEF NothingLeaks, Real

LEMMA InvSound ==
    ASSUME HeapInv
    PROVE  HeapIsSound
  BY InvTypes, InvTiles, InvLists, InvBalance, InvHeld DEF HeapIsSound

-----------------------------------------------------------------------------
(* Every step keeps it. *)

LEMMA InitInv ==
    ASSUME MemoryInit
    PROVE  HeapInv
<1> DEFINE N == [n \in {First, End} |->
                   IF n = First
                   THEN [size |-> End - First, used |-> FALSE, aligned |-> FALSE, prev |-> End]
                   ELSE [size |-> 0, used |-> TRUE, aligned |-> FALSE, prev |-> First]]
           F == [i \in ListIndex |-> <<>>]
           P == [p \in {} |-> 0]
           u == First - Pool + HeadSize
<1>1. PICK h : h = [nodes |-> N, freeList |-> F, bitmap |-> {}, gap |-> P,
                    curUsedSize |-> u, waterLine |-> u]
  OBVIOUS
<1>2. heap = OsMemFreeNodeAdd(h, First) /\ blocks = {}
  BY <1>1, Zenon DEF MemoryInit
<1>3. /\ IsHeap(h) /\ h.nodes = N /\ h.freeList = F /\ h.bitmap = {} /\ h.gap = P
      /\ h.curUsedSize = u /\ h.waterLine = u
  <2>1. IsHeap(h)
    BY <1>1, Zenon DEF IsHeap
  <2> QED BY <2>1, <1>1
<1>4. /\ DOMAIN N = {First, End} /\ N[First].size = End - First /\ ~N[First].used
      /\ ~N[First].aligned /\ N[First].prev = End /\ N[End].used /\ N[End].prev = First
      /\ First # End /\ First + N[First].size = End /\ N[First].size \in 0 .. End - First
      /\ N[First].size >= MinLeft
  BY PoolIs, MemoryAssumption
<1>5. N \in [DOMAIN N -> Header(N)]
  <2>1. [size |-> End - First, used |-> FALSE, aligned |-> FALSE, prev |-> End] \in Header(N)
    BY <1>4, PoolIs DEF Header
  <2>2. [size |-> 0, used |-> TRUE, aligned |-> FALSE, prev |-> First] \in Header(N)
    BY <1>4, PoolIs DEF Header
  <2> QED BY <2>1, <2>2
<1>6. P = [p \in {} |-> 0] /\ DOMAIN P = {}
  OBVIOUS
<1>7. \A i \in ListIndex : F[i] = <<>>
  OBVIOUS
<1>8. F \in [ListIndex -> Seq(First .. End)]
  OBVIOUS
<1> HIDE DEF N, F, P, u
<1>9. Chain(N)
  <2>1. Forward(N)
    BY <1>4, <1>5, PoolIs DEF Forward
  <2>2. Backward(N)
    BY <1>4 DEF Backward
  <2> QED BY <2>1, <2>2 DEF Chain
<1>10. Listed(F, {}, N, {})
  <2>1. \A i \in ListIndex : IsInjective(F[i]) /\ \A n : ~Contains(F[i], n)
    BY <1>7 DEF IsInjective, Contains
  <2> QED BY <2>1, <1>7, <1>8 DEF Listed
<1>11. Sound(h, {})
  BY <1>3, <1>9, <1>10 DEF Sound
<1>12. First \in DOMAIN h.nodes \ {End} /\ First \notin {}
  BY <1>3, <1>4
<1>13. Sound(heap, {} \cup {First}) /\ heap.nodes = N /\ SameAccounts(heap, h)
  BY <1>2, <1>3, <1>11, <1>12, NodeAdd
<1>14. FreeOf(N) = {} \cup {First} /\ UsedOf(N) = {}
  BY <1>4 DEF FreeOf, UsedOf
<1>15. Apart(N, {})
  BY <1>4 DEF Apart
<1>16. Tidy(heap)
  BY <1>13, <1>14, <1>15 DEF Tidy
<1>17. heap.curUsedSize = u /\ heap.waterLine = u /\ heap.gap = P
  BY <1>3, <1>13 DEF SameAccounts
<1>18. u \in Int /\ u = Base
  BY PoolIs DEF u, Base
<1>19. Water(heap)
  BY <1>17, <1>18 DEF Water
<1>20. Accounts(heap)
  <2>1. Cover({}, N) = {}
    BY DEF Cover
  <2>2. Cardinality(Cover({}, N)) = 0
    BY <2>1, FS_EmptySet
  <2> QED BY <2>2, <1>13, <1>14, <1>17, <1>18 DEF Accounts
<1>21. Held({}, N, P, {})
  BY <1>6 DEF Held, Spread
<1> QED BY <1>2, <1>13, <1>14, <1>16, <1>17, <1>19, <1>20, <1>21 DEF HeapInv, Sane

Limits ==
    \A size \in Size, boundary \in Boundary \cup {1} :
       /\ size \in Nat \ {0} /\ boundary \in Nat \ {0}
       /\ UseSize(AtLeast(size), boundary) \in Nat /\ MinAlloc <= UseSize(AtLeast(size), boundary)
       /\ AtLeast(size) \in Nat /\ MinAlloc <= AtLeast(size)
       /\ UseSize(AtLeast(size), boundary) = AtLeast(size) + boundary - 1
       /\ UseSize(AtLeast(size), boundary) + HeadSize < Two(Limit)

LEMMA RequestsAre == Limits
<1> SUFFICES ASSUME NEW size \in Size, NEW boundary \in Boundary \cup {1}
             PROVE  /\ size \in Nat \ {0} /\ boundary \in Nat \ {0}
                    /\ UseSize(AtLeast(size), boundary) \in Nat
                    /\ MinAlloc <= UseSize(AtLeast(size), boundary)
                    /\ AtLeast(size) \in Nat /\ MinAlloc <= AtLeast(size)
                    /\ UseSize(AtLeast(size), boundary) = AtLeast(size) + boundary - 1
                    /\ UseSize(AtLeast(size), boundary) + HeadSize < Two(Limit)
  BY DEF Limits
<1>1. size \in Nat \ {0}
  BY MemoryAssumption
<1>2. boundary \in Nat \ {0}
  <2>1. CASE boundary \in Boundary
    <3>1. PICK k \in 0 .. 29 : boundary = 2 ^ k
      BY <2>1, MemoryAssumption
    <3>2. boundary = Two(k) /\ k \in 0 .. 31
      BY <3>1 DEF Two
    <3> QED BY <3>2, Powers
  <2> QED BY <2>1
<1>3. AtLeast(size) \in Nat /\ MinAlloc <= AtLeast(size) /\ MinAlloc = 2
  BY <1>1 DEF AtLeast, MinAlloc
<1>4. UseSize(AtLeast(size), boundary) = AtLeast(size) + boundary - 1
  BY DEF UseSize
<1>5. UseSize(AtLeast(size), boundary) + HeadSize < Two(Limit)
  BY RequestAssumption DEF Two, Limit
<1> QED BY <1>1, <1>2, <1>3, <1>4, <1>5

LEMMA ForgottenIs ==
    ASSUME NEW h, IsHeap(h), NEW p, NEW g, g = Forgotten(h, p)
    PROVE  /\ SameLists(g, h) /\ g.curUsedSize = h.curUsedSize /\ g.waterLine = h.waterLine
           /\ g.gap = [q \in DOMAIN h.gap \ {p} |-> h.gap[q]]
<1>1. PICK X : X = [q \in DOMAIN h.gap \ {p} |-> h.gap[q]]
  OBVIOUS
<1>2. GapSet(g, h, X)
  BY <1>1, Zenon DEF Forgotten, GapSet
<1> QED BY <1>1, <1>2, SetGap DEF SameLists

\* Only the gaps and the blocks differ.
LEMMA SaneSame ==
    ASSUME NEW h, NEW g, Tidy(h), Water(h), Accounts(h), SameLists(g, h),
           g.curUsedSize = h.curUsedSize, g.waterLine = h.waterLine
    PROVE  Tidy(g) /\ Water(g) /\ Accounts(g) /\ g.nodes = h.nodes
<1>1. Tidy(g) /\ g.nodes = h.nodes
  BY TidySame DEF SameLists
<1>2. Water(g)
  BY DEF Water
<1>3. Accounts(g)
  BY <1>1 DEF Accounts
<1> QED BY <1>1, <1>2, <1>3

LEMMA AtFirst ==
    ASSUME NEW h, Tidy(h), NEW n \in UsedOf(h.nodes), ~h.nodes[n].aligned, NEW gap,
           NEW b, b.ptr = n + HeadSize
    PROVE  At(h.nodes, gap, b, n)
<1>1. n \in Nat /\ n <= n /\ n < n + h.nodes[n].size
  BY UsedIs
<1>2. AtWord(h.nodes, gap, b, n, n)
  BY <1>1 DEF AtWord
<1> QED BY <1>1, <1>2 DEF At

\* Something happened to node n only.
LEMMA HeldTouched ==
    ASSUME NEW N, NEW M, NEW n, Others(N, M, n), Spread(UsedOf(M), M), NEW gap, NEW B,
           Held(UsedOf(N) \ {n}, N, gap, B)
    PROVE  Held(UsedOf(M) \ {n}, M, gap, B)
<1>1. /\ UsedOf(M) \ {n} = UsedOf(N) \ {n}
      /\ \A m \in UsedOf(N) \ {n} : M[m].size = N[m].size /\ M[m].aligned = N[m].aligned
  BY DEF Others
<1> QED BY <1>1, HeldSame

\* and a new block is in that node.
LEMMA HeldThere ==
    ASSUME NEW M, NEW n, n \in UsedOf(M), Spread(UsedOf(M), M), NEW gap, NEW B,
           Held(UsedOf(M) \ {n}, M, gap, B), NEW gip, NEW b, At(M, gip, b, n),
           \A p \in DOMAIN gap : p \in DOMAIN gip /\ gip[p] = gap[p],
           \A p \in DOMAIN gip : p \in DOMAIN gap \/ p = b.ptr
    PROVE  Held(UsedOf(M), M, gip, B \cup {b})
<1>1. (UsedOf(M) \ {n}) \cup {n} = UsedOf(M) /\ n \notin UsedOf(M) \ {n}
  OBVIOUS
<1> QED BY <1>1, HeldAdd

LEMMA AllocSane ==
    ASSUME NEW h, NEW B, Sane(h, B), NEW size, CanAlloc(h, size), NEW n, n = Found(h, size).node,
           NEW g, g = OsMemAlloc(h, size), NEW b, b.ptr = n + HeadSize
    PROVE  /\ Sane(g, B \cup {b}) /\ IsAlloc(g, h, n, size) /\ n \notin UsedOf(h.nodes)
           /\ At(g.nodes, g.gap, b, n) /\ g.gap = h.gap
<1>1. Tidy(h) /\ Water(h) /\ Accounts(h) /\ Held(UsedOf(h.nodes), h.nodes, h.gap, B)
  BY DEF Sane
<1>2. IsAlloc(g, h, n, size)
  BY AllocIs
<1>3. /\ n \notin UsedOf(h.nodes) /\ Touched(g, h, n) /\ n \in UsedOf(g.nodes) /\ ~g.nodes[n].aligned
  BY <1>2 DEF IsAlloc, FreeOf, UsedOf
<1>4. Tidy(g) /\ Water(g) /\ Others(h.nodes, g.nodes, n) /\ g.gap = h.gap
  BY <1>3 DEF Touched
<1>5. Accounts(g)
  BY <1>1, <1>3, TouchedAccounts
<1>6. Held(UsedOf(h.nodes) \ {n}, h.nodes, h.gap, B)
  <2>1. UsedOf(h.nodes) \ {n} = UsedOf(h.nodes)
    BY <1>3
  <2> QED BY <1>1, <2>1
<1>7. Spread(UsedOf(g.nodes), g.nodes)
  BY <1>4, UsedSpread
<1>8. At(g.nodes, h.gap, b, n)
  BY <1>3, <1>4, AtFirst
<1>9. Held(UsedOf(g.nodes) \ {n}, g.nodes, h.gap, B)
  BY <1>4, <1>6, <1>7, HeldTouched
<1>10. Held(UsedOf(g.nodes), g.nodes, h.gap, B \cup {b})
  BY <1>3, <1>7, <1>8, <1>9, HeldThere
<1> QED BY <1>2, <1>3, <1>4, <1>5, <1>8, <1>10 DEF Sane

LEMMA FreeSane ==
    ASSUME NEW h, NEW B, Sane(h, B), NEW b \in B, NEW n \in UsedOf(h.nodes),
           At(h.nodes, h.gap, b, n), NEW g, g = Forgotten(OsMemFree(h, n), b.ptr)
    PROVE  Sane(g, B \ {b})
<1>1. Tidy(h) /\ Water(h) /\ Accounts(h) /\ Held(UsedOf(h.nodes), h.nodes, h.gap, B)
  BY DEF Sane
<1>2. PICK f : f = OsMemFree(h, n)
  OBVIOUS
<1>3. Touched(f, h, n) /\ n \notin UsedOf(f.nodes)
  BY <1>1, <1>2, FreeIs
<1>4. Tidy(f) /\ Water(f) /\ Others(h.nodes, f.nodes, n) /\ f.gap = h.gap /\ IsHeap(f)
  BY <1>3 DEF Touched, Tidy, Sound
<1>5. Accounts(f)
  BY <1>1, <1>3, TouchedAccounts
<1>6. /\ SameLists(g, f) /\ g.curUsedSize = f.curUsedSize /\ g.waterLine = f.waterLine
      /\ g.gap = [q \in DOMAIN h.gap \ {b.ptr} |-> h.gap[q]]
  BY <1>2, <1>4, ForgottenIs
<1>7. Tidy(g) /\ Water(g) /\ Accounts(g) /\ g.nodes = f.nodes
  BY <1>4, <1>5, <1>6, SaneSame
<1>8. Held(UsedOf(h.nodes) \ {n}, h.nodes, g.gap, B \ {b})
  BY <1>1, <1>6, HeldDrop
<1>9. Held(UsedOf(g.nodes) \ {n}, g.nodes, g.gap, B \ {b})
  BY <1>4, <1>7, <1>8, UsedSpread, HeldTouched
<1>10. UsedOf(g.nodes) \ {n} = UsedOf(g.nodes)
  BY <1>3, <1>7
<1> QED BY <1>7, <1>9, <1>10 DEF Sane

LEMMA ResizeSane ==
    ASSUME NEW h, NEW B, Sane(h, B), NEW b \in B, NEW n \in UsedOf(h.nodes),
           At(h.nodes, h.gap, b, n), NEW size, NEW f, IsResize(f, h, n, size),
           NEW g, g = Forgotten(f, b.ptr), NEW c, c.ptr = n + HeadSize
    PROVE  Sane(g, (B \ {b}) \cup {c})
<1>1. Tidy(h) /\ Water(h) /\ Accounts(h) /\ Held(UsedOf(h.nodes), h.nodes, h.gap, B)
  BY DEF Sane
<1>3. Touched(f, h, n) /\ n \in UsedOf(f.nodes) /\ ~f.nodes[n].aligned
  BY DEF IsResize
<1>4. Tidy(f) /\ Water(f) /\ Others(h.nodes, f.nodes, n) /\ f.gap = h.gap /\ IsHeap(f)
  BY <1>3 DEF Touched, Tidy, Sound
<1>5. Accounts(f)
  BY <1>1, <1>3, TouchedAccounts
<1>6. /\ SameLists(g, f) /\ g.curUsedSize = f.curUsedSize /\ g.waterLine = f.waterLine
      /\ g.gap = [q \in DOMAIN h.gap \ {b.ptr} |-> h.gap[q]]
  BY <1>4, ForgottenIs
<1>7. Tidy(g) /\ Water(g) /\ Accounts(g) /\ g.nodes = f.nodes
  BY <1>4, <1>5, <1>6, SaneSame
<1>8. Held(UsedOf(h.nodes) \ {n}, h.nodes, g.gap, B \ {b})
  BY <1>1, <1>6, HeldDrop
<1>9. Spread(UsedOf(g.nodes), g.nodes)
  BY <1>7, UsedSpread
<1>10. Held(UsedOf(g.nodes) \ {n}, g.nodes, g.gap, B \ {b})
  BY <1>4, <1>7, <1>8, <1>9, HeldTouched
<1>11. At(g.nodes, g.gap, c, n)
  BY <1>3, <1>7, AtFirst
<1>12. Held(UsedOf(g.nodes), g.nodes, g.gap, (B \ {b}) \cup {c})
  BY <1>3, <1>7, <1>9, <1>10, <1>11, HeldThere
<1> QED BY <1>7, <1>12 DEF Sane

\* The block is copied into a new node, and the node it was in is freed.
LEMMA CopySane ==
    ASSUME NEW h, NEW B, Sane(h, B), NEW b \in B, NEW n \in UsedOf(h.nodes),
           At(h.nodes, h.gap, b, n), NEW size, CanAlloc(h, size), NEW k, k = Found(h, size).node,
           NEW g, g = Forgotten(OsMemFree(OsMemAlloc(h, size), n), b.ptr),
           NEW c, c.ptr = k + HeadSize
    PROVE  Sane(g, (B \ {b}) \cup {c})
<1>1. PICK a : a = OsMemAlloc(h, size)
  OBVIOUS
<1>2. /\ Sane(a, B \cup {c}) /\ IsAlloc(a, h, k, size) /\ k \notin UsedOf(h.nodes)
      /\ At(a.nodes, a.gap, c, k) /\ a.gap = h.gap
  BY <1>1, AllocSane
<1>3. n # k /\ Others(h.nodes, a.nodes, k) /\ Tidy(a) /\ k \in UsedOf(a.nodes)
  BY <1>2 DEF IsAlloc, Touched
<1>4. /\ n \in UsedOf(a.nodes) /\ a.nodes[n].size = h.nodes[n].size
      /\ a.nodes[n].aligned = h.nodes[n].aligned
  BY <1>3 DEF Others
<1>5. At(a.nodes, a.gap, b, n)
  BY <1>2, <1>4, AtKept
<1>6. Spread(UsedOf(a.nodes), a.nodes)
  BY <1>3, UsedSpread
<1>7. c # b
  BY <1>2, <1>3, <1>4, <1>5, <1>6, OneNode
<1>8. g = Forgotten(OsMemFree(a, n), b.ptr)
  BY <1>1
<1>9. Sane(g, (B \cup {c}) \ {b})
  BY <1>2, <1>4, <1>5, <1>8, FreeSane
<1>10. (B \cup {c}) \ {b} = (B \ {b}) \cup {c}
  BY <1>7
<1> QED BY <1>9, <1>10

LEMMA RoundUpIs ==
    ASSUME NEW p \in Nat, NEW d \in Nat \ {0}
    PROVE  RoundUp(p, d) \in Nat /\ p <= RoundUp(p, d) /\ RoundUp(p, d) <= p + d - 1
<1> DEFINE q == (p + d - 1) \div d
<1>1. q \in Nat /\ d * q <= p + d - 1 /\ p + d - 1 < d * q + d
  BY DivBounds
<1> HIDE DEF q
<1>2. RoundUp(p, d) = q * d
  BY DEF RoundUp, q
<1>3. q * d = d * q /\ d * q \in Nat
  BY <1>1
<1> QED BY <1>1, <1>2, <1>3

\* Gap d is stored before pointer p.
GapAt(gap, p, d) == [q \in DOMAIN gap \cup {p} |-> IF q = p THEN d ELSE gap[q]]

LEMMA GappedIs ==
    ASSUME NEW h, Tidy(h), Water(h), Accounts(h), NEW n \in UsedOf(h.nodes), NEW p, NEW d,
           NEW g, g = Gapped(h, n, p, d)
    PROVE  /\ Tidy(g) /\ Water(g) /\ Accounts(g) /\ Others(h.nodes, g.nodes, n)
           /\ n \in UsedOf(g.nodes) /\ g.nodes[n].size = h.nodes[n].size
           /\ g.gap = GapAt(h.gap, p, d)
<1> DEFINE N == h.nodes
           M == g.nodes
<1>1. IsHeap(h) /\ Forward(N) /\ n \in DOMAIN N \ {End} /\ N[n].used
  BY DEF Tidy, Sound, Chain, UsedOf
<1>2. PICK X, k : X = [N EXCEPT ![n].aligned = TRUE] /\ NodesSet(k, h, X)
  BY DEF NodesSet
<1>3. PICK Y, j : Y = GapAt(h.gap, p, d) /\ GapSet(j, k, Y)
  BY DEF GapSet
<1>4. /\ IsHeap(k) /\ k.nodes = X /\ k.freeList = h.freeList /\ k.bitmap = h.bitmap
      /\ k.gap = h.gap /\ k.curUsedSize = h.curUsedSize /\ k.waterLine = h.waterLine
  BY <1>1, <1>2, SetNodes
<1>5. /\ IsHeap(j) /\ j.nodes = k.nodes /\ j.freeList = k.freeList /\ j.bitmap = k.bitmap
      /\ j.gap = Y /\ j.curUsedSize = k.curUsedSize /\ j.waterLine = k.waterLine
  BY <1>3, <1>4, SetGap
<1>6. g = j
  <2>1. k = [h EXCEPT !.nodes[n].aligned = TRUE]
    BY <1>2, Zenon DEF NodesSet
  <2>2. j = [k EXCEPT !.gap = GapAt(h.gap, p, d)]
    BY <1>3, Zenon DEF GapSet
  <2> QED BY <1>4, <2>1, <2>2, Zenon DEF Gapped, GapAt
<1>7. Flags(N, X, n, TRUE, TRUE)
  <2>1. N[n] = [size |-> N[n].size, used |-> N[n].used, aligned |-> N[n].aligned,
                prev |-> N[n].prev]
    BY <1>1, NodeIs
  <2>2. PICK v : v = N[n]
    OBVIOUS
  <2>3. PICK w : AlignedFlag(w, v, TRUE)
    BY DEF AlignedFlag
  <2>4. IsHeader(v, N[n].size, N[n].used, N[n].aligned, N[n].prev)
    BY <2>1, <2>2, Zenon DEF IsHeader
  <2>5. IsHeader(w, N[n].size, N[n].used, TRUE, N[n].prev)
    BY <2>3, <2>4, HeaderFields
  <2>6. X[n] = w
    <3>1. n \in DOMAIN N
      BY <1>1
    <3>2. X[n] = [N[n] EXCEPT !.aligned = TRUE]
      BY <3>1, <1>2
    <3> QED BY <3>2, <2>2, <2>3, Zenon DEF AlignedFlag
  <2>7. DOMAIN X = DOMAIN N /\ \A m \in DOMAIN N \ {n} : X[m] = N[m]
    BY <1>2
  <2>8. X = [m \in DOMAIN X |-> X[m]]
    BY <1>2
  <2>9. N[n].used = TRUE
    BY <1>1, NodeIs
  <2>10. X[n] = [size |-> N[n].size, used |-> TRUE, aligned |-> TRUE, prev |-> N[n].prev]
    BY <2>5, <2>6, <2>9, Zenon DEF IsHeader
  <2> QED BY <2>7, <2>8, <2>10, Zenon DEF Flags
<1>8. M = X
  BY <1>4, <1>5, <1>6
<1>9. /\ DOMAIN M = DOMAIN N /\ M[n].size = N[n].size /\ M[n].used
      /\ \A m \in DOMAIN N \ {n} : M[m] = N[m]
  BY <1>7, <1>8 DEF Flags
<1>10. Sound(g, FreeOf(N))
  <2>1. Sound(h, FreeOf(N)) /\ IsHeap(g) /\ Flags(N, M, n, TRUE, TRUE)
    BY <1>5, <1>6, <1>7, <1>8 DEF Tidy
  <2>2. g.freeList = h.freeList /\ g.bitmap = h.bitmap
    BY <1>4, <1>5, <1>6
  <2> QED BY <1>1, <2>1, <2>2, FlagsSound
<1> HIDE DEF M, N
<1>11. FreeOf(M) = FreeOf(N) /\ UsedOf(M) = UsedOf(N)
  BY <1>1, <1>9 DEF FreeOf, UsedOf
<1>12. Apart(M, {})
  <2> SUFFICES ASSUME NEW m \in DOMAIN M \ {End}, ~M[m].used
               PROVE  M[m + M[m].size].used /\ ~M[m].aligned
    BY DEF Apart
  <2>1. m \in DOMAIN N \ {End} /\ ~N[m].used /\ M[m] = N[m]
    BY <1>9
  <2>2. N[m + N[m].size].used /\ ~N[m].aligned /\ m + N[m].size \in DOMAIN N
    BY <1>1, <2>1 DEF Tidy, Apart, Forward, N
  <2> QED BY <2>1, <2>2, <1>9
<1>13. Tidy(g)
  BY <1>10, <1>11, <1>12 DEF Tidy, M
<1>14. \A m \in DOMAIN N : M[m].size = N[m].size
  BY <1>9
<1>15. Cover(UsedOf(M), M) = Cover(UsedOf(N), N)
  <2>1. UsedOf(N) \subseteq DOMAIN N
    BY DEF UsedOf
  <2> QED BY <2>1, <1>11, <1>14 DEF Cover
<1>16. g.curUsedSize = h.curUsedSize /\ g.waterLine = h.waterLine /\ g.gap = GapAt(h.gap, p, d)
  BY <1>3, <1>4, <1>5, <1>6
<1>17. Water(g) /\ Accounts(g)
  BY <1>15, <1>16 DEF Water, Accounts, M, N
<1>18. Others(N, M, n)
  BY <1>9, <1>11 DEF Others, UsedOf
<1> QED BY <1>9, <1>11, <1>13, <1>16, <1>17, <1>18 DEF M, N

LEMMA AlignSane ==
    ASSUME NEW h, NEW B, Sane(h, B), NEW useSize, CanAlloc(h, useSize), NEW boundary \in Nat \ {0},
           boundary <= useSize, NEW n, n = Found(h, useSize).node,
           NEW p, p = RoundUp(n + HeadSize, boundary), p # n + HeadSize,
           NEW g, g = Gapped(OsMemAlloc(h, useSize), n, p, p - (n + HeadSize)), NEW b, b.ptr = p
    PROVE  /\ Sane(g, B \cup {b}) /\ Others(h.nodes, g.nodes, n) /\ n \notin UsedOf(h.nodes)
           /\ n \in UsedOf(g.nodes) /\ g.nodes[n].size >= useSize + HeadSize
           /\ At(g.nodes, g.gap, b, n)
<1>1. Tidy(h) /\ Water(h) /\ Accounts(h) /\ Held(UsedOf(h.nodes), h.nodes, h.gap, B)
  BY DEF Sane
<1>2. PICK t : t = OsMemAlloc(h, useSize)
  OBVIOUS
<1>3. IsAlloc(t, h, n, useSize)
  BY <1>2, AllocIs
<1>4. /\ n \notin UsedOf(h.nodes) /\ Touched(t, h, n) /\ n \in UsedOf(t.nodes)
      /\ t.nodes[n].size >= useSize + HeadSize
  BY <1>3 DEF IsAlloc, FreeOf, UsedOf
<1>5. Tidy(t) /\ Water(t) /\ Others(h.nodes, t.nodes, n) /\ t.gap = h.gap
  BY <1>4 DEF Touched
<1>6. Accounts(t)
  BY <1>1, <1>4, TouchedAccounts
<1>7. PICK d : d = p - (n + HeadSize)
  OBVIOUS
<1>8. g = Gapped(t, n, p, d)
  BY <1>2, <1>7
<1>9. /\ Tidy(g) /\ Water(g) /\ Accounts(g) /\ Others(t.nodes, g.nodes, n)
      /\ n \in UsedOf(g.nodes) /\ g.nodes[n].size = t.nodes[n].size
      /\ g.gap = GapAt(h.gap, p, d)
  BY <1>4, <1>5, <1>6, <1>8, GappedIs
<1>10. Others(h.nodes, g.nodes, n)
  BY <1>5, <1>9 DEF Others
<1>11. Held(UsedOf(h.nodes) \ {n}, h.nodes, h.gap, B)
  <2>1. UsedOf(h.nodes) \ {n} = UsedOf(h.nodes)
    BY <1>4
  <2> QED BY <1>1, <2>1
<1>12. PICK gap : gap = h.gap
  OBVIOUS
<1>13. Spread(UsedOf(g.nodes), g.nodes) /\ Held(UsedOf(g.nodes) \ {n}, g.nodes, gap, B)
  <2>1. Spread(UsedOf(g.nodes), g.nodes)
    BY <1>9, UsedSpread
  <2> QED BY <2>1, <1>10, <1>11, <1>12, HeldTouched
<1>14. At(g.nodes, g.gap, b, n)
  <2>1. n \in Nat /\ n + HeadSize \in Nat /\ g.nodes[n].size \in Nat
    BY <1>9, UsedIs, PoolIs
  <2>2. p \in Nat /\ n + HeadSize <= p /\ p <= n + HeadSize + boundary - 1
    BY <2>1, RoundUpIs
  <2>3. useSize \in Nat
    BY DEF CanAlloc
  <2>4. PICK w : w = p - HeadSize
    OBVIOUS
  <2>5. w \in Nat /\ n < w /\ w < n + g.nodes[n].size /\ b.ptr = w + HeadSize /\ d = w - n
    BY <2>1, <2>2, <2>3, <2>4, <1>4, <1>7, <1>9, PoolIs
  <2>6. b.ptr \in DOMAIN g.gap /\ g.gap[b.ptr] = d
    BY <1>9 DEF GapAt
  <2>7. AtWord(g.nodes, g.gap, b, n, w)
    BY <2>1, <2>5, <2>6 DEF AtWord
  <2> QED BY <2>5, <2>7 DEF At
<1>15. p \notin DOMAIN gap
  <2> SUFFICES ASSUME p \in DOMAIN gap PROVE FALSE
    OBVIOUS
  <2>1. PICK c \in B : c.ptr = p
    BY <1>13 DEF Held
  <2>2. PICK m \in UsedOf(g.nodes) \ {n} : At(g.nodes, gap, c, m)
    BY <1>13 DEF Held
  <2>3. m = n
    BY <1>9, <1>13, <1>14, <2>1, <2>2, OneNode
  <2> QED BY <2>2, <2>3
<1>16. Held(UsedOf(g.nodes), g.nodes, g.gap, B \cup {b})
  <2>1. /\ \A q \in DOMAIN gap : q \in DOMAIN g.gap /\ g.gap[q] = gap[q]
        /\ \A q \in DOMAIN g.gap : q \in DOMAIN gap \/ q = b.ptr
    BY <1>9, <1>12, <1>15 DEF GapAt
  <2> QED BY <1>9, <1>13, <1>14, <2>1, HeldThere
<1>17. Sane(g, B \cup {b})
  BY <1>9, <1>16 DEF Sane
<1> QED BY <1>4, <1>9, <1>10, <1>14, <1>17

LEMMA BlockIs ==
    ASSUME NEW p, NEW s
    PROVE  Block(p, s).ptr = p
  BY DEF Block

LEMMA AllocInv ==
    ASSUME HeapInv, NEW asked \in Size, LOS_MemAlloc(asked)
    PROVE  HeapInv'
<1>1. CASE NotAllocated(AtLeast(asked), 1)
  <2>1. heap' = heap /\ blocks' = blocks
    BY <1>1 DEF NotAllocated
  <2> QED BY <2>1 DEF HeapInv
<1>2. PICK size, n : size = AtLeast(asked) /\ n = Found(heap, size).node
  OBVIOUS
<1>3. CASE /\ n # Null /\ heap' = OsMemAlloc(heap, size)
           /\ blocks' = blocks \cup {Block(n + HeadSize, size)}
  <2>1. CanAlloc(heap, size)
    <3>1. /\ size \in Nat /\ MinAlloc <= size
          /\ UseSize(size, 1) + HeadSize < Two(Limit) /\ UseSize(size, 1) = size + 1 - 1
      BY <1>2, RequestsAre DEF Limits
    <3>2. size + HeadSize < Two(Limit)
      BY <3>1
    <3> QED BY <1>2, <1>3, <3>1, <3>2 DEF CanAlloc, HeapInv, Sane
  <2>2. PICK b : b = Block(n + HeadSize, size)
    OBVIOUS
  <2>3. b.ptr = n + HeadSize
    BY <2>2, BlockIs
  <2>4. PICK g : g = OsMemAlloc(heap, size)
    OBVIOUS
  <2>5. Sane(g, blocks \cup {b})
    BY <2>1, <2>3, <2>4, <1>2, AllocSane DEF HeapInv
  <2> QED BY <2>2, <2>4, <2>5, <1>3 DEF HeapInv
<1> QED BY <1>1, <1>2, <1>3, Zenon DEF LOS_MemAlloc

LEMMA AllocAlignInv ==
    ASSUME HeapInv, NEW asked \in Size, NEW boundary \in Boundary,
           LOS_MemAllocAlign(asked, boundary)
    PROVE  HeapInv'
<1>1. CASE NotAllocated(AtLeast(asked), boundary)
  <2>1. heap' = heap /\ blocks' = blocks
    BY <1>1 DEF NotAllocated
  <2> QED BY <2>1 DEF HeapInv
<1>2. PICK size, useSize, n : /\ size = AtLeast(asked) /\ useSize = UseSize(size, boundary)
                              /\ n = Found(heap, useSize).node
  OBVIOUS
<1>3. PICK ptr, aligned : ptr = n + HeadSize /\ aligned = RoundUp(ptr, boundary)
  OBVIOUS
<1>4. PICK t : t = OsMemAlloc(heap, useSize)
  OBVIOUS
<1>5. CASE /\ n # Null
           /\ heap' = IF aligned = ptr THEN t ELSE Gapped(t, n, aligned, aligned - ptr)
           /\ blocks' = blocks \cup {Block(aligned, size)}
  <2>1. /\ size \in Nat /\ MinAlloc <= size /\ useSize \in Nat /\ MinAlloc <= useSize
        /\ useSize + HeadSize < Two(Limit) /\ useSize = size + boundary - 1
        /\ boundary \in Nat \ {0}
    BY <1>2, RequestsAre DEF Limits
  <2>2. CanAlloc(heap, useSize) /\ boundary <= useSize
    <3>1. boundary <= useSize
      BY <2>1 DEF MinAlloc
    <3> QED BY <1>2, <1>5, <2>1, <3>1 DEF CanAlloc, HeapInv, Sane
  <2>3. PICK b : b = Block(aligned, size)
    OBVIOUS
  <2>4. b.ptr = aligned
    BY <2>3, BlockIs
  <2>5. PICK g : g = heap'
    OBVIOUS
  <2>6. CASE aligned = ptr
    <3>1. g = OsMemAlloc(heap, useSize)
      BY <1>4, <1>5, <2>5, <2>6
    <3>2. Sane(g, blocks \cup {b})
      BY <3>1, <2>2, <2>4, <2>6, <1>2, <1>3, AllocSane DEF HeapInv
    <3> QED BY <3>2, <2>3, <2>5, <1>5 DEF HeapInv
  <2>7. CASE aligned # ptr
    <3>1. g = Gapped(OsMemAlloc(heap, useSize), n, aligned, aligned - (n + HeadSize))
      BY <1>3, <1>4, <1>5, <2>5, <2>7
    <3>2. Sane(g, blocks \cup {b})
      BY <3>1, <2>1, <2>2, <2>4, <2>7, <1>2, <1>3, AlignSane DEF HeapInv
    <3> QED BY <3>2, <2>3, <2>5, <1>5 DEF HeapInv
  <2> QED BY <2>6, <2>7
<1> QED BY <1>1, <1>2, <1>3, <1>4, <1>5, Zenon DEF LOS_MemAllocAlign

LEMMA FreeInv ==
    ASSUME HeapInv, NEW b \in blocks, LOS_MemFree(b)
    PROVE  HeapInv'
<1>1. PICK n \in UsedOf(heap.nodes) : At(heap.nodes, heap.gap, b, n)
  BY DEF HeapInv, Sane, Held
<1>2. OsGetRealPtr(heap, b.ptr) - HeadSize = n
  BY <1>1, PtrAccepted DEF HeapInv, Sane
<1>3. heap' = Forgotten(OsMemFree(heap, n), b.ptr) /\ blocks' = blocks \ {b}
  BY <1>2 DEF LOS_MemFree
<1>4. PICK g : g = heap'
  OBVIOUS
<1>5. Sane(g, blocks \ {b})
  BY <1>1, <1>3, <1>4, FreeSane DEF HeapInv
<1> QED BY <1>3, <1>4, <1>5 DEF HeapInv

LEMMA ReallocInv ==
    ASSUME HeapInv, NEW b \in blocks, NEW asked \in Size, LOS_MemRealloc(b, asked)
    PROVE  HeapInv'
<1>1. PICK n \in UsedOf(heap.nodes) : At(heap.nodes, heap.gap, b, n)
  BY DEF HeapInv, Sane, Held
<1>2. OsGetRealPtr(heap, b.ptr) - HeadSize = n /\ OsGetRealPtr(heap, b.ptr) = n + HeadSize
  BY <1>1, PtrAccepted DEF HeapInv, Sane
<1>3. PICK size, allocSize, ptr, k :
         /\ size = AtLeast(asked) /\ allocSize = size + HeadSize
         /\ ptr = OsGetRealPtr(heap, b.ptr) /\ k = Found(heap, size).node
  OBVIOUS
<1>4. ptr - HeadSize = n /\ ptr = n + HeadSize
  BY <1>2, <1>3
<1>5. /\ size \in Nat /\ MinAlloc <= size /\ size + HeadSize < Two(Limit)
      /\ allocSize \in Nat /\ MinLeft <= allocSize
  <2>1. /\ size \in Nat /\ MinAlloc <= size
        /\ UseSize(size, 1) + HeadSize < Two(Limit) /\ UseSize(size, 1) = size + 1 - 1
    BY <1>3, RequestsAre DEF Limits
  <2> QED BY <2>1, <1>3, PoolIs DEF MinAlloc
<1>6. CanCut(heap, n, allocSize)
  BY <1>1, <1>5 DEF CanCut, HeapInv, Sane
<1>7. \/ /\ heap.nodes[n].size >= allocSize
         /\ heap' = Forgotten(OsMemReAllocSmaller(heap, n, allocSize), b.ptr)
         /\ Moved(b, ptr, size, 0)
      \/ /\ heap.nodes[n].size < allocSize /\ CanGrow(heap, n, allocSize)
         /\ heap' = Forgotten(OsMemMergeNodeForReAllocBigger(heap, n, allocSize), b.ptr)
         /\ Moved(b, ptr, size, 0)
      \/ /\ heap.nodes[n].size < allocSize /\ ~CanGrow(heap, n, allocSize)
         /\ \/ NotAllocated(size, 1)
            \/ /\ k # Null
               /\ heap' = Forgotten(OsMemFree(OsMemAlloc(heap, size), n), b.ptr)
               /\ Moved(b, k + HeadSize, size, k - n)
  BY <1>3, <1>4, Zenon DEF LOS_MemRealloc
<1>8. ASSUME NEW q, NEW d, Moved(b, q, size, d)
      PROVE  \E c : blocks' = (blocks \ {b}) \cup {c} /\ c.ptr = q
  <2>1. PICK c : c = [ptr |-> q, size |-> size, content |-> b.content + d]
    OBVIOUS
  <2>2. blocks' = (blocks \ {b}) \cup {c}
    BY <1>8, <2>1, Zenon DEF Moved
  <2>3. c.ptr = q
    BY <2>1
  <2> QED BY <2>2, <2>3
<1>9. PICK g : g = heap'
  OBVIOUS
<1>10. CASE /\ heap.nodes[n].size >= allocSize
            /\ heap' = Forgotten(OsMemReAllocSmaller(heap, n, allocSize), b.ptr)
            /\ Moved(b, ptr, size, 0)
  <2>1. PICK c : blocks' = (blocks \ {b}) \cup {c} /\ c.ptr = n + HeadSize
    BY <1>4, <1>8, <1>10
  <2>2. PICK f : f = OsMemReAllocSmaller(heap, n, allocSize)
    OBVIOUS
  <2>3. allocSize <= heap.nodes[n].size
    BY <1>10
  <2>4. IsResize(f, heap, n, allocSize)
    BY <1>6, <2>2, <2>3, SmallerIs
  <2>5. Sane(g, (blocks \ {b}) \cup {c})
    BY <1>1, <1>9, <1>10, <2>1, <2>2, <2>4, ResizeSane DEF HeapInv
  <2> QED BY <1>9, <2>1, <2>5 DEF HeapInv
<1>11. CASE /\ heap.nodes[n].size < allocSize /\ CanGrow(heap, n, allocSize)
            /\ heap' = Forgotten(OsMemMergeNodeForReAllocBigger(heap, n, allocSize), b.ptr)
            /\ Moved(b, ptr, size, 0)
  <2>1. PICK c : blocks' = (blocks \ {b}) \cup {c} /\ c.ptr = n + HeadSize
    BY <1>4, <1>8, <1>11
  <2>2. PICK f : f = OsMemMergeNodeForReAllocBigger(heap, n, allocSize)
    OBVIOUS
  <2>3. IsResize(f, heap, n, allocSize)
    BY <1>6, <1>11, <2>2, BiggerIs
  <2>4. Sane(g, (blocks \ {b}) \cup {c})
    BY <1>1, <1>9, <1>11, <2>1, <2>2, <2>3, ResizeSane DEF HeapInv
  <2> QED BY <1>9, <2>1, <2>4 DEF HeapInv
<1>12. CASE NotAllocated(size, 1)
  <2>1. heap' = heap /\ blocks' = blocks
    BY <1>12 DEF NotAllocated
  <2> QED BY <2>1 DEF HeapInv
<1>13. CASE /\ k # Null
            /\ heap' = Forgotten(OsMemFree(OsMemAlloc(heap, size), n), b.ptr)
            /\ Moved(b, k + HeadSize, size, k - n)
  <2>1. PICK c : blocks' = (blocks \ {b}) \cup {c} /\ c.ptr = k + HeadSize
    BY <1>8, <1>13
  <2>2. CanAlloc(heap, size)
    BY <1>3, <1>5, <1>13 DEF CanAlloc, HeapInv, Sane
  <2>3. Sane(g, (blocks \ {b}) \cup {c})
    BY <1>1, <1>3, <1>9, <1>13, <2>1, <2>2, CopySane DEF HeapInv
  <2> QED BY <1>9, <2>1, <2>3 DEF HeapInv
<1> QED BY <1>7, <1>10, <1>11, <1>12, <1>13

LEMMA StepInv ==
    ASSUME HeapInv, [MemoryNext]_memoryVars
    PROVE  HeapInv'
<1>1. CASE UNCHANGED memoryVars
  BY <1>1 DEF memoryVars, HeapInv
<1>2. CASE \E size \in Size : LOS_MemAlloc(size)
  BY <1>2, AllocInv
<1>3. CASE \E size \in Size, boundary \in Boundary : LOS_MemAllocAlign(size, boundary)
  BY <1>3, AllocAlignInv
<1>4. CASE \E size \in Size, b \in blocks : LOS_MemRealloc(b, size)
  BY <1>4, ReallocInv
<1>5. CASE \E b \in blocks : LOS_MemFree(b)
  BY <1>5, FreeInv
<1> QED BY <1>1, <1>2, <1>3, <1>4, <1>5, Zenon DEF MemoryNext

\* The headers, the lists and the accounts of the pool agree in every reachable state,
\* and every used node is a caller's who can free it, whatever was allocated, cut,
\* merged, moved and released before.
THEOREM HeapIsAlwaysSound == MemorySpec => []HeapIsSound
<1>1. MemoryInit => HeapInv
  BY InitInv
<1>2. HeapInv /\ [MemoryNext]_memoryVars => HeapInv'
  BY StepInv
<1>3. HeapInv => HeapIsSound
  BY InvSound
<1> QED BY <1>1, <1>2, <1>3, PTL DEF MemorySpec

-----------------------------------------------------------------------------
(* A pool is an abstract heap: the parts of the callers.                    *)

\* What the abstract heap makes of block b of a pool.
PartOf(h, b) ==
    LET n == OsGetRealPtr(h, b.ptr) - HeadSize
    IN  [lo |-> n, hi |-> NextNode(h, n), ptr |-> b.ptr, size |-> b.size, content |-> b.content]

PartsOf(h, B) == {PartOf(h, b) : b \in B}

LEMMA PartIs ==
    ASSUME NEW h, NEW B, Sane(h, B), NEW b \in B, NEW n \in UsedOf(h.nodes),
           At(h.nodes, h.gap, b, n)
    PROVE  PartOf(h, b) = [lo |-> n, hi |-> n + h.nodes[n].size, ptr |-> b.ptr,
                           size |-> b.size, content |-> b.content]
<1>1. OsGetRealPtr(h, b.ptr) - HeadSize = n
  BY PtrAccepted DEF Sane
<1> QED BY <1>1 DEF PartOf, NextNode

\* The node of a block.
LEMMA SomeNode ==
    ASSUME NEW h, NEW B, Sane(h, B), NEW b \in B
    PROVE  \E n \in UsedOf(h.nodes) : At(h.nodes, h.gap, b, n)
  BY DEF Sane, Held

\* What happens to node n changes no part in another node.
LEMMA PartKept ==
    ASSUME NEW h, NEW B, Sane(h, B), NEW g, NEW C, Sane(g, C), NEW n, Others(h.nodes, g.nodes, n),
           NEW c \in B \cap C, NEW m \in UsedOf(h.nodes), m # n, At(h.nodes, h.gap, c, m)
    PROVE  /\ PartOf(g, c) = PartOf(h, c)
           /\ m \in UsedOf(g.nodes) /\ At(g.nodes, g.gap, c, m)
<1>1. /\ m \in UsedOf(g.nodes) /\ g.nodes[m].size = h.nodes[m].size
      /\ g.nodes[m].aligned = h.nodes[m].aligned
  BY DEF Others
<1>2. At(g.nodes, h.gap, c, m)
  BY <1>1, AtKept
<1>3. PICK k \in UsedOf(g.nodes) : At(g.nodes, g.gap, c, k)
  BY SomeNode
<1>4. Spread(UsedOf(g.nodes), g.nodes)
  BY DEF Sane, Held
<1>5. m = k
  BY <1>1, <1>2, <1>3, <1>4, OneNode
<1>6. /\ PartOf(h, c) = [lo |-> m, hi |-> m + h.nodes[m].size, ptr |-> c.ptr,
                         size |-> c.size, content |-> c.content]
      /\ PartOf(g, c) = [lo |-> m, hi |-> m + g.nodes[m].size, ptr |-> c.ptr,
                         size |-> c.size, content |-> c.content]
  BY <1>1, <1>3, <1>5, PartIs
<1> QED BY <1>1, <1>3, <1>5, <1>6

\* The blocks of K are in other nodes than n.
Elsewhere(h, K, n) ==
    \A c \in K : \E m \in UsedOf(h.nodes) \ {n} : At(h.nodes, h.gap, c, m)

LEMMA PartsKept ==
    ASSUME NEW h, NEW B, Sane(h, B), NEW g, NEW C, Sane(g, C), NEW n, Others(h.nodes, g.nodes, n),
           NEW K \in SUBSET (B \cap C), Elsewhere(h, K, n)
    PROVE  PartsOf(g, K) = PartsOf(h, K)
<1>1. ASSUME NEW c \in K PROVE PartOf(g, c) = PartOf(h, c)
  <2>1. PICK m \in UsedOf(h.nodes) \ {n} : At(h.nodes, h.gap, c, m)
    BY DEF Elsewhere
  <2>2. c \in B \cap C /\ m \in UsedOf(h.nodes) /\ m # n
    BY <2>1
  <2> QED BY <2>1, <2>2, PartKept
<1> QED BY <1>1 DEF PartsOf

LEMMA OthersElsewhere ==
    ASSUME NEW h, NEW B, Sane(h, B), NEW b \in B, NEW n \in UsedOf(h.nodes),
           At(h.nodes, h.gap, b, n)
    PROVE  Elsewhere(h, B \ {b}, n)
<1> SUFFICES ASSUME NEW c \in B \ {b}
             PROVE  \E m \in UsedOf(h.nodes) \ {n} : At(h.nodes, h.gap, c, m)
  BY DEF Elsewhere
<1>1. PICK m \in UsedOf(h.nodes) : At(h.nodes, h.gap, c, m)
  BY SomeNode
<1>2. m # n
  BY <1>1 DEF Sane, Held
<1> QED BY <1>1, <1>2

LEMMA NobodyThere ==
    ASSUME NEW h, NEW B, Sane(h, B), NEW n, n \notin UsedOf(h.nodes)
    PROVE  Elsewhere(h, B, n)
  BY SomeNode DEF Elsewhere

\* A block of another node has another part.
LEMMA PartsApart ==
    ASSUME NEW h, NEW B, Sane(h, B), NEW b \in B, NEW n \in UsedOf(h.nodes),
           At(h.nodes, h.gap, b, n)
    PROVE  PartsOf(h, B \ {b}) = PartsOf(h, B) \ {PartOf(h, b)}
<1>1. PartOf(h, b).lo = n
  BY PartIs
<1>2. ASSUME NEW c \in B \ {b} PROVE PartOf(h, c) # PartOf(h, b)
  <2>1. PICK m \in UsedOf(h.nodes) \ {n} : At(h.nodes, h.gap, c, m)
    BY OthersElsewhere DEF Elsewhere
  <2>2. PartOf(h, c).lo = m
    BY <2>1, PartIs
  <2> QED BY <1>1, <2>1, <2>2
<1> QED BY <1>2 DEF PartsOf

\* What Heap asks of a part that is handed out.
Served(p, size, boundary, others) ==
    /\ First <= p.lo /\ p.lo + HeadSize <= p.ptr /\ p.ptr + size <= p.hi /\ p.hi <= End
    /\ p.ptr % boundary = 0 /\ p.size = size /\ p.content = p.ptr
    /\ \A q \in others : q.hi <= p.lo \/ p.hi <= q.lo

LEMMA PartServes ==
    ASSUME NEW h, NEW B, Sane(h, B), NEW b \in B, NEW n \in UsedOf(h.nodes),
           At(h.nodes, h.gap, b, n), n + HeadSize <= b.ptr, b.ptr + b.size <= n + h.nodes[n].size,
           b.content = b.ptr, NEW boundary, b.ptr % boundary = 0
    PROVE  Served(PartOf(h, b), b.size, boundary, PartsOf(h, B \ {b}))
<1> DEFINE p == PartOf(h, b)
<1>1. /\ p.lo = n /\ p.hi = n + h.nodes[n].size /\ p.ptr = b.ptr /\ p.size = b.size
      /\ p.content = b.content
  BY PartIs
<1>2. /\ n \in Nat /\ n \in First .. End /\ n + h.nodes[n].size <= End
      /\ h.nodes[n].size \in Nat
  BY UsedIs DEF Sane
<1>3. ASSUME NEW q \in PartsOf(h, B \ {b}) PROVE q.hi <= p.lo \/ p.hi <= q.lo
  <2>1. PICK c \in B \ {b} : q = PartOf(h, c)
    BY DEF PartsOf
  <2>2. PICK m \in UsedOf(h.nodes) \ {n} : At(h.nodes, h.gap, c, m)
    BY OthersElsewhere DEF Elsewhere
  <2>3. q.lo = m /\ q.hi = m + h.nodes[m].size
    BY <2>1, <2>2, PartIs
  <2>4. Forward(h.nodes) /\ n \in DOMAIN h.nodes \ {End} /\ m \in DOMAIN h.nodes \ {End}
    BY <2>2 DEF Sane, Tidy, Sound, Chain, UsedOf
  <2>5. m < n => m + h.nodes[m].size <= n
    BY <2>4, NodesApart
  <2>6. n < m => n + h.nodes[n].size <= m
    BY <2>4, NodesApart
  <2>7. m \in Nat
    BY <2>2, UsedIs DEF Sane
  <2> QED BY <1>1, <1>2, <2>2, <2>3, <2>5, <2>6, <2>7
<1> HIDE DEF p
<1>4. First <= p.lo /\ p.hi <= End
  BY <1>1, <1>2, PoolIs
<1> QED BY <1>1, <1>3, <1>4 DEF Served, p

\* Every word is in a node.
LEMMA WordsInNodes ==
    ASSUME NEW N, Forward(N), NEW w \in First .. End - 1
    PROVE  \E n \in DOMAIN N \ {End} : n <= w /\ w < n + N[n].size
<1> DEFINE S == {k \in Nat : w - k \in DOMAIN N}
<1>1. w - First \in S
  <2>1. w - First \in Nat /\ w - (w - First) = First
    BY PoolIs
  <2> QED BY <2>1 DEF Forward
<1>2. PICK k \in S : \A j \in S : k <= j
  BY <1>1, LeastNumber
<1>3. PICK n : n = w - k
  OBVIOUS
<1>4. n \in DOMAIN N /\ n \in Nat /\ n <= w /\ w \in Nat /\ n # End
  BY <1>2, <1>3, NodeIs, PoolIs
<1>5. /\ n + N[n].size \in DOMAIN N /\ n < n + N[n].size /\ n + N[n].size \in Nat
  BY <1>4, NodeIs, PoolIs
<1>6. ASSUME n + N[n].size <= w PROVE FALSE
  <2>1. PICK x : x = n + N[n].size
    OBVIOUS
  <2>2. w - x \in Nat /\ w - (w - x) = x
    BY <1>4, <1>5, <1>6, <2>1
  <2>3. w - x \in S
    BY <1>5, <2>1, <2>2
  <2>4. k <= w - x /\ k = w - n
    BY <1>2, <1>3, <1>4, <2>3
  <2> QED BY <2>1, <2>4, <1>4, <1>5
<1> QED BY <1>4, <1>5, <1>6

\* Where no free node is large enough, there is no room.
LEMMA NoRoom ==
    ASSUME NEW h, NEW B, Sane(h, B), NEW need \in Nat \ {0},
           \A n \in FreeOf(h.nodes) : h.nodes[n].size < need,
           NEW lo \in First .. End - need
    PROVE  \E p \in PartsOf(h, B) : ~(p.hi <= lo \/ lo + need <= p.lo)
<1> DEFINE N == h.nodes
<1>1. Tidy(h) /\ Forward(N) /\ Apart(N, {}) /\ Held(UsedOf(N), N, h.gap, B)
  BY DEF Sane, Tidy, Sound, Chain
<1>2. lo \in First .. End - 1 /\ lo \in Nat /\ lo + need <= End
  BY PoolIs
<1>3. ASSUME NEW m \in UsedOf(N), lo < m + N[m].size, m < lo + need
      PROVE  \E p \in PartsOf(h, B) : ~(p.hi <= lo \/ lo + need <= p.lo)
  <2>1. PICK b \in B : At(N, h.gap, b, m)
    BY <1>1 DEF Held
  <2>2. PartOf(h, b).lo = m /\ PartOf(h, b).hi = m + N[m].size
    BY <2>1, PartIs
  <2>3. PartOf(h, b) \in PartsOf(h, B)
    BY DEF PartsOf
  <2>4. m \in Nat /\ N[m].size \in Nat
    BY <1>1, UsedIs
  <2> QED BY <1>2, <1>3, <2>2, <2>3, <2>4
<1>4. PICK n \in DOMAIN N \ {End} : n <= lo /\ lo < n + N[n].size
  BY <1>1, <1>2, WordsInNodes
<1>5. n \in Nat /\ N[n].size \in Nat /\ N[n].used \in BOOLEAN
  BY <1>1, NodeIs
<1>6. CASE N[n].used
  <2>1. n \in UsedOf(N)
    BY <1>6 DEF UsedOf
  <2>2. n < lo + need
    BY <1>2, <1>4, <1>5
  <2> QED BY <1>3, <1>4, <2>1, <2>2
<1>7. CASE ~N[n].used
  <2>1. PICK x : x = n + N[n].size
    OBVIOUS
  <2>2. N[n].size < need
    BY <1>7 DEF FreeOf
  <2>3. x \in DOMAIN N /\ N[x].used
    BY <1>1, <1>7, <2>1 DEF Apart, Forward
  <2>4. x \in Nat /\ x < lo + need /\ lo < x
    BY <1>2, <1>4, <1>5, <2>1, <2>2
  <2>5. x # End
    BY <1>2, <2>4, PoolIs
  <2>6. x \in UsedOf(N)
    BY <2>3, <2>5 DEF UsedOf
  <2>7. N[x].size \in Nat
    BY <1>1, <2>3, NodeIs
  <2>8. lo < x + N[x].size
    BY <1>2, <2>4, <2>7
  <2> QED BY <1>3, <2>4, <2>6, <2>8
<1> QED BY <1>5, <1>6, <1>7

-----------------------------------------------------------------------------
(* The parts after a step. *)

\* A part for block b that was not there.
Granted(h, B, g, b, size, boundary) ==
    /\ PartsOf(g, B \cup {b}) = PartsOf(h, B) \cup {PartOf(g, b)}
    /\ Served(PartOf(g, b), size, boundary, PartsOf(h, B))

\* Block b has become c.
Replaced(h, B, b, g, c, size) ==
    /\ PartsOf(g, (B \ {b}) \cup {c}) = (PartsOf(h, B) \ {PartOf(h, b)}) \cup {PartOf(g, c)}
    /\ Served(PartOf(g, c), size, 1, PartsOf(h, B) \ {PartOf(h, b)})

LEMMA AddIsGranted ==
    ASSUME NEW h, NEW B, Sane(h, B), NEW g, NEW b, Sane(g, B \cup {b}), NEW n,
           Others(h.nodes, g.nodes, n), n \notin UsedOf(h.nodes), n \in UsedOf(g.nodes),
           At(g.nodes, g.gap, b, n), n + HeadSize <= b.ptr, b.ptr + b.size <= n + g.nodes[n].size,
           b.content = b.ptr, NEW boundary, b.ptr % boundary = 0
    PROVE  b \notin B /\ Granted(h, B, g, b, b.size, boundary)
<1>1. PICK C : C = B \cup {b}
  OBVIOUS
<1>2. Sane(g, C) /\ b \in C /\ Elsewhere(h, B, n)
  BY <1>1, NobodyThere
<1>3. b \notin B
  <2> SUFFICES ASSUME b \in B PROVE FALSE
    OBVIOUS
  <2>1. PICK m \in UsedOf(h.nodes) \ {n} : At(h.nodes, h.gap, b, m)
    BY <1>2 DEF Elsewhere
  <2>2. b \in B \cap C /\ m \in UsedOf(h.nodes) /\ m # n
    BY <1>2, <2>1
  <2>3. m \in UsedOf(g.nodes) /\ At(g.nodes, g.gap, b, m)
    <3>1. Sane(g, C)
      BY <1>2
    <3> QED BY <2>1, <2>2, <3>1, PartKept
  <2>4. Spread(UsedOf(g.nodes), g.nodes)
    BY DEF Sane, Held
  <2>5. m = n
    BY <2>3, <2>4, OneNode
  <2> QED BY <2>1, <2>5
<1>4. B \in SUBSET (B \cap C) /\ C \ {b} = B
  BY <1>1, <1>3
<1>5. PartsOf(g, B) = PartsOf(h, B)
  BY <1>2, <1>4, PartsKept
<1>6. Served(PartOf(g, b), b.size, boundary, PartsOf(g, C \ {b}))
  BY <1>2, PartServes
<1>7. PartsOf(g, B \cup {b}) = PartsOf(g, B) \cup {PartOf(g, b)}
  BY DEF PartsOf
<1>8. Served(PartOf(g, b), b.size, boundary, PartsOf(h, B))
  BY <1>4, <1>5, <1>6
<1> QED BY <1>3, <1>5, <1>7, <1>8 DEF Granted

LEMMA ChangeIsReplaced ==
    ASSUME NEW h, NEW B, Sane(h, B), NEW b \in B, NEW n \in UsedOf(h.nodes),
           At(h.nodes, h.gap, b, n), NEW g, NEW c, Sane(g, (B \ {b}) \cup {c}),
           Others(h.nodes, g.nodes, n), n \in UsedOf(g.nodes), At(g.nodes, g.gap, c, n),
           c.ptr = n + HeadSize, c.ptr + c.size <= n + g.nodes[n].size, c.content = c.ptr
    PROVE  Replaced(h, B, b, g, c, c.size)
<1>1. PICK K, C : K = B \ {b} /\ C = K \cup {c}
  OBVIOUS
<1>2. Sane(g, C) /\ c \in C /\ Elsewhere(h, K, n) /\ K \in SUBSET (B \cap C)
  BY <1>1, OthersElsewhere
<1>3. c \notin K
  <2> SUFFICES ASSUME c \in K PROVE FALSE
    OBVIOUS
  <2>1. PICK m \in UsedOf(h.nodes) \ {n} : At(h.nodes, h.gap, c, m)
    BY <1>2 DEF Elsewhere
  <2>2. m \in UsedOf(g.nodes) /\ At(g.nodes, g.gap, c, m)
    <3>1. Sane(g, C) /\ c \in B \cap C
      BY <1>2
    <3>2. m \in UsedOf(h.nodes) /\ m # n /\ At(h.nodes, h.gap, c, m)
      BY <2>1
    <3> QED BY <3>1, <3>2, PartKept
  <2>3. Spread(UsedOf(g.nodes), g.nodes)
    BY DEF Sane, Held
  <2>4. m = n
    BY <2>2, <2>3, OneNode
  <2> QED BY <2>1, <2>4
<1>4. C \ {c} = K
  BY <1>1, <1>3
<1>5. PartsOf(g, K) = PartsOf(h, K)
  BY <1>2, PartsKept
<1>6. PartsOf(h, K) = PartsOf(h, B) \ {PartOf(h, b)}
  BY <1>1, PartsApart
<1>7. n + HeadSize <= c.ptr /\ c.ptr % 1 = 0
  <2>1. n \in Nat
    BY UsedIs DEF Sane
  <2> QED BY <2>1, PoolIs
<1>8. Served(PartOf(g, c), c.size, 1, PartsOf(g, C \ {c}))
  BY <1>2, <1>7, PartServes
<1>9. PartsOf(g, K \cup {c}) = PartsOf(g, K) \cup {PartOf(g, c)}
  BY DEF PartsOf
<1>10. /\ PartsOf(g, (B \ {b}) \cup {c}) = (PartsOf(h, B) \ {PartOf(h, b)}) \cup {PartOf(g, c)}
       /\ Served(PartOf(g, c), c.size, 1, PartsOf(h, B) \ {PartOf(h, b)})
  BY <1>1, <1>4, <1>5, <1>6, <1>8, <1>9
<1> QED BY <1>10 DEF Replaced

LEMMA ForgottenUsed ==
    ASSUME NEW h, NEW B, Sane(h, B), NEW p, NEW g, g = Forgotten(h, p)
    PROVE  g.nodes = h.nodes
<1>1. IsHeap(h)
  BY DEF Sane, Tidy, Sound
<1>2. SameLists(g, h)
  BY <1>1, ForgottenIs
<1> QED BY <1>2 DEF SameLists

\* The part of a block that is given back is gone.
LEMMA FreeParts ==
    ASSUME NEW h, NEW B, Sane(h, B), NEW b \in B, NEW n \in UsedOf(h.nodes),
           At(h.nodes, h.gap, b, n), NEW g, g = Forgotten(OsMemFree(h, n), b.ptr)
    PROVE  /\ PartsOf(g, B \ {b}) = PartsOf(h, B) \ {PartOf(h, b)}
           /\ Sane(g, B \ {b}) /\ Others(h.nodes, g.nodes, n)
<1>1. Sane(g, B \ {b})
  BY FreeSane
<1>2. PICK f : f = OsMemFree(h, n)
  OBVIOUS
<1>3. Touched(f, h, n)
  BY <1>2, FreeIs DEF Sane
<1>4. Others(h.nodes, g.nodes, n)
  <2>1. IsHeap(f) /\ Others(h.nodes, f.nodes, n)
    BY <1>3 DEF Touched, Tidy, Sound
  <2>2. g = Forgotten(f, b.ptr)
    BY <1>2
  <2>3. SameLists(g, f)
    BY <2>1, <2>2, ForgottenIs
  <2>4. g.nodes = f.nodes
    BY <2>3 DEF SameLists
  <2> QED BY <2>1, <2>4
<1>5. Elsewhere(h, B \ {b}, n) /\ B \ {b} \in SUBSET (B \cap (B \ {b}))
  BY OthersElsewhere
<1>6. PartsOf(g, B \ {b}) = PartsOf(h, B \ {b})
  BY <1>1, <1>4, <1>5, PartsKept
<1> QED BY <1>1, <1>4, <1>6, PartsApart

\* The data goes to another part, and the old one is given back.
LEMMA CopyIsReplaced ==
    ASSUME NEW h, NEW B, Sane(h, B), NEW b \in B, NEW n \in UsedOf(h.nodes),
           At(h.nodes, h.gap, b, n), NEW size, CanAlloc(h, size), NEW k, k = Found(h, size).node,
           NEW g, g = Forgotten(OsMemFree(OsMemAlloc(h, size), n), b.ptr),
           NEW c, c.ptr = k + HeadSize, c.size = size, c.content = c.ptr
    PROVE  Replaced(h, B, b, g, c, size)
<1>1. PICK a : a = OsMemAlloc(h, size)
  OBVIOUS
<1>2. /\ Sane(a, B \cup {c}) /\ IsAlloc(a, h, k, size) /\ k \notin UsedOf(h.nodes)
      /\ At(a.nodes, a.gap, c, k)
  BY <1>1, AllocSane
<1>3. /\ n # k /\ Others(h.nodes, a.nodes, k) /\ k \in UsedOf(a.nodes)
      /\ a.nodes[k].size >= size + HeadSize
  BY <1>2 DEF IsAlloc, Touched
<1>4. k + HeadSize <= c.ptr /\ c.ptr + c.size <= k + a.nodes[k].size /\ c.ptr % 1 = 0
  <2>1. k \in Nat /\ a.nodes[k].size \in Nat
    BY <1>2, <1>3, UsedIs DEF Sane
  <2>2. size \in Nat
    BY DEF CanAlloc
  <2> QED BY <1>3, <2>1, <2>2, PoolIs
<1>5. c \notin B /\ Granted(h, B, a, c, size, 1)
  BY <1>2, <1>3, <1>4, AddIsGranted
<1>6. PICK C : C = B \cup {c}
  OBVIOUS
<1>7. b \in B \cap C /\ b \in C /\ c \in C /\ Sane(a, C)
  BY <1>2, <1>6
<1>8. PartOf(a, b) = PartOf(h, b) /\ n \in UsedOf(a.nodes) /\ At(a.nodes, a.gap, b, n)
  BY <1>3, <1>7, PartKept
<1>9. g = Forgotten(OsMemFree(a, n), b.ptr)
  BY <1>1
<1>10. /\ PartsOf(g, C \ {b}) = PartsOf(a, C) \ {PartOf(a, b)}
       /\ Sane(g, C \ {b}) /\ Others(a.nodes, g.nodes, n)
  <2>1. Sane(a, C) /\ b \in C
    BY <1>7
  <2>2. n \in UsedOf(a.nodes) /\ At(a.nodes, a.gap, b, n)
    BY <1>8
  <2> QED BY <2>1, <2>2, <1>9, FreeParts
<1>11. c # b /\ c \in C \cap (C \ {b}) /\ C \ {b} = (B \ {b}) \cup {c}
  BY <1>5, <1>6
<1>12. PartOf(g, c) = PartOf(a, c)
  <2>1. Sane(a, C) /\ Sane(g, C \ {b}) /\ Others(a.nodes, g.nodes, n)
    BY <1>7, <1>10
  <2>2. c \in C \cap (C \ {b}) /\ k \in UsedOf(a.nodes) /\ k # n /\ At(a.nodes, a.gap, c, k)
    BY <1>2, <1>3, <1>11
  <2> QED BY <2>1, <2>2, PartKept
<1>13. PartOf(a, c) # PartOf(h, b)
  <2>1. PartOf(a, c).lo = k
    BY <1>2, <1>3, <1>7, PartIs
  <2>2. PartOf(h, b).lo = n
    BY PartIs
  <2> QED BY <1>3, <2>1, <2>2
<1>14. /\ PartsOf(a, C) = PartsOf(h, B) \cup {PartOf(a, c)}
       /\ Served(PartOf(a, c), size, 1, PartsOf(h, B))
  BY <1>5, <1>6 DEF Granted
<1>15. PartsOf(g, (B \ {b}) \cup {c}) = (PartsOf(h, B) \ {PartOf(h, b)}) \cup {PartOf(g, c)}
  BY <1>8, <1>10, <1>11, <1>12, <1>13, <1>14
<1>16. Served(PartOf(g, c), size, 1, PartsOf(h, B) \ {PartOf(h, b)})
  BY <1>12, <1>14 DEF Served
<1> QED BY <1>15, <1>16 DEF Replaced

-----------------------------------------------------------------------------
(* The steps of Heap. *)

LEMMA PartsAre ==
    /\ Parts = PartsOf(heap, blocks)
    /\ Parts' = PartsOf(heap', blocks')
  BY DEF Parts, PartsOf, PartOf, NodeOf

Wish(size, boundary) == [size |-> size, boundary |-> boundary]

LEMMA WishIs ==
    ASSUME NEW size, NEW boundary
    PROVE  Wish(size, boundary).size = size /\ Wish(size, boundary).boundary = boundary
  BY DEF Wish

LEMMA IsRequest ==
    ASSUME NEW asked \in Size, NEW boundary \in Boundary \cup {1}
    PROVE  Wish(AtLeast(asked), boundary) \in AbstractHeap!Request
  BY DEF AbstractHeap!Request, Wish

LEMMA GrantIs ==
    ASSUME NEW p, NEW size, NEW boundary, Parts' = Parts \cup {p},
           Served(p, size, boundary, Parts), refused' = {}
    PROVE  AbstractHeap!Grant(Wish(size, boundary))
<1>1. AbstractHeap!Serves(p, Wish(size, boundary), Parts)
  BY WishIs DEF AbstractHeap!Serves, Served
<1>2. p \in Parts'
  OBVIOUS
<1> QED BY <1>1, <1>2 DEF AbstractHeap!Grant

LEMMA ResizeIs ==
    ASSUME NEW p, NEW q, NEW size, Parts' = (Parts \ {p}) \cup {q},
           Served(q, size, 1, Parts \ {p}), refused' = {}
    PROVE  AbstractHeap!Resize(p, Wish(size, 1))
<1>1. AbstractHeap!Serves(q, Wish(size, 1), Parts \ {p})
  BY WishIs DEF AbstractHeap!Serves, Served
<1>2. q \in Parts'
  OBVIOUS
<1> QED BY <1>1, <1>2 DEF AbstractHeap!Resize

LEMMA RefuseIs ==
    ASSUME HeapInv, NEW asked \in Size, NEW boundary \in Boundary \cup {1},
           NotAllocated(AtLeast(asked), boundary)
    PROVE  AbstractHeap!Refuse(Wish(AtLeast(asked), boundary))
<1>1. PICK size, useSize, need : /\ size = AtLeast(asked) /\ useSize = UseSize(size, boundary)
                                 /\ need = useSize + HeadSize
  OBVIOUS
<1>2. /\ size \in Nat /\ useSize = size + boundary - 1 /\ boundary \in Nat \ {0}
      /\ need < Two(Limit) /\ useSize \in Nat
  BY <1>1, RequestsAre DEF Limits
<1>3. need \in Nat \ {0} /\ need = size + HeadSize + boundary - 1
  BY <1>1, <1>2, PoolIs
<1>4. PICK f : f = OsMemFindNextSuitableBlock(heap, need)
  OBVIOUS
<1>5. f.node = Null
  BY <1>1, <1>4 DEF NotAllocated, Found
<1>6. \A n \in FreeOf(heap.nodes) : heap.nodes[n].size < need
  <2>1. Tidy(heap)
    BY DEF HeapInv, Sane
  <2> QED BY <2>1, <1>2, <1>3, <1>4, <1>5, FoundIs
<1>7. \A lo \in First .. End - need : \E p \in Parts : ~(p.hi <= lo \/ lo + need <= p.lo)
  BY <1>3, <1>6, NoRoom, PartsAre DEF HeapInv
<1>8. PICK r : r = Wish(size, boundary)
  OBVIOUS
<1>9. AbstractHeap!Needed(r) = need
  BY <1>3, <1>8, WishIs DEF AbstractHeap!Needed
<1>10. ~AbstractHeap!Room(r)
  BY <1>7, <1>9 DEF AbstractHeap!Room, AbstractHeap!Free
<1>11. refused' = {r} /\ heap' = heap /\ blocks' = blocks
  BY <1>1, <1>8 DEF NotAllocated, Wish
<1>12. Parts' = Parts
  BY <1>11, PartsAre
<1> QED BY <1>1, <1>8, <1>10, <1>11, <1>12 DEF AbstractHeap!Refuse

\* The content of a block is where its pointer says.
Placed(B) == \A b \in B : b.content = b.ptr

LEMMA BlockHas ==
    ASSUME NEW p, NEW s
    PROVE  Block(p, s).ptr = p /\ Block(p, s).size = s /\ Block(p, s).content = p
  BY DEF Block

LEMMA AllocMaps ==
    ASSUME HeapInv, Placed(blocks), NEW asked \in Size, LOS_MemAlloc(asked)
    PROVE  AbstractHeap!Next /\ Placed(blocks')
<1>1. PICK size, n : size = AtLeast(asked) /\ n = Found(heap, size).node
  OBVIOUS
<1>2. PICK r : r = Wish(size, 1)
  OBVIOUS
<1>3. r \in AbstractHeap!Request
  BY <1>1, <1>2, IsRequest
<1>4. CASE NotAllocated(size, 1)
  <2>1. AbstractHeap!Refuse(r)
    BY <1>1, <1>2, <1>4, RefuseIs
  <2>2. blocks' = blocks
    BY <1>4 DEF NotAllocated
  <2> QED BY <1>3, <2>1, <2>2 DEF AbstractHeap!Next
<1>5. CASE /\ n # Null /\ heap' = OsMemAlloc(heap, size)
           /\ blocks' = blocks \cup {Block(n + HeadSize, size)} /\ refused' = {}
  <2>1. CanAlloc(heap, size) /\ size \in Nat
    <3>1. /\ size \in Nat /\ MinAlloc <= size
          /\ UseSize(size, 1) + HeadSize < Two(Limit) /\ UseSize(size, 1) = size + 1 - 1
      BY <1>1, RequestsAre DEF Limits
    <3>2. size + HeadSize < Two(Limit)
      BY <3>1
    <3> QED BY <1>1, <1>5, <3>1, <3>2 DEF CanAlloc, HeapInv, Sane
  <2>2. PICK b : b = Block(n + HeadSize, size)
    OBVIOUS
  <2>3. b.ptr = n + HeadSize /\ b.size = size /\ b.content = b.ptr
    BY <2>2, BlockHas
  <2>4. PICK g : g = OsMemAlloc(heap, size)
    OBVIOUS
  <2>5. /\ Sane(g, blocks \cup {b}) /\ IsAlloc(g, heap, n, size) /\ n \notin UsedOf(heap.nodes)
        /\ At(g.nodes, g.gap, b, n)
    <3>1. Sane(heap, blocks) /\ CanAlloc(heap, size)
      BY <2>1 DEF HeapInv
    <3> QED BY <3>1, <2>3, <2>4, <1>1, AllocSane
  <2>6. n \in UsedOf(g.nodes) /\ Others(heap.nodes, g.nodes, n) /\ g.nodes[n].size >= size + HeadSize
    BY <2>5 DEF IsAlloc, Touched
  <2>7. n + HeadSize <= b.ptr /\ b.ptr + b.size <= n + g.nodes[n].size /\ b.ptr % 1 = 0
    <3>1. n \in Nat /\ g.nodes[n].size \in Nat
      BY <2>5, <2>6, UsedIs DEF Sane
    <3> QED BY <2>1, <2>3, <2>6, <3>1, PoolIs
  <2>8. Granted(heap, blocks, g, b, size, 1)
    BY <2>3, <2>5, <2>6, <2>7, AddIsGranted DEF HeapInv
  <2>9. heap' = g /\ blocks' = blocks \cup {b}
    BY <1>5, <2>2, <2>4
  <2>10. Parts' = Parts \cup {PartOf(g, b)} /\ Served(PartOf(g, b), size, 1, Parts)
    BY <2>8, <2>9, PartsAre DEF Granted
  <2>11. AbstractHeap!Grant(r)
    BY <1>2, <1>5, <2>10, GrantIs
  <2>12. Placed(blocks')
    BY <2>3, <2>9 DEF Placed
  <2> QED BY <1>3, <2>11, <2>12 DEF AbstractHeap!Next
<1> QED BY <1>1, <1>4, <1>5, Zenon DEF LOS_MemAlloc

LEMMA RoundUpDivides ==
    ASSUME NEW p \in Nat, NEW d \in Nat \ {0}
    PROVE  RoundUp(p, d) % d = 0
<1> DEFINE q == (p + d - 1) \div d
<1>1. q \in Nat
  BY DivBounds
<1>2. RoundUp(p, d) = q * d
  BY DEF RoundUp
<1> HIDE DEF q
<1>3. (q * d) % d = 0
  BY <1>1
<1> QED BY <1>2, <1>3

LEMMA AlignMaps ==
    ASSUME HeapInv, Placed(blocks), NEW asked \in Size, NEW boundary \in Boundary,
           LOS_MemAllocAlign(asked, boundary)
    PROVE  AbstractHeap!Next /\ Placed(blocks')
<1>1. PICK size, useSize, n : /\ size = AtLeast(asked) /\ useSize = UseSize(size, boundary)
                              /\ n = Found(heap, useSize).node
  OBVIOUS
<1>2. PICK r : r = Wish(size, boundary)
  OBVIOUS
<1>3. r \in AbstractHeap!Request
  BY <1>1, <1>2, IsRequest
<1>4. CASE NotAllocated(size, boundary)
  <2>1. AbstractHeap!Refuse(r)
    BY <1>1, <1>2, <1>4, RefuseIs
  <2>2. blocks' = blocks
    BY <1>4 DEF NotAllocated
  <2> QED BY <1>3, <2>1, <2>2 DEF AbstractHeap!Next
<1>5. PICK ptr, aligned : ptr = n + HeadSize /\ aligned = RoundUp(ptr, boundary)
  OBVIOUS
<1>6. PICK t : t = OsMemAlloc(heap, useSize)
  OBVIOUS
<1>7. CASE /\ n # Null
           /\ heap' = IF aligned = ptr THEN t ELSE Gapped(t, n, aligned, aligned - ptr)
           /\ blocks' = blocks \cup {Block(aligned, size)} /\ refused' = {}
  <2>1. /\ size \in Nat /\ useSize \in Nat /\ MinAlloc <= useSize
        /\ useSize + HeadSize < Two(Limit) /\ useSize = size + boundary - 1
        /\ boundary \in Nat \ {0} /\ MinAlloc <= size
    BY <1>1, RequestsAre DEF Limits
  <2>2. CanAlloc(heap, useSize) /\ boundary <= useSize
    <3>1. boundary <= useSize
      BY <2>1 DEF MinAlloc
    <3> QED BY <1>1, <1>7, <2>1, <3>1 DEF CanAlloc, HeapInv, Sane
  <2>3. PICK b : b = Block(aligned, size)
    OBVIOUS
  <2>4. b.ptr = aligned /\ b.size = size /\ b.content = b.ptr
    BY <2>3, BlockHas
  <2>5. PICK g : g = heap'
    OBVIOUS
  <2>6. Sane(heap, blocks)
    BY DEF HeapInv
  <2>7. /\ Sane(g, blocks \cup {b}) /\ n \notin UsedOf(heap.nodes) /\ n \in UsedOf(g.nodes)
        /\ Others(heap.nodes, g.nodes, n) /\ At(g.nodes, g.gap, b, n)
        /\ g.nodes[n].size >= useSize + HeadSize
    <3>1. CASE aligned = ptr
      <4>1. g = OsMemAlloc(heap, useSize)
        BY <1>6, <1>7, <2>5, <3>1
      <4>2. /\ Sane(g, blocks \cup {b}) /\ IsAlloc(g, heap, n, useSize)
            /\ n \notin UsedOf(heap.nodes) /\ At(g.nodes, g.gap, b, n)
        BY <4>1, <2>2, <2>4, <2>6, <3>1, <1>1, <1>5, AllocSane
      <4> QED BY <4>2 DEF IsAlloc, Touched
    <3>2. CASE aligned # ptr
      <4>1. g = Gapped(OsMemAlloc(heap, useSize), n, aligned, aligned - (n + HeadSize))
        BY <1>5, <1>6, <1>7, <2>5, <3>2
      <4>2. aligned = RoundUp(n + HeadSize, boundary) /\ aligned # n + HeadSize
        BY <1>5, <3>2
      <4>3. boundary \in Nat \ {0} /\ boundary <= useSize /\ CanAlloc(heap, useSize)
        BY <2>1, <2>2
      <4>4. n = Found(heap, useSize).node /\ b.ptr = aligned
        BY <1>1, <2>4
      <4> QED BY <4>1, <4>2, <4>3, <4>4, <2>6, AlignSane
    <3> QED BY <3>1, <3>2
  <2>8. n + HeadSize <= b.ptr /\ b.ptr + b.size <= n + g.nodes[n].size /\ b.ptr % boundary = 0
    <3>1. n \in Nat /\ g.nodes[n].size \in Nat /\ ptr \in Nat
      BY <2>7, <1>5, UsedIs, PoolIs DEF Sane
    <3>2. aligned \in Nat /\ ptr <= aligned /\ aligned <= ptr + boundary - 1
      BY <2>1, <3>1, <1>5, RoundUpIs
    <3>3. aligned % boundary = 0
      BY <2>1, <3>1, <1>5, RoundUpDivides
    <3> QED BY <1>5, <2>1, <2>4, <2>7, <3>1, <3>2, <3>3, PoolIs
  <2>9. Granted(heap, blocks, g, b, size, boundary)
    BY <2>4, <2>6, <2>7, <2>8, AddIsGranted
  <2>10. heap' = g /\ blocks' = blocks \cup {b}
    BY <1>7, <2>3, <2>5
  <2>11. Parts' = Parts \cup {PartOf(g, b)} /\ Served(PartOf(g, b), size, boundary, Parts)
    BY <2>9, <2>10, PartsAre DEF Granted
  <2>12. AbstractHeap!Grant(r)
    BY <1>2, <1>7, <2>11, GrantIs
  <2>13. Placed(blocks')
    BY <2>4, <2>10 DEF Placed
  <2> QED BY <1>3, <2>12, <2>13 DEF AbstractHeap!Next
<1> QED BY <1>1, <1>4, <1>5, <1>6, <1>7, Zenon DEF LOS_MemAllocAlign

LEMMA FreeMaps ==
    ASSUME HeapInv, Placed(blocks), NEW b \in blocks, LOS_MemFree(b)
    PROVE  AbstractHeap!Next /\ Placed(blocks')
<1>1. Sane(heap, blocks)
  BY DEF HeapInv
<1>2. PICK n \in UsedOf(heap.nodes) : At(heap.nodes, heap.gap, b, n)
  BY <1>1, SomeNode
<1>3. OsGetRealPtr(heap, b.ptr) - HeadSize = n
  BY <1>1, <1>2, PtrAccepted DEF Sane
<1>4. PICK g : g = heap'
  OBVIOUS
<1>5. g = Forgotten(OsMemFree(heap, n), b.ptr) /\ blocks' = blocks \ {b} /\ refused' = {}
  BY <1>3, <1>4, Zenon DEF LOS_MemFree
<1>6. PartsOf(g, blocks \ {b}) = PartsOf(heap, blocks) \ {PartOf(heap, b)}
  BY <1>1, <1>2, <1>5, FreeParts
<1>7. PICK p : p = PartOf(heap, b)
  OBVIOUS
<1>8. p \in Parts /\ Parts' = Parts \ {p}
  BY <1>4, <1>5, <1>6, <1>7, PartsAre DEF PartsOf
<1>9. AbstractHeap!GiveBack(p)
  BY <1>5, <1>8 DEF AbstractHeap!GiveBack
<1>10. Placed(blocks')
  BY <1>5 DEF Placed
<1> QED BY <1>8, <1>9, <1>10 DEF AbstractHeap!Next

\* A block that stays in its node, which is cut or has grown.
LEMMA InPlaceMaps ==
    ASSUME HeapInv, NEW b \in blocks, NEW n \in UsedOf(heap.nodes), At(heap.nodes, heap.gap, b, n),
           NEW size \in Nat, NEW f, IsResize(f, heap, n, size + HeadSize),
           NEW c, c.ptr = n + HeadSize, c.size = size, c.content = c.ptr,
           heap' = Forgotten(f, b.ptr), blocks' = (blocks \ {b}) \cup {c}, refused' = {}
    PROVE  AbstractHeap!Resize(PartOf(heap, b), Wish(size, 1))
<1>1. Sane(heap, blocks)
  BY DEF HeapInv
<1>2. PICK g : g = heap'
  OBVIOUS
<1>3. g = Forgotten(f, b.ptr)
  BY <1>2
<1>4. Sane(g, (blocks \ {b}) \cup {c})
  BY <1>1, <1>3, ResizeSane
<1>5. IsHeap(f) /\ Touched(f, heap, n) /\ n \in UsedOf(f.nodes) /\ ~f.nodes[n].aligned
      /\ f.nodes[n].size >= size + HeadSize
  BY DEF IsResize, Touched, Tidy, Sound
<1>6. g.nodes = f.nodes
  <2>1. SameLists(g, f)
    BY <1>3, <1>5, ForgottenIs
  <2> QED BY <2>1 DEF SameLists
<1>7. /\ Others(heap.nodes, g.nodes, n) /\ n \in UsedOf(g.nodes) /\ ~g.nodes[n].aligned
      /\ g.nodes[n].size >= size + HeadSize
  BY <1>5, <1>6 DEF Touched
<1>8. Tidy(g)
  BY <1>4 DEF Sane
<1>9. At(g.nodes, g.gap, c, n)
  BY <1>7, <1>8, AtFirst
<1>10. c.ptr + c.size <= n + g.nodes[n].size
  <2>1. n \in Nat /\ g.nodes[n].size \in Nat
    BY <1>7, <1>8, UsedIs
  <2> QED BY <1>7, <2>1, PoolIs
<1>11. Replaced(heap, blocks, b, g, c, size)
  BY <1>1, <1>4, <1>7, <1>9, <1>10, ChangeIsReplaced
<1>12. /\ Parts' = (Parts \ {PartOf(heap, b)}) \cup {PartOf(g, c)}
       /\ Served(PartOf(g, c), size, 1, Parts \ {PartOf(heap, b)})
  BY <1>2, <1>11, PartsAre DEF Replaced
<1> QED BY <1>12, ResizeIs

LEMMA ReallocMaps ==
    ASSUME HeapInv, Placed(blocks), ~ReallocAligned, NEW b \in blocks, NEW asked \in Size,
           LOS_MemRealloc(b, asked)
    PROVE  AbstractHeap!Next /\ Placed(blocks')
<1>1. Sane(heap, blocks)
  BY DEF HeapInv
<1>2. PICK n \in UsedOf(heap.nodes) : At(heap.nodes, heap.gap, b, n)
  BY <1>1, SomeNode
<1>3. PICK size, allocSize, ptr, k :
         /\ size = AtLeast(asked) /\ allocSize = size + HeadSize
         /\ ptr = OsGetRealPtr(heap, b.ptr) /\ k = Found(heap, size).node
  OBVIOUS
<1>4. ptr - HeadSize = n /\ ptr = n + HeadSize
  BY <1>1, <1>2, <1>3, PtrAccepted DEF Sane
<1>5. ptr = b.ptr /\ b.content = ptr
  BY <1>3 DEF LOS_MemRealloc, Placed
<1>6. /\ size \in Nat /\ MinAlloc <= size /\ size + HeadSize < Two(Limit)
      /\ allocSize \in Nat /\ MinLeft <= allocSize
  <2>1. /\ size \in Nat /\ MinAlloc <= size
        /\ UseSize(size, 1) + HeadSize < Two(Limit) /\ UseSize(size, 1) = size + 1 - 1
    BY <1>3, RequestsAre DEF Limits
  <2> QED BY <2>1, <1>3, PoolIs DEF MinAlloc
<1>7. CanCut(heap, n, allocSize)
  BY <1>1, <1>6 DEF CanCut, Sane
<1>8. \/ /\ heap.nodes[n].size >= allocSize
         /\ heap' = Forgotten(OsMemReAllocSmaller(heap, n, allocSize), b.ptr)
         /\ Moved(b, ptr, size, 0)
      \/ /\ heap.nodes[n].size < allocSize /\ CanGrow(heap, n, allocSize)
         /\ heap' = Forgotten(OsMemMergeNodeForReAllocBigger(heap, n, allocSize), b.ptr)
         /\ Moved(b, ptr, size, 0)
      \/ /\ heap.nodes[n].size < allocSize /\ ~CanGrow(heap, n, allocSize)
         /\ \/ NotAllocated(size, 1)
            \/ /\ k # Null
               /\ heap' = Forgotten(OsMemFree(OsMemAlloc(heap, size), n), b.ptr)
               /\ Moved(b, k + HeadSize, size, k - n)
  BY <1>3, <1>4, Zenon DEF LOS_MemRealloc
<1>9. ASSUME NEW q \in Nat, NEW d \in Int, q = n + HeadSize + d, Moved(b, q, size, d)
      PROVE  \E c : /\ blocks' = (blocks \ {b}) \cup {c} /\ refused' = {}
                    /\ c.ptr = q /\ c.size = size /\ c.content = c.ptr
  <2>1. PICK c : c = [ptr |-> q, size |-> size, content |-> b.content + d]
    OBVIOUS
  <2>2. blocks' = (blocks \ {b}) \cup {c} /\ refused' = {}
    BY <1>9, <2>1, Zenon DEF Moved
  <2>3. c.ptr = q /\ c.size = size /\ c.content = q
    BY <1>4, <1>5, <1>9, <2>1
  <2> QED BY <2>2, <2>3
<1>10. n \in Nat /\ ptr \in Nat /\ ptr = n + HeadSize + 0
  <2>1. n \in Nat
    BY <1>1, UsedIs DEF Sane
  <2> QED BY <2>1, <1>4, PoolIs
<1>11. PICK r, p : r = Wish(size, 1) /\ p = PartOf(heap, b)
  OBVIOUS
<1>12. r \in AbstractHeap!Request /\ r.boundary = 1 /\ p \in Parts
  BY <1>3, <1>11, IsRequest, WishIs, PartsAre DEF PartsOf
<1>13. SUFFICES AbstractHeap!Resize(p, r) /\ Placed(blocks')
  BY <1>12 DEF AbstractHeap!Next
<1>14. CASE /\ heap.nodes[n].size >= allocSize
            /\ heap' = Forgotten(OsMemReAllocSmaller(heap, n, allocSize), b.ptr)
            /\ Moved(b, ptr, size, 0)
  <2>1. PICK c : /\ blocks' = (blocks \ {b}) \cup {c} /\ refused' = {}
                 /\ c.ptr = n + HeadSize /\ c.size = size /\ c.content = c.ptr
    BY <1>4, <1>9, <1>10, <1>14
  <2>2. PICK f : f = OsMemReAllocSmaller(heap, n, allocSize)
    OBVIOUS
  <2>3. allocSize <= heap.nodes[n].size
    BY <1>14
  <2>4. IsResize(f, heap, n, size + HeadSize)
    BY <1>3, <1>7, <2>2, <2>3, SmallerIs
  <2>5. heap' = Forgotten(f, b.ptr)
    BY <1>14, <2>2
  <2>6. AbstractHeap!Resize(p, r)
    BY <1>2, <1>6, <1>11, <2>1, <2>4, <2>5, InPlaceMaps
  <2> QED BY <2>1, <2>6 DEF Placed
<1>15. CASE /\ heap.nodes[n].size < allocSize /\ CanGrow(heap, n, allocSize)
            /\ heap' = Forgotten(OsMemMergeNodeForReAllocBigger(heap, n, allocSize), b.ptr)
            /\ Moved(b, ptr, size, 0)
  <2>1. PICK c : /\ blocks' = (blocks \ {b}) \cup {c} /\ refused' = {}
                 /\ c.ptr = n + HeadSize /\ c.size = size /\ c.content = c.ptr
    BY <1>4, <1>9, <1>10, <1>15
  <2>2. PICK f : f = OsMemMergeNodeForReAllocBigger(heap, n, allocSize)
    OBVIOUS
  <2>3. IsResize(f, heap, n, size + HeadSize)
    BY <1>3, <1>7, <1>15, <2>2, BiggerIs
  <2>4. heap' = Forgotten(f, b.ptr)
    BY <1>15, <2>2
  <2>5. AbstractHeap!Resize(p, r)
    BY <1>2, <1>6, <1>11, <2>1, <2>3, <2>4, InPlaceMaps
  <2> QED BY <2>1, <2>5 DEF Placed
<1>16. CASE NotAllocated(size, 1)
  <2>1. AbstractHeap!Refuse(r)
    BY <1>3, <1>11, <1>16, RefuseIs
  <2>2. blocks' = blocks
    BY <1>16 DEF NotAllocated
  <2> QED BY <2>1, <2>2 DEF AbstractHeap!Resize
<1>17. CASE /\ k # Null
            /\ heap' = Forgotten(OsMemFree(OsMemAlloc(heap, size), n), b.ptr)
            /\ Moved(b, k + HeadSize, size, k - n)
  <2>1. CanAlloc(heap, size)
    BY <1>1, <1>3, <1>6, <1>17 DEF CanAlloc, Sane
  <2>2. k \in Nat
    <3>1. PICK a : a = OsMemAlloc(heap, size)
      OBVIOUS
    <3>2. IsAlloc(a, heap, k, size)
      BY <1>3, <2>1, <3>1, AllocIs
    <3> QED BY <3>2, UsedIs DEF IsAlloc, Touched
  <2>3. k + HeadSize \in Nat /\ k - n \in Int /\ k + HeadSize = n + HeadSize + (k - n)
    BY <1>10, <2>2, PoolIs
  <2>4. PICK c : /\ blocks' = (blocks \ {b}) \cup {c} /\ refused' = {}
                 /\ c.ptr = k + HeadSize /\ c.size = size /\ c.content = c.ptr
    BY <1>9, <1>17, <2>3
  <2>5. PICK g : g = heap'
    OBVIOUS
  <2>6. g = Forgotten(OsMemFree(OsMemAlloc(heap, size), n), b.ptr)
    BY <1>17, <2>5
  <2>7. Replaced(heap, blocks, b, g, c, size)
    BY <1>1, <1>2, <1>3, <2>1, <2>4, <2>6, CopyIsReplaced
  <2>8. /\ Parts' = (Parts \ {PartOf(heap, b)}) \cup {PartOf(g, c)}
        /\ Served(PartOf(g, c), size, 1, Parts \ {PartOf(heap, b)})
    BY <2>4, <2>5, <2>7, PartsAre DEF Replaced
  <2>9. AbstractHeap!Resize(p, r)
    BY <1>11, <2>4, <2>8, ResizeIs
  <2> QED BY <2>4, <2>9 DEF Placed
<1> QED BY <1>8, <1>14, <1>15, <1>16, <1>17

LEMMA StepMaps ==
    ASSUME HeapInv, Placed(blocks), ~ReallocAligned, [MemoryNext]_memoryVars
    PROVE  Placed(blocks') /\ [AbstractHeap!Next]_(AbstractHeap!heapVars)
<1>1. CASE UNCHANGED memoryVars
  <2>1. heap' = heap /\ blocks' = blocks /\ refused' = refused
    BY <1>1 DEF memoryVars
  <2> QED BY <2>1, PartsAre DEF AbstractHeap!heapVars, Placed
<1>2. CASE \E size \in Size : LOS_MemAlloc(size)
  BY <1>2, AllocMaps
<1>3. CASE \E size \in Size, boundary \in Boundary : LOS_MemAllocAlign(size, boundary)
  BY <1>3, AlignMaps
<1>4. CASE \E size \in Size, b \in blocks : LOS_MemRealloc(b, size)
  BY <1>4, ReallocMaps
<1>5. CASE \E b \in blocks : LOS_MemFree(b)
  BY <1>5, FreeMaps
<1> QED BY <1>1, <1>2, <1>3, <1>4, <1>5, Zenon DEF MemoryNext

\* A pool implements the abstract heap if no block of LOS_MemAllocAlign is
\* reallocated: what LOS_MemAlloc, LOS_MemAllocAlign and LOS_MemRealloc hand out is
\* aligned, large enough and of nobody else's block, and has the content that was
\* there; what they refuse there was no room for in one piece.
THEOREM PoolIsAHeap ==
    ASSUME ~ReallocAligned
    PROVE  MemorySpec => IsAHeap
<1> DEFINE Inv == HeapInv /\ Placed(blocks)
<1>1. MemoryInit => Inv /\ AbstractHeap!Init
  <2> SUFFICES ASSUME MemoryInit PROVE Inv /\ AbstractHeap!Init
    OBVIOUS
  <2>1. HeapInv
    BY InitInv
  <2>2. blocks = {} /\ refused = {}
    BY DEF MemoryInit
  <2>3. Parts = {}
    BY <2>2 DEF Parts
  <2> QED BY <2>1, <2>2, <2>3 DEF AbstractHeap!Init, Placed
<1>2. Inv /\ [MemoryNext]_memoryVars => Inv' /\ [AbstractHeap!Next]_(AbstractHeap!heapVars)
  BY StepInv, StepMaps
<1> HIDE DEF Inv
<1> QED BY <1>1, <1>2, PTL DEF MemorySpec, IsAHeap, AbstractHeap!Spec

=============================================================================
