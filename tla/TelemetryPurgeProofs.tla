------------------------ MODULE TelemetryPurgeProofs ------------------------
(***************************************************************************)
(* Proofs about TelemetryPurge and the Batcher it extends, for any feeds,  *)
(* limits, projects and workers and any number of upsets.                  *)
(***************************************************************************)
EXTENDS TelemetryPurge, FiniteSetTheorems, SequenceTheorems, WellFoundedInduction, TLAPS

-----------------------------------------------------------------------------
(* Numbers and sequences.                                                   *)

\* A set of numbers has a least one ...
LEMMA LeastNat ==
    ASSUME NEW T, T \subseteq Nat, T # {}
    PROVE  \E n \in T : \A m \in T : n <= m
<1>1. PICK n \in T : \A m \in T : <<m, n>> \notin OpToRel(<, Nat)
    BY NatLessThanWellFounded, WFMin
<1>2. \A m \in T : ~ (m < n)
    BY <1>1 DEF OpToRel
<1> QED BY <1>2

\* ... hence induction, over sets.
LEMMA Induction ==
    ASSUME NEW T, T \subseteq Nat, 0 \in T, \A n \in T : n + 1 \in T
    PROVE  T = Nat
<1> SUFFICES ASSUME Nat \ T # {} PROVE FALSE
    OBVIOUS
<1>1. PICK n \in Nat \ T : \A m \in Nat \ T : n <= m
    BY LeastNat
<1>2. n # 0 /\ n - 1 \in Nat
    BY <1>1
<1>3. n - 1 \in T
    BY <1>1, <1>2
<1> QED BY <1>1, <1>2, <1>3

LEMMA HalfIsLess ==
    ASSUME NEW n \in Nat
    PROVE  n \div 2 \in 0 .. n
OBVIOUS

Sorted(s) == \A j, k \in DOMAIN s : j < k => s[j] < s[k]

Before(S, T) == \A x \in S, y \in T : x < y

\* What a sequence holds.
LEMMA InSet ==
    ASSUME NEW S, NEW s \in Seq(S)
    PROVE  /\ ToSet(s) \subseteq S /\ (ToSet(s) = {} <=> s = <<>>)
           /\ \A x \in ToSet(s) : \E k \in 1 .. Len(s) : s[k] = x
           /\ \A k \in 1 .. Len(s) : s[k] \in ToSet(s)
<1>1. Len(s) \in Nat /\ DOMAIN s = 1 .. Len(s) /\ \A k \in 1 .. Len(s) : s[k] \in S
    OBVIOUS
<1>2. \A x \in ToSet(s) : \E k \in 1 .. Len(s) : s[k] = x
    BY <1>1 DEF ToSet
<1>3. \A k \in 1 .. Len(s) : s[k] \in ToSet(s)
    BY <1>1 DEF ToSet
<1>4. ToSet(s) \subseteq S
    BY <1>1, <1>2
<1>5. s = <<>> => ToSet(s) = {}
    BY <1>2
<1>6. ASSUME s # <<>> PROVE ToSet(s) # {}
    <2>1. 1 \in 1 .. Len(s)
        BY <1>1, <1>6, EmptySeq
    <2> QED BY <1>3, <2>1
<1> QED BY <1>2, <1>3, <1>4, <1>5, <1>6

LEMMA CatSet ==
    ASSUME NEW S, NEW s \in Seq(S), NEW t \in Seq(S)
    PROVE  s \o t \in Seq(S) /\ Len(s \o t) = Len(s) + Len(t) /\ ToSet(s \o t) = ToSet(s) \cup ToSet(t)
<1>1. /\ s \o t \in Seq(S) /\ Len(s \o t) = Len(s) + Len(t)
      /\ \A i \in 1 .. Len(s) + Len(t) : (s \o t)[i] = IF i <= Len(s) THEN s[i] ELSE t[i - Len(s)]
    BY ConcatProperties
<1>2. Len(s) \in Nat /\ Len(t) \in Nat
    OBVIOUS
<1>3. ASSUME NEW x \in ToSet(s \o t) PROVE x \in ToSet(s) \cup ToSet(t)
    <2>1. PICK i \in 1 .. Len(s) + Len(t) : (s \o t)[i] = x
        BY <1>1, InSet
    <2>2. CASE i <= Len(s)
        <3>1. i \in 1 .. Len(s) /\ x = s[i]
            BY <1>1, <1>2, <2>1, <2>2
        <3> QED BY <3>1, InSet
    <2>3. CASE i > Len(s)
        <3>1. i - Len(s) \in 1 .. Len(t) /\ x = t[i - Len(s)]
            BY <1>1, <1>2, <2>1, <2>3
        <3> QED BY <3>1, InSet
    <2> QED BY <1>2, <2>2, <2>3
<1>4. ASSUME NEW x \in ToSet(s) PROVE x \in ToSet(s \o t)
    <2>1. PICK k \in 1 .. Len(s) : s[k] = x
        BY InSet
    <2>2. k \in 1 .. Len(s) + Len(t) /\ (s \o t)[k] = x
        BY <1>1, <1>2, <2>1
    <2> QED BY <1>1, <2>2, InSet
<1>5. ASSUME NEW x \in ToSet(t) PROVE x \in ToSet(s \o t)
    <2>1. PICK k \in 1 .. Len(t) : t[k] = x
        BY InSet
    <2>2. k + Len(s) \in 1 .. Len(s) + Len(t) /\ (s \o t)[k + Len(s)] = x
        BY <1>1, <1>2, <2>1
    <2> QED BY <1>1, <2>2, InSet
<1> QED BY <1>1, <1>3, <1>4, <1>5

LEMMA SortedCat ==
    ASSUME NEW S \in SUBSET Nat, NEW s \in Seq(S), NEW t \in Seq(S), Sorted(s), Sorted(t), Before(ToSet(s), ToSet(t))
    PROVE  Sorted(s \o t)
<1>1. /\ s \o t \in Seq(S) /\ Len(s \o t) = Len(s) + Len(t)
      /\ \A i \in 1 .. Len(s) + Len(t) : (s \o t)[i] = IF i <= Len(s) THEN s[i] ELSE t[i - Len(s)]
    BY ConcatProperties
<1>2. \A j \in 1 .. Len(s), k \in 1 .. Len(t) : s[j] < t[k]
    BY DEF Before, ToSet
<1>3. ASSUME NEW j \in 1 .. Len(s) + Len(t), NEW k \in 1 .. Len(s) + Len(t), j < k
      PROVE  (s \o t)[j] < (s \o t)[k]
    <2>1. CASE k <= Len(s)
        BY <1>1, <1>3, <2>1 DEF Sorted
    <2>2. CASE j <= Len(s) /\ k > Len(s)
        BY <1>1, <1>2, <1>3, <2>2
    <2>3. CASE j > Len(s)
        <3>1. j - Len(s) \in DOMAIN t /\ k - Len(s) \in DOMAIN t /\ j - Len(s) < k - Len(s)
            BY <1>3, <2>3
        <3> QED BY <1>1, <1>3, <2>3, <3>1 DEF Sorted
    <2> QED BY <2>1, <2>2, <2>3
<1> QED BY <1>1, <1>3 DEF Sorted

\* A sequence is cut after k.
LEMMA Cut ==
    ASSUME NEW S \in SUBSET Nat, NEW s \in Seq(S), NEW k \in 0 .. Len(s)
    PROVE  LET p == SubSeq(s, 1, k)
               q == SubSeq(s, k + 1, Len(s))
           IN  /\ p \in Seq(S) /\ q \in Seq(S) /\ Len(p) = k /\ Len(q) = Len(s) - k /\ p \o q = s
               /\ ToSet(s) = ToSet(p) \cup ToSet(q)
               /\ Sorted(s) => Sorted(p) /\ Sorted(q) /\ Before(ToSet(p), ToSet(q))
<1> DEFINE p == SubSeq(s, 1, k)
           q == SubSeq(s, k + 1, Len(s))
<1>1. Len(s) \in Nat /\ k \in Nat /\ \A i \in 1 .. Len(s) : s[i] \in S
    OBVIOUS
<1>2. p \in Seq(S) /\ Len(p) = k /\ \A i \in 1 .. k : p[i] = s[i]
    BY <1>1
<1>3. q \in Seq(S) /\ Len(q) = Len(s) - k /\ \A i \in 1 .. Len(s) - k : q[i] = s[k + i]
    BY <1>1
<1> HIDE DEF p, q
<1>4. p \o q = s
    <2>1. /\ p \o q \in Seq(S) /\ Len(p \o q) = Len(s)
          /\ \A i \in 1 .. Len(s) : (p \o q)[i] = IF i <= k THEN p[i] ELSE q[i - k]
        BY <1>1, <1>2, <1>3, ConcatProperties
    <2>2. \A i \in 1 .. Len(s) : (p \o q)[i] = s[i]
        <3>1. ASSUME NEW i \in 1 .. Len(s) PROVE (p \o q)[i] = s[i]
            <4>1. CASE i <= k
                BY <1>1, <1>2, <2>1, <4>1
            <4>2. CASE i > k
                <5>1. i - k \in 1 .. Len(s) - k /\ k + (i - k) = i
                    BY <1>1, <4>2
                <5> QED BY <1>1, <1>3, <2>1, <4>2, <5>1
            <4>3. i <= k \/ i > k
                BY <1>1
            <4> QED BY <4>1, <4>2, <4>3
        <3> QED BY <3>1
    <2> QED BY <2>1, <2>2, SeqEqual
<1>5. ToSet(s) = ToSet(p) \cup ToSet(q)
    BY <1>2, <1>3, <1>4, CatSet
<1>6. ASSUME Sorted(s) PROVE Sorted(p) /\ Sorted(q) /\ Before(ToSet(p), ToSet(q))
    <2>1. Sorted(p)
        BY <1>1, <1>2, <1>6 DEF Sorted
    <2>2. Sorted(q)
        <3>1. ASSUME NEW i \in 1 .. Len(s) - k, NEW j \in 1 .. Len(s) - k, i < j PROVE q[i] < q[j]
            <4>1. k + i \in 1 .. Len(s) /\ k + j \in 1 .. Len(s) /\ k + i < k + j
                BY <1>1, <3>1
            <4>2. s[k + i] < s[k + j]
                BY <1>6, <4>1 DEF Sorted
            <4> QED BY <1>3, <4>2
        <3> QED BY <1>3, <3>1 DEF Sorted
    <2>3. ASSUME NEW i \in 1 .. k, NEW j \in 1 .. Len(s) - k PROVE p[i] < q[j]
        <3>1. i \in 1 .. Len(s) /\ k + j \in 1 .. Len(s) /\ i < k + j
            BY <1>1
        <3>2. s[i] < s[k + j]
            BY <1>6, <3>1 DEF Sorted
        <3> QED BY <1>2, <1>3, <3>2
    <2>4. Before(ToSet(p), ToSet(q))
        <3>1. ASSUME NEW x \in ToSet(p), NEW y \in ToSet(q) PROVE x < y
            <4>1. PICK i \in 1 .. k : p[i] = x
                BY <1>2, InSet
            <4>2. PICK j \in 1 .. Len(s) - k : q[j] = y
                BY <1>3, InSet
            <4> QED BY <2>3, <4>1, <4>2
        <3> QED BY <3>1 DEF Before
    <2> QED BY <2>1, <2>2, <2>4
<1> QED BY <1>2, <1>3, <1>4, <1>5, <1>6 DEF p, q

\* A sorted sequence has no row twice.
LEMMA SortedCount ==
    ASSUME NEW S \in SUBSET Nat, NEW s \in Seq(S), Sorted(s)
    PROVE  IsFiniteSet(ToSet(s)) /\ Cardinality(ToSet(s)) = Len(s)
<1>1. Len(s) \in Nat /\ s \in [1 .. Len(s) -> ToSet(s)]
    BY InSet
<1>2. ASSUME NEW i \in 1 .. Len(s), NEW j \in 1 .. Len(s), s[i] = s[j] PROVE i = j
    <2>1. i \in Int /\ j \in Int /\ s[i] \in Nat /\ DOMAIN s = 1 .. Len(s)
        <3>1. s[i] \in S /\ DOMAIN s = 1 .. Len(s)
            BY ElementOfSeq, LenProperties
        <3>2. s[i] \in Nat
            BY <3>1
        <3>3. i \in Int /\ j \in Int
            BY <1>1
        <3> QED BY <3>1, <3>2, <3>3
    <2>2. ~ (i < j) /\ ~ (j < i)
        BY <1>2, <2>1 DEF Sorted
    <2> QED BY <2>1, <2>2
<1>3. \A x \in ToSet(s) : \E k \in 1 .. Len(s) : s[k] = x
    BY InSet
<1>4. s \in Bijection(1 .. Len(s), ToSet(s))
    BY <1>1, <1>2, <1>3 DEF Bijection, Injection, Surjection, IsInjective
<1>5. IsFiniteSet(1 .. Len(s)) /\ Cardinality(1 .. Len(s)) = Len(s)
    <2>1. 1 \in Int /\ Len(s) \in Int
        BY <1>1
    <2>2. IsFiniteSet(1 .. Len(s)) /\ Cardinality(1 .. Len(s)) = IF 1 > Len(s) THEN 0 ELSE Len(s) - 1 + 1
        BY <2>1, FS_Interval
    <2> QED BY <1>1, <2>2
<1>6. ExistsBijection(1 .. Len(s), ToSet(s))
    BY <1>4 DEF ExistsBijection
<1> QED BY <1>5, <1>6, FS_Bijection

\* The rows of a sorted sequence join a set of others.
LEMMA JoinCount ==
    ASSUME NEW S \in SUBSET Nat, NEW s \in Seq(S), Sorted(s), NEW O, IsFiniteSet(O), O \cap ToSet(s) = {}
    PROVE  IsFiniteSet(O \cup ToSet(s)) /\ Cardinality(O \cup ToSet(s)) = Cardinality(O) + Len(s)
<1>1. IsFiniteSet(ToSet(s)) /\ Cardinality(ToSet(s)) = Len(s)
    BY SortedCount
<1>2. Cardinality(O) \in Nat /\ Len(s) \in Nat
    BY FS_CardinalityType
<1>3. Cardinality(O \cap ToSet(s)) = 0
    BY FS_EmptySet
<1>4. /\ IsFiniteSet(O \cup ToSet(s))
      /\ Cardinality(O \cup ToSet(s)) = Cardinality(O) + Cardinality(ToSet(s)) - Cardinality(O \cap ToSet(s))
    BY <1>1, FS_Union
<1> QED BY <1>1, <1>2, <1>3, <1>4

LEMMA SetToSeqIs ==
    ASSUME NEW S, IsFiniteSet(S)
    PROVE  SetToSeq(S) \in Seq(S) /\ ToSet(SetToSeq(S)) = S
<1> DEFINE n == Cardinality(S)
<1>1. n \in Nat
    BY FS_CardinalityType
<1>2. PICK f : f \in Bijection(1 .. n, S)
    BY FS_CardinalityType DEF ExistsBijection
<1>3. f \in [1 .. n -> S] /\ IsInjective(f)
    BY <1>2 DEF Bijection, Injection
<1>4. PICK g \in [1 .. n -> S] : IsInjective(g) /\ g = SetToSeq(S)
    BY <1>3 DEF SetToSeq
<1>5. g \in Injection(1 .. n, S)
    BY <1>4 DEF Injection
<1>6. Cardinality(1 .. n) = n
    BY <1>1, FS_Interval
<1>7. g \in Surjection(1 .. n, S)
    BY <1>5, <1>6, FS_Injection
<1>8. g \in Seq(S) /\ ToSet(g) = S
    BY <1>1, <1>4, <1>7 DEF ToSet, Surjection
<1> QED BY <1>4, <1>8

-----------------------------------------------------------------------------
(* The weight of rows, a recursive sum.                                     *)

IsSum(g, f, s, n) == g = [k \in 0 .. n |-> IF k = 0 THEN 0 ELSE g[k - 1] + EventBytes(f[s[k]])]

\* There is such a function ...
LEMMA SumExists ==
    ASSUME NEW f, NEW s, NEW n \in Nat
    PROVE  \E g : IsSum(g, f, s, n)
<1> DEFINE T == {m \in Nat : \E g : IsSum(g, f, s, m)}
<1>1. 0 \in T
    <2> DEFINE g == [k \in 0 .. 0 |-> 0]
    <2>1. IsSum(g, f, s, 0)
        BY DEF IsSum
    <2> QED BY <2>1
<1>2. ASSUME NEW m \in T PROVE m + 1 \in T
    <2>1. PICK g : IsSum(g, f, s, m)
        OBVIOUS
    <2> DEFINE b == EventBytes(f[s[m + 1]])
               h == [k \in 0 .. m + 1 |-> IF k = m + 1 THEN g[m] + b ELSE g[k]]
    <2>2. m \in Nat
        OBVIOUS
    <2>3. \A k \in 0 .. m : g[k] = IF k = 0 THEN 0 ELSE g[k - 1] + EventBytes(f[s[k]])
        BY <2>1 DEF IsSum
    <2>4. \A k \in 0 .. m + 1 : h[k] = IF k = 0 THEN 0 ELSE h[k - 1] + EventBytes(f[s[k]])
        BY <2>2, <2>3
    <2>5. IsSum(h, f, s, m + 1)
        BY <2>4 DEF IsSum
    <2> QED BY <2>2, <2>5
<1>3. T = Nat
    <2> HIDE DEF T
    <2>1. T \subseteq Nat
        BY DEF T
    <2> QED BY <1>1, <1>2, <2>1, Induction
<1> QED BY <1>3

\* ... and Bytes is its last value.
LEMMA BytesIs ==
    ASSUME NEW f, NEW S, NEW s \in Seq(S)
    PROVE  \E g : IsSum(g, f, s, Len(s)) /\ Bytes(f, s) = g[Len(s)]
<1>1. Len(s) \in Nat
    OBVIOUS
<1> DEFINE h == CHOOSE g : g = [k \in 0 .. Len(s) |-> IF k = 0 THEN 0 ELSE g[k - 1] + EventBytes(f[s[k]])]
<1>2. IsSum(h, f, s, Len(s))
    <2>1. \E g : IsSum(g, f, s, Len(s))
        BY <1>1, SumExists
    <2> QED BY <2>1 DEF IsSum
<1>3. Bytes(f, s) = h[Len(s)]
    BY DEF Bytes
<1> QED BY <1>2, <1>3

LEMMA EventBytesNat ==
    ASSUME NEW row
    PROVE  EventBytes(row) \in Nat
BY BatcherAssumption DEF EventBytes

\* A weight is a number.
LEMMA SumNat ==
    ASSUME NEW f, NEW s, NEW n \in Nat, NEW g, IsSum(g, f, s, n)
    PROVE  \A k \in 0 .. n : g[k] \in Nat
<1> DEFINE T == {m \in Nat : m <= n => g[m] \in Nat}
<1>1. \A k \in 0 .. n : g[k] = IF k = 0 THEN 0 ELSE g[k - 1] + EventBytes(f[s[k]])
    BY DEF IsSum
<1>2. 0 \in T
    BY <1>1
<1>3. ASSUME NEW m \in T PROVE m + 1 \in T
    <2>1. CASE m + 1 <= n
        <3>1. m \in Nat /\ m + 1 \in 0 .. n /\ m + 1 # 0 /\ (m + 1) - 1 = m /\ g[m] \in Nat
            BY <2>1
        <3>2. g[m + 1] = g[m] + EventBytes(f[s[m + 1]])
            BY <1>1, <3>1
        <3>3. g[m + 1] \in Nat
            BY <3>1, <3>2, EventBytesNat
        <3> QED BY <3>1, <3>3
    <2> QED BY <2>1
<1>4. T = Nat
    <2> HIDE DEF T
    <2>1. T \subseteq Nat
        BY DEF T
    <2> QED BY <1>2, <1>3, <2>1, Induction
<1> QED BY <1>4

LEMMA BytesNat ==
    ASSUME NEW f, NEW S, NEW s \in Seq(S)
    PROVE  Bytes(f, s) \in Nat /\ (s = <<>> => Bytes(f, s) = 0)
<1>1. PICK g : IsSum(g, f, s, Len(s)) /\ Bytes(f, s) = g[Len(s)]
    BY BytesIs
<1>2. Len(s) \in Nat /\ Len(s) \in 0 .. Len(s)
    OBVIOUS
<1>3. g[Len(s)] \in Nat
    BY <1>1, <1>2, SumNat
<1>4. Len(s) = 0 => g[Len(s)] = 0
    BY <1>1, <1>2 DEF IsSum
<1> QED BY <1>1, <1>3, <1>4

\* Weights add up ...
LEMMA BytesCat ==
    ASSUME NEW f, NEW S, NEW s \in Seq(S), NEW t \in Seq(S)
    PROVE  Bytes(f, s \o t) = Bytes(f, s) + Bytes(f, t)
<1> DEFINE u == s \o t
<1>1. /\ u \in Seq(S) /\ Len(u) = Len(s) + Len(t)
      /\ \A i \in 1 .. Len(s) + Len(t) : u[i] = IF i <= Len(s) THEN s[i] ELSE t[i - Len(s)]
    BY ConcatProperties
<1> HIDE DEF u
<1>2. PICK gs : IsSum(gs, f, s, Len(s)) /\ Bytes(f, s) = gs[Len(s)]
    BY BytesIs
<1>3. PICK gt : IsSum(gt, f, t, Len(t)) /\ Bytes(f, t) = gt[Len(t)]
    BY BytesIs
<1>4. PICK gu : IsSum(gu, f, u, Len(u)) /\ Bytes(f, u) = gu[Len(u)]
    BY <1>1, BytesIs
<1>5. PICK m \in Nat : m = Len(s)
    OBVIOUS
<1>6. PICK n \in Nat : n = Len(t)
    OBVIOUS
<1>7. /\ \A k \in 0 .. m : gs[k] = IF k = 0 THEN 0 ELSE gs[k - 1] + EventBytes(f[s[k]])
      /\ \A k \in 0 .. n : gt[k] = IF k = 0 THEN 0 ELSE gt[k - 1] + EventBytes(f[t[k]])
      /\ \A k \in 0 .. m + n : gu[k] = IF k = 0 THEN 0 ELSE gu[k - 1] + EventBytes(f[u[k]])
    BY <1>1, <1>2, <1>3, <1>4, <1>5, <1>6 DEF IsSum
<1>8. /\ \A k \in 0 .. m : gs[k] \in Nat
      /\ \A k \in 0 .. n : gt[k] \in Nat
    BY <1>2, <1>3, <1>5, <1>6, SumNat
<1>9. \A k \in 0 .. m : gu[k] = gs[k]
    <2> DEFINE T == {k \in Nat : k <= m => gu[k] = gs[k]}
    <2>1. 0 \in T
        BY <1>7
    <2>2. ASSUME NEW k \in T PROVE k + 1 \in T
        <3>1. CASE k + 1 <= m
            <4>1. k \in Nat /\ k + 1 \in 1 .. m /\ k + 1 \in 0 .. m /\ k + 1 \in 0 .. m + n
                BY <3>1
            <4>2. (k + 1) - 1 = k /\ k + 1 # 0 /\ gu[k] = gs[k]
                BY <3>1, <4>1
            <4>3. u[k + 1] = s[k + 1]
                BY <1>1, <1>5, <1>6, <4>1
            <4>4. gu[k + 1] = gu[k] + EventBytes(f[u[k + 1]]) /\ gs[k + 1] = gs[k] + EventBytes(f[s[k + 1]])
                BY <1>7, <4>1, <4>2
            <4> QED BY <4>1, <4>2, <4>3, <4>4
        <3> QED BY <3>1
    <2>3. T = Nat
        <3> HIDE DEF T
        <3>1. T \subseteq Nat
            BY DEF T
        <3> QED BY <2>1, <2>2, <3>1, Induction
    <2> QED BY <2>3
<1>10. \A k \in 0 .. n : gu[m + k] = gs[m] + gt[k]
    <2> DEFINE T == {k \in Nat : k <= n => gu[m + k] = gs[m] + gt[k]}
    <2>1. 0 \in T
        <3>1. gt[0] = 0 /\ gu[m] = gs[m] /\ gs[m] \in Nat /\ m + 0 = m
            BY <1>7, <1>8, <1>9
        <3> QED BY <3>1
    <2>2. ASSUME NEW k \in T PROVE k + 1 \in T
        <3>1. CASE k + 1 <= n
            <4>1. k \in Nat /\ k + 1 \in 1 .. n /\ k + 1 \in 0 .. n /\ k \in 0 .. n /\ m + (k + 1) \in 0 .. m + n
                BY <3>1
            <4>2. (k + 1) - 1 = k /\ (m + (k + 1)) - 1 = m + k /\ m + (k + 1) # 0 /\ k + 1 # 0 /\ gu[m + k] = gs[m] + gt[k]
                BY <3>1, <4>1
            <4>3. u[m + (k + 1)] = t[k + 1]
                <5>1. m + (k + 1) \in 1 .. m + n /\ ~ (m + (k + 1) <= m) /\ (m + (k + 1)) - m = k + 1
                    BY <4>1
                <5> QED BY <1>1, <1>5, <1>6, <5>1
            <4>4. /\ gu[m + (k + 1)] = gu[m + k] + EventBytes(f[t[k + 1]])
                  /\ gt[k + 1] = gt[k] + EventBytes(f[t[k + 1]])
                BY <1>7, <4>1, <4>2, <4>3
            <4>5. gs[m] \in Nat /\ gt[k] \in Nat /\ EventBytes(f[t[k + 1]]) \in Nat
                BY <1>8, <4>1, EventBytesNat
            <4>6. gu[m + (k + 1)] = gs[m] + gt[k + 1]
                BY <4>2, <4>4, <4>5
            <4> QED BY <4>1, <4>6
        <3> QED BY <3>1
    <2>3. T = Nat
        <3> HIDE DEF T
        <3>1. T \subseteq Nat
            BY DEF T
        <3> QED BY <2>1, <2>2, <3>1, Induction
    <2> QED BY <2>3
<1>11. gu[m + n] = gs[m] + gt[n]
    BY <1>10
<1> QED BY <1>1, <1>2, <1>3, <1>4, <1>5, <1>6, <1>11 DEF u

\* ... a row at a time too.
LEMMA BytesOne ==
    ASSUME NEW f, NEW S, NEW x \in S
    PROVE  Bytes(f, <<x>>) = EventBytes(f[x])
<1>1. <<x>> \in Seq(S) /\ Len(<<x>>) = 1 /\ <<x>>[1] = x
    OBVIOUS
<1>2. PICK g : IsSum(g, f, <<x>>, 1) /\ Bytes(f, <<x>>) = g[1]
    BY <1>1, BytesIs
<1>3. \A k \in 0 .. 1 : g[k] = IF k = 0 THEN 0 ELSE g[k - 1] + EventBytes(f[(<<x>>)[k]])
    BY <1>2 DEF IsSum
<1>4. g[0] = 0 /\ g[1] = g[0] + EventBytes(f[x])
    BY <1>1, <1>3
<1> QED BY <1>2, <1>4, EventBytesNat

-----------------------------------------------------------------------------
(* The slices IsolatePoison has still to insert.                            *)

Pieces(w) == UNION {ToSet(w[k]) : k \in DOMAIN w}

InOrder(w) ==
    /\ \A k \in DOMAIN w : Sorted(w[k])
    /\ \A j, k \in DOMAIN w : j < k => Before(ToSet(w[j]), ToSet(w[k]))

LEMMA InPieces ==
    ASSUME NEW S, NEW w \in Seq(Seq(S))
    PROVE  /\ \A x \in Pieces(w) : \E k \in 1 .. Len(w) : x \in ToSet(w[k])
           /\ \A k \in 1 .. Len(w) : w[k] \in Seq(S) /\ ToSet(w[k]) \subseteq Pieces(w)
           /\ Pieces(w) \subseteq S
<1>1. DOMAIN w = 1 .. Len(w) /\ \A k \in 1 .. Len(w) : w[k] \in Seq(S)
    BY LenProperties, ElementOfSeq
<1>2. \A x \in Pieces(w) : \E k \in 1 .. Len(w) : x \in ToSet(w[k])
    BY <1>1 DEF Pieces
<1>3. \A k \in 1 .. Len(w) : ToSet(w[k]) \subseteq Pieces(w)
    BY <1>1 DEF Pieces
<1>4. \A k \in 1 .. Len(w) : ToSet(w[k]) \subseteq S
    BY <1>1, InSet
<1> QED BY <1>1, <1>2, <1>3, <1>4

\* One slice, or none.
LEMMA PiecesOne ==
    ASSUME NEW S, NEW s \in Seq(S), Sorted(s)
    PROVE  <<s>> \in Seq(Seq(S)) /\ InOrder(<<s>>) /\ Pieces(<<s>>) = ToSet(s)
<1>1. <<s>> \in Seq(Seq(S)) /\ DOMAIN <<s>> = {1} /\ <<s>>[1] = s
    OBVIOUS
<1>2. InOrder(<<s>>)
    BY <1>1 DEF InOrder
<1>3. Pieces(<<s>>) = ToSet(s)
    BY <1>1 DEF Pieces
<1> QED BY <1>1, <1>2, <1>3

LEMMA PiecesNone ==
    ASSUME NEW S
    PROVE  <<>> \in Seq(Seq(S)) /\ InOrder(<<>>) /\ Pieces(<<>>) = {} /\ <<>> \in Seq(S) /\ Sorted(<<>>) /\ ToSet(<<>>) = {}
<1>1. DOMAIN <<>> = {}
    OBVIOUS
<1>2. <<>> \in Seq(Seq(S)) /\ <<>> \in Seq(S)
    OBVIOUS
<1>3. InOrder(<<>>) /\ Sorted(<<>>)
    BY <1>1 DEF InOrder, Sorted
<1>4. Pieces(<<>>) = {} /\ ToSet(<<>>) = {}
    BY <1>1 DEF Pieces, ToSet
<1> QED BY <1>2, <1>3, <1>4

\* The first slice and the others.
LEMMA PiecesTail ==
    ASSUME NEW S, NEW w \in Seq(Seq(S)), w # <<>>, InOrder(w)
    PROVE  /\ w[1] \in Seq(S) /\ Sorted(w[1]) /\ Tail(w) \in Seq(Seq(S)) /\ InOrder(Tail(w))
           /\ Pieces(w) = ToSet(w[1]) \cup Pieces(Tail(w)) /\ Before(ToSet(w[1]), Pieces(Tail(w)))
<1> DEFINE t == Tail(w)
<1>1. /\ t \in Seq(Seq(S)) /\ Len(t) = Len(w) - 1
      /\ \A i \in 1 .. Len(t) : t[i] = w[i + 1]
    BY HeadTailProperties
<1>2. Len(w) \in Nat \ {0} /\ DOMAIN w = 1 .. Len(w)
    BY EmptySeq, LenProperties
<1>3. DOMAIN t = 1 .. Len(w) - 1 /\ \A i \in 1 .. Len(w) - 1 : t[i] = w[i + 1] /\ i + 1 \in DOMAIN w
    BY <1>1, <1>2, LenProperties
<1> HIDE DEF t
<1>4. w[1] \in Seq(S) /\ Sorted(w[1]) /\ 1 \in DOMAIN w
    BY <1>2, ElementOfSeq DEF InOrder
<1>5. InOrder(t)
    <2>1. \A k \in DOMAIN t : Sorted(t[k])
        BY <1>3 DEF InOrder
    <2>2. ASSUME NEW j \in DOMAIN t, NEW k \in DOMAIN t, j < k PROVE Before(ToSet(t[j]), ToSet(t[k]))
        <3>1. j + 1 \in DOMAIN w /\ k + 1 \in DOMAIN w /\ j + 1 < k + 1 /\ t[j] = w[j + 1] /\ t[k] = w[k + 1]
            BY <1>2, <1>3, <2>2
        <3> QED BY <3>1 DEF InOrder
    <2> QED BY <2>1, <2>2 DEF InOrder
<1>6. ASSUME NEW x \in Pieces(t) PROVE \E k \in DOMAIN w : 1 < k /\ x \in ToSet(w[k])
    <2>1. PICK i \in 1 .. Len(w) - 1 : x \in ToSet(t[i])
        BY <1>3 DEF Pieces
    <2>2. i + 1 \in DOMAIN w /\ 1 < i + 1 /\ x \in ToSet(w[i + 1])
        BY <1>2, <1>3, <2>1
    <2> QED BY <2>2
<1>7. ASSUME NEW x \in Pieces(w), x \notin ToSet(w[1]) PROVE x \in Pieces(t)
    <2>1. PICK k \in DOMAIN w : x \in ToSet(w[k])
        BY DEF Pieces
    <2>2. k - 1 \in 1 .. Len(w) - 1 /\ (k - 1) + 1 = k
        BY <1>2, <1>7, <2>1
    <2>3. k - 1 \in DOMAIN t /\ t[k - 1] = w[k]
        BY <1>3, <2>2
    <2> QED BY <2>1, <2>3 DEF Pieces
<1>8. Pieces(w) = ToSet(w[1]) \cup Pieces(t)
    <2>1. ToSet(w[1]) \subseteq Pieces(w)
        BY <1>4 DEF Pieces
    <2>2. Pieces(t) \subseteq Pieces(w)
        BY <1>6 DEF Pieces
    <2> QED BY <1>7, <2>1, <2>2
<1>9. Before(ToSet(w[1]), Pieces(t))
    <2>1. ASSUME NEW x \in ToSet(w[1]), NEW y \in Pieces(t) PROVE x < y
        <3>1. PICK k \in DOMAIN w : 1 < k /\ y \in ToSet(w[k])
            BY <1>6
        <3>2. Before(ToSet(w[1]), ToSet(w[k]))
            BY <1>4, <3>1 DEF InOrder
        <3> QED BY <3>1, <3>2 DEF Before
    <2> QED BY <2>1 DEF Before
<1> QED BY <1>1, <1>4, <1>5, <1>8, <1>9 DEF t

\* Two halves in place of a slice.
LEMMA PiecesPair ==
    ASSUME NEW S, NEW p \in Seq(S), NEW q \in Seq(S), NEW t \in Seq(Seq(S)),
           Sorted(p), Sorted(q), InOrder(t),
           Before(ToSet(p), ToSet(q)), Before(ToSet(p), Pieces(t)), Before(ToSet(q), Pieces(t))
    PROVE  /\ <<p, q>> \o t \in Seq(Seq(S)) /\ InOrder(<<p, q>> \o t)
           /\ Pieces(<<p, q>> \o t) = ToSet(p) \cup ToSet(q) \cup Pieces(t)
<1> DEFINE h == <<p, q>>
           w == h \o t
<1>1. h \in Seq(Seq(S)) /\ Len(h) = 2 /\ h[1] = p /\ h[2] = q
    OBVIOUS
<1> HIDE DEF h
<1>2. /\ w \in Seq(Seq(S)) /\ Len(w) = 2 + Len(t)
      /\ \A i \in 1 .. 2 + Len(t) : w[i] = IF i <= 2 THEN h[i] ELSE t[i - 2]
    <2>1. /\ w \in Seq(Seq(S)) /\ Len(w) = Len(h) + Len(t)
          /\ \A i \in 1 .. Len(h) + Len(t) : w[i] = IF i <= Len(h) THEN h[i] ELSE t[i - Len(h)]
        BY <1>1, ConcatProperties
    <2> HIDE DEF w
    <2> QED BY <1>1, <2>1
<1>3. Len(t) \in Nat /\ DOMAIN t = 1 .. Len(t) /\ DOMAIN w = 1 .. 2 + Len(t)
    BY <1>2, LenProperties
<1> HIDE DEF w
<1>4. w[1] = p /\ w[2] = q /\ 1 \in DOMAIN w /\ 2 \in DOMAIN w
    BY <1>1, <1>2, <1>3
<1>5. \A i \in DOMAIN w : i = 1 \/ i = 2 \/ (i > 2 /\ i - 2 \in DOMAIN t /\ w[i] = t[i - 2])
    BY <1>2, <1>3
<1>6. ASSUME NEW k \in DOMAIN t PROVE k + 2 \in DOMAIN w /\ w[k + 2] = t[k]
    <2>1. k \in Nat /\ k + 2 \in 1 .. 2 + Len(t) /\ ~ (k + 2 <= 2) /\ (k + 2) - 2 = k
        BY <1>3
    <2> QED BY <1>2, <1>3, <2>1
<1>7. \A i \in DOMAIN w : i > 2 => ToSet(w[i]) \subseteq Pieces(t)
    BY <1>5 DEF Pieces
<1>8. InOrder(w)
    <2>1. \A k \in DOMAIN w : Sorted(w[k])
        BY <1>4, <1>5 DEF InOrder
    <2>2. ASSUME NEW j \in DOMAIN w, NEW k \in DOMAIN w, j < k PROVE Before(ToSet(w[j]), ToSet(w[k]))
        <3>1. CASE j = 1 /\ k = 2
            BY <1>4, <3>1
        <3>2. CASE j = 1 /\ k > 2
            <4>1. Before(ToSet(p), ToSet(w[k]))
                BY <1>7, <3>2 DEF Before
            <4> QED BY <1>4, <3>2, <4>1
        <3>3. CASE j = 2 /\ k > 2
            <4>1. Before(ToSet(q), ToSet(w[k]))
                BY <1>7, <3>3 DEF Before
            <4> QED BY <1>4, <3>3, <4>1
        <3>4. CASE j > 2 /\ k > 2
            <4>1. j - 2 \in DOMAIN t /\ k - 2 \in DOMAIN t /\ w[j] = t[j - 2] /\ w[k] = t[k - 2]
                BY <1>5, <3>4
            <4>2. j - 2 < k - 2
                BY <1>3, <2>2
            <4> QED BY <4>1, <4>2 DEF InOrder
        <3>5. j \in Nat /\ k \in Nat /\ j >= 1 /\ k >= 1
            BY <1>3
        <3> QED BY <2>2, <3>1, <3>2, <3>3, <3>4, <3>5
    <2> QED BY <2>1, <2>2 DEF InOrder
<1>9. Pieces(w) \subseteq ToSet(p) \cup ToSet(q) \cup Pieces(t)
    <2>1. ASSUME NEW x \in Pieces(w) PROVE x \in ToSet(p) \cup ToSet(q) \cup Pieces(t)
        <3>1. PICK i \in DOMAIN w : x \in ToSet(w[i])
            BY DEF Pieces
        <3> QED BY <1>4, <1>5, <1>7, <3>1
    <2> QED BY <2>1
<1>10. ToSet(p) \cup ToSet(q) \subseteq Pieces(w)
    BY <1>4 DEF Pieces
<1>11. Pieces(t) \subseteq Pieces(w)
    <2>1. ASSUME NEW x \in Pieces(t) PROVE x \in Pieces(w)
        <3>1. PICK k \in DOMAIN t : x \in ToSet(t[k])
            BY DEF Pieces
        <3>2. k + 2 \in DOMAIN w /\ x \in ToSet(w[k + 2])
            BY <1>6, <3>1
        <3> QED BY <3>2 DEF Pieces
    <2> QED BY <2>1
<1> QED BY <1>2, <1>8, <1>9, <1>10, <1>11 DEF h, w

IsFlat(g, w, n) == g = [i \in 1 .. n |-> IF i = 1 THEN w[i] ELSE g[i - 1] \o w[i]]

LEMMA FlatExists ==
    ASSUME NEW w, NEW n \in Nat
    PROVE  \E g : IsFlat(g, w, n)
<1> DEFINE T == {m \in Nat : \E g : IsFlat(g, w, m)}
<1>1. 0 \in T
    <2> DEFINE g == [i \in 1 .. 0 |-> w[i]]
    <2>1. IsFlat(g, w, 0)
        BY DEF IsFlat
    <2> QED BY <2>1
<1>2. ASSUME NEW m \in T PROVE m + 1 \in T
    <2>1. PICK g : IsFlat(g, w, m)
        OBVIOUS
    <2> DEFINE b == IF m + 1 = 1 THEN w[m + 1] ELSE g[m] \o w[m + 1]
               h == [i \in 1 .. m + 1 |-> IF i = m + 1 THEN b ELSE g[i]]
    <2>2. m \in Nat
        OBVIOUS
    <2>3. \A i \in 1 .. m : g[i] = IF i = 1 THEN w[i] ELSE g[i - 1] \o w[i]
        BY <2>1 DEF IsFlat
    <2>4. \A i \in 1 .. m + 1 : h[i] = IF i = 1 THEN w[i] ELSE h[i - 1] \o w[i]
        BY <2>2, <2>3
    <2>5. IsFlat(h, w, m + 1)
        BY <2>4 DEF IsFlat
    <2> QED BY <2>2, <2>5
<1>3. T = Nat
    <2> HIDE DEF T
    <2>1. T \subseteq Nat
        BY DEF T
    <2> QED BY <1>1, <1>2, <2>1, Induction
<1> QED BY <1>3

\* The slices put together: the same rows, in order.
LEMMA Flatten ==
    ASSUME NEW S \in SUBSET Nat, NEW w \in Seq(Seq(S)), InOrder(w)
    PROVE  FlattenSeq(w) \in Seq(S) /\ Sorted(FlattenSeq(w)) /\ ToSet(FlattenSeq(w)) = Pieces(w)
<1>1. Len(w) \in Nat /\ DOMAIN w = 1 .. Len(w) /\ \A k \in 1 .. Len(w) : w[k] \in Seq(S)
    BY LenProperties, ElementOfSeq
<1>2. CASE w = <<>>
    <2>1. FlattenSeq(w) = <<>>
        BY <1>2 DEF FlattenSeq
    <2> QED BY <1>2, <2>1, PiecesNone
<1>3. CASE w # <<>>
    <2>1. Len(w) # 0 /\ Len(w) \in 1 .. Len(w)
        BY <1>1, <1>3, EmptySeq
    <2> DEFINE h == CHOOSE g : g = [i \in 1 .. Len(w) |-> IF i = 1 THEN w[i] ELSE g[i - 1] \o w[i]]
    <2>2. IsFlat(h, w, Len(w))
        <3>1. \E g : IsFlat(g, w, Len(w))
            BY <1>1, FlatExists
        <3> QED BY <3>1 DEF IsFlat
    <2>3. FlattenSeq(w) = h[Len(w)]
        BY <2>1 DEF FlattenSeq
    <2> HIDE DEF h
    <2>4. \A i \in 1 .. Len(w) : h[i] = IF i = 1 THEN w[i] ELSE h[i - 1] \o w[i]
        BY <2>2 DEF IsFlat
    <2> DEFINE First(i) == UNION {ToSet(w[k]) : k \in 1 .. i}
               Good(i) == h[i] \in Seq(S) /\ Sorted(h[i]) /\ ToSet(h[i]) = First(i)
               T == {i \in Nat : i + 1 <= Len(w) => Good(i + 1)}
    <2>5. 0 \in T
        <3>1. h[1] = w[1] /\ 1 \in 1 .. Len(w)
            BY <1>1, <2>1, <2>4
        <3>2. First(1) = ToSet(w[1])
            OBVIOUS
        <3>3. w[1] \in Seq(S) /\ Sorted(w[1])
            BY <1>1, <3>1 DEF InOrder
        <3>4. Good(1) /\ 0 + 1 = 1
            BY <3>1, <3>2, <3>3
        <3> QED BY <3>4
    <2>6. ASSUME NEW i \in T PROVE i + 1 \in T
        <3>1. CASE (i + 1) + 1 <= Len(w)
            <4> DEFINE a == i + 1
            <4>1. /\ a \in Nat /\ a \in 1 .. Len(w) /\ a + 1 \in 1 .. Len(w) /\ a + 1 # 1 /\ (a + 1) - 1 = a
                  /\ i \in Nat /\ i + 1 <= Len(w)
                BY <1>1, <3>1
            <4>2. Good(a)
                BY <4>1
            <4> HIDE DEF a
            <4>3. h[a + 1] = h[a] \o w[a + 1]
                BY <2>4, <4>1
            <4>4. w[a + 1] \in Seq(S) /\ Sorted(w[a + 1])
                BY <1>1, <4>1 DEF InOrder
            <4>5. Before(First(a), ToSet(w[a + 1]))
                <5>1. ASSUME NEW x \in First(a), NEW y \in ToSet(w[a + 1]) PROVE x < y
                    <6>1. PICK k \in 1 .. a : x \in ToSet(w[k])
                        OBVIOUS
                    <6>2. k \in DOMAIN w /\ a + 1 \in DOMAIN w /\ k < a + 1
                        BY <1>1, <4>1
                    <6>3. Before(ToSet(w[k]), ToSet(w[a + 1]))
                        BY <6>2 DEF InOrder
                    <6> QED BY <6>1, <6>3 DEF Before
                <5> QED BY <5>1 DEF Before
            <4>6. First(a + 1) = First(a) \cup ToSet(w[a + 1])
                <5>1. 1 .. (a + 1) = (1 .. a) \cup {a + 1}
                    BY <4>1
                <5> QED BY <5>1
            <4> HIDE DEF First
            <4>7. Good(a + 1)
                <5>1. h[a + 1] \in Seq(S) /\ ToSet(h[a + 1]) = ToSet(h[a]) \cup ToSet(w[a + 1])
                    BY <4>2, <4>3, <4>4, CatSet
                <5>2. Sorted(h[a + 1])
                    BY <4>2, <4>3, <4>4, <4>5, SortedCat
                <5> QED BY <4>2, <4>6, <5>1, <5>2
            <4> HIDE DEF Good
            <4> QED BY <4>1, <4>7 DEF a
        <3>2. i \in Nat
            OBVIOUS
        <3> QED BY <3>1, <3>2
    <2>7. T = Nat
        <3> HIDE DEF T
        <3>1. T \subseteq Nat
            BY DEF T
        <3> QED BY <2>5, <2>6, <3>1, Induction
    <2>8. Good(Len(w))
        <3>1. Len(w) - 1 \in Nat /\ (Len(w) - 1) + 1 = Len(w)
            BY <1>1, <2>1
        <3> HIDE DEF Good, T
        <3>2. Len(w) - 1 \in T
            BY <2>7, <3>1
        <3>3. (Len(w) - 1) + 1 <= Len(w) => Good((Len(w) - 1) + 1)
            BY <3>2 DEF T
        <3> QED BY <1>1, <3>1, <3>3
    <2>9. First(Len(w)) = Pieces(w)
        BY <1>1 DEF Pieces
    <2> QED BY <2>3, <2>8, <2>9
<1> QED BY <1>2, <1>3

-----------------------------------------------------------------------------
(* trimLocked.                                                              *)

\* What is cut is the oldest, what is left is within the limits, and the weights add up.
LEMMA TrimCuts ==
    ASSUME NEW n \in Nat, NEW s \in Seq(1 .. n), Sorted(s)
    PROVE  LET drop == Trim(s, Bytes(feed, s))
               out == SubSeq(s, 1, drop)
               rest == SubSeq(s, drop + 1, Len(s))
           IN  /\ drop \in 0 .. Len(s) /\ Len(out) = drop /\ out \in Seq(1 .. n) /\ rest \in Seq(1 .. n)
               /\ Sorted(out) /\ Sorted(rest) /\ ToSet(s) = ToSet(out) \cup ToSet(rest) /\ Before(ToSet(out), ToSet(rest))
               /\ Bytes(feed, s) - Bytes(feed, out) = Bytes(feed, rest) /\ Len(rest) <= MaxBuf
               /\ Bytes(feed, rest) > MaxBytes => Len(rest) = 1
<1>1. Len(s) \in Nat /\ MaxBuf \in Nat /\ MaxBytes \in Nat
    BY BatcherAssumption
<1> DEFINE K == {k \in 0 .. Len(s) :
                    /\ Len(s) - k <= MaxBuf
                    /\ Len(s) - k <= 1 \/ Bytes(feed, s) - Bytes(feed, SubSeq(s, 1, k)) <= MaxBytes}
           drop == Trim(s, Bytes(feed, s))
           out == SubSeq(s, 1, drop)
           rest == SubSeq(s, drop + 1, Len(s))
<1>2. drop = CHOOSE x \in K : \A y \in K : x <= y
    BY DEF Trim, Min
<1>3. Len(s) \in K /\ K \subseteq Nat
    BY <1>1
<1>4. \E x \in K : \A y \in K : x <= y
    BY <1>3, LeastNat
<1>5. drop \in K
    BY <1>2, <1>4
<1>6. drop \in 0 .. Len(s) /\ Len(s) - drop <= MaxBuf
    BY <1>5
<1>7. Len(s) - drop <= 1 \/ Bytes(feed, s) - Bytes(feed, out) <= MaxBytes
    BY <1>5
<1> HIDE DEF K, drop
<1>8. 1 .. n \in SUBSET Nat
    OBVIOUS
<1>9. /\ out \in Seq(1 .. n) /\ rest \in Seq(1 .. n) /\ Len(out) = drop /\ Len(rest) = Len(s) - drop /\ out \o rest = s
      /\ ToSet(s) = ToSet(out) \cup ToSet(rest)
      /\ Sorted(out) /\ Sorted(rest) /\ Before(ToSet(out), ToSet(rest))
    <2>1. \A k \in 0 .. Len(s) :
             LET p == SubSeq(s, 1, k)
                 q == SubSeq(s, k + 1, Len(s))
             IN  /\ p \in Seq(1 .. n) /\ q \in Seq(1 .. n) /\ Len(p) = k /\ Len(q) = Len(s) - k /\ p \o q = s
                 /\ ToSet(s) = ToSet(p) \cup ToSet(q)
                 /\ Sorted(s) => Sorted(p) /\ Sorted(q) /\ Before(ToSet(p), ToSet(q))
        BY <1>8, Cut
    <2> QED BY <1>6, <2>1, Zenon
<1> HIDE DEF out, rest
<1>10. Bytes(feed, s) = Bytes(feed, out) + Bytes(feed, rest)
    BY <1>9, BytesCat
<1>11. Bytes(feed, out) \in Nat /\ Bytes(feed, rest) \in Nat /\ (rest = <<>> => Bytes(feed, rest) = 0)
    BY <1>9, BytesNat
<1>12. Bytes(feed, s) - Bytes(feed, out) = Bytes(feed, rest)
    BY <1>10, <1>11
<1>13. Len(rest) = 0 => rest = <<>>
    BY <1>9, EmptySeq
<1>14. Bytes(feed, rest) > MaxBytes => Len(rest) = 1
    <2>1. CASE Len(s) - drop <= 1
        <3>1. Len(rest) \in Nat /\ Len(rest) <= 1
            BY <1>1, <1>6, <1>9, <2>1
        <3>2. CASE Len(rest) = 0
            BY <1>1, <1>11, <1>13, <3>2
        <3>3. Len(rest) = 0 \/ Len(rest) = 1
            <4>1. PICK r \in Nat : r = Len(rest)
                BY <3>1
            <4>2. r <= 1
                BY <3>1, <4>1
            <4> QED BY <4>1, <4>2
        <3> QED BY <3>2, <3>3
    <2>2. CASE Bytes(feed, s) - Bytes(feed, out) <= MaxBytes
        BY <1>1, <1>11, <1>12, <2>2
    <2> QED BY <1>7, <2>1, <2>2
<1> QED BY <1>6, <1>9, <1>12, <1>14 DEF out, rest, drop

-----------------------------------------------------------------------------
(* The inductive invariant of the Batcher.                                  *)

BatcherTypes ==
    /\ feed \in Feeds /\ added \in 0 .. Len(feed)
    /\ buf \in Seq(1 .. added) /\ unresolved \in Seq(1 .. added) /\ work \in Seq(Seq(1 .. added))
    /\ written \in [Rows -> Nat]
    /\ dropped \in Nat /\ reported \in Nat /\ refused \in Nat
    /\ overflowed \in SUBSET (1 .. added) /\ poisoned \in SUBSET (1 .. added)

\* Outside the isolation one batch is in flight at most, and nothing of it is decided.
PhaseInv ==
    /\ phase = "idle" => work = <<>> /\ unresolved = <<>> /\ refused = 0
    /\ phase = "insert" => work # <<>> /\ Tail(work) = <<>> /\ unresolved = <<>> /\ refused = 0

\* What came back from the isolation, what it has still to insert, and the buffer.
OrderInv ==
    /\ Sorted(unresolved) /\ InOrder(work) /\ Sorted(buf)
    /\ Before(ToSet(unresolved), Pieces(work))
    /\ Before(ToSet(unresolved) \cup Pieces(work), ToSet(buf))

LimitInv ==
    /\ bufBytes = Bytes(feed, buf)
    /\ Len(buf) <= MaxBuf /\ (bufBytes > MaxBytes => Len(buf) = 1)

\* Each of the n rows that came is in W, O, P or A or written, and but for those in D in
\* one of them and written once; no other row is written.
Fate(n, R, W, O, P, A, D, wr) ==
    /\ \A i \in 1 .. n : i \in W \cup O \cup P \cup A \/ wr[i] > 0
    /\ W \cap O = {} /\ W \cap P = {} /\ W \cap A = {} /\ O \cap P = {} /\ O \cap A = {} /\ P \cap A = {}
    /\ W \cup O \cup P \cup A \subseteq 1 .. n
    /\ \A i \in R : i > n => wr[i] = 0
    /\ \A i \in (1 .. n) \ D : wr[i] <= 1 /\ (wr[i] = 1 => i \notin W \cup O \cup P \cup A)

FateInv == Fate(added, Rows, Waiting, overflowed, poisoned, abandoned, doubtful, written)

CountInv ==
    /\ mode # "closed" => dropped + refused = Cardinality(overflowed) + Cardinality(poisoned)
    /\ reported = Cardinality(overflowed)
    /\ \A i \in poisoned : feed[i].kind = "poison"

BInv == BatcherTypes /\ PhaseInv /\ OrderInv /\ LimitInv /\ FateInv /\ CountInv

-----------------------------------------------------------------------------
(* The inductive invariant of the purge.                                    *)

\* Only what was created has rows, in the process, in the tables or in a scan.
CreatedInv ==
    /\ status \in [Projects -> {"none", "live", "deleted"}]
    /\ \A i \in 1 .. added : status[feed[i].project] # "none"
    /\ table \subseteq 1 .. added
    /\ \A w \in Workers : \A p \in seen[w] : p \in Projects /\ status[p] # "none"

\* Requests, and what workers hold of them, are about deleted projects.
RequestInv ==
    /\ queue \in Seq(Projects) /\ ToSet(queue) \subseteq Deleted
    /\ cur \in [Workers -> Projects \cup {Nobody}] /\ \A w \in Workers : cur[w] # Nobody => cur[w] \in Deleted
    /\ wpc \in [Workers -> {"idle", "claim", "purge", "done", "live"}]
    /\ \A w \in Workers : wpc[w] \in {"purge", "done"} => cur[w] # Nobody
    /\ seen \in [Workers -> SUBSET Projects]

\* When a request ends, or is about to, only rows written after the deletion are left.
GoneInv ==
    /\ \A p \in Deleted \ ToSet(queue) : table \cap RowsOf(p) \subseteq afterwards
    /\ \A w \in Workers : wpc[w] = "done" => table \cap RowsOf(cur[w]) \subseteq afterwards

PInv == CreatedInv /\ RequestInv /\ GoneInv

IInv == BInv /\ PInv

-----------------------------------------------------------------------------
(* The rows change places.                                                  *)

LEMMA Apart ==
    ASSUME NEW X \in SUBSET Nat, NEW Y, Before(X, Y)
    PROVE  X \cap Y = {}
<1> SUFFICES ASSUME NEW x \in X, x \in Y PROVE FALSE
    OBVIOUS
<1>1. x \in Nat /\ x < x
    BY DEF Before
<1> QED BY <1>1

LEMMA FiniteRows ==
    ASSUME NEW n \in Nat, NEW X \in SUBSET (1 .. n)
    PROVE  IsFiniteSet(X) /\ Cardinality(X) \in Nat
<1>1. IsFiniteSet(1 .. n)
    BY FS_Interval
<1>2. IsFiniteSet(X)
    BY <1>1, FS_Subset
<1> QED BY <1>2, FS_CardinalityType

\* A row comes.
LEMMA FateComes ==
    ASSUME NEW n \in Nat, NEW R, NEW W, NEW O, NEW P, NEW A, NEW D, NEW wr \in [R -> Nat], n + 1 \in R,
           Fate(n, R, W, O, P, A, D, wr), 1 .. n \subseteq R, R \subseteq Nat
    PROVE  Fate(n + 1, R, W \cup {n + 1}, O, P, A, D, wr)
<1> DEFINE m == n + 1
<1>1. m \in Nat /\ m > n /\ m \notin 1 .. n /\ 1 .. m = (1 .. n) \cup {m}
    OBVIOUS
<1>2. wr[m] = 0
    BY <1>1 DEF Fate
<1>3. m \notin W \cup O \cup P \cup A
    BY <1>1 DEF Fate
<1>4. \A i \in R : i > m => i > n
    OBVIOUS
<1> HIDE DEF m
<1>5. \A i \in 1 .. m : i \in (W \cup {m}) \cup O \cup P \cup A \/ wr[i] > 0
    BY <1>1 DEF Fate
<1>6. \A i \in (1 .. m) \ D : wr[i] <= 1 /\ (wr[i] = 1 => i \notin (W \cup {m}) \cup O \cup P \cup A)
    <2>1. \A i \in (1 .. n) \ D : wr[i] <= 1 /\ (wr[i] = 1 => i \notin (W \cup {m}) \cup O \cup P \cup A)
        BY <1>1 DEF Fate
    <2> QED BY <1>1, <1>2, <2>1
<1>7. (W \cup {m}) \cup O \cup P \cup A \subseteq 1 .. m
    BY <1>1 DEF Fate
<1> QED BY <1>3, <1>4, <1>5, <1>6, <1>7 DEF Fate, m

\* Waiting rows overflow, are refused or are abandoned.
LEMMA FateMoves ==
    ASSUME NEW n, NEW R, NEW W, NEW O, NEW P, NEW A, NEW D, NEW wr, NEW V, NEW X,
           Fate(n, R, W, O, P, A, D, wr), W = V \cup X, V \cap X = {}
    PROVE  /\ Fate(n, R, V, O \cup X, P, A, D, wr)
           /\ Fate(n, R, V, O, P \cup X, A, D, wr)
           /\ Fate(n, R, V, O, P, A \cup X, D, wr)
BY DEF Fate

\* Waiting rows are written and stay, in doubt.
LEMMA FateDoubt ==
    ASSUME NEW n \in Nat, NEW R, NEW W, NEW O, NEW P, NEW A, NEW D, NEW wr \in [R -> Nat], NEW X \in SUBSET W,
           Fate(n, R, W, O, P, A, D, wr), R \subseteq Nat, 1 .. n \subseteq R,
           NEW nw, \A i \in R : nw[i] = wr[i] + (IF i \in X THEN 1 ELSE 0)
    PROVE  Fate(n, R, W, O, P, A, D \cup X, nw)
<1>1. X \subseteq 1 .. n
    BY DEF Fate
<1>2. \A i \in R : nw[i] \in Nat /\ (i \notin X => nw[i] = wr[i]) /\ (i \in X => nw[i] = wr[i] + 1)
    OBVIOUS
<1>3. \A i \in R : i > n => nw[i] = 0
    BY <1>1, <1>2 DEF Fate
<1>4. \A i \in 1 .. n : i \in W \cup O \cup P \cup A \/ nw[i] > 0
    BY <1>2 DEF Fate
<1>5. \A i \in (1 .. n) \ (D \cup X) : nw[i] <= 1 /\ (nw[i] = 1 => i \notin W \cup O \cup P \cup A)
    BY <1>2 DEF Fate
<1> QED BY <1>3, <1>4, <1>5 DEF Fate

\* Waiting rows are written.
LEMMA FateWritten ==
    ASSUME NEW n \in Nat, NEW R, NEW O, NEW P, NEW A, NEW D, NEW wr \in [R -> Nat], NEW V, NEW X,
           Fate(n, R, V \cup X, O, P, A, D, wr), R \subseteq Nat, 1 .. n \subseteq R, V \cap X = {},
           NEW nw, \A i \in R : nw[i] = wr[i] + (IF i \in X THEN 1 ELSE 0)
    PROVE  Fate(n, R, V, O, P, A, D, nw)
<1>1. X \subseteq 1 .. n
    BY DEF Fate
<1>2. \A i \in R : nw[i] \in Nat /\ wr[i] \in Nat /\ (i \notin X => nw[i] = wr[i]) /\ (i \in X => nw[i] = wr[i] + 1)
    OBVIOUS
<1>3. \A i \in R : i > n => nw[i] = 0
    BY <1>1, <1>2 DEF Fate
<1>4. \A i \in 1 .. n : i \in V \cup O \cup P \cup A \/ nw[i] > 0
    <2>1. \A i \in X : nw[i] > 0
        BY <1>1, <1>2
    <2> QED BY <1>2, <2>1 DEF Fate
<1>5. \A i \in (1 .. n) \ D : nw[i] <= 1 /\ (nw[i] = 1 => i \notin V \cup O \cup P \cup A)
    <2>1. ASSUME NEW i \in (1 .. n) \ D, i \in X PROVE nw[i] = 1 /\ i \notin V \cup O \cup P \cup A
        <3>1. wr[i] <= 1 /\ wr[i] # 1 /\ i \in R
            BY <2>1 DEF Fate
        <3>2. wr[i] = 0
            BY <1>2, <3>1
        <3> QED BY <1>2, <2>1, <3>1, <3>2 DEF Fate
    <2>2. ASSUME NEW i \in (1 .. n) \ D, i \notin X PROVE nw[i] <= 1 /\ (nw[i] = 1 => i \notin V \cup O \cup P \cup A)
        BY <1>2, <2>2 DEF Fate
    <2> QED BY <2>1, <2>2
<1> QED BY <1>3, <1>4, <1>5 DEF Fate

-----------------------------------------------------------------------------
(* What every step of the Batcher uses.                                     *)

\* The number of rows that came, as a rigid value.
LEMMA Known ==
    ASSUME BatcherTypes
    PROVE  /\ added \in Nat /\ Len(feed) \in Nat /\ Rows = 1 .. Len(feed) /\ Rows \subseteq Nat
           /\ 1 .. added \subseteq Rows /\ 1 .. added \in SUBSET Nat /\ feed \in Seq([kind : Kinds, project : Projects])
<1>1. feed \in Seq([kind : Kinds, project : Projects])
    BY BatcherAssumption DEF BatcherTypes
<1>2. Len(feed) \in Nat /\ DOMAIN feed = 1 .. Len(feed)
    BY <1>1, LenProperties
<1>3. added \in 0 .. Len(feed)
    BY DEF BatcherTypes
<1> QED BY <1>1, <1>2, <1>3 DEF Rows

LEMMA WaitingIs == Waiting = ToSet(buf) \cup ToSet(unresolved) \cup Pieces(work)
BY DEF Waiting, Flight, Pieces

\* Of s, the rows out overflow, after lost rows were refused.
Overflow(s, out, lost) ==
    /\ Sorted(out) /\ ToSet(s) = ToSet(out) \cup ToSet(buf') /\ ToSet(out) \cap ToSet(buf') = {}
    /\ overflowed' = overflowed \cup ToSet(out)
    /\ dropped' = dropped + Len(out) + lost /\ reported' = reported + Len(out)

\* The buffer after rows returned to it or came.
LEMMA RefillStep ==
    ASSUME NEW n \in Nat, NEW s \in Seq(1 .. n), Sorted(s), NEW lost \in Nat, Refill(s, Bytes(feed, s), lost), feed' = feed
    PROVE  /\ buf' \in Seq(1 .. n) /\ Sorted(buf') /\ LimitInv'
           /\ \E out \in Seq(1 .. n) : Overflow(s, out, lost)
<1> DEFINE drop == Trim(s, Bytes(feed, s))
           out == SubSeq(s, 1, drop)
           rest == SubSeq(s, drop + 1, Len(s))
<1>1. /\ buf' = rest /\ bufBytes' = Bytes(feed, s) - Bytes(feed, out)
      /\ dropped' = dropped + drop + lost /\ reported' = reported + drop
      /\ overflowed' = overflowed \cup ToSet(out)
    BY DEF Refill
<1>2. /\ drop \in 0 .. Len(s) /\ Len(out) = drop /\ out \in Seq(1 .. n) /\ rest \in Seq(1 .. n)
      /\ Sorted(out) /\ Sorted(rest) /\ ToSet(s) = ToSet(out) \cup ToSet(rest) /\ Before(ToSet(out), ToSet(rest))
      /\ Bytes(feed, s) - Bytes(feed, out) = Bytes(feed, rest) /\ Len(rest) <= MaxBuf
      /\ Bytes(feed, rest) > MaxBytes => Len(rest) = 1
    BY TrimCuts
<1> HIDE DEF drop, out, rest
<1>3. ToSet(out) \cap ToSet(rest) = {}
    <2>1. ToSet(out) \in SUBSET Nat
        <3>1. ToSet(out) \subseteq 1 .. n
            BY <1>2, InSet
        <3> QED BY <3>1
    <2> QED BY <1>2, <2>1, Apart
<1>4. LimitInv'
    BY <1>1, <1>2 DEF LimitInv
<1>5. Overflow(s, out, lost)
    BY <1>1, <1>2, <1>3 DEF Overflow
<1> QED BY <1>1, <1>2, <1>4, <1>5

\* A step that puts s into the buffer, whatever it leaves in flight.
LEMMA Refilled ==
    ASSUME BInv, NEW n \in Nat, added' = n, added <= n, NEW s \in Seq(1 .. n), Sorted(s),
           NEW lost \in Nat, Refill(s, Bytes(feed, s), lost), refused' \in Nat, lost + refused' = refused,
           UNCHANGED <<feed, mode, poisoned, abandoned>>,
           unresolved' \in Seq(1 .. n), work' \in Seq(Seq(1 .. n)),
           Before(ToSet(unresolved') \cup Pieces(work'), ToSet(s)),
           Fate(n, Rows, ToSet(s) \cup ToSet(unresolved') \cup Pieces(work'),
                overflowed, poisoned, abandoned, doubtful', written')
    PROVE  /\ buf' \in Seq(1 .. n) /\ Sorted(buf') /\ Before(ToSet(unresolved') \cup Pieces(work'), ToSet(buf'))
           /\ LimitInv' /\ FateInv' /\ CountInv'
           /\ overflowed' \in SUBSET (1 .. n) /\ dropped' \in Nat /\ reported' \in Nat
<1> DEFINE F == ToSet(unresolved') \cup Pieces(work')
<1>0. feed' = feed /\ mode' = mode /\ poisoned' = poisoned /\ abandoned' = abandoned
    OBVIOUS
<1>14. PICK out \in Seq(1 .. n) : Overflow(s, out, lost)
    BY <1>0, RefillStep
<1>1. /\ Sorted(out) /\ ToSet(s) = ToSet(out) \cup ToSet(buf') /\ ToSet(out) \cap ToSet(buf') = {}
      /\ overflowed' = overflowed \cup ToSet(out)
      /\ dropped' = dropped + Len(out) + lost /\ reported' = reported + Len(out)
    BY <1>14 DEF Overflow
<1>2. buf' \in Seq(1 .. n) /\ Sorted(buf') /\ LimitInv'
    BY <1>0, RefillStep
<1>3. Before(F, ToSet(buf'))
    BY <1>1 DEF Before
<1>4. F \cap ToSet(s) = {}
    <2>1. ToSet(unresolved') \subseteq 1 .. n /\ Pieces(work') \subseteq 1 .. n
        BY InSet, InPieces
    <2>2. F \in SUBSET Nat
        BY <2>1
    <2> HIDE DEF F
    <2> QED BY <2>2, Apart DEF F
<1>5. FateInv'
    <2>1. ToSet(s) \cup F = (ToSet(buf') \cup F) \cup ToSet(out) /\ (ToSet(buf') \cup F) \cap ToSet(out) = {}
        BY <1>1, <1>4
    <2>2. Fate(n, Rows, ToSet(s) \cup F, overflowed, poisoned, abandoned, doubtful', written')
        <3>1. ToSet(s) \cup ToSet(unresolved') \cup Pieces(work') = ToSet(s) \cup F
            OBVIOUS
        <3> QED BY <3>1
    <2>3. Fate(n, Rows, ToSet(buf') \cup F, overflowed \cup ToSet(out), poisoned, abandoned, doubtful', written')
        BY <2>1, <2>2, FateMoves
    <2>4. Waiting' = ToSet(buf') \cup F
        BY WaitingIs DEF Waiting, Flight, Pieces
    <2>5. Rows' = Rows
        BY DEF Rows
    <2> QED BY <1>1, <2>3, <2>4, <2>5 DEF FateInv
<1>6. overflowed \cap ToSet(out) = {}
    BY <1>1 DEF Fate
<1>7. added \in Nat /\ overflowed \in SUBSET (1 .. added) /\ poisoned \in SUBSET (1 .. added) /\ dropped \in Nat /\ reported \in Nat /\ refused \in Nat
    BY Known DEF BInv, BatcherTypes
<1>8. 1 .. added \subseteq 1 .. n /\ ToSet(out) \subseteq 1 .. n /\ Len(out) \in Nat
    BY <1>7, InSet
<1>9. IsFiniteSet(overflowed) /\ Cardinality(overflowed) \in Nat /\ Cardinality(poisoned) \in Nat
    BY <1>7, FiniteRows
<1>10. Cardinality(overflowed') = Cardinality(overflowed) + Len(out)
    <2>1. 1 .. n \in SUBSET Nat
        OBVIOUS
    <2> QED BY <1>1, <1>6, <1>9, <2>1, JoinCount
<1>11. overflowed' \in SUBSET (1 .. n) /\ dropped' \in Nat /\ reported' \in Nat
    <2>1. overflowed' \in SUBSET (1 .. n)
        BY <1>1, <1>7, <1>8
    <2>2. dropped' \in Nat /\ reported' \in Nat
        BY <1>1, <1>7, <1>8
    <2> QED BY <2>1, <2>2
<1>12. CountInv'
    <2>1. reported' = Cardinality(overflowed')
        BY <1>1, <1>10 DEF BInv, CountInv
    <2>2. ASSUME mode # "closed" PROVE dropped' + refused' = Cardinality(overflowed') + Cardinality(poisoned)
        <3>1. dropped + refused = Cardinality(overflowed) + Cardinality(poisoned)
            BY <2>2 DEF BInv, CountInv
        <3>2. PICK o \in Nat, p \in Nat, l \in Nat : o = Cardinality(overflowed) /\ p = Cardinality(poisoned) /\ l = Len(out)
            BY <1>8, <1>9
        <3>3. dropped + refused = o + p /\ dropped' = dropped + l + lost /\ lost + refused' = refused
            BY <1>1, <3>1, <3>2
        <3>4. PICK d \in Nat, r \in Nat, q \in Nat : d = dropped /\ r = refused /\ q = refused'
            BY <1>7
        <3>5. d + r = o + p /\ dropped' = d + l + lost /\ lost + q = r
            BY <3>3, <3>4
        <3>6. (d + l + lost) + q = (o + l) + p
            BY <3>5
        <3> QED BY <1>10, <3>2, <3>4, <3>5, <3>6
    <2>3. \A i \in poisoned : feed[i].kind = "poison"
        BY DEF BInv, CountInv
    <2> QED BY <2>1, <2>2, <2>3 DEF CountInv
<1> QED BY <1>2, <1>3, <1>5, <1>11, <1>12

\* The outcomes of an INSERT that is reported as failed.
LEMMA FailsStep ==
    ASSUME BInv, NEW s \in Seq(1 .. added), ToSet(s) \subseteq Waiting, FailsAsPoison(s) \/ FailsInPassing(s)
    PROVE  /\ written' \in [Rows -> Nat]
           /\ Fate(added, Rows, Waiting, overflowed, poisoned, abandoned, doubtful', written')
<1>1. /\ added \in Nat /\ Rows \subseteq Nat /\ 1 .. added \subseteq Rows /\ written \in [Rows -> Nat]
      /\ Fate(added, Rows, Waiting, overflowed, poisoned, abandoned, doubtful, written)
    BY Known DEF BInv, BatcherTypes, FateInv
<1>2. CASE UNCHANGED <<written, doubtful>>
    BY <1>1, <1>2
<1>3. CASE Store(s) /\ doubtful' = doubtful \cup ToSet(s)
    <2>1. written' = [i \in Rows |-> written[i] + (IF i \in ToSet(s) THEN 1 ELSE 0)]
        BY <1>3 DEF Store
    <2>2. /\ written' \in [Rows -> Nat]
          /\ \A i \in Rows : written'[i] = written[i] + (IF i \in ToSet(s) THEN 1 ELSE 0)
        BY <1>1, <2>1
    <2>3. ToSet(s) \in SUBSET Waiting
        OBVIOUS
    <2>4. Fate(added, Rows, Waiting, overflowed, poisoned, abandoned, doubtful \cup ToSet(s), written')
        BY <1>1, <2>2, <2>3, FateDoubt
    <2> QED BY <1>3, <2>2, <2>4
<1> QED BY <1>2, <1>3 DEF FailsAsPoison, FailsInPassing

\* An INSERT that is applied.
LEMMA StoreStep ==
    ASSUME BInv, NEW s \in Seq(1 .. added), NEW V, Waiting = V \cup ToSet(s), V \cap ToSet(s) = {}, Store(s)
    PROVE  /\ written' \in [Rows -> Nat]
           /\ Fate(added, Rows, V, overflowed, poisoned, abandoned, doubtful, written')
<1>1. /\ added \in Nat /\ Rows \subseteq Nat /\ 1 .. added \subseteq Rows /\ written \in [Rows -> Nat]
      /\ Fate(added, Rows, Waiting, overflowed, poisoned, abandoned, doubtful, written)
    BY Known DEF BInv, BatcherTypes, FateInv
<1>2. written' = [i \in Rows |-> written[i] + (IF i \in ToSet(s) THEN 1 ELSE 0)]
    BY DEF Store
<1>3. /\ written' \in [Rows -> Nat]
      /\ \A i \in Rows : written'[i] = written[i] + (IF i \in ToSet(s) THEN 1 ELSE 0)
    BY <1>1, <1>2
<1>4. Fate(added, Rows, V \cup ToSet(s), overflowed, poisoned, abandoned, doubtful, written)
    BY <1>1
<1>5. Fate(added, Rows, V, overflowed, poisoned, abandoned, doubtful, written')
    BY <1>1, <1>3, <1>4, FateWritten
<1> QED BY <1>3, <1>5

\* The batch that flush inserts is all that is in flight.
LEMMA OneBatch ==
    ASSUME BInv, phase = "insert"
    PROVE  /\ work # <<>> /\ work[1] \in Seq(1 .. added) /\ Sorted(work[1]) /\ Before(ToSet(work[1]), ToSet(buf))
           /\ Waiting = ToSet(buf) \cup ToSet(work[1]) /\ ToSet(buf) \cap ToSet(work[1]) = {}
           /\ refused = 0 /\ unresolved = <<>>
<1>1. work # <<>> /\ Tail(work) = <<>> /\ refused = 0 /\ unresolved = <<>>
    BY DEF BInv, PhaseInv
<1>2. work \in Seq(Seq(1 .. added)) /\ InOrder(work) /\ Before(ToSet(unresolved) \cup Pieces(work), ToSet(buf))
    BY DEF BInv, BatcherTypes, OrderInv
<1>3. work[1] \in Seq(1 .. added) /\ Sorted(work[1]) /\ Pieces(work) = ToSet(work[1]) \cup Pieces(Tail(work))
    BY <1>1, <1>2, PiecesTail
<1>4. Pieces(<<>>) = {} /\ ToSet(<<>>) = {}
    BY PiecesNone
<1>5. Pieces(work) = ToSet(work[1])
    BY <1>1, <1>3, <1>4
<1>6. Before(ToSet(work[1]), ToSet(buf))
    BY <1>2, <1>5 DEF Before
<1>7. Waiting = ToSet(buf) \cup ToSet(work[1])
    BY <1>1, <1>4, <1>5, WaitingIs
<1>8. ToSet(work[1]) \in SUBSET Nat
    <2>1. ToSet(work[1]) \subseteq 1 .. added
        BY <1>3, InSet
    <2> QED BY <2>1
<1>9. ToSet(buf) \cap ToSet(work[1]) = {}
    BY <1>6, <1>8, Apart
<1> QED BY <1>1, <1>3, <1>6, <1>7, <1>9

-----------------------------------------------------------------------------
(* The steps of the Batcher.                                                *)

LEMMA AddStep ==
    ASSUME BInv, Add
    PROVE  BInv'
<1> DEFINE n == added + 1
           s == Append(buf, n)
<1>1. /\ added' = n /\ added < Len(feed) /\ Refill(s, bufBytes + EventBytes(feed[n]), 0)
      /\ feed' = feed /\ mode' = mode /\ phase' = phase /\ work' = work /\ unresolved' = unresolved /\ refused' = refused
      /\ written' = written /\ poisoned' = poisoned /\ abandoned' = abandoned /\ doubtful' = doubtful
    BY DEF Add, flushing
<1>2. /\ added \in Nat /\ Len(feed) \in Nat /\ Rows = 1 .. Len(feed) /\ Rows \subseteq Nat
      /\ 1 .. added \subseteq Rows /\ 1 .. added \in SUBSET Nat
    BY Known DEF BInv
<1>3. n \in Nat /\ 1 .. added \subseteq 1 .. n /\ n \in 1 .. n /\ n \in Rows /\ added <= n /\ n \in 0 .. Len(feed) /\ 1 .. n \in SUBSET Nat
    BY <1>1, <1>2
<1>4. \A i \in 1 .. added : i < n
    BY <1>2
<1> HIDE DEF n
<1>5. /\ feed \in Feeds /\ buf \in Seq(1 .. added) /\ unresolved \in Seq(1 .. added) /\ work \in Seq(Seq(1 .. added))
      /\ written \in [Rows -> Nat] /\ dropped \in Nat /\ reported \in Nat /\ refused \in Nat
      /\ overflowed \in SUBSET (1 .. added) /\ poisoned \in SUBSET (1 .. added)
    BY DEF BInv, BatcherTypes
<1>6. /\ Sorted(unresolved) /\ InOrder(work) /\ Sorted(buf) /\ Before(ToSet(unresolved), Pieces(work))
      /\ Before(ToSet(unresolved) \cup Pieces(work), ToSet(buf))
    BY DEF BInv, OrderInv
<1>7. ToSet(buf) \subseteq 1 .. added /\ ToSet(unresolved) \subseteq 1 .. added /\ Pieces(work) \subseteq 1 .. added
    BY <1>5, InSet, InPieces
<1>8. buf \in Seq(1 .. n) /\ unresolved \in Seq(1 .. n) /\ work \in Seq(Seq(1 .. n))
    <2>1. Seq(1 .. added) \subseteq Seq(1 .. n)
        BY <1>3, SeqMonotonic
    <2>2. work \in Seq(Seq(1 .. n))
        BY <1>5, <2>1, SeqMonotonic
    <2> QED BY <1>5, <2>1, <2>2
<1>9. <<n>> \in Seq(1 .. n) /\ Sorted(<<n>>) /\ ToSet(<<n>>) = {n}
    <2>1. <<n>> \in Seq(1 .. n) /\ DOMAIN <<n>> = {1} /\ <<n>>[1] = n
        BY <1>3
    <2> QED BY <2>1 DEF Sorted, ToSet
<1>10. s = buf \o <<n>>
    BY <1>3, <1>8, AppendIsConcat
<1> HIDE DEF s
<1>11. s \in Seq(1 .. n) /\ Sorted(s) /\ ToSet(s) = ToSet(buf) \cup {n}
    <2>1. Before(ToSet(buf), ToSet(<<n>>))
        BY <1>4, <1>7, <1>9 DEF Before
    <2>2. Sorted(buf \o <<n>>)
        BY <1>3, <1>6, <1>8, <1>9, <2>1, SortedCat
    <2>3. buf \o <<n>> \in Seq(1 .. n) /\ ToSet(buf \o <<n>>) = ToSet(buf) \cup ToSet(<<n>>)
        BY <1>8, <1>9, CatSet
    <2> QED BY <1>9, <1>10, <2>2, <2>3
<1>12. Bytes(feed, s) = bufBytes + EventBytes(feed[n])
    <2>1. Bytes(feed, buf \o <<n>>) = Bytes(feed, buf) + Bytes(feed, <<n>>)
        BY <1>8, <1>9, BytesCat
    <2>2. Bytes(feed, <<n>>) = EventBytes(feed[n])
        BY <1>3, BytesOne
    <2>3. bufBytes = Bytes(feed, buf)
        BY DEF BInv, LimitInv
    <2> QED BY <1>10, <2>1, <2>2, <2>3
<1>13. Before(ToSet(unresolved) \cup Pieces(work), ToSet(s))
    BY <1>4, <1>6, <1>7, <1>11 DEF Before
<1>14. Fate(n, Rows, ToSet(s) \cup ToSet(unresolved) \cup Pieces(work), overflowed, poisoned, abandoned, doubtful, written)
    <2>1. Fate(added, Rows, Waiting, overflowed, poisoned, abandoned, doubtful, written)
        BY DEF BInv, FateInv
    <2>2. Fate(added + 1, Rows, Waiting \cup {added + 1}, overflowed, poisoned, abandoned, doubtful, written)
        BY <1>2, <1>3, <1>5, <2>1, FateComes DEF n
    <2>3. Waiting \cup {added + 1} = ToSet(s) \cup ToSet(unresolved) \cup Pieces(work)
        BY <1>11, WaitingIs DEF n
    <2> QED BY <2>2, <2>3 DEF n
<1>15. Refill(s, Bytes(feed, s), 0)
    BY <1>1, <1>12
<1>16. /\ buf' \in Seq(1 .. n) /\ Sorted(buf') /\ Before(ToSet(unresolved') \cup Pieces(work'), ToSet(buf'))
       /\ LimitInv' /\ FateInv' /\ CountInv'
       /\ overflowed' \in SUBSET (1 .. n) /\ dropped' \in Nat /\ reported' \in Nat
    <2>1. UNCHANGED <<feed, mode, poisoned, abandoned>>
        BY <1>1
    <2>2. refused' \in Nat /\ 0 + refused' = refused /\ 0 \in Nat
        BY <1>1, <1>5
    <2>3. unresolved' \in Seq(1 .. n) /\ work' \in Seq(Seq(1 .. n)) /\ Before(ToSet(unresolved') \cup Pieces(work'), ToSet(s))
        BY <1>1, <1>8, <1>13
    <2>4. Fate(n, Rows, ToSet(s) \cup ToSet(unresolved') \cup Pieces(work'), overflowed, poisoned, abandoned, doubtful', written')
        BY <1>1, <1>14
    <2>5. added' = n
        BY <1>1
    <2> HIDE DEF Fate
    <2> QED BY <1>3, <1>11, <1>15, <2>1, <2>2, <2>3, <2>4, <2>5, Refilled
<1>17. BatcherTypes'
    <2>1. Rows' = Rows /\ poisoned' \in SUBSET (1 .. n)
        BY <1>1, <1>3, <1>5 DEF Rows
    <2> QED BY <1>1, <1>3, <1>5, <1>8, <1>16, <2>1 DEF BatcherTypes
<1>18. PhaseInv'
    BY <1>1 DEF BInv, PhaseInv
<1>19. OrderInv'
    BY <1>1, <1>6, <1>16 DEF OrderInv
<1> QED BY <1>16, <1>17, <1>18, <1>19 DEF BInv

LEMMA TakeStep ==
    ASSUME BInv, Take
    PROVE  BInv'
<1> DEFINE n == Smaller(Len(buf), BatchSize)
           b == SubSeq(buf, 1, n)
           rest == SubSeq(buf, n + 1, Len(buf))
<1>1. /\ phase = "idle" /\ work' = <<b>> /\ buf' = rest /\ bufBytes' = Bytes(feed, rest) /\ phase' = "insert" /\ buf # <<>>
      /\ feed' = feed /\ added' = added /\ mode' = mode /\ unresolved' = unresolved /\ refused' = refused
      /\ dropped' = dropped /\ reported' = reported /\ written' = written
      /\ overflowed' = overflowed /\ poisoned' = poisoned /\ abandoned' = abandoned /\ doubtful' = doubtful
    BY DEF Take, counters, fates
<1>2. /\ buf \in Seq(1 .. added) /\ Sorted(buf) /\ 1 .. added \in SUBSET Nat /\ Len(buf) \in Nat \ {0} /\ BatchSize \in Nat \ {0}
    BY <1>1, Known, EmptySeq, BatcherAssumption DEF BInv, BatcherTypes, OrderInv
<1>3. n \in 1 .. Len(buf) /\ (Len(buf) = 1 => n = 1)
    <2>1. PICK l \in Nat \ {0}, z \in Nat \ {0} : l = Len(buf) /\ z = BatchSize
        BY <1>2
    <2>2. Smaller(l, z) \in 1 .. l /\ (l = 1 => Smaller(l, z) = 1)
        BY <2>1 DEF Smaller
    <2> QED BY <2>1, <2>2
<1>4. n \in 0 .. Len(buf)
    BY <1>2, <1>3
<1> HIDE DEF n
<1>5. /\ b \in Seq(1 .. added) /\ rest \in Seq(1 .. added) /\ Len(rest) = Len(buf) - n /\ b \o rest = buf
      /\ ToSet(buf) = ToSet(b) \cup ToSet(rest) /\ Sorted(b) /\ Sorted(rest) /\ Before(ToSet(b), ToSet(rest))
    <2>1. \A k \in 0 .. Len(buf) :
             LET p == SubSeq(buf, 1, k)
                 q == SubSeq(buf, k + 1, Len(buf))
             IN  /\ p \in Seq(1 .. added) /\ q \in Seq(1 .. added) /\ Len(p) = k /\ Len(q) = Len(buf) - k /\ p \o q = buf
                 /\ ToSet(buf) = ToSet(p) \cup ToSet(q)
                 /\ Sorted(buf) => Sorted(p) /\ Sorted(q) /\ Before(ToSet(p), ToSet(q))
        BY <1>2, Cut
    <2>2. Sorted(buf)
        BY <1>2
    <2> QED BY <1>4, <2>1, <2>2, Zenon
<1> HIDE DEF b, rest
<1>6. work = <<>> /\ unresolved = <<>> /\ refused = 0
    BY <1>1 DEF BInv, PhaseInv
<1>7. /\ <<b>> \in Seq(Seq(1 .. added)) /\ InOrder(<<b>>) /\ Pieces(<<b>>) = ToSet(b)
      /\ Pieces(<<>>) = {} /\ ToSet(<<>>) = {} /\ Sorted(<<>>)
    BY <1>5, PiecesOne, PiecesNone
<1>8. BatcherTypes'
    BY <1>1, <1>5, <1>7 DEF BInv, BatcherTypes, Rows
<1>9. PhaseInv'
    <2>1. Tail(<<b>>) = <<>> /\ <<b>> # <<>>
        OBVIOUS
    <2> QED BY <1>1, <1>6, <2>1 DEF PhaseInv
<1>10. OrderInv'
    BY <1>1, <1>5, <1>6, <1>7 DEF OrderInv, Before
<1>11. LimitInv'
    <2>1. Bytes(feed, b) \in Nat /\ Bytes(feed, rest) \in Nat /\ (rest = <<>> => Bytes(feed, rest) = 0)
        BY <1>5, BytesNat
    <2>2. Bytes(feed, buf) = Bytes(feed, b) + Bytes(feed, rest)
        BY <1>5, BytesCat
    <2>3. Bytes(feed, buf) = bufBytes /\ Len(buf) <= MaxBuf /\ (bufBytes > MaxBytes => Len(buf) = 1)
        BY DEF BInv, LimitInv
    <2>4. MaxBytes \in Nat /\ MaxBuf \in Nat
        BY BatcherAssumption
    <2>5. Len(rest) <= MaxBuf
        BY <1>2, <1>3, <1>5, <2>3, <2>4
    <2>6. ASSUME Bytes(feed, rest) > MaxBytes PROVE FALSE
        <3>1. Bytes(feed, buf) > MaxBytes
            BY <2>1, <2>2, <2>4, <2>6
        <3>2. Len(buf) = 1 /\ n = 1
            BY <1>3, <2>3, <3>1
        <3>3. Len(rest) = 0
            BY <1>5, <3>2
        <3>4. rest = <<>>
            BY <1>5, <3>3, EmptySeq
        <3> QED BY <2>1, <2>4, <2>6, <3>4
    <2> QED BY <1>1, <2>5, <2>6 DEF LimitInv
<1>12. FateInv'
    <2>1. Waiting = ToSet(buf)
        BY <1>6, <1>7, WaitingIs
    <2>2. Waiting' = ToSet(rest) \cup ToSet(b)
        BY <1>1, <1>6, <1>7 DEF Waiting, Flight, Pieces
    <2>3. Waiting' = Waiting
        BY <1>5, <2>1, <2>2
    <2> QED BY <1>1, <2>3 DEF BInv, FateInv, Rows
<1>13. CountInv'
    BY <1>1 DEF BInv, CountInv
<1> QED BY <1>8, <1>9, <1>10, <1>11, <1>12, <1>13 DEF BInv

\* The flush is over, and nothing is in flight.
LEMMA Settled ==
    ASSUME Settle
    PROVE  /\ phase' = "idle" /\ work' = <<>> /\ unresolved' = <<>> /\ refused' = 0 /\ refused' \in Nat
           /\ work' \in Seq(Seq(1 .. added)) /\ unresolved' \in Seq(1 .. added) /\ InOrder(work') /\ Sorted(unresolved')
           /\ Pieces(work') = {} /\ ToSet(unresolved') = {} /\ PhaseInv'
           /\ \A X : Before(ToSet(unresolved') \cup Pieces(work'), X) /\ Before(ToSet(unresolved'), Pieces(work'))
<1>1. phase' = "idle" /\ work' = <<>> /\ unresolved' = <<>> /\ refused' = 0
    BY DEF Settle
<1>2. /\ <<>> \in Seq(Seq(1 .. added)) /\ InOrder(<<>>) /\ Pieces(<<>>) = {}
      /\ <<>> \in Seq(1 .. added) /\ Sorted(<<>>) /\ ToSet(<<>>) = {}
    BY PiecesNone
<1>3. PhaseInv'
    BY <1>1 DEF PhaseInv
<1> QED BY <1>1, <1>2, <1>3 DEF Before

LEMMA InsertOkStep ==
    ASSUME BInv, InsertOk
    PROVE  BInv'
<1>1. /\ phase = "insert" /\ Store(work[1]) /\ Settle
      /\ feed' = feed /\ added' = added /\ mode' = mode /\ buf' = buf /\ bufBytes' = bufBytes
      /\ dropped' = dropped /\ reported' = reported
      /\ overflowed' = overflowed /\ poisoned' = poisoned /\ abandoned' = abandoned /\ doubtful' = doubtful
    BY DEF InsertOk, buffer, fates
<1>2. /\ work[1] \in Seq(1 .. added) /\ Waiting = ToSet(buf) \cup ToSet(work[1]) /\ ToSet(buf) \cap ToSet(work[1]) = {}
      /\ refused = 0
    BY <1>1, OneBatch
<1>3. /\ written' \in [Rows -> Nat]
      /\ Fate(added, Rows, ToSet(buf), overflowed, poisoned, abandoned, doubtful, written')
    BY <1>1, <1>2, StoreStep
<1>4. Waiting' = ToSet(buf)
    BY <1>1, Settled DEF Waiting, Flight, Pieces
<1>5. BatcherTypes'
    BY <1>1, <1>3, Settled DEF BInv, BatcherTypes, Rows
<1>6. OrderInv'
    BY <1>1, Settled DEF BInv, OrderInv
<1>7. LimitInv'
    BY <1>1 DEF BInv, LimitInv
<1>8. FateInv'
    BY <1>1, <1>3, <1>4 DEF FateInv, Rows
<1>9. CountInv'
    BY <1>1, <1>2, Settled DEF BInv, CountInv
<1> QED BY <1>1, <1>5, <1>6, <1>7, <1>8, <1>9, Settled DEF BInv

LEMMA InsertFailsStep ==
    ASSUME BInv, InsertFails
    PROVE  BInv'
<1> DEFINE streak == Smaller(failStreak + 1, PoisonThreshold)
           s == PutBack(work[1])
<1>1. /\ phase = "insert" /\ (FailsAsPoison(work[1]) \/ FailsInPassing(work[1]))
      /\ feed' = feed /\ added' = added /\ mode' = mode /\ poisoned' = poisoned /\ abandoned' = abandoned
      /\ Isolate(streak) \/ (Settle /\ Refill(s, Bytes(feed, s), 0))
    BY DEF InsertFails
<1>2. /\ work # <<>> /\ work[1] \in Seq(1 .. added) /\ Sorted(work[1]) /\ Before(ToSet(work[1]), ToSet(buf))
      /\ Waiting = ToSet(buf) \cup ToSet(work[1]) /\ refused = 0 /\ unresolved = <<>>
    BY <1>1, OneBatch
<1>3. /\ written' \in [Rows -> Nat]
      /\ Fate(added, Rows, Waiting, overflowed, poisoned, abandoned, doubtful', written')
    BY <1>1, <1>2, FailsStep
<1>4. CASE Isolate(streak)
    <2>1. /\ phase' = "isolate" /\ buf' = buf /\ bufBytes' = bufBytes /\ dropped' = dropped /\ reported' = reported
          /\ overflowed' = overflowed /\ work' = work /\ unresolved' = unresolved /\ refused' = refused
        BY <1>4 DEF Isolate, buffer
    <2>2. BatcherTypes'
        BY <1>1, <1>3, <2>1 DEF BInv, BatcherTypes, Rows
    <2>3. PhaseInv'
        BY <2>1 DEF PhaseInv
    <2>4. OrderInv'
        BY <2>1 DEF BInv, OrderInv
    <2>5. LimitInv'
        BY <1>1, <2>1 DEF BInv, LimitInv
    <2>6. FateInv'
        <3>1. Waiting' = Waiting /\ Rows' = Rows
            BY <1>1, <2>1 DEF Waiting, Flight, Rows
        <3> QED BY <1>1, <1>3, <2>1, <3>1 DEF FateInv
    <2>7. CountInv'
        BY <1>1, <2>1 DEF BInv, CountInv
    <2> QED BY <2>2, <2>3, <2>4, <2>5, <2>6, <2>7 DEF BInv
<1>5. CASE Settle /\ Refill(s, Bytes(feed, s), 0)
    <2>1. buf \in Seq(1 .. added) /\ Sorted(buf) /\ added \in Nat /\ 1 .. added \in SUBSET Nat
        BY Known DEF BInv, BatcherTypes, OrderInv
    <2>2. s = work[1] \o buf
        BY DEF PutBack
    <2>3. s \in Seq(1 .. added) /\ ToSet(s) = ToSet(work[1]) \cup ToSet(buf)
        BY <1>2, <2>1, <2>2, CatSet
    <2>4. Sorted(s)
        BY <1>2, <2>1, <2>2, SortedCat
    <2> HIDE DEF s
    <2>5. Fate(added, Rows, ToSet(s) \cup ToSet(unresolved') \cup Pieces(work'), overflowed, poisoned, abandoned, doubtful', written')
        <3>1. ToSet(s) \cup ToSet(unresolved') \cup Pieces(work') = Waiting
            BY <1>2, <1>5, <2>3, Settled
        <3> QED BY <1>3, <3>1
    <2>6. UNCHANGED <<feed, mode, poisoned, abandoned>> /\ added' = added /\ added <= added /\ 0 + refused' = refused /\ 0 \in Nat
        BY <1>1, <1>2, <1>5, <2>1, Settled
    <2>7. /\ buf' \in Seq(1 .. added) /\ Sorted(buf') /\ Before(ToSet(unresolved') \cup Pieces(work'), ToSet(buf'))
          /\ LimitInv' /\ FateInv' /\ CountInv'
          /\ overflowed' \in SUBSET (1 .. added) /\ dropped' \in Nat /\ reported' \in Nat
        <3>1. /\ refused' \in Nat /\ unresolved' \in Seq(1 .. added) /\ work' \in Seq(Seq(1 .. added))
              /\ Before(ToSet(unresolved') \cup Pieces(work'), ToSet(s))
            BY <1>5, Settled
        <3> HIDE DEF Fate
        <3> QED BY <1>5, <2>1, <2>3, <2>4, <2>5, <2>6, <3>1, Refilled
    <2>8. BatcherTypes'
        BY <1>1, <1>3, <1>5, <2>7, Settled DEF BInv, BatcherTypes, Rows
    <2>9. OrderInv'
        BY <1>5, <2>7, Settled DEF OrderInv
    <2> QED BY <1>5, <2>7, <2>8, <2>9, Settled DEF BInv
<1> QED BY <1>1, <1>4, <1>5

\* What the isolation knows of the first slice and the rest.
LEMMA FirstSlice ==
    ASSUME BInv, work # <<>>
    PROVE  /\ work[1] \in Seq(1 .. added) /\ Sorted(work[1]) /\ Tail(work) \in Seq(Seq(1 .. added)) /\ InOrder(Tail(work))
           /\ Pieces(work) = ToSet(work[1]) \cup Pieces(Tail(work)) /\ Before(ToSet(work[1]), Pieces(Tail(work)))
           /\ Before(ToSet(unresolved), ToSet(work[1]) \cup Pieces(Tail(work)))
           /\ Before(ToSet(unresolved) \cup ToSet(work[1]) \cup Pieces(Tail(work)), ToSet(buf))
           /\ LET V == ToSet(buf) \cup ToSet(unresolved) \cup Pieces(Tail(work))
              IN  Waiting = V \cup ToSet(work[1]) /\ V \cap ToSet(work[1]) = {}
<1>1. /\ work \in Seq(Seq(1 .. added)) /\ InOrder(work) /\ 1 .. added \in SUBSET Nat
      /\ unresolved \in Seq(1 .. added) /\ buf \in Seq(1 .. added)
      /\ Before(ToSet(unresolved), Pieces(work)) /\ Before(ToSet(unresolved) \cup Pieces(work), ToSet(buf))
    BY Known DEF BInv, BatcherTypes, OrderInv
<1>2. /\ work[1] \in Seq(1 .. added) /\ Sorted(work[1]) /\ Tail(work) \in Seq(Seq(1 .. added)) /\ InOrder(Tail(work))
      /\ Pieces(work) = ToSet(work[1]) \cup Pieces(Tail(work)) /\ Before(ToSet(work[1]), Pieces(Tail(work)))
    BY <1>1, PiecesTail
<1>3. Before(ToSet(unresolved), ToSet(work[1]) \cup Pieces(Tail(work)))
    BY <1>1, <1>2
<1>4. Before(ToSet(unresolved) \cup ToSet(work[1]) \cup Pieces(Tail(work)), ToSet(buf))
    <2>1. ToSet(unresolved) \cup ToSet(work[1]) \cup Pieces(Tail(work)) = ToSet(unresolved) \cup Pieces(work)
        BY <1>2
    <2> QED BY <1>1, <2>1
<1>5. Waiting = (ToSet(buf) \cup ToSet(unresolved) \cup Pieces(Tail(work))) \cup ToSet(work[1])
    BY <1>2, WaitingIs
<1>6. (ToSet(buf) \cup ToSet(unresolved) \cup Pieces(Tail(work))) \cap ToSet(work[1]) = {}
    <2>1. ToSet(work[1]) \in SUBSET Nat /\ ToSet(unresolved) \in SUBSET Nat
        <3>1. ToSet(work[1]) \subseteq 1 .. added /\ ToSet(unresolved) \subseteq 1 .. added
            BY <1>1, <1>2, InSet
        <3> QED BY <1>1, <3>1
    <2>2. ToSet(work[1]) \cap Pieces(Tail(work)) = {}
        BY <1>2, <2>1, Apart
    <2>3. ToSet(unresolved) \cap ToSet(work[1]) = {}
        <3>1. Before(ToSet(unresolved), ToSet(work[1]))
            BY <1>3 DEF Before
        <3> QED BY <2>1, <3>1, Apart
    <2>4. ToSet(work[1]) \cap ToSet(buf) = {}
        <3>1. Before(ToSet(work[1]), ToSet(buf))
            BY <1>4 DEF Before
        <3> QED BY <2>1, <3>1, Apart
    <2> QED BY <2>2, <2>3, <2>4
<1> QED BY <1>2, <1>3, <1>4, <1>5, <1>6

LEMMA SliceOkStep ==
    ASSUME BInv, SliceOk
    PROVE  BInv'
<1> DEFINE V == ToSet(buf) \cup ToSet(unresolved) \cup Pieces(Tail(work))
<1>1. /\ phase = "isolate" /\ work # <<>> /\ Store(work[1]) /\ work' = Tail(work)
      /\ feed' = feed /\ added' = added /\ mode' = mode /\ buf' = buf /\ bufBytes' = bufBytes
      /\ dropped' = dropped /\ reported' = reported /\ phase' = phase /\ unresolved' = unresolved /\ refused' = refused
      /\ overflowed' = overflowed /\ poisoned' = poisoned /\ abandoned' = abandoned /\ doubtful' = doubtful
    BY DEF SliceOk, buffer, counters, fates
<1>2. /\ work[1] \in Seq(1 .. added) /\ Tail(work) \in Seq(Seq(1 .. added)) /\ InOrder(Tail(work))
      /\ Before(ToSet(unresolved), ToSet(work[1]) \cup Pieces(Tail(work)))
      /\ Before(ToSet(unresolved) \cup ToSet(work[1]) \cup Pieces(Tail(work)), ToSet(buf))
      /\ Waiting = V \cup ToSet(work[1]) /\ V \cap ToSet(work[1]) = {}
    BY <1>1, FirstSlice
<1>3. /\ written' \in [Rows -> Nat]
      /\ Fate(added, Rows, V, overflowed, poisoned, abandoned, doubtful, written')
    <2> HIDE DEF V
    <2> QED BY <1>1, <1>2, StoreStep
<1>4. Waiting' = V
    BY <1>1 DEF Waiting, Flight, Pieces
<1>5. BatcherTypes'
    BY <1>1, <1>2, <1>3 DEF BInv, BatcherTypes, Rows
<1>6. OrderInv'
    <2>1. /\ Before(ToSet(unresolved), Pieces(Tail(work)))
          /\ Before(ToSet(unresolved) \cup Pieces(Tail(work)), ToSet(buf))
        BY <1>2 DEF Before
    <2> QED BY <1>1, <1>2, <2>1 DEF BInv, OrderInv
<1>7. PhaseInv' /\ LimitInv' /\ CountInv'
    <2>1. PhaseInv'
        BY <1>1 DEF PhaseInv
    <2>2. LimitInv'
        BY <1>1 DEF BInv, LimitInv
    <2>3. CountInv'
        BY <1>1 DEF BInv, CountInv
    <2> QED BY <2>1, <2>2, <2>3
<1>8. FateInv'
    BY <1>1, <1>3, <1>4 DEF FateInv, Rows
<1> QED BY <1>5, <1>6, <1>7, <1>8 DEF BInv

LEMMA SliceFailsStep ==
    ASSUME BInv, NEW poison \in BOOLEAN, SliceFails(poison)
    PROVE  BInv'
<1> DEFINE x == work[1]
           t == Tail(work)
           V == ToSet(buf) \cup ToSet(unresolved) \cup Pieces(t)
<1>1. /\ phase = "isolate" /\ work # <<>> /\ (FailsAsPoison(x) \/ FailsInPassing(x))
      /\ feed' = feed /\ added' = added /\ mode' = mode /\ buf' = buf /\ bufBytes' = bufBytes
      /\ dropped' = dropped /\ reported' = reported /\ phase' = phase /\ overflowed' = overflowed /\ abandoned' = abandoned
    BY DEF SliceFails, buffer, counters
<1>2. /\ x \in Seq(1 .. added) /\ Sorted(x) /\ t \in Seq(Seq(1 .. added)) /\ InOrder(t)
      /\ Pieces(work) = ToSet(x) \cup Pieces(t) /\ Before(ToSet(x), Pieces(t))
      /\ Before(ToSet(unresolved), ToSet(x) \cup Pieces(t))
      /\ Before(ToSet(unresolved) \cup ToSet(x) \cup Pieces(t), ToSet(buf))
      /\ Waiting = V \cup ToSet(x) /\ V \cap ToSet(x) = {}
    BY <1>1, FirstSlice
<1>3. /\ written' \in [Rows -> Nat]
      /\ Fate(added, Rows, Waiting, overflowed, poisoned, abandoned, doubtful', written')
    BY <1>1, <1>2, FailsStep
<1>4. /\ added \in Nat /\ 1 .. added \in SUBSET Nat /\ Rows' = Rows /\ unresolved \in Seq(1 .. added) /\ Sorted(unresolved)
      /\ refused \in Nat /\ dropped \in Nat /\ overflowed \in SUBSET (1 .. added) /\ poisoned \in SUBSET (1 .. added)
    BY <1>1, Known DEF BInv, BatcherTypes, OrderInv, Rows
<1>5. PhaseInv' /\ LimitInv'
    <2>1. PhaseInv'
        BY <1>1 DEF PhaseInv
    <2>2. LimitInv'
        BY <1>1 DEF BInv, LimitInv
    <2> QED BY <2>1, <2>2
<1>6. CASE Len(x) > 1 /\ work' = Halves(x) \o t /\ UNCHANGED <<unresolved, refused, poisoned>>
    <2> DEFINE mid == Len(x) \div 2
               p == SubSeq(x, 1, mid)
               q == SubSeq(x, mid + 1, Len(x))
    <2>1. Len(x) \in Nat /\ mid \in 0 .. Len(x)
        <3>1. PICK l \in Nat : l = Len(x)
            BY <1>2
        <3>2. l \div 2 \in 0 .. l
            BY HalfIsLess
        <3> QED BY <3>1, <3>2
    <2> HIDE DEF mid
    <2>2. /\ p \in Seq(1 .. added) /\ q \in Seq(1 .. added) /\ ToSet(x) = ToSet(p) \cup ToSet(q)
          /\ Sorted(p) /\ Sorted(q) /\ Before(ToSet(p), ToSet(q))
        <3>1. \A k \in 0 .. Len(x) :
                 LET y == SubSeq(x, 1, k)
                     z == SubSeq(x, k + 1, Len(x))
                 IN  /\ y \in Seq(1 .. added) /\ z \in Seq(1 .. added) /\ Len(y) = k /\ Len(z) = Len(x) - k /\ y \o z = x
                     /\ ToSet(x) = ToSet(y) \cup ToSet(z)
                     /\ Sorted(x) => Sorted(y) /\ Sorted(z) /\ Before(ToSet(y), ToSet(z))
            BY <1>2, <1>4, Cut
        <3> QED BY <1>2, <2>1, <3>1, Zenon
    <2>3. work' = <<p, q>> \o t
        BY <1>6 DEF Halves, mid
    <2> HIDE DEF p, q
    <2>4. Before(ToSet(p), Pieces(t)) /\ Before(ToSet(q), Pieces(t))
        BY <1>2, <2>2 DEF Before
    <2>5. work' \in Seq(Seq(1 .. added)) /\ InOrder(work') /\ Pieces(work') = ToSet(p) \cup ToSet(q) \cup Pieces(t)
        <3>1. /\ <<p, q>> \o t \in Seq(Seq(1 .. added)) /\ InOrder(<<p, q>> \o t)
              /\ Pieces(<<p, q>> \o t) = ToSet(p) \cup ToSet(q) \cup Pieces(t)
            <4> HIDE DEF x, t
            <4> QED BY <1>2, <2>2, <2>4, PiecesPair
        <3> QED BY <2>3, <3>1
    <2>6. Pieces(work') = Pieces(work)
        BY <1>2, <2>2, <2>5
    <2>7. unresolved' = unresolved /\ refused' = refused /\ poisoned' = poisoned
        BY <1>6
    <2>8. BatcherTypes'
        BY <1>1, <1>3, <2>5, <2>7 DEF BInv, BatcherTypes, Rows
    <2>9. OrderInv'
        BY <1>1, <2>5, <2>6, <2>7 DEF BInv, OrderInv
    <2>10. FateInv'
        <3>1. Waiting' = Waiting
            <4>1. Waiting' = ToSet(buf') \cup ToSet(unresolved') \cup Pieces(work')
                BY DEF Waiting, Flight, Pieces
            <4> QED BY <1>1, <2>6, <2>7, <4>1, WaitingIs
        <3> QED BY <1>1, <1>3, <1>4, <2>7, <3>1 DEF FateInv
    <2>11. CountInv'
        BY <1>1, <2>7 DEF BInv, CountInv
    <2> QED BY <1>5, <2>8, <2>9, <2>10, <2>11 DEF BInv
<1>7. CASE /\ Len(x) = 1 /\ Refuse(poison) /\ work' = t /\ refused' = refused + 1
           /\ poisoned' = poisoned \cup ToSet(x) /\ unresolved' = unresolved
    <2>1. Waiting' = V
        <3>1. Waiting' = ToSet(buf') \cup ToSet(unresolved') \cup Pieces(work')
            BY DEF Waiting, Flight, Pieces
        <3> QED BY <1>1, <1>7, <3>1
    <2>2. Fate(added, Rows, V, overflowed, poisoned \cup ToSet(x), abandoned, doubtful', written')
        <3> HIDE DEF V, x
        <3> QED BY <1>2, <1>3, FateMoves
    <2>3. FateInv'
        BY <1>1, <1>4, <1>7, <2>1, <2>2 DEF FateInv
    <2>4. ToSet(x) \subseteq 1 .. added
        BY <1>2, InSet
    <2>5. BatcherTypes'
        <3>1. poisoned' \in SUBSET (1 .. added)
            BY <1>4, <1>7, <2>4
        <3>2. refused' \in Nat
            BY <1>4, <1>7
        <3> QED BY <1>1, <1>2, <1>3, <1>7, <3>1, <3>2 DEF BInv, BatcherTypes, Rows
    <2>6. OrderInv'
        <3>1. Before(ToSet(unresolved), Pieces(t)) /\ Before(ToSet(unresolved) \cup Pieces(t), ToSet(buf))
            BY <1>2 DEF Before
        <3> QED BY <1>1, <1>2, <1>7, <3>1 DEF BInv, OrderInv
    <2>7. \A i \in ToSet(x) : feed[i].kind = "poison"
        <3>1. FailsAsPoison(x)
            BY <1>7 DEF SliceFails, Refuse
        <3>2. PICK i \in ToSet(x) : feed[i].kind = "poison"
            BY <3>1 DEF FailsAsPoison, Has
        <3>3. \A j \in ToSet(x) : j = x[1]
            <4>1. \A j \in ToSet(x) : \E k \in 1 .. Len(x) : x[k] = j
                BY <1>2, InSet
            <4> QED BY <1>7, <4>1
        <3> QED BY <3>2, <3>3
    <2>8. CountInv'
        <3>1. poisoned \cap ToSet(x) = {}
            BY <1>2, <1>3 DEF Fate
        <3>2. IsFiniteSet(poisoned) /\ Cardinality(poisoned) \in Nat /\ Cardinality(overflowed) \in Nat
            BY <1>4, FiniteRows
        <3>3. Cardinality(poisoned') = Cardinality(poisoned) + 1
            BY <1>2, <1>4, <1>7, <3>1, <3>2, JoinCount
        <3>4. ASSUME mode # "closed" PROVE dropped' + refused' = Cardinality(overflowed') + Cardinality(poisoned')
            <4>1. dropped + refused = Cardinality(overflowed) + Cardinality(poisoned)
                BY <3>4 DEF BInv, CountInv
            <4>2. dropped' + refused' = (dropped + refused) + 1
                BY <1>1, <1>4, <1>7
            <4>3. Cardinality(overflowed') + Cardinality(poisoned') = (Cardinality(overflowed) + Cardinality(poisoned)) + 1
                BY <1>1, <3>2, <3>3
            <4> QED BY <4>1, <4>2, <4>3
        <3>5. \A i \in poisoned' : feed'[i].kind = "poison"
            BY <1>1, <1>7, <2>7 DEF BInv, CountInv
        <3>6. reported' = Cardinality(overflowed')
            BY <1>1 DEF BInv, CountInv
        <3> QED BY <1>1, <3>4, <3>5, <3>6 DEF CountInv
    <2> QED BY <1>5, <2>3, <2>5, <2>6, <2>8 DEF BInv
<1>8. CASE /\ Len(x) = 1 /\ work' = t /\ unresolved' = unresolved \o x /\ UNCHANGED <<refused, poisoned>>
    <2>1. unresolved' \in Seq(1 .. added) /\ ToSet(unresolved') = ToSet(unresolved) \cup ToSet(x)
        BY <1>2, <1>4, <1>8, CatSet
    <2>2. Sorted(unresolved')
        <3>1. Before(ToSet(unresolved), ToSet(x))
            BY <1>2 DEF Before
        <3> QED BY <1>2, <1>4, <1>8, <3>1, SortedCat
    <2>3. Before(ToSet(unresolved'), Pieces(t)) /\ Before(ToSet(unresolved') \cup Pieces(t), ToSet(buf))
        BY <1>2, <2>1 DEF Before
    <2>4. refused' = refused /\ poisoned' = poisoned /\ work' = t
        BY <1>8
    <2>5. BatcherTypes'
        BY <1>1, <1>2, <1>3, <2>1, <2>4 DEF BInv, BatcherTypes, Rows
    <2>6. OrderInv'
        BY <1>1, <1>2, <2>2, <2>3, <2>4 DEF BInv, OrderInv
    <2>7. FateInv'
        <3>1. Waiting' = Waiting
            <4>1. Waiting' = ToSet(buf') \cup ToSet(unresolved') \cup Pieces(work')
                BY DEF Waiting, Flight, Pieces
            <4> QED BY <1>1, <1>2, <2>1, <2>4, <4>1
        <3> QED BY <1>1, <1>3, <1>4, <2>4, <3>1 DEF FateInv
    <2>8. CountInv'
        BY <1>1, <2>4 DEF BInv, CountInv
    <2> QED BY <1>5, <2>5, <2>6, <2>7, <2>8 DEF BInv
<1> QED BY <1>6, <1>7, <1>8 DEF SliceFails

LEMMA DeadlineStep ==
    ASSUME BInv, Deadline
    PROVE  BInv'
<1> DEFINE s == FlattenSeq(work)
<1>1. /\ phase = "isolate" /\ unresolved' = unresolved \o s /\ work' = <<>>
      /\ feed' = feed /\ added' = added /\ mode' = mode /\ buf' = buf /\ bufBytes' = bufBytes
      /\ dropped' = dropped /\ reported' = reported /\ phase' = phase /\ refused' = refused /\ written' = written
      /\ overflowed' = overflowed /\ poisoned' = poisoned /\ abandoned' = abandoned /\ doubtful' = doubtful
    BY DEF Deadline, buffer, counters, fates
<1>2. /\ work \in Seq(Seq(1 .. added)) /\ InOrder(work) /\ 1 .. added \in SUBSET Nat
      /\ unresolved \in Seq(1 .. added) /\ Sorted(unresolved)
      /\ Before(ToSet(unresolved), Pieces(work)) /\ Before(ToSet(unresolved) \cup Pieces(work), ToSet(buf))
    BY Known DEF BInv, BatcherTypes, OrderInv
<1>3. s \in Seq(1 .. added) /\ Sorted(s) /\ ToSet(s) = Pieces(work)
    BY <1>2, Flatten
<1> HIDE DEF s
<1>4. unresolved' \in Seq(1 .. added) /\ ToSet(unresolved') = ToSet(unresolved) \cup Pieces(work)
    BY <1>1, <1>2, <1>3, CatSet
<1>5. Sorted(unresolved')
    BY <1>1, <1>2, <1>3, SortedCat
<1>6. Pieces(<<>>) = {} /\ InOrder(<<>>) /\ <<>> \in Seq(Seq(1 .. added))
    BY PiecesNone
<1>7. BatcherTypes'
    BY <1>1, <1>4, <1>6 DEF BInv, BatcherTypes, Rows
<1>8. OrderInv'
    <2>1. Before(ToSet(unresolved'), Pieces(work'))
        BY <1>1, <1>6 DEF Before
    <2>2. Before(ToSet(unresolved') \cup Pieces(work'), ToSet(buf'))
        BY <1>1, <1>2, <1>4, <1>6 DEF Before
    <2> QED BY <1>1, <1>5, <1>6, <2>1, <2>2 DEF BInv, OrderInv
<1>9. FateInv'
    <2>1. Waiting' = ToSet(buf') \cup ToSet(unresolved') \cup Pieces(work')
        BY DEF Waiting, Flight, Pieces
    <2>2. Waiting' = Waiting
        BY <1>1, <1>4, <1>6, <2>1, WaitingIs
    <2> QED BY <1>1, <2>2 DEF BInv, FateInv, Rows
<1>10. PhaseInv'
    BY <1>1 DEF PhaseInv
<1>11. LimitInv'
    BY <1>1 DEF BInv, LimitInv
<1>12. CountInv'
    BY <1>1 DEF BInv, CountInv
<1> QED BY <1>7, <1>8, <1>9, <1>10, <1>11, <1>12 DEF BInv

LEMMA IsolatedStep ==
    ASSUME BInv, Isolated
    PROVE  BInv'
<1> DEFINE s == PutBack(unresolved)
<1>1. /\ work = <<>> /\ Refill(s, Bytes(feed, s), refused) /\ Settle
      /\ feed' = feed /\ added' = added /\ mode' = mode /\ written' = written
      /\ poisoned' = poisoned /\ abandoned' = abandoned /\ doubtful' = doubtful
    BY DEF Isolated
<1>2. /\ buf \in Seq(1 .. added) /\ Sorted(buf) /\ added \in Nat /\ 1 .. added \in SUBSET Nat /\ refused \in Nat
      /\ unresolved \in Seq(1 .. added) /\ Sorted(unresolved) /\ Before(ToSet(unresolved) \cup Pieces(work), ToSet(buf))
      /\ written \in [Rows -> Nat]
    BY Known DEF BInv, BatcherTypes, OrderInv
<1>3. s = unresolved \o buf
    BY DEF PutBack
<1>4. s \in Seq(1 .. added) /\ ToSet(s) = ToSet(unresolved) \cup ToSet(buf)
    BY <1>2, <1>3, CatSet
<1>5. Sorted(s)
    <2>1. Before(ToSet(unresolved), ToSet(buf))
        BY <1>2 DEF Before
    <2> QED BY <1>2, <1>3, <2>1, SortedCat
<1> HIDE DEF s
<1>6. Fate(added, Rows, ToSet(s) \cup ToSet(unresolved') \cup Pieces(work'), overflowed, poisoned, abandoned, doubtful', written')
    <2>1. Waiting = ToSet(s)
        BY <1>1, <1>4, WaitingIs, PiecesNone
    <2>2. ToSet(s) \cup ToSet(unresolved') \cup Pieces(work') = Waiting
        BY <1>1, <2>1, Settled
    <2> QED BY <1>1, <2>2 DEF BInv, FateInv
<1>7. UNCHANGED <<feed, mode, poisoned, abandoned>> /\ added' = added /\ added <= added /\ refused + refused' = refused
    BY <1>1, <1>2, Settled
<1>8. /\ buf' \in Seq(1 .. added) /\ Sorted(buf') /\ Before(ToSet(unresolved') \cup Pieces(work'), ToSet(buf'))
      /\ LimitInv' /\ FateInv' /\ CountInv'
      /\ overflowed' \in SUBSET (1 .. added) /\ dropped' \in Nat /\ reported' \in Nat
    <2>1. /\ refused' \in Nat /\ unresolved' \in Seq(1 .. added) /\ work' \in Seq(Seq(1 .. added))
          /\ Before(ToSet(unresolved') \cup Pieces(work'), ToSet(s))
        BY <1>1, Settled
    <2> HIDE DEF Fate
    <2> QED BY <1>1, <1>2, <1>4, <1>5, <1>6, <1>7, <2>1, Refilled
<1>9. BatcherTypes'
    BY <1>1, <1>2, <1>8, Settled DEF BInv, BatcherTypes, Rows
<1>10. OrderInv'
    BY <1>1, <1>8, Settled DEF OrderInv
<1> QED BY <1>1, <1>8, <1>9, <1>10, Settled DEF BInv

LEMMA AbandonStep ==
    ASSUME BInv, Abandon
    PROVE  BInv'
<1>1. /\ mode' = "closed" /\ buf' = <<>> /\ bufBytes' = 0 /\ Settle /\ abandoned' = abandoned \cup Waiting
      /\ feed' = feed /\ added' = added /\ dropped' = dropped /\ reported' = reported /\ written' = written
      /\ overflowed' = overflowed /\ poisoned' = poisoned /\ doubtful' = doubtful
    BY DEF Abandon, counters
<1>2. <<>> \in Seq(1 .. added) /\ Sorted(<<>>) /\ ToSet(<<>>) = {} /\ Len(<<>>) = 0
    BY PiecesNone
<1>3. BatcherTypes'
    BY <1>1, <1>2, Settled DEF BInv, BatcherTypes, Rows
<1>4. OrderInv'
    BY <1>1, <1>2, Settled DEF OrderInv
<1>5. LimitInv'
    <2>1. Bytes(feed, <<>>) = 0
        BY <1>2, BytesNat
    <2>2. MaxBuf \in Nat /\ MaxBytes \in Nat
        BY BatcherAssumption
    <2> QED BY <1>1, <1>2, <2>1, <2>2 DEF LimitInv
<1>6. FateInv'
    <2>1. Waiting' = {}
        <3>1. Waiting' = ToSet(buf') \cup ToSet(unresolved') \cup Pieces(work')
            BY DEF Waiting, Flight, Pieces
        <3> QED BY <1>1, <1>2, <3>1, Settled
    <2>2. Fate(added, Rows, {}, overflowed, poisoned, abandoned \cup Waiting, doubtful, written)
        <3>1. Waiting = {} \cup Waiting /\ {} \cap Waiting = {}
            OBVIOUS
        <3> QED BY <3>1, FateMoves DEF BInv, FateInv
    <2> QED BY <1>1, <2>1, <2>2 DEF FateInv, Rows
<1>7. CountInv'
    BY <1>1 DEF BInv, CountInv
<1> QED BY <1>1, <1>3, <1>4, <1>5, <1>6, <1>7, Settled DEF BInv

\* Steps that leave the batcher alone, but for its mode.
LEMMA IdleStep ==
    ASSUME BInv, mode' = mode \/ (mode = "run" /\ mode' = "drain"),
           UNCHANGED <<feed, added, buffer, counters, flushing, written, fates>>
    PROVE  BInv'
<1>1. /\ feed' = feed /\ added' = added /\ buf' = buf /\ bufBytes' = bufBytes
      /\ dropped' = dropped /\ reported' = reported /\ phase' = phase /\ work' = work /\ unresolved' = unresolved
      /\ refused' = refused /\ written' = written
      /\ overflowed' = overflowed /\ poisoned' = poisoned /\ abandoned' = abandoned /\ doubtful' = doubtful
    BY DEF buffer, counters, flushing, fates
<1>2. BatcherTypes'
    BY <1>1 DEF BInv, BatcherTypes, Rows
<1>3. PhaseInv' /\ OrderInv'
    BY <1>1 DEF BInv, PhaseInv, OrderInv
<1>4. LimitInv'
    BY <1>1 DEF BInv, LimitInv
<1>5. FateInv'
    <2>1. Waiting' = Waiting
        BY <1>1 DEF Waiting, Flight
    <2> QED BY <1>1, <2>1 DEF BInv, FateInv, Rows
<1>6. CountInv'
    BY <1>1 DEF BInv, CountInv
<1> QED BY <1>2, <1>3, <1>4, <1>5, <1>6 DEF BInv

LEMMA BatcherStarts ==
    ASSUME BatcherInit
    PROVE  BInv
<1>1. /\ feed \in Feeds /\ added = 0 /\ buf = <<>> /\ bufBytes = 0 /\ dropped = 0 /\ reported = 0
      /\ phase = "idle" /\ work = <<>> /\ unresolved = <<>> /\ refused = 0 /\ written = [i \in Rows |-> 0]
      /\ overflowed = {} /\ poisoned = {} /\ abandoned = {} /\ doubtful = {}
    BY DEF BatcherInit
<1>2. feed \in Seq([kind : Kinds, project : Projects]) /\ Len(feed) \in Nat
    <2>1. feed \in Seq([kind : Kinds, project : Projects])
        BY <1>1, BatcherAssumption
    <2> QED BY <2>1, LenProperties
<1>3. /\ <<>> \in Seq(Seq(1 .. 0)) /\ InOrder(<<>>) /\ Pieces(<<>>) = {} /\ <<>> \in Seq(1 .. 0) /\ Sorted(<<>>)
      /\ ToSet(<<>>) = {} /\ Len(<<>>) = 0 /\ 1 .. 0 = {}
    BY PiecesNone
<1>4. BatcherTypes
    BY <1>1, <1>2, <1>3 DEF BatcherTypes
<1>5. PhaseInv
    BY <1>1 DEF PhaseInv
<1>6. OrderInv
    BY <1>1, <1>3 DEF OrderInv, Before
<1>7. LimitInv
    <2>1. Bytes(feed, <<>>) = 0
        BY <1>3, BytesNat
    <2>2. MaxBuf \in Nat /\ MaxBytes \in Nat
        BY BatcherAssumption
    <2> QED BY <1>1, <1>3, <2>1, <2>2 DEF LimitInv
<1>8. FateInv
    <2>1. Waiting = {}
        BY <1>1, <1>3, WaitingIs
    <2>2. \A i \in Rows : written[i] = 0
        BY <1>1
    <2> QED BY <1>1, <1>3, <2>1, <2>2 DEF FateInv, Fate
<1>9. CountInv
    <2>1. Cardinality({}) = 0
        BY FS_EmptySet
    <2> QED BY <1>1, <2>1 DEF CountInv
<1> QED BY <1>4, <1>5, <1>6, <1>7, <1>8, <1>9 DEF BInv

-----------------------------------------------------------------------------
(* The queue of requests.                                                   *)

LEMMA Removed ==
    ASSUME NEW S, NEW s \in Seq(S), NEW k \in 1 .. Len(s)
    PROVE  /\ RemoveAt(s, k) \in Seq(S) /\ ToSet(RemoveAt(s, k)) \subseteq ToSet(s)
           /\ \A x \in ToSet(s) : x # s[k] => x \in ToSet(RemoveAt(s, k))
<1> DEFINE p == SubSeq(s, 1, k - 1)
           q == SubSeq(s, k + 1, Len(s))
<1>1. Len(s) \in Nat /\ k \in Nat /\ \A i \in 1 .. Len(s) : s[i] \in S
    BY ElementOfSeq
<1>2. p \in Seq(S) /\ Len(p) = k - 1 /\ \A i \in 1 .. k - 1 : p[i] = s[i]
    BY <1>1
<1>3. q \in Seq(S) /\ Len(q) = Len(s) - k /\ \A i \in 1 .. Len(s) - k : q[i] = s[k + i]
    BY <1>1
<1>4. RemoveAt(s, k) = p \o q
    BY DEF RemoveAt
<1> HIDE DEF p, q
<1>5. p \o q \in Seq(S) /\ ToSet(p \o q) = ToSet(p) \cup ToSet(q)
    BY <1>2, <1>3, CatSet
<1>6. ToSet(p) \subseteq ToSet(s)
    <2>1. ASSUME NEW x \in ToSet(p) PROVE x \in ToSet(s)
        <3>1. PICK i \in 1 .. k - 1 : p[i] = x
            BY <1>2, InSet
        <3>2. i \in 1 .. Len(s) /\ s[i] = x
            BY <1>1, <1>2, <3>1
        <3> QED BY <3>2, InSet
    <2> QED BY <2>1
<1>7. ToSet(q) \subseteq ToSet(s)
    <2>1. ASSUME NEW x \in ToSet(q) PROVE x \in ToSet(s)
        <3>1. PICK i \in 1 .. Len(s) - k : q[i] = x
            BY <1>3, InSet
        <3>2. k + i \in 1 .. Len(s) /\ s[k + i] = x
            BY <1>1, <1>3, <3>1
        <3> QED BY <3>2, InSet
    <2> QED BY <2>1
<1>8. ASSUME NEW x \in ToSet(s), x # s[k] PROVE x \in ToSet(p) \cup ToSet(q)
    <2>1. PICK i \in 1 .. Len(s) : s[i] = x
        BY InSet
    <2>2. CASE i < k
        <3>1. i \in 1 .. k - 1 /\ p[i] = x
            BY <1>1, <1>2, <2>1, <2>2
        <3> QED BY <1>2, <3>1, InSet
    <2>3. CASE i > k
        <3>1. i - k \in 1 .. Len(s) - k /\ k + (i - k) = i
            BY <1>1, <2>3
        <3>2. q[i - k] = x
            BY <1>3, <2>1, <3>1
        <3> QED BY <1>3, <3>1, <3>2, InSet
    <2>4. i # k
        BY <1>8, <2>1
    <2>5. i < k \/ i > k
        BY <1>1, <2>4
    <2> QED BY <2>2, <2>3, <2>5
<1> QED BY <1>4, <1>5, <1>6, <1>7, <1>8

LEMMA WithoutIs ==
    ASSUME queue \in Seq(Projects), NEW p
    PROVE  /\ Without(p) \in Seq(Projects) /\ ToSet(Without(p)) \subseteq ToSet(queue)
           /\ ToSet(queue) \subseteq ToSet(Without(p)) \cup {p}
<1>1. CASE p \notin ToSet(queue)
    BY <1>1 DEF Without
<1>2. CASE p \in ToSet(queue)
    <2> DEFINE k == CHOOSE j \in DOMAIN queue : queue[j] = p
    <2>1. DOMAIN queue = 1 .. Len(queue) /\ \E j \in 1 .. Len(queue) : queue[j] = p
        BY <1>2, InSet, LenProperties
    <2>2. k \in 1 .. Len(queue) /\ queue[k] = p
        BY <2>1
    <2>3. Without(p) = RemoveAt(queue, k)
        BY <1>2 DEF Without
    <2> HIDE DEF k
    <2>4. /\ RemoveAt(queue, k) \in Seq(Projects) /\ ToSet(RemoveAt(queue, k)) \subseteq ToSet(queue)
          /\ \A x \in ToSet(queue) : x # queue[k] => x \in ToSet(RemoveAt(queue, k))
        BY <2>2, Removed
    <2> QED BY <2>2, <2>3, <2>4
<1> QED BY <1>1, <1>2

LEMMA RequestedIs ==
    ASSUME queue \in Seq(Projects), NEW ps \in SUBSET Projects
    PROVE  Requested(ps) \in Seq(Projects) /\ ToSet(Requested(ps)) = ToSet(queue) \cup ps
<1> DEFINE new == ps \ ToSet(queue)
           s == SetToSeq(new)
<1>1. IsFiniteSet(Projects) /\ new \in SUBSET Projects
    BY PurgeAssumption
<1>2. IsFiniteSet(new)
    BY <1>1, FS_Subset
<1>3. s \in Seq(new) /\ ToSet(s) = new
    BY <1>2, SetToSeqIs
<1>4. s \in Seq(Projects)
    BY <1>1, <1>3, SeqMonotonic
<1>5. Requested(ps) = queue \o s
    BY DEF Requested
<1> HIDE DEF s
<1>6. queue \o s \in Seq(Projects) /\ ToSet(queue \o s) = ToSet(queue) \cup ToSet(s)
    BY <1>4, CatSet
<1> QED BY <1>3, <1>5, <1>6

-----------------------------------------------------------------------------
(* The steps of the process, as the purge sees them.                        *)

\* A flush writes rows that came, and leaves the number of them.
LEMMA FlushIs ==
    ASSUME BInv, Flush
    PROVE  BInv' /\ added' = added /\ feed' = feed
<1>1. CASE Take
    BY <1>1, TakeStep DEF Take
<1>2. CASE InsertOk
    BY <1>2, InsertOkStep DEF InsertOk
<1>3. CASE InsertFails
    BY <1>3, InsertFailsStep DEF InsertFails
<1>4. CASE SliceOk
    BY <1>4, SliceOkStep DEF SliceOk
<1>5. CASE \E poison \in BOOLEAN : SliceFails(poison)
    BY <1>5, SliceFailsStep DEF SliceFails
<1>6. CASE Isolated
    BY <1>6, IsolatedStep DEF Isolated
<1> QED BY <1>1, <1>2, <1>3, <1>4, <1>5, <1>6 DEF Flush

LEMMA IngestStep ==
    ASSUME IInv, Ingest
    PROVE  IInv'
<1>1. /\ Add /\ added' = added + 1 /\ feed' = feed /\ status[feed[added + 1].project] # "none"
      /\ status' = status /\ queue' = queue /\ table' = table /\ wpc' = wpc /\ cur' = cur /\ seen' = seen
      /\ afterwards' = afterwards
    BY DEF Ingest, Add, purgeVars
<1>2. BInv'
    BY <1>1, AddStep DEF IInv
<1>3. added \in Nat
    BY Known DEF IInv, BInv
<1>4. 1 .. (added + 1) = (1 .. added) \cup {added + 1}
    BY <1>3
<1>5. CreatedInv'
    <2>1. \A i \in 1 .. (added + 1) : status[feed[i].project] # "none"
        BY <1>1, <1>4 DEF IInv, PInv, CreatedInv
    <2>2. table \subseteq 1 .. (added + 1)
        BY <1>4 DEF IInv, PInv, CreatedInv
    <2> QED BY <1>1, <2>1, <2>2 DEF IInv, PInv, CreatedInv
<1>6. RequestInv'
    BY <1>1 DEF IInv, PInv, RequestInv, Deleted
<1>7. GoneInv'
    BY <1>1 DEF IInv, PInv, GoneInv, Deleted, RowsOf, Rows
<1> QED BY <1>2, <1>5, <1>6, <1>7 DEF IInv, PInv

LEMMA FlushPurge ==
    ASSUME IInv, FlushStep
    PROVE  IInv'
<1> DEFINE new == {i \in Rows : written'[i] > written[i]}
<1>1. /\ Flush /\ table' = table \cup new /\ afterwards' = afterwards \cup {i \in new : feed[i].project \in Deleted}
      /\ status' = status /\ queue' = queue /\ wpc' = wpc /\ cur' = cur /\ seen' = seen
    BY DEF FlushStep
<1>2. BInv' /\ added' = added /\ feed' = feed
    BY <1>1, FlushIs DEF IInv
<1>3. added \in Nat /\ Rows = 1 .. Len(feed) /\ Len(feed) \in Nat /\ written \in [Rows -> Nat]
    BY Known DEF IInv, BInv, BatcherTypes
<1>4. new \subseteq 1 .. added
    <2>1. ASSUME NEW i \in new PROVE i \in 1 .. added
        <3>1. i \in Rows /\ written'[i] > written[i] /\ written[i] \in Nat
            BY <1>3
        <3>2. \A j \in Rows : j > added => written'[j] = 0
            BY <1>2 DEF BInv, FateInv, Fate, Rows
        <3>3. ~ (i > added)
            BY <3>1, <3>2
        <3> QED BY <1>3, <3>1, <3>3
    <2> QED BY <2>1
<1>5. new \subseteq Rows
    OBVIOUS
<1> HIDE DEF new
<1>6. CreatedInv'
    BY <1>1, <1>2, <1>4 DEF IInv, PInv, CreatedInv
<1>7. RequestInv'
    BY <1>1 DEF IInv, PInv, RequestInv, Deleted
<1>8. \A p \in Deleted : new \cap RowsOf(p) \subseteq afterwards'
    BY <1>1 DEF RowsOf
<1>9. GoneInv'
    <2>1. ASSUME NEW p \in Deleted, table \cap RowsOf(p) \subseteq afterwards
          PROVE  table' \cap RowsOf(p) \subseteq afterwards'
        BY <1>1, <1>8, <2>1
    <2>2. \A p \in Deleted \ ToSet(queue) : table' \cap RowsOf(p) \subseteq afterwards'
        BY <2>1 DEF IInv, PInv, GoneInv
    <2>3. ASSUME NEW w \in Workers, wpc[w] = "done" PROVE table' \cap RowsOf(cur[w]) \subseteq afterwards'
        <3>1. cur[w] \in Deleted
            BY <2>3 DEF IInv, PInv, RequestInv
        <3> QED BY <2>1, <2>3, <3>1 DEF IInv, PInv, GoneInv
    <2> QED BY <1>1, <1>2, <2>2, <2>3 DEF GoneInv, Deleted, RowsOf, Rows
<1> QED BY <1>2, <1>6, <1>7, <1>9 DEF IInv, PInv

\* Steps that leave the projects and the purge alone.
LEMMA PurgeIdle ==
    ASSUME PInv, UNCHANGED <<feed, added, status, queue, table, wpc, cur, seen, afterwards>>
    PROVE  PInv'
<1>1. /\ feed' = feed /\ added' = added /\ status' = status /\ queue' = queue /\ table' = table /\ wpc' = wpc
      /\ cur' = cur /\ seen' = seen /\ afterwards' = afterwards
    OBVIOUS
<1>2. CreatedInv'
    BY <1>1 DEF PInv, CreatedInv
<1>3. RequestInv'
    BY <1>1 DEF PInv, RequestInv, Deleted
<1>4. GoneInv'
    BY <1>1 DEF PInv, GoneInv, Deleted, RowsOf, Rows
<1> QED BY <1>2, <1>3, <1>4 DEF PInv

LEMMA ProcessIs ==
    ASSUME IInv, ProcessStep
    PROVE  IInv'
<1>1. Deadline \/ Close \/ Drained \/ Crash
    BY DEF ProcessStep
<1>2. BInv' /\ feed' = feed /\ added' = added
    <2>1. CASE Deadline
        BY <2>1, DeadlineStep DEF IInv, Deadline
    <2>2. CASE Close
        <3>1. (mode = "run" /\ mode' = "drain") /\ UNCHANGED <<feed, added, buffer, counters, flushing, written, fates>>
            BY <2>2 DEF Close
        <3> QED BY <3>1, IdleStep DEF IInv
    <2>3. CASE Drained
        BY <2>3, AbandonStep DEF IInv, Drained, Abandon
    <2>4. CASE Crash
        BY <2>4, AbandonStep DEF IInv, Crash, Abandon
    <2> QED BY <1>1, <2>1, <2>2, <2>3, <2>4
<1>3. PInv'
    BY <1>2, PurgeIdle DEF IInv, ProcessStep, purgeVars
<1> QED BY <1>2, <1>3 DEF IInv

\* Steps of the others leave the batcher alone.
LEMMA BatcherIdle ==
    ASSUME BInv, UNCHANGED <<feed, added, mode, buffer, counters, flushing, written, fates>>
    PROVE  BInv' /\ feed' = feed /\ added' = added
BY IdleStep

-----------------------------------------------------------------------------
(* The projects and the workers.                                            *)

LEMMA CreateStep ==
    ASSUME IInv, NEW p \in Projects, CreateProject(p)
    PROVE  IInv'
<1>1. /\ status[p] = "none" /\ status' = [status EXCEPT ![p] = "live"] /\ queue' = queue /\ table' = table
      /\ wpc' = wpc /\ cur' = cur /\ seen' = seen /\ afterwards' = afterwards
    BY DEF CreateProject
<1>2. BInv' /\ feed' = feed /\ added' = added
    BY BatcherIdle DEF IInv, CreateProject, batcherVars
<1>3. status \in [Projects -> {"none", "live", "deleted"}]
    BY DEF IInv, PInv, CreatedInv
<1>4. Deleted' = Deleted
    BY <1>1, <1>3 DEF Deleted
<1>5. CreatedInv'
    <2>1. status' \in [Projects -> {"none", "live", "deleted"}]
        BY <1>1, <1>3
    <2>2. \A q \in Projects : status[q] # "none" => status'[q] # "none"
        BY <1>1, <1>3
    <2>3. \A i \in 1 .. added : feed[i].project \in Projects
        <3>1. feed \in Seq([kind : Kinds, project : Projects]) /\ 1 .. added \subseteq 1 .. Len(feed)
            BY Known DEF IInv, BInv
        <3>2. \A i \in 1 .. Len(feed) : feed[i] \in [kind : Kinds, project : Projects]
            BY <3>1, ElementOfSeq
        <3> QED BY <3>1, <3>2
    <2>4. \A i \in 1 .. added : status'[feed[i].project] # "none"
        BY <2>2, <2>3 DEF IInv, PInv, CreatedInv
    <2>5. \A w \in Workers : \A q \in seen[w] : q \in Projects /\ status'[q] # "none"
        BY <2>2 DEF IInv, PInv, CreatedInv
    <2> QED BY <1>1, <1>2, <2>1, <2>4, <2>5 DEF IInv, PInv, CreatedInv
<1>6. RequestInv'
    BY <1>1, <1>4 DEF IInv, PInv, RequestInv
<1>7. GoneInv'
    BY <1>1, <1>2, <1>4 DEF IInv, PInv, GoneInv, RowsOf, Rows
<1> QED BY <1>2, <1>5, <1>6, <1>7 DEF IInv, PInv

LEMMA DeleteStep ==
    ASSUME IInv, NEW p \in Projects, DeleteProject(p)
    PROVE  IInv'
<1>1. /\ status[p] = "live" /\ status' = [status EXCEPT ![p] = "deleted"] /\ queue' = Requested({p}) /\ table' = table
      /\ wpc' = wpc /\ cur' = cur /\ seen' = seen /\ afterwards' = afterwards
    BY DEF DeleteProject
<1>2. BInv' /\ feed' = feed /\ added' = added
    BY BatcherIdle DEF IInv, DeleteProject, batcherVars
<1>3. status \in [Projects -> {"none", "live", "deleted"}] /\ queue \in Seq(Projects)
    BY DEF IInv, PInv, CreatedInv, RequestInv
<1>4. Deleted' = Deleted \cup {p}
    BY <1>1, <1>3 DEF Deleted
<1>5. queue' \in Seq(Projects) /\ ToSet(queue') = ToSet(queue) \cup {p}
    <2>1. {p} \in SUBSET Projects
        OBVIOUS
    <2> QED BY <1>1, <1>3, <2>1, RequestedIs
<1>6. CreatedInv'
    <2>1. status' \in [Projects -> {"none", "live", "deleted"}]
        BY <1>1, <1>3
    <2>2. \A q \in Projects : status[q] # "none" => status'[q] # "none"
        BY <1>1, <1>3
    <2>3. \A i \in 1 .. added : feed[i].project \in Projects
        <3>1. feed \in Seq([kind : Kinds, project : Projects]) /\ 1 .. added \subseteq 1 .. Len(feed)
            BY Known DEF IInv, BInv
        <3>2. \A i \in 1 .. Len(feed) : feed[i] \in [kind : Kinds, project : Projects]
            BY <3>1, ElementOfSeq
        <3> QED BY <3>1, <3>2
    <2>4. \A i \in 1 .. added : status'[feed[i].project] # "none"
        BY <2>2, <2>3 DEF IInv, PInv, CreatedInv
    <2>5. \A w \in Workers : \A q \in seen[w] : q \in Projects /\ status'[q] # "none"
        BY <2>2 DEF IInv, PInv, CreatedInv
    <2> QED BY <1>1, <1>2, <2>1, <2>4, <2>5 DEF IInv, PInv, CreatedInv
<1>7. RequestInv'
    BY <1>1, <1>4, <1>5 DEF IInv, PInv, RequestInv
<1>8. GoneInv'
    <2>1. Deleted' \ ToSet(queue') \subseteq Deleted \ ToSet(queue)
        BY <1>4, <1>5
    <2> QED BY <1>1, <1>2, <2>1 DEF IInv, PInv, GoneInv, RowsOf, Rows
<1> QED BY <1>2, <1>6, <1>7, <1>8 DEF IInv, PInv

\* A step of worker w: what it holds becomes c, x and z.
LEMMA WorkerMoves ==
    ASSUME PInv, NEW w \in Workers, NEW c, NEW x, NEW z,
           feed' = feed, added' = added, status' = status, afterwards' = afterwards,
           queue' \in Seq(Projects), ToSet(queue') \subseteq Deleted, table' \subseteq table,
           cur' = [cur EXCEPT ![w] = c], wpc' = [wpc EXCEPT ![w] = x], seen' = [seen EXCEPT ![w] = z],
           c = Nobody \/ c \in Deleted, x \in {"idle", "claim", "purge", "done", "live"}, x \in {"purge", "done"} => c # Nobody,
           z \subseteq {p \in Projects : status[p] # "none"},
           x = "done" => table' \cap RowsOf(c) \subseteq afterwards,
           \A p \in ToSet(queue) \ ToSet(queue') : table' \cap RowsOf(p) \subseteq afterwards
    PROVE  PInv'
<1>1. /\ cur \in [Workers -> Projects \cup {Nobody}] /\ wpc \in [Workers -> {"idle", "claim", "purge", "done", "live"}]
      /\ seen \in [Workers -> SUBSET Projects]
    BY DEF PInv, RequestInv
<1>2. \A v \in Workers : /\ cur'[v] = IF v = w THEN c ELSE cur[v]
                         /\ wpc'[v] = IF v = w THEN x ELSE wpc[v]
                         /\ seen'[v] = IF v = w THEN z ELSE seen[v]
    BY <1>1
<1>3. Deleted \subseteq Projects /\ Deleted' = Deleted
    BY DEF Deleted
<1>4. /\ cur' \in [Workers -> Projects \cup {Nobody}] /\ wpc' \in [Workers -> {"idle", "claim", "purge", "done", "live"}]
      /\ seen' \in [Workers -> SUBSET Projects]
    <2>1. c \in Projects \cup {Nobody} /\ z \in SUBSET Projects
        BY <1>3
    <2> QED BY <1>1, <2>1
<1>5. CreatedInv'
    <2>1. \A v \in Workers : \A p \in seen'[v] : p \in Projects /\ status[p] # "none"
        BY <1>2 DEF PInv, CreatedInv
    <2> QED BY <2>1 DEF PInv, CreatedInv
<1>6. RequestInv'
    <2>1. \A v \in Workers : cur'[v] # Nobody => cur'[v] \in Deleted
        BY <1>2 DEF PInv, RequestInv
    <2>2. \A v \in Workers : wpc'[v] \in {"purge", "done"} => cur'[v] # Nobody
        BY <1>2 DEF PInv, RequestInv
    <2> QED BY <1>3, <1>4, <2>1, <2>2 DEF RequestInv
<1>7. GoneInv'
    <2>1. \A p \in Deleted \ ToSet(queue') : table' \cap RowsOf(p) \subseteq afterwards
        BY DEF PInv, GoneInv
    <2>2. \A v \in Workers : wpc'[v] = "done" => table' \cap RowsOf(cur'[v]) \subseteq afterwards
        BY <1>2 DEF PInv, GoneInv
    <2>3. \A p : RowsOf(p)' = RowsOf(p)
        BY DEF RowsOf, Rows
    <2> QED BY <1>3, <2>1, <2>2, <2>3 DEF GoneInv, RowsOf, Rows
<1> QED BY <1>5, <1>6, <1>7 DEF PInv

\* What a worker may rely on.
LEMMA WorkerKnows ==
    ASSUME PInv, NEW w \in Workers
    PROVE  /\ queue \in Seq(Projects) /\ ToSet(queue) \subseteq Deleted /\ (cur[w] = Nobody \/ cur[w] \in Deleted)
           /\ wpc[w] \in {"idle", "claim", "purge", "done", "live"} /\ (wpc[w] \in {"purge", "done"} => cur[w] \in Deleted)
           /\ seen[w] \subseteq {p \in Projects : status[p] # "none"}
           /\ (wpc[w] = "done" => table \cap RowsOf(cur[w]) \subseteq afterwards)
           /\ [cur EXCEPT ![w] = cur[w]] = cur /\ [wpc EXCEPT ![w] = wpc[w]] = wpc /\ [seen EXCEPT ![w] = seen[w]] = seen
           /\ Nobody \notin Deleted
<1>1. Nobody \notin Deleted
    BY PurgeAssumption DEF Deleted
<1>2. /\ queue \in Seq(Projects) /\ ToSet(queue) \subseteq Deleted /\ (cur[w] = Nobody \/ cur[w] \in Deleted)
      /\ wpc[w] \in {"idle", "claim", "purge", "done", "live"} /\ (wpc[w] \in {"purge", "done"} => cur[w] \in Deleted)
    BY DEF PInv, RequestInv
<1>3. seen[w] \subseteq {p \in Projects : status[p] # "none"}
    BY DEF PInv, CreatedInv
<1>4. wpc[w] = "done" => table \cap RowsOf(cur[w]) \subseteq afterwards
    BY DEF PInv, GoneInv
<1>5. [cur EXCEPT ![w] = cur[w]] = cur /\ [wpc EXCEPT ![w] = wpc[w]] = wpc /\ [seen EXCEPT ![w] = seen[w]] = seen
    BY DEF PInv, RequestInv
<1> QED BY <1>1, <1>2, <1>3, <1>4, <1>5

LEMMA ClaimStep ==
    ASSUME IInv, NEW w \in Workers, Claim(w)
    PROVE  IInv'
<1>1. BInv' /\ feed' = feed /\ added' = added
    BY BatcherIdle DEF IInv, Claim, batcherVars
<1>2. /\ queue # <<>> /\ cur' = [cur EXCEPT ![w] = Head(queue)] /\ wpc' = [wpc EXCEPT ![w] = "purge"]
      /\ status' = status /\ queue' = queue /\ table' = table /\ seen' = seen /\ afterwards' = afterwards
    BY DEF Claim
<1>3. /\ queue \in Seq(Projects) /\ ToSet(queue) \subseteq Deleted /\ Nobody \notin Deleted
      /\ [seen EXCEPT ![w] = seen[w]] = seen /\ seen[w] \subseteq {p \in Projects : status[p] # "none"}
    BY WorkerKnows DEF IInv
<1>4. Head(queue) \in Deleted
    <2>1. Head(queue) = queue[1] /\ 1 \in 1 .. Len(queue)
        BY <1>2, <1>3
    <2>2. queue[1] \in ToSet(queue)
        BY <1>3, <2>1, InSet
    <2> QED BY <1>3, <2>1, <2>2
<1>5. PInv'
    <2> DEFINE c == Head(queue)
               z == seen[w]
    <2>1. c \in Deleted /\ c # Nobody
        BY <1>3, <1>4
    <2>2. seen' = [seen EXCEPT ![w] = z] /\ cur' = [cur EXCEPT ![w] = c] /\ z \subseteq {p \in Projects : status[p] # "none"}
        BY <1>2, <1>3
    <2> HIDE DEF c, z
    <2>3. /\ queue' \in Seq(Projects) /\ ToSet(queue') \subseteq Deleted /\ table' \subseteq table
          /\ \A p \in ToSet(queue) \ ToSet(queue') : table' \cap RowsOf(p) \subseteq afterwards
        BY <1>2, <1>3
    <2> QED BY <1>1, <1>2, <2>1, <2>2, <2>3, WorkerMoves DEF IInv
<1> QED BY <1>1, <1>5 DEF IInv

\* The pass of a worker ends.
LEMMA FinishMoves ==
    ASSUME PInv, NEW w \in Workers, Finish(w), feed' = feed, added' = added, status' = status, afterwards' = afterwards,
           table' \subseteq table, queue' \in Seq(Projects), ToSet(queue') \subseteq Deleted, ToSet(queue) \subseteq ToSet(queue')
    PROVE  PInv'
<1>1. /\ cur' = [cur EXCEPT ![w] = Nobody] /\ wpc' = [wpc EXCEPT ![w] = "idle"] /\ seen' = [seen EXCEPT ![w] = {}]
    BY DEF Finish
<1>2. /\ {} \subseteq {p \in Projects : status[p] # "none"}
      /\ \A p \in ToSet(queue) \ ToSet(queue') : table' \cap RowsOf(p) \subseteq afterwards
    OBVIOUS
<1> QED BY <1>1, <1>2, WorkerMoves

\* The passes that end: nothing is left to do, a failure, orphans found.
LEMMA FinishStep ==
    ASSUME IInv, NEW w \in Workers, TickEnds(w) \/ PurgeFails(w) \/ WorkerFails(w) \/ Reconcile(w)
    PROVE  IInv'
<1>1. BInv' /\ feed' = feed /\ added' = added
    <2>1. UNCHANGED <<feed, added, mode, buffer, counters, flushing, written, fates>>
        BY DEF TickEnds, PurgeFails, WorkerFails, Reconcile, batcherVars
    <2> QED BY <2>1, BatcherIdle DEF IInv
<1>2. Finish(w) /\ status' = status /\ afterwards' = afterwards
    BY DEF TickEnds, PurgeFails, WorkerFails, Reconcile
<1>3. /\ queue \in Seq(Projects) /\ ToSet(queue) \subseteq Deleted
      /\ seen[w] \subseteq {p \in Projects : status[p] # "none"}
    BY WorkerKnows DEF IInv
<1>4. CASE TickEnds(w) \/ PurgeFails(w) \/ WorkerFails(w)
    <2>1. queue' = queue /\ table' \subseteq table
        BY <1>4 DEF TickEnds, PurgeFails, WorkerFails, Fail
    <2>2. PInv'
        BY <1>1, <1>2, <1>3, <2>1, FinishMoves DEF IInv
    <2> QED BY <1>1, <2>2 DEF IInv
<1>5. CASE Reconcile(w)
    <2>1. queue' = Requested(Orphans(w)) /\ table' \subseteq table
        BY <1>5 DEF Reconcile
    <2>2. Orphans(w) \in SUBSET Projects /\ Orphans(w) \subseteq Deleted
        <3>1. status \in [Projects -> {"none", "live", "deleted"}]
            BY DEF IInv, PInv, CreatedInv
        <3> QED BY <1>3, <3>1 DEF Orphans, Live, Deleted
    <2>3. queue' \in Seq(Projects) /\ ToSet(queue') = ToSet(queue) \cup Orphans(w)
        BY <1>3, <2>1, <2>2, RequestedIs
    <2>4. ToSet(queue') \subseteq Deleted /\ ToSet(queue) \subseteq ToSet(queue')
        BY <1>3, <2>2, <2>3
    <2>5. PInv'
        BY <1>1, <1>2, <2>1, <2>3, <2>4, FinishMoves DEF IInv
    <2> QED BY <1>1, <2>5 DEF IInv
<1> QED BY <1>4, <1>5

LEMMA PurgeStep ==
    ASSUME IInv, NEW w \in Workers, PurgeProject(w)
    PROVE  IInv'
<1>1. BInv' /\ feed' = feed /\ added' = added
    BY BatcherIdle DEF IInv, PurgeProject, batcherVars
<1>2. /\ wpc[w] = "purge" /\ table' = table \ RowsOf(cur[w]) /\ wpc' = [wpc EXCEPT ![w] = "done"]
      /\ status' = status /\ queue' = queue /\ cur' = cur /\ seen' = seen /\ afterwards' = afterwards
    BY DEF PurgeProject
<1>3. PICK c, z : c = cur[w] /\ z = seen[w]
    OBVIOUS
<1>4. /\ queue \in Seq(Projects) /\ ToSet(queue) \subseteq Deleted /\ c \in Deleted /\ c # Nobody
      /\ cur' = [cur EXCEPT ![w] = c] /\ seen' = [seen EXCEPT ![w] = z] /\ z \subseteq {p \in Projects : status[p] # "none"}
    BY <1>2, <1>3, WorkerKnows DEF IInv
<1>5. table' \cap RowsOf(c) \subseteq afterwards /\ table' \subseteq table
    BY <1>2, <1>3
<1>6. /\ queue' \in Seq(Projects) /\ ToSet(queue') \subseteq Deleted
      /\ \A p \in ToSet(queue) \ ToSet(queue') : table' \cap RowsOf(p) \subseteq afterwards
    BY <1>2, <1>4
<1>7. PInv'
    BY <1>1, <1>2, <1>4, <1>5, <1>6, WorkerMoves DEF IInv
<1> QED BY <1>1, <1>7 DEF IInv

LEMMA DoneStep ==
    ASSUME IInv, NEW w \in Workers, Done(w)
    PROVE  IInv'
<1>1. BInv' /\ feed' = feed /\ added' = added
    BY BatcherIdle DEF IInv, Done, batcherVars
<1>2. /\ wpc[w] = "done" /\ queue' = Without(cur[w]) /\ wpc' = [wpc EXCEPT ![w] = "claim"] /\ cur' = [cur EXCEPT ![w] = Nobody]
      /\ status' = status /\ table' = table /\ seen' = seen /\ afterwards' = afterwards
    BY DEF Done
<1>3. PICK c, z : c = cur[w] /\ z = seen[w]
    OBVIOUS
<1>4. /\ queue \in Seq(Projects) /\ ToSet(queue) \subseteq Deleted /\ table \cap RowsOf(c) \subseteq afterwards
      /\ seen' = [seen EXCEPT ![w] = z] /\ z \subseteq {p \in Projects : status[p] # "none"}
    BY <1>2, <1>3, WorkerKnows DEF IInv
<1>5. /\ queue' \in Seq(Projects) /\ ToSet(queue') \subseteq ToSet(queue) /\ ToSet(queue) \subseteq ToSet(queue') \cup {c}
    BY <1>2, <1>3, <1>4, WithoutIs
<1>6. /\ ToSet(queue') \subseteq Deleted /\ table' \subseteq table
      /\ \A p \in ToSet(queue) \ ToSet(queue') : table' \cap RowsOf(p) \subseteq afterwards
    BY <1>2, <1>4, <1>5
<1>7. PInv'
    BY <1>1, <1>2, <1>4, <1>5, <1>6, WorkerMoves DEF IInv
<1> QED BY <1>1, <1>7 DEF IInv

LEMMA ScanStep ==
    ASSUME IInv, NEW w \in Workers, Scan(w)
    PROVE  IInv'
<1>1. BInv' /\ feed' = feed /\ added' = added
    BY BatcherIdle DEF IInv, Scan, batcherVars
<1>2. /\ wpc' = [wpc EXCEPT ![w] = "live"] /\ seen' = [seen EXCEPT ![w] = InTables]
      /\ status' = status /\ queue' = queue /\ table' = table /\ cur' = cur /\ afterwards' = afterwards
    BY DEF Scan
<1>3. PICK c, z : c = cur[w] /\ z = InTables
    OBVIOUS
<1>4. z \subseteq {p \in Projects : status[p] # "none"}
    BY <1>3 DEF IInv, PInv, CreatedInv, InTables, RowsOf
<1>5. /\ queue \in Seq(Projects) /\ ToSet(queue) \subseteq Deleted /\ cur' = [cur EXCEPT ![w] = c] /\ (c = Nobody \/ c \in Deleted)
    BY <1>2, <1>3, WorkerKnows DEF IInv
<1>6. /\ queue' \in Seq(Projects) /\ ToSet(queue') \subseteq Deleted /\ table' \subseteq table /\ seen' = [seen EXCEPT ![w] = z]
      /\ \A p \in ToSet(queue) \ ToSet(queue') : table' \cap RowsOf(p) \subseteq afterwards
    BY <1>2, <1>3, <1>5
<1>7. PInv'
    BY <1>1, <1>2, <1>4, <1>5, <1>6, WorkerMoves DEF IInv
<1> QED BY <1>1, <1>7 DEF IInv

LEMMA LoseSessionStep ==
    ASSUME IInv, NEW w \in Workers, LoseSession(w)
    PROVE  IInv'
<1>1. BInv' /\ feed' = feed /\ added' = added
    BY BatcherIdle DEF IInv, LoseSession
<1>2. PInv'
    BY <1>1, PurgeIdle DEF IInv, LoseSession
<1> QED BY <1>1, <1>2 DEF IInv

-----------------------------------------------------------------------------
(* The invariant holds.                                                     *)

LEMMA PurgeStarts ==
    ASSUME Init
    PROVE  IInv
<1>1. BInv
    BY BatcherStarts DEF Init
<1>2. /\ added = 0 /\ status = [p \in Projects |-> "none"] /\ queue = <<>> /\ table = {} /\ afterwards = {}
      /\ wpc = [w \in Workers |-> "idle"] /\ cur = [w \in Workers |-> Nobody] /\ seen = [w \in Workers |-> {}]
    BY DEF Init, BatcherInit
<1>3. ToSet(queue) = {} /\ queue \in Seq(Projects) /\ Deleted = {}
    <2>1. ToSet(<<>>) = {} /\ <<>> \in Seq(Projects)
        BY PiecesNone
    <2>2. Deleted = {}
        BY <1>2 DEF Deleted
    <2> QED BY <1>2, <2>1, <2>2
<1>4. CreatedInv
    BY <1>2 DEF CreatedInv
<1>5. RequestInv
    BY <1>2, <1>3 DEF RequestInv
<1>6. GoneInv
    BY <1>2, <1>3 DEF GoneInv
<1> QED BY <1>1, <1>4, <1>5, <1>6 DEF IInv, PInv

LEMMA IInvStep ==
    ASSUME IInv, [Next]_vars
    PROVE  IInv'
<1>1. CASE Ingest
    BY <1>1, IngestStep
<1>2. CASE FlushStep
    BY <1>2, FlushPurge
<1>3. CASE ProcessStep
    BY <1>3, ProcessIs
<1>4. ASSUME NEW p \in Projects, CreateProject(p) \/ DeleteProject(p) PROVE IInv'
    BY <1>4, CreateStep, DeleteStep
<1>5. ASSUME NEW w \in Workers,
             \/ Claim(w) \/ Scan(w) \/ WorkerStep(w) \/ PurgeFails(w) \/ WorkerFails(w) \/ LoseSession(w)
      PROVE  IInv'
    <2>1. CASE Claim(w)
        BY <2>1, ClaimStep
    <2>2. CASE Scan(w)
        BY <2>2, ScanStep
    <2>3. CASE PurgeProject(w)
        BY <2>3, PurgeStep
    <2>4. CASE Done(w)
        BY <2>4, DoneStep
    <2>5. CASE TickEnds(w) \/ PurgeFails(w) \/ WorkerFails(w) \/ Reconcile(w)
        BY <2>5, FinishStep
    <2>6. CASE LoseSession(w)
        BY <2>6, LoseSessionStep
    <2> QED BY <1>5, <2>1, <2>2, <2>3, <2>4, <2>5, <2>6 DEF WorkerStep
<1>6. CASE UNCHANGED vars
    <2>1. BInv' /\ feed' = feed /\ added' = added
        BY <1>6, BatcherIdle DEF IInv, vars, batcherVars
    <2>2. PInv'
        BY <1>6, <2>1, PurgeIdle DEF IInv, vars, purgeVars
    <2> QED BY <2>1, <2>2 DEF IInv
<1> QED BY <1>1, <1>2, <1>3, <1>4, <1>5, <1>6 DEF Next

LEMMA IInvAlways == Spec => []IInv
<1>1. Init => IInv
    BY PurgeStarts
<1>2. IInv /\ [Next]_vars => IInv'
    BY IInvStep
<1> QED BY <1>1, <1>2, PTL DEF Spec

-----------------------------------------------------------------------------
(* The theorems.                                                            *)

\* A request for the purge names a deleted project, also when projects are created and
\* deleted while Reconcile compares its two lists, and it leaves the queue only when
\* PurgeProject ran after the deletion, whoever did it, without the lock too: what is left
\* of the project was written afterwards.
THEOREM PurgedWhenDone == Spec => []PurgeIsExact
<1>1. IInv => PurgeIsExact
    <2> SUFFICES ASSUME IInv PROVE PurgeIsExact
        OBVIOUS
    <2>1. Live \cap Deleted = {} /\ Nobody \notin Live
        BY PurgeAssumption DEF Live, Deleted
    <2>2. ToSet(queue) \subseteq Deleted /\ \A w \in Workers : cur[w] = Nobody \/ cur[w] \in Deleted
        BY DEF IInv, PInv, RequestInv
    <2>3. \A p \in Deleted \ ToSet(queue) : table \cap RowsOf(p) \subseteq afterwards
        BY DEF IInv, PInv, GoneInv
    <2> QED BY <2>1, <2>2, <2>3 DEF PurgeIsExact
<1> QED BY <1>1, IInvAlways, PTL

\* What came back from the isolation, what it has still to insert and the buffer are, in
\* this order, in the order of arrival, so that trimLocked drops the oldest; the buffer
\* keeps both limits of batcher.go, but for one row that is too heavy alone.
THEOREM OldestFirst == Spec => []BufferInOrder
<1>1. IInv => BufferInOrder
    <2> SUFFICES ASSUME IInv PROVE BufferInOrder
        OBVIOUS
    <2> DEFINE f == FlattenSeq(work)
               s == unresolved \o f \o buf
    <2>1. /\ work \in Seq(Seq(1 .. added)) /\ InOrder(work) /\ 1 .. added \in SUBSET Nat
          /\ unresolved \in Seq(1 .. added) /\ Sorted(unresolved) /\ buf \in Seq(1 .. added) /\ Sorted(buf)
          /\ Before(ToSet(unresolved), Pieces(work)) /\ Before(ToSet(unresolved) \cup Pieces(work), ToSet(buf))
        BY Known DEF IInv, BInv, BatcherTypes, OrderInv
    <2>2. f \in Seq(1 .. added) /\ Sorted(f) /\ ToSet(f) = Pieces(work)
        BY <2>1, Flatten
    <2> HIDE DEF f
    <2>3. unresolved \o f \in Seq(1 .. added) /\ ToSet(unresolved \o f) = ToSet(unresolved) \cup ToSet(f)
        BY <2>1, <2>2, CatSet
    <2>4. Sorted(unresolved \o f)
        BY <2>1, <2>2, SortedCat
    <2>5. Before(ToSet(unresolved \o f), ToSet(buf))
        BY <2>1, <2>2, <2>3
    <2>6. Sorted(s)
        BY <2>1, <2>3, <2>4, <2>5, SortedCat
    <2>7. Len(buf) <= MaxBuf /\ (bufBytes > MaxBytes => Len(buf) = 1)
        BY DEF IInv, BInv, LimitInv
    <2>8. \A j, k \in DOMAIN s : j < k => s[j] < s[k]
        BY <2>6 DEF Sorted
    <2> QED BY <2>7, <2>8 DEF BufferInOrder, f
<1> QED BY <1>1, IInvAlways, PTL

\* Batcher.dropped is the number of rows that overflowed or were refused, only poison is
\* refused, the sink hears of every row that overflows, and bufBytes, kept by addition, is
\* the weight of the buffer.
THEOREM CountersAreRight == Spec => []DropsAddUp
<1>1. IInv => DropsAddUp
    BY DEF IInv, BInv, CountInv, LimitInv, DropsAddUp
<1> QED BY <1>1, IInvAlways, PTL

\* Every row that came waits, is written, overflowed, is refused or was abandoned, and is
\* so in one way only and written once, unless an INSERT of it that was applied came back
\* as failed.
THEOREM EveryRowAccounted == Spec => []Accounted
<1>1. IInv => Accounted
    <2> SUFFICES ASSUME IInv, NEW i \in 1 .. added
                 PROVE  Fates(i) # {} /\ (i \notin doubtful => Cardinality(Fates(i)) = 1 /\ written[i] <= 1)
        BY DEF Accounted
    <2>1. Fate(added, Rows, Waiting, overflowed, poisoned, abandoned, doubtful, written)
        BY DEF IInv, BInv, FateInv
    <2>2. written[i] \in Nat
        BY Known DEF IInv, BInv, BatcherTypes
    <2>3. i \in Waiting \cup overflowed \cup poisoned \cup abandoned \/ written[i] > 0
        BY <2>1 DEF Fate
    <2>4. Fates(i) # {}
        <3>1. CASE i \in Waiting
            BY <3>1 DEF Fates
        <3>2. CASE written[i] > 0
            BY <3>2 DEF Fates
        <3>3. CASE i \in overflowed
            BY <3>3 DEF Fates
        <3>4. CASE i \in poisoned
            BY <3>4 DEF Fates
        <3>5. CASE i \in abandoned
            BY <3>5 DEF Fates
        <3> QED BY <2>3, <3>1, <3>2, <3>3, <3>4, <3>5
    <2>5. ASSUME i \notin doubtful PROVE Cardinality(Fates(i)) = 1 /\ written[i] <= 1
        <3>1. written[i] <= 1 /\ (written[i] = 1 => i \notin Waiting \cup overflowed \cup poisoned \cup abandoned)
            BY <2>1, <2>5 DEF Fate
        <3>2. written[i] > 0 => i \notin Waiting \cup overflowed \cup poisoned \cup abandoned
            BY <2>2, <3>1
        <3>3. \E x : Fates(i) = {x}
            <4>1. CASE i \in Waiting
                <5>1. ~ (written[i] > 0) /\ i \notin overflowed /\ i \notin poisoned /\ i \notin abandoned
                    BY <2>1, <3>2, <4>1 DEF Fate
                <5>2. Fates(i) = {"waiting"}
                    BY <4>1, <5>1 DEF Fates
                <5> QED BY <5>2
            <4>2. CASE written[i] > 0
                <5>1. Fates(i) = {"written"}
                    BY <3>2, <4>2 DEF Fates
                <5> QED BY <5>1
            <4>3. CASE i \in overflowed
                <5>1. ~ (written[i] > 0) /\ i \notin Waiting /\ i \notin poisoned /\ i \notin abandoned
                    BY <2>1, <3>2, <4>3 DEF Fate
                <5>2. Fates(i) = {"overflowed"}
                    BY <4>3, <5>1 DEF Fates
                <5> QED BY <5>2
            <4>4. CASE i \in poisoned
                <5>1. ~ (written[i] > 0) /\ i \notin Waiting /\ i \notin overflowed /\ i \notin abandoned
                    BY <2>1, <3>2, <4>4 DEF Fate
                <5>2. Fates(i) = {"poisoned"}
                    BY <4>4, <5>1 DEF Fates
                <5> QED BY <5>2
            <4>5. CASE i \in abandoned
                <5>1. ~ (written[i] > 0) /\ i \notin Waiting /\ i \notin overflowed /\ i \notin poisoned
                    BY <2>1, <3>2, <4>5 DEF Fate
                <5>2. Fates(i) = {"abandoned"}
                    BY <4>5, <5>1 DEF Fates
                <5> QED BY <5>2
            <4> QED BY <2>3, <4>1, <4>2, <4>3, <4>4, <4>5
        <3>4. Cardinality(Fates(i)) = 1
            BY <3>3, FS_Singleton
        <3> QED BY <3>1, <3>4
    <2> QED BY <2>4, <2>5
<1> QED BY <1>1, IInvAlways, PTL

=============================================================================
