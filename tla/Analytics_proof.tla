-------------------------- MODULE Analytics_proof --------------------------
(***************************************************************************)
(* What the agents compute of a table agrees, for any tables, any limits   *)
(* and any queries that fail.  A segmentation and a series put every row   *)
(* into one group, so that by SumOverParts (Lists_proof) their numbers add *)
(* up to those of the table; a group that is at the top of one ranking and *)
(* beyond the cap of another has equals that are not; and too many points  *)
(* far from the mean would have more than all of the squared deviation.    *)
(***************************************************************************)
EXTENDS Analytics, Lists_proof

(* The images of finitely many elements. *)
LEMMA ImagesAreFinite ==
  ASSUME NEW S, IsFiniteSet(S), NEW f, DOMAIN f = S, f = [x \in S |-> f[x]]
  PROVE  /\ IsFiniteSet({f[x] : x \in S})
         /\ Cardinality({f[x] : x \in S}) <= Cardinality(S)
<1> DEFINE T == {f[x] : x \in S}
<1>1. f \in Surjection(S, T)
  <2>1. f \in [S -> T]
    OBVIOUS
  <2>2. \A y \in T : \E x \in S : f[x] = y
    OBVIOUS
  <2> QED
    BY <2>1, <2>2 DEF Surjection
<1> HIDE DEF T
<1>2. IsFiniteSet(T) /\ Cardinality(T) <= Cardinality(S)
  BY <1>1, FS_Surjection
<1> QED
  BY <1>2 DEF T

-----------------------------------------------------------------------------
(* Numbers and entries. *)

IsCell(cell) == cell = {} \/ \E v \in cell : v \in Int /\ cell = {v}

LEMMA CellHasNumber ==
  ASSUME NEW cell, IsCell(cell)
  PROVE  Number(cell) \in Int /\ (cell = {} => Number(cell) = 0) /\ (cell # {} => cell = {Number(cell)})
<1>1. CASE cell = {}
  BY <1>1 DEF Number
<1>2. ASSUME NEW v \in Int, cell = {v}
      PROVE  Number(cell) = v
  BY <1>2 DEF Number
<1> QED
  BY <1>1, <1>2 DEF IsCell

LEMMA NumberOfOne ==
  ASSUME NEW v
  PROVE  Number({v}) = v
BY DEF Number

Values(t) == [i \in 1 .. Len(t) |-> Number(t[i].value)]

LEMMA TableHasValues ==
  ASSUME NEW t, IsTable(t)
  PROVE  /\ Len(t) \in Nat /\ DOMAIN t = 1 .. Len(t)
         /\ \A i \in 1 .. Len(t) : IsCell(t[i].value) /\ t[i].day \in Nat
         /\ Values(t) \in [1 .. Len(t) -> Int]
<1>1. t \in Seq({t[i] : i \in DOMAIN t})
  BY DEF IsTable, IsList
<1>2. Len(t) \in Nat /\ DOMAIN t = 1 .. Len(t)
  BY <1>1
<1>3. \A i \in 1 .. Len(t) : IsCell(t[i].value) /\ t[i].day \in Nat
  BY <1>2 DEF IsTable, IsCell
<1> QED
  BY <1>2, <1>3, CellHasNumber DEF Values

(* What an entry says of a group is a sum over the table. *)
LEMMA EntrySums ==
  ASSUME NEW t, IsTable(t), NEW I \in SUBSET (DOMAIN t)
  PROVE  /\ Entry(t, I).count = SumOf([i \in 1 .. Len(t) |-> IF i \in I THEN 1 ELSE 0])
         /\ Entry(t, I).sum = SumOf([i \in 1 .. Len(t) |-> IF i \in I THEN Values(t)[i] ELSE 0])
         /\ Entry(t, I).sum = Number(Sum(t, I))
         /\ Entry(t, I).sum \in Int /\ Entry(t, I).count \in Nat
         /\ IsCell(Sum(t, I))
<1> DEFINE part == [i \in 1 .. Len(t) |-> IF i \in I THEN Values(t)[i] ELSE 0]
<1>1. /\ Len(t) \in Nat /\ DOMAIN t = 1 .. Len(t)
      /\ \A i \in 1 .. Len(t) : IsCell(t[i].value)
      /\ Values(t) \in [1 .. Len(t) -> Int]
  BY TableHasValues
<1>2. Entry(t, I) = [sum |-> Number(Sum(t, I)), count |-> Cardinality(I)]
  BY DEF Entry
<1>3. part = [i \in DOMAIN t |-> IF i \in I THEN Number(t[i].value) ELSE 0]
  BY <1>1 DEF Values
<1>4. part \in [1 .. Len(t) -> Int]
  BY <1>1
<1> HIDE DEF part
<1>5. SumOf(part) \in Int
  BY <1>1, <1>4, SumIsInteger
<1>8. Cardinality(I) \in Nat /\ SumOf([i \in 1 .. Len(t) |-> IF i \in I THEN 1 ELSE 0]) = Cardinality(I)
  <2>1. I \in SUBSET (1 .. Len(t))
    BY <1>1
  <2> QED
    BY <1>1, <2>1, SumCounts, Zenon
<1>9. Entry(t, I).sum = Number(Sum(t, I)) /\ Entry(t, I).count = Cardinality(I)
  BY <1>2
<1>6. CASE \A i \in I : t[i].value = {}
  <2>1. Sum(t, I) = {}
    BY <1>6 DEF Sum
  <2>2. \A i \in 1 .. Len(t) : part[i] = 0
    BY <1>1, <1>6, CellHasNumber DEF part, Values
  <2>4. SumOf(part) = 0
    BY <1>1, <1>4, <2>2, SumOfZeros
  <2>5. Number(Sum(t, I)) = SumOf(part) /\ IsCell(Sum(t, I))
    BY <1>5, <2>1, <2>4 DEF Number, IsCell
  <2> QED
    BY <1>5, <1>8, <1>9, <2>5 DEF part
<1>7. CASE ~ (\A i \in I : t[i].value = {})
  <2>1. Sum(t, I) = {SumOf(part)}
    BY <1>3, <1>7 DEF Sum
  <2>2. Number(Sum(t, I)) = SumOf(part) /\ IsCell(Sum(t, I))
    BY <1>5, <2>1, NumberOfOne DEF IsCell
  <2> QED
    BY <1>5, <1>8, <1>9, <2>2 DEF part
<1> QED
  BY <1>6, <1>7

(* When every row is in one of finitely many groups, and F has the entry   *)
(* of each, F has the rows and the sum of the table.                       *)
LEMMA GroupsAddUp ==
  ASSUME NEW t, IsTable(t), NEW K, IsFiniteSet(K), NEW key \in [1 .. Len(t) -> K],
         NEW F, DOMAIN F = K,
         \A k \in K : F[k] = Entry(t, {i \in DOMAIN t : key[i] = k})
  PROVE  RowsOf(F) = Len(t) /\ SumsOf(F) = Number(Sum(t, DOMAIN t))
<1> DEFINE N == Len(t)
           ones == [i \in 1 .. N |-> 1]
           In(k) == {i \in DOMAIN t : key[i] = k}
<1>1. N \in Nat /\ DOMAIN t = 1 .. N /\ Values(t) \in [1 .. N -> Int] /\ ones \in [1 .. N -> Int]
  BY TableHasValues
<1>2. ASSUME NEW k \in K
      PROVE  /\ F[k].count = SumOf(Part(N, ones, key, k))
             /\ F[k].sum = SumOf(Part(N, Values(t), key, k))
  <2>1. In(k) \in SUBSET (DOMAIN t) /\ F[k] = Entry(t, In(k))
    OBVIOUS
  <2>2. /\ [i \in 1 .. N |-> IF i \in In(k) THEN 1 ELSE 0] = Part(N, ones, key, k)
        /\ [i \in 1 .. N |-> IF i \in In(k) THEN Values(t)[i] ELSE 0] = Part(N, Values(t), key, k)
    BY <1>1 DEF Part
  <2> HIDE DEF In, ones, N
  <2>3. /\ F[k].count = SumOf([i \in 1 .. N |-> IF i \in In(k) THEN 1 ELSE 0])
        /\ F[k].sum = SumOf([i \in 1 .. N |-> IF i \in In(k) THEN Values(t)[i] ELSE 0])
    BY <2>1, EntrySums DEF N
  <2> QED
    BY <2>2, <2>3
<1> HIDE DEF In, ones, N
<1> DEFINE counts == [k \in DOMAIN F |-> F[k].count]
           sums == [k \in DOMAIN F |-> F[k].sum]
<1>4. DOMAIN counts = K /\ \A k \in K : counts[k] = SumOf(Part(N, ones, key, k))
  BY <1>2
<1>5. DOMAIN sums = K /\ \A k \in K : sums[k] = SumOf(Part(N, Values(t), key, k))
  BY <1>2
<1> HIDE DEF counts, sums
<1>6. key \in [1 .. N -> K]
  BY DEF N
<1>7. RowsOf(F) = SumOf(ones)
  <2>2. SumsOfParts(counts, N, ones, K, key)
    BY <1>1, <1>4, <1>6 DEF SumsOfParts
  <2>1. SumOver(counts) = SumOf(ones)
    BY <2>2, SumOverParts
  <2> QED
    BY <2>1 DEF RowsOf, counts
<1>8. SumsOf(F) = SumOf(Values(t))
  <2>2. SumsOfParts(sums, N, Values(t), K, key)
    BY <1>1, <1>5, <1>6 DEF SumsOfParts
  <2>1. SumOver(sums) = SumOf(Values(t))
    BY <2>2, SumOverParts
  <2> QED
    BY <2>1 DEF SumsOf, sums
<1>9. SumOf(ones) = N
  <2>1. ones = [i \in 1 .. N |-> IF i \in 1 .. N THEN 1 ELSE 0]
    BY DEF ones
  <2>2. SumOf([i \in 1 .. N |-> IF i \in 1 .. N THEN 1 ELSE 0]) = Cardinality(1 .. N)
    <3>1. 1 .. N \in SUBSET (1 .. N)
      OBVIOUS
    <3> QED
      BY <1>1, <3>1, SumCounts, Zenon
  <2>3. Cardinality(1 .. N) = N
    BY <1>1, FS_Interval
  <2> QED
    BY <2>1, <2>2, <2>3
<1>10. Number(Sum(t, DOMAIN t)) = SumOf(Values(t))
  <2>1. DOMAIN t \in SUBSET (DOMAIN t)
    OBVIOUS
  <2>2. [i \in 1 .. N |-> IF i \in DOMAIN t THEN Values(t)[i] ELSE 0] = Values(t)
    BY <1>1
  <2>3. /\ Entry(t, DOMAIN t).sum = SumOf([i \in 1 .. N |-> IF i \in DOMAIN t THEN Values(t)[i] ELSE 0])
        /\ Entry(t, DOMAIN t).sum = Number(Sum(t, DOMAIN t))
    BY <2>1, EntrySums DEF N
  <2> QED
    BY <2>2, <2>3
<1> QED
  BY <1>7, <1>8, <1>9, <1>10 DEF N

-----------------------------------------------------------------------------
(* Segmentations. *)

LEMMA RankingIsFull ==
  ASSUME NEW t, IsTable(t), NEW r \in Rankings(t)
  PROVE  /\ IsFiniteSet(Segments(t)) /\ Cardinality(Segments(t)) \in Nat
         /\ DOMAIN r = 1 .. Cardinality(Segments(t))
         /\ \A n \in DOMAIN r : r[n] \in Segments(t)
         /\ \A m, n \in DOMAIN r : r[m] = r[n] => m = n
         /\ \A s \in Segments(t) : \E n \in DOMAIN r : r[n] = s
<1> DEFINE S == Segments(t)
           N == Cardinality(S)
<1>1. IsFiniteSet(S)
  <2> DEFINE f == [i \in DOMAIN t |-> t[i].segment]
  <2>1. IsFiniteSet(DOMAIN t)
    BY TableHasValues, FS_Interval
  <2>2. IsFiniteSet({f[i] : i \in DOMAIN t})
    BY <2>1, ImagesAreFinite
  <2> QED
    BY <2>2 DEF Segments
<1>2. N \in Nat
  BY <1>1, FS_CardinalityType
<1>3. /\ r \in [1 .. N -> S]
      /\ \A m, n \in 1 .. N : m < n => r[m] # r[n]
  BY DEF Rankings
<1> HIDE DEF S
<1>4. \A m, n \in 1 .. N : r[m] = r[n] => m = n
  BY <1>2, <1>3
<1>5. r \in Injection(1 .. N, S)
  BY <1>3, <1>4 DEF Injection, IsInjective
<1>6. IsFiniteSet(1 .. N) /\ Cardinality(1 .. N) = N
  BY <1>2, FS_Interval
<1>7. r \in Surjection(1 .. N, S)
  BY <1>1, <1>5, <1>6, FS_Injection
<1>8. \A s \in S : \E n \in 1 .. N : r[n] = s
  BY <1>7 DEF Surjection
<1> QED
  BY <1>1, <1>2, <1>3, <1>4, <1>8 DEF S

Shown(r, n) == IF n <= MaxSegments THEN r[n] ELSE "Other"

(* The groups of a capped segmentation, by the segment of a row.           *)
LEMMA CappedAddsUp ==
  ASSUME NEW t, IsTable(t), NEW r \in Rankings(t)
  PROVE  /\ RowsOf(Capped(t, r)) = Len(t)
         /\ SumsOf(Capped(t, r)) = Number(Sum(t, DOMAIN t))
         /\ Cardinality(DOMAIN Capped(t, r)) <= MaxSegments + 1
<1> DEFINE F == Capped(t, r)
           K == {Shown(r, n) : n \in DOMAIN r}
           place == [i \in DOMAIN t |-> CHOOSE n \in DOMAIN r : r[n] = t[i].segment]
           key == [i \in 1 .. Len(t) |-> Shown(r, place[i])]
<1>1. /\ DOMAIN t = 1 .. Len(t)
      /\ \A i \in DOMAIN t : place[i] \in DOMAIN r /\ r[place[i]] = t[i].segment
  <2>1. \A i \in DOMAIN t : t[i].segment \in Segments(t)
    BY DEF Segments
  <2> QED
    BY <2>1, RankingIsFull, TableHasValues
<1>2. MaxSegments \in Nat /\ DOMAIN r = 1 .. Cardinality(Segments(t)) /\ Cardinality(Segments(t)) \in Nat
  BY RankingIsFull, BoundsAssumption
<1>3. IsFiniteSet(K) /\ Cardinality(K) <= MaxSegments + 1
  <2> DEFINE first == DOMAIN r \cap (1 .. MaxSegments)
             f == [n \in first |-> r[n]]
             T == {f[n] : n \in first}
  <2>1. IsFiniteSet(1 .. MaxSegments) /\ Cardinality(1 .. MaxSegments) = MaxSegments
    BY <1>2, FS_Interval
  <2>2. IsFiniteSet(first) /\ Cardinality(first) <= MaxSegments
    BY <2>1, FS_Intersection
  <2>3. IsFiniteSet(T) /\ Cardinality(T) <= Cardinality(first)
    <3> HIDE DEF first
    <3> QED
      BY <2>2, ImagesAreFinite
  <2>4. K \in SUBSET (T \cup {"Other"})
    BY <1>2 DEF Shown
  <2> HIDE DEF first, T, K
  <2>5. IsFiniteSet(T \cup {"Other"}) /\ Cardinality(T \cup {"Other"}) <= Cardinality(T) + 1
    <3>1. /\ IsFiniteSet(T \cup {"Other"})
          /\ Cardinality(T \cup {"Other"}) = IF "Other" \in T THEN Cardinality(T) ELSE Cardinality(T) + 1
      BY <2>3, FS_AddElement, Zenon
    <3>2. Cardinality(T) \in Nat
      BY <2>3, FS_CardinalityType
    <3> QED
      BY <3>1, <3>2
  <2>6. IsFiniteSet(K) /\ Cardinality(K) <= Cardinality(T \cup {"Other"})
    BY <2>4, <2>5, FS_Subset
  <2>7. Cardinality(K) \in Nat /\ Cardinality(T \cup {"Other"}) \in Nat /\ Cardinality(T) \in Nat /\ Cardinality(first) \in Nat
    BY <2>2, <2>3, <2>5, <2>6, FS_CardinalityType
  <2> QED
    BY <1>2, <2>2, <2>3, <2>5, <2>6, <2>7
<1>4. key \in [1 .. Len(t) -> K]
  BY <1>1
<1>5. DOMAIN F = K
  BY DEF Capped, Shown
<1>6. \A k \in K : F[k] = Entry(t, {i \in DOMAIN t : key[i] = k})
  <2>1. \A k \in K : F[k] = Entry(t, UNION {Group(t, r[n]) : n \in {m \in DOMAIN r : Shown(r, m) = k}})
    BY DEF Capped, Shown
  <2>2. ASSUME NEW k \in K
        PROVE  UNION {Group(t, r[n]) : n \in {m \in DOMAIN r : Shown(r, m) = k}}
                 = {i \in DOMAIN t : key[i] = k}
    <3>1. ASSUME NEW n \in DOMAIN r, Shown(r, n) = k, NEW i \in Group(t, r[n])
          PROVE  i \in DOMAIN t /\ key[i] = k
      <4>1. i \in DOMAIN t /\ t[i].segment = r[n]
        BY <3>1 DEF Group
      <4>2. place[i] = n
        BY <1>1, <4>1, RankingIsFull
      <4> QED
        BY <1>1, <3>1, <4>1, <4>2
    <3>2. ASSUME NEW i \in DOMAIN t, key[i] = k
          PROVE  /\ place[i] \in DOMAIN r /\ Shown(r, place[i]) = k
                 /\ i \in Group(t, r[place[i]])
      BY <1>1, <3>2 DEF Group
    <3> DEFINE of == {m \in DOMAIN r : Shown(r, m) = k}
               shown == UNION {Group(t, r[n]) : n \in of}
               rows == {i \in DOMAIN t : key[i] = k}
    <3>3. \A i \in shown : i \in rows
      <4>1. ASSUME NEW i \in shown PROVE \E n \in of : i \in Group(t, r[n])
        OBVIOUS
      <4> QED
        BY <3>1, <4>1
    <3>4. \A i \in rows : i \in shown
      <4>1. ASSUME NEW n \in of, NEW i \in Group(t, r[n]) PROVE i \in shown
        BY <4>1
      <4> HIDE DEF shown
      <4> QED
        BY <3>2, <4>1
    <3> QED
      BY <3>3, <3>4
  <2> QED
    BY <2>1, <2>2
<1> HIDE DEF F, K, key
<1>7. RowsOf(F) = Len(t) /\ SumsOf(F) = Number(Sum(t, DOMAIN t))
  BY <1>3, <1>4, <1>5, <1>6, GroupsAddUp
<1> QED
  BY <1>3, <1>5, <1>7 DEF F

LEMMA SegmentsAddUp ==
  ASSUME NEW t, IsTable(t), NEW r \in Rankings(t)
  PROVE  /\ RowsOf(Segmentation(t, r)) = Len(t)
         /\ SumsOf(Segmentation(t, r)) = Number(Sum(t, DOMAIN t))
         /\ Cardinality(DOMAIN Segmentation(t, r)) <= MaxSegments + 1
<1>1. CASE Cardinality(Segments(t) \ {"null"}) > MaxSegments
  <2>1. Segmentation(t, r) = Capped(t, r)
    BY <1>1 DEF Segmentation
  <2> QED
    BY <2>1, CappedAddsUp
<1>2. CASE ~ (Cardinality(Segments(t) \ {"null"}) > MaxSegments)
  <2> DEFINE K == Segments(t)
             F == [s \in K |-> Entry(t, Group(t, s))]
             key == [i \in 1 .. Len(t) |-> t[i].segment]
  <2>1. Segmentation(t, r) = F
    BY <1>2 DEF Segmentation
  <2>2. IsFiniteSet(K) /\ Cardinality(K) \in Nat /\ Cardinality(K \ {"null"}) \in Nat
    BY RankingIsFull, FS_RemoveElement, FS_CardinalityType
  <2>3. DOMAIN t = 1 .. Len(t)
    BY TableHasValues
  <2>4. key \in [1 .. Len(t) -> K]
    BY <2>3 DEF Segments
  <2>5. DOMAIN F = K /\ \A k \in K : F[k] = Entry(t, {i \in DOMAIN t : key[i] = k})
    <3>1. \A k \in K : Group(t, k) = {i \in DOMAIN t : key[i] = k}
      BY <2>3 DEF Group
    <3> QED
      BY <3>1
  <2>6. Cardinality(K) <= MaxSegments + 1
    <3>1. Cardinality(K \ {"null"}) = IF "null" \in K THEN Cardinality(K) - 1 ELSE Cardinality(K)
      BY <2>2, FS_RemoveElement
    <3> QED
      BY <1>2, <2>2, <3>1, BoundsAssumption
  <2> HIDE DEF F, K, key
  <2>7. RowsOf(F) = Len(t) /\ SumsOf(F) = Number(Sum(t, DOMAIN t))
    BY <2>2, <2>4, <2>5, GroupsAddUp
  <2> QED
    BY <2>1, <2>5, <2>6, <2>7
<1> QED
  BY <1>1, <1>2

-----------------------------------------------------------------------------
(* The top of one ranking in the segmentation by another. *)

LEMMA EqualsWhenNeitherIsBelow ==
  ASSUME NEW a, IsCell(a), NEW b, IsCell(b), ~ Below(a, b), ~ Below(b, a)
  PROVE  Number(a) = Number(b)
<1>1. Number(a) \in Int /\ Number(b) \in Int /\ (a = {} => Number(a) = 0) /\ (b = {} => Number(b) = 0)
  BY CellHasNumber
<1> QED
  BY <1>1 DEF Below

(* When a segment is in the first n of ranking q and not in the first m of *)
(* ranking r, m >= n, another that is in these has the same sum.           *)
LEMMA TiedSegment ==
  ASSUME NEW t, IsTable(t), NEW q \in Rankings(t), NEW r \in Rankings(t), NEW M \in Nat,
         NEW n \in DOMAIN q, n <= M, NEW m \in DOMAIN r, m > M, q[n] = r[m]
  PROVE  \E k \in DOMAIN r : k <= M /\ Entry(t, Group(t, r[k])).sum = Entry(t, Group(t, q[n])).sum
<1> DEFINE N == Cardinality(Segments(t))
           total(s) == Sum(t, Group(t, s))
<1>1. /\ N \in Nat /\ DOMAIN q = 1 .. N /\ DOMAIN r = 1 .. N
      /\ \A k \in 1 .. N : q[k] \in Segments(t) /\ r[k] \in Segments(t)
      /\ \A k, l \in 1 .. N : (q[k] = q[l] => k = l) /\ (r[k] = r[l] => k = l)
      /\ \A s \in Segments(t) : \E l \in 1 .. N : q[l] = s
  BY RankingIsFull
<1>2. \A k, l \in 1 .. N : k < l => ~ Below(total(q[k]), total(q[l])) /\ ~ Below(total(r[k]), total(r[l]))
  BY <1>1 DEF Rankings
<1>3. n \in 1 .. N /\ m \in 1 .. N /\ n \in Nat /\ m \in Nat
  BY <1>1
<1>0. \A k \in 1 .. M : k \in 1 .. N /\ k < m
  <2>1. N \in Nat /\ m <= N
    BY <1>1, <1>3
  <2> HIDE DEF N
  <2> QED
    BY <1>3, <2>1
<1>4. \E k \in 1 .. M : \A l \in 1 .. (n - 1) : q[l] # r[k]
  <2> SUFFICES ASSUME \A k \in 1 .. M : \E l \in 1 .. (n - 1) : q[l] = r[k]
               PROVE  FALSE
    OBVIOUS
  <2> DEFINE f == [k \in 1 .. M |-> CHOOSE l \in 1 .. (n - 1) : q[l] = r[k]]
  <2>1. f \in [1 .. M -> 1 .. (n - 1)] /\ \A k \in 1 .. M : q[f[k]] = r[k]
    OBVIOUS
  <2> HIDE DEF f
  <2>2. IsFiniteSet(1 .. M) /\ Cardinality(1 .. M) = M
    BY FS_Interval
  <2>3. IsFiniteSet(1 .. (n - 1)) /\ Cardinality(1 .. (n - 1)) = n - 1
    <3> DEFINE b == n - 1
    <3>1. b \in Int /\ ~ (1 > b) /\ b - 1 + 1 = b
      BY <1>3
    <3> HIDE DEF b
    <3>2. IsFiniteSet(1 .. b) /\ Cardinality(1 .. b) = b
      BY <3>1, FS_Interval
    <3> QED
      BY <3>2 DEF b
  <2>4. Cardinality(1 .. (n - 1)) < Cardinality(1 .. M)
    BY <1>3, <2>2, <2>3
  <2>5. \E x, y \in 1 .. M : x # y /\ f[x] = f[y]
    <3> DEFINE S == 1 .. M
               T == 1 .. (n - 1)
    <3>1. IsFiniteSet(S) /\ IsFiniteSet(T) /\ Cardinality(T) < Cardinality(S) /\ f \in [S -> T]
      BY <2>1, <2>2, <2>3, <2>4
    <3> HIDE DEF S, T
    <3>2. \E x, y \in S : x # y /\ f[x] = f[y]
      BY <3>1, FS_PigeonHole
    <3> QED
      BY <3>2 DEF S
  <2>6. PICK x \in 1 .. M, y \in 1 .. M : x # y /\ f[x] = f[y]
    BY <2>5
  <2>7. r[x] = r[y]
    BY <2>1, <2>6
  <2>8. x \in 1 .. N /\ y \in 1 .. N
    BY <1>0
  <2> QED
    BY <1>1, <2>6, <2>7, <2>8
<1>5. PICK k \in 1 .. M : \A l \in 1 .. (n - 1) : q[l] # r[k]
  BY <1>4
<1>6. k \in 1 .. N /\ k < m /\ k <= M
  BY <1>0
<1>7. PICK l \in 1 .. N : q[l] = r[k]
  BY <1>1, <1>6
<1>8. n < l
  <2>1. l # n
    BY <1>1, <1>3, <1>6, <1>7
  <2>2. l \notin 1 .. (n - 1)
    BY <1>5, <1>7
  <2> QED
    BY <1>3, <2>1, <2>2
<1>9. ~ Below(total(q[n]), total(q[l]))
  BY <1>2, <1>3, <1>8
<1>10. ~ Below(total(r[k]), total(r[m]))
  BY <1>2, <1>3, <1>6
<1>11. ASSUME NEW s
       PROVE  Entry(t, Group(t, s)).sum = Number(total(s)) /\ IsCell(total(s))
  <2>1. Group(t, s) \in SUBSET (DOMAIN t)
    BY DEF Group
  <2> QED
    BY <2>1, EntrySums
<1> DEFINE a == total(q[n])
           b == total(r[k])
<1>12. ~ Below(a, b) /\ ~ Below(b, a) /\ IsCell(a) /\ IsCell(b)
  BY <1>7, <1>9, <1>10, <1>11
<1>13. Number(a) = Number(b)
  <2> HIDE DEF a, b
  <2> QED
    BY <1>12, EqualsWhenNeitherIsBelow
<1>14. Entry(t, Group(t, r[k])).sum = Entry(t, Group(t, q[n])).sum
  BY <1>11, <1>13
<1>15. k \in DOMAIN r
  BY <1>1, <1>6
<1> QED
  BY <1>6, <1>14, <1>15

LEMMA TopOfAnyRankingAgrees ==
  ASSUME IsTable(table), NEW q \in Rankings(table), NEW r \in Rankings(table)
  PROVE  TopAgrees(Top(table, q), Segmentation(table, r))
<1> DEFINE t == table
           top == Top(t, q)
           F == Segmentation(t, r)
<1> SUFFICES ASSUME NEW s \in DOMAIN top, s # "Other"
             PROVE  \/ s \in DOMAIN F /\ F[s] = top[s]
                    \/ /\ s \notin DOMAIN F
                       /\ \E g \in Segments(t) \cap DOMAIN F : Entry(t, Group(t, g)).sum = top[s].sum
  BY DEF TopAgrees
<1>1. /\ DOMAIN q = 1 .. Cardinality(Segments(t)) /\ DOMAIN r = DOMAIN q /\ Cardinality(Segments(t)) \in Nat
      /\ \A n \in DOMAIN q : q[n] \in Segments(t) /\ r[n] \in Segments(t)
      /\ \A k, l \in DOMAIN r : r[k] = r[l] => k = l
      /\ \A g \in Segments(t) : \E m \in DOMAIN r : r[m] = g
  BY RankingIsFull
<1>2. PICK n \in DOMAIN q : n <= TopGroups /\ q[n] = s
  BY <1>1, BoundsAssumption DEF Top
<1>3. s \in Segments(t) /\ top[s] = Entry(t, Group(t, s))
  BY <1>1, <1>2 DEF Top
<1>4. TopGroups \in Nat /\ MaxSegments \in Nat /\ TopGroups <= MaxSegments
  BY BoundsAssumption
<1>5. CASE ~ (Cardinality(Segments(t) \ {"null"}) > MaxSegments)
  <2>1. F = [g \in Segments(t) |-> Entry(t, Group(t, g))]
    BY <1>5 DEF Segmentation
  <2> QED
    BY <1>3, <2>1
<1>6. CASE Cardinality(Segments(t) \ {"null"}) > MaxSegments
  <2> DEFINE K == {Shown(r, k) : k \in DOMAIN r}
             rows(g) == UNION {Group(t, r[k]) : k \in {m \in DOMAIN r : Shown(r, m) = g}}
  <2>1. F = [g \in K |-> Entry(t, rows(g))]
    BY <1>6 DEF Segmentation, Capped, Shown
  <2>2. PICK m \in DOMAIN r : r[m] = s
    BY <1>1, <1>3
  <2>3. \A k \in DOMAIN r : Shown(r, k) = s <=> k = m /\ m <= MaxSegments
    BY <1>1, <2>2 DEF Shown
  <2>4. CASE m <= MaxSegments
    <3>1. {k \in DOMAIN r : Shown(r, k) = s} = {m}
      BY <2>3, <2>4
    <3>2. rows(s) = Group(t, s)
      BY <2>2, <3>1
    <3>3. s \in K
      BY <2>3, <2>4
    <3> QED
      BY <1>3, <2>1, <3>2, <3>3
  <2>5. CASE m > MaxSegments
    <3>1. s \notin K
      BY <1>1, <1>4, <2>3, <2>5
    <3>2. n <= MaxSegments
      BY <1>1, <1>2, <1>4
    <3>3. PICK k \in DOMAIN r : /\ k <= MaxSegments
                                /\ Entry(t, Group(t, r[k])).sum = Entry(t, Group(t, q[n])).sum
      BY <1>2, <1>4, <2>2, <2>5, <3>2, TiedSegment
    <3>4. r[k] \in Segments(t) \cap K
      BY <1>1, <3>3 DEF Shown
    <3>5. r[k] \in Segments(t) \cap DOMAIN F
      BY <2>1, <3>4
    <3> HIDE DEF F, top
    <3>6. s \notin DOMAIN F
      BY <2>1, <3>1
    <3> QED
      BY <1>2, <1>3, <3>3, <3>5, <3>6
  <2> QED
    BY <1>1, <1>4, <2>4, <2>5
<1> QED
  BY <1>5, <1>6

-----------------------------------------------------------------------------
(* Series. *)

Rank(P, p) == Cardinality({q \in P : Before(q, p)})

(* The periods have positions in the order of Before, without gaps. *)
LEMMA EveryPositionHasAPeriod ==
  ASSUME NEW P \in SUBSET Nat, IsFiniteSet(P)
  PROVE  /\ Cardinality(P) \in Nat
         /\ \A p \in P : Rank(P, p) + 1 \in 1 .. Cardinality(P)
         /\ \A p, q \in P : Rank(P, p) = Rank(P, q) => p = q
         /\ \A n \in 1 .. Cardinality(P) : \E p \in P : Rank(P, p) = n - 1
<1> DEFINE K == Cardinality(P)
           earlier(p) == {q \in P : Before(q, p)}
<1>1. K \in Nat
  BY FS_CardinalityType
<1>2. \A p \in P : IsFiniteSet(earlier(p)) /\ Rank(P, p) = Cardinality(earlier(p)) /\ Rank(P, p) \in Nat
  <2>1. \A p : earlier(p) \in SUBSET P /\ Rank(P, p) = Cardinality(earlier(p))
    BY DEF Rank
  <2> HIDE DEF earlier
  <2> QED
    BY <2>1, FS_Subset, FS_CardinalityType
<1>3. ASSUME NEW p \in P
      PROVE  Rank(P, p) + 1 \in 1 .. K
  <2>1. earlier(p) \in SUBSET (P \ {p})
    BY DEF Before
  <2> HIDE DEF earlier
  <2>2. IsFiniteSet(P \ {p}) /\ Cardinality(P \ {p}) = K - 1
    BY FS_RemoveElement
  <2>3. Cardinality(earlier(p)) <= Cardinality(P \ {p})
    BY <2>1, <2>2, FS_Subset
  <2> QED
    BY <1>1, <1>2, <2>2, <2>3
<1>4. ASSUME NEW p \in P, NEW q \in P, Before(p, q)
      PROVE  Rank(P, p) # Rank(P, q)
  <2>1. earlier(p) \in SUBSET earlier(q) /\ p \in earlier(q) /\ p \notin earlier(p)
    <3>1. p \in Nat /\ q \in Nat /\ P \subseteq Nat
      OBVIOUS
    <3>2. \A x \in P : Before(x, p) => Before(x, q)
      BY <1>4, <3>1 DEF Before
    <3>3. ~ Before(p, p)
      BY DEF Before
    <3> QED
      BY <1>4, <3>2, <3>3
  <2> HIDE DEF earlier
  <2> QED
    BY <1>2, <2>1, FS_Subset
<1>5. ASSUME NEW p \in P, NEW q \in P, Rank(P, p) = Rank(P, q)
      PROVE  p = q
  <2>1. p = q \/ Before(p, q) \/ Before(q, p)
    BY DEF Before
  <2> QED
    BY <1>4, <1>5, <2>1
<1> DEFINE f == [p \in P |-> Rank(P, p) + 1]
<1>6. f \in Injection(P, 1 .. K)
  <2>1. f \in [P -> 1 .. K]
    BY <1>3
  <2>2. ASSUME NEW p \in P, NEW q \in P, f[p] = f[q]
        PROVE  p = q
    <3>1. Rank(P, p) \in Nat /\ Rank(P, q) \in Nat
      BY <1>2
    <3>2. Rank(P, p) + 1 = Rank(P, q) + 1
      BY <2>2
    <3>3. Rank(P, p) = Rank(P, q)
      BY <3>1, <3>2
    <3> QED
      BY <1>5, <3>3
  <2> HIDE DEF f
  <2> QED
    BY <2>1, <2>2 DEF Injection, IsInjective
<1>7. IsFiniteSet(1 .. K) /\ Cardinality(1 .. K) = K
  BY <1>1, FS_Interval
<1> HIDE DEF f
<1>8. f \in Surjection(P, 1 .. K)
  <2> DEFINE T == 1 .. K
  <2>1. f \in Injection(P, T) /\ IsFiniteSet(T) /\ Cardinality(P) = Cardinality(T)
    BY <1>6, <1>7
  <2> HIDE DEF T
  <2>2. f \in Surjection(P, T)
    BY <2>1, FS_Injection
  <2> QED
    BY <2>2 DEF T
<1>9. ASSUME NEW n \in 1 .. K
      PROVE  \E p \in P : Rank(P, p) = n - 1
  <2>1. PICK p \in P : f[p] = n
    BY <1>8 DEF Surjection
  <2>2. Rank(P, p) + 1 = n
    BY <2>1 DEF f
  <2>3. Rank(P, p) \in Nat
    BY <1>2
  <2>4. Rank(P, p) = n - 1
    BY <2>2, <2>3
  <2> QED
    BY <2>4
<1> QED
  BY <1>1, <1>3, <1>5, <1>9

LEMMA SeriesAddsUp ==
  ASSUME NEW t, IsTable(t), NEW period \in [1 .. Len(t) -> Nat]
  PROVE  /\ Series(t, period) \in Seq([sum : Int, count : Nat])
         /\ Len(Series(t, period)) < MaxRows =>
              /\ RowsOf(Series(t, period)) = Len(t)
              /\ SumsOf(Series(t, period)) = Number(Sum(t, DOMAIN t))
<1> DEFINE P == {period[i] : i \in DOMAIN t}
           K == Cardinality(P)
           nth(n) == CHOOSE p \in P : Rank(P, p) = n - 1
           rows(n) == {i \in DOMAIN t : period[i] = nth(n)}
           all == [n \in 1 .. K |-> Entry(t, rows(n))]
           key == [i \in 1 .. Len(t) |-> Rank(P, period[i]) + 1]
<1>1. DOMAIN t = 1 .. Len(t) /\ Len(t) \in Nat
  BY TableHasValues
<1>2. P \in SUBSET Nat /\ IsFiniteSet(P)
  <2>1. IsFiniteSet(DOMAIN t) /\ DOMAIN period = DOMAIN t /\ period = [i \in DOMAIN t |-> period[i]]
    BY <1>1, FS_Interval
  <2>2. IsFiniteSet(P)
    BY <2>1, ImagesAreFinite
  <2> QED
    BY <1>1, <2>2
<1>3. Series(t, period) = Kept(all)
  BY DEF Series, Rank
<1>4. \A i \in 1 .. Len(t) : period[i] \in P
  BY <1>1
<1> HIDE DEF P
<1>5. /\ K \in Nat
      /\ \A p \in P : Rank(P, p) + 1 \in 1 .. K
      /\ \A p, q \in P : Rank(P, p) = Rank(P, q) => p = q
      /\ \A n \in 1 .. K : \E p \in P : Rank(P, p) = n - 1
  BY <1>2, EveryPositionHasAPeriod
<1>6. \A n \in 1 .. K : nth(n) \in P /\ Rank(P, nth(n)) = n - 1
  BY <1>5
<1>7. key \in [1 .. Len(t) -> 1 .. K]
  BY <1>4, <1>5
<1>8. ASSUME NEW n \in 1 .. K
      PROVE  rows(n) = {i \in DOMAIN t : key[i] = n}
  <2>1. ASSUME NEW i \in DOMAIN t
        PROVE  period[i] = nth(n) <=> Rank(P, period[i]) + 1 = n
    <3>1. period[i] \in P /\ Rank(P, period[i]) + 1 \in 1 .. K
      BY <1>1, <1>4, <1>5
    <3>2. nth(n) \in P /\ Rank(P, nth(n)) = n - 1
      BY <1>6
    <3> HIDE DEF nth
    <3>3. CASE period[i] = nth(n)
      BY <3>2, <3>3
    <3>4. CASE Rank(P, period[i]) + 1 = n
      <4>1. Rank(P, period[i]) = n - 1
        <5>1. Rank(P, period[i]) \in Nat
          BY <1>2, FS_Subset, FS_CardinalityType DEF Rank
        <5> QED
          BY <3>4, <5>1
      <4> QED
        BY <1>5, <3>1, <3>2, <4>1, <3>4
    <3> QED
      BY <3>3, <3>4
  <2> QED
    BY <1>1, <2>1
<1>9. \A n \in 1 .. K : Entry(t, rows(n)) \in [sum : Int, count : Nat]
  <2>1. ASSUME NEW n \in 1 .. K
        PROVE  Entry(t, rows(n)) \in [sum : Int, count : Nat]
    <3>1. rows(n) \in SUBSET (DOMAIN t)
      OBVIOUS
    <3> HIDE DEF rows
    <3>2. Entry(t, rows(n)).sum \in Int /\ Entry(t, rows(n)).count \in Nat
      BY <3>1, EntrySums
    <3> QED
      BY <3>2 DEF Entry
  <2> QED
    BY <2>1
<1>10. all \in [1 .. K -> [sum : Int, count : Nat]] /\ all \in Seq([sum : Int, count : Nat]) /\ Len(all) = K
  <2> HIDE DEF rows, K
  <2> QED
    BY <1>5, <1>9
<1>11. RowsOf(all) = Len(t) /\ SumsOf(all) = Number(Sum(t, DOMAIN t))
  <2> DEFINE N == 1 .. K
  <2>1. IsFiniteSet(N)
    BY <1>5, FS_Interval
  <2>2. DOMAIN all = N /\ \A n \in N : all[n] = Entry(t, {i \in DOMAIN t : key[i] = n})
    BY <1>8
  <2>3. key \in [1 .. Len(t) -> N]
    BY <1>7
  <2> HIDE DEF N, all, key
  <2> QED
    BY <2>1, <2>2, <2>3, GroupsAddUp
<1> HIDE DEF all, K
<1>12. MaxRows \in Nat
  BY BoundsAssumption
<1>13. Kept(all) \in Seq([sum : Int, count : Nat]) /\ (Len(Kept(all)) < MaxRows => Kept(all) = all)
  <2>1. CASE Len(all) < MaxRows
    BY <1>5, <1>10, <2>1 DEF Kept
  <2>2. CASE ~ (Len(all) < MaxRows)
    BY <1>5, <1>10, <1>12, <2>2 DEF Kept
  <2> QED
    BY <2>1, <2>2
<1> QED
  BY <1>3, <1>11, <1>13

-----------------------------------------------------------------------------
(* Anomalies. *)

(* Of L numbers that are not negative, fewer than (L - 1) / 4 are more     *)
(* than 4 / (L - 1) of their sum.                                          *)
LEMMA FewAreLarge ==
  ASSUME NEW L \in Nat, NEW e \in [1 .. L -> Nat], NEW A \in SUBSET (1 .. L), A # {},
         \A n \in A : e[n] * (L - 1) > 4 * SumOf(e)
  PROVE  4 * Cardinality(A) < L - 1
<1> DEFINE S == SumOf(e)
           C == Cardinality(A)
           ones == [n \in 1 .. L |-> IF n \in A THEN 1 ELSE 0]
           low == [n \in 1 .. L |-> IF n \in A THEN 4 * S + 1 ELSE 0]
           high == [n \in 1 .. L |-> (L - 1) * e[n]]
<1>1. e \in [1 .. L -> Int] /\ \A n \in 1 .. L : e[n] >= 0 /\ e[n] \in Nat
  OBVIOUS
<1>2. S \in Nat
  BY <1>1, SumIsMonotone
<1>3. IsFiniteSet(A) /\ C \in Nat /\ SumOf(ones) = C
  BY SumCounts, Zenon
<1>4. C >= 1
  <2>1. C # 0
    BY <1>3, FS_EmptySet
  <2> QED
    BY <1>3, <2>1
<1> HIDE DEF S, C
<1>5. /\ ones \in [1 .. L -> Int] /\ low \in [1 .. L -> Int] /\ 4 * S + 1 \in Int
      /\ \A n \in 1 .. L : low[n] = (4 * S + 1) * ones[n]
  BY <1>2
<1>6. /\ high \in [1 .. L -> Int] /\ L - 1 \in Int
      /\ \A n \in 1 .. L : high[n] = (L - 1) * e[n]
  BY <1>1
<1>7. \A n \in 1 .. L : low[n] <= high[n]
  <2>1. ASSUME NEW n \in 1 .. L, n \in A
        PROVE  4 * S + 1 <= (L - 1) * e[n]
    <3> DEFINE x == e[n] * (L - 1)
    <3>1. x \in Int /\ x = (L - 1) * e[n]
      BY <1>1, <1>6
    <3>2. x > 4 * S
      BY <2>1 DEF S
    <3> HIDE DEF x
    <3>3. 4 * S + 1 <= x
      BY <1>2, <3>1, <3>2
    <3> QED
      BY <3>1, <3>3
  <2>2. ASSUME NEW n \in 1 .. L, n \notin A
        PROVE  0 <= (L - 1) * e[n]
    <3>1. L - 1 \in Nat /\ e[n] \in Nat
      BY <1>1
    <3> QED
      BY <3>1
  <2>3. \A n \in 1 .. L : (n \in A => low[n] = 4 * S + 1) /\ (n \notin A => low[n] = 0)
    OBVIOUS
  <2> HIDE DEF low
  <2>4. \A n \in 1 .. L : high[n] = (L - 1) * e[n]
    BY <1>6
  <2> HIDE DEF high
  <2> QED
    BY <2>1, <2>2, <2>3, <2>4
<1> HIDE DEF ones, low, high
<1>8. SumOf(low) = (4 * S + 1) * C
  BY <1>3, <1>5, SumIsMultiplied
<1>9. SumOf(high) = (L - 1) * S
  BY <1>1, <1>6, SumIsMultiplied DEF S
<1>10. SumOf(low) <= SumOf(high)
  BY <1>5, <1>6, <1>7, SumIsMonotone
<1>11. (4 * S + 1) * C <= (L - 1) * S
  BY <1>8, <1>9, <1>10
<1> QED
  <2> SUFFICES ASSUME L - 1 <= 4 * C
               PROVE  FALSE
    BY <1>3 DEF C
  <2> DEFINE d == 4 * C - (L - 1)
  <2>1. d \in Nat
    BY <1>3
  <2>2. d * S >= 0 /\ d * S \in Int
    <3> HIDE DEF d
    <3> QED
      BY <1>2, <2>1
  <2>3. d * S = 4 * C * S - (L - 1) * S
    BY <1>2, <1>3
  <2>4. (4 * S + 1) * C = 4 * C * S + C
    BY <1>2, <1>3
  <2> DEFINE x == 4 * C * S
             y == (L - 1) * S
  <2>5. x \in Int /\ y \in Int
    BY <1>2, <1>3
  <2>6. x - y >= 0 /\ x + C <= y
    BY <1>11, <2>2, <2>3, <2>4
  <2> HIDE DEF x, y
  <2> QED
    BY <1>3, <1>4, <2>5, <2>6

LEMMA FewAnomalies ==
  ASSUME NEW series \in Seq([sum : Int, count : Nat]), Anomalies(series) # {}
  PROVE  4 * Cardinality(Anomalies(series)) < Len(series) - 1
<1> DEFINE L == Len(series)
           A == Anomalies(series)
           sums == [m \in DOMAIN series |-> series[m].sum]
           e == [n \in DOMAIN series |-> Deviation(series, n) * Deviation(series, n)]
<1>1. L \in Nat /\ DOMAIN series = 1 .. L /\ sums \in [1 .. L -> Int]
  <2> DEFINE T == [sum : Int, count : Nat]
  <2>1. L \in Nat /\ DOMAIN series = 1 .. L /\ \A n \in 1 .. L : series[n] \in T
    <3>1. series \in Seq(T)
      OBVIOUS
    <3> HIDE DEF T
    <3> QED
      BY <3>1
  <2>2. \A n \in 1 .. L : series[n].sum \in Int
    BY <2>1
  <2> QED
    BY <2>1, <2>2
<1> HIDE DEF L
<1>2. SumOf(sums) \in Int
  <2> HIDE DEF sums
  <2> QED
    BY <1>1, SumIsInteger
<1>3. ASSUME NEW n \in 1 .. L
      PROVE  Deviation(series, n) \in Int
  <2>1. Deviation(series, n) = L * sums[n] - SumOf(sums)
    BY <1>1 DEF Deviation, L
  <2>2. sums[n] \in Int
    BY <1>1
  <2> HIDE DEF sums
  <2> QED
    BY <1>1, <1>2, <2>1, <2>2
<1>4. ASSUME NEW d \in Int
      PROVE  d * d \in Nat
  OBVIOUS
<1>5. e \in [1 .. L -> Nat]
  BY <1>1, <1>3, <1>4
<1>6. A \in SUBSET (1 .. L) /\ \A n \in A : e[n] * (L - 1) > 4 * SumOf(e)
  BY <1>1 DEF Anomalies, SquaredDeviations, L
<1> HIDE DEF e
<1>7. 4 * Cardinality(A) < L - 1
  BY <1>1, <1>5, <1>6, FewAreLarge
<1> QED
  BY <1>7 DEF L

-----------------------------------------------------------------------------
(* The invariant: what is in a report was computed of the table. *)

Explored ==
  Has("data-explorer", "profiles") =>
    report["data-explorer"].profiles.value = Stats(table, {i \in DOMAIN table : table[i].value = {}})

TiedOut ==
  /\ Has("source-tieout", "row_count") => report["source-tieout"].row_count = Len(table)
  /\ Has("source-tieout", "numeric_sum") =>
       report["source-tieout"].numeric_sum = Sum(table, DOMAIN table)

Described ==
  /\ Has("descriptive-analytics", "segments") =>
       \E r \in Rankings(table) : report["descriptive-analytics"].segments = Segmentation(table, r)
  /\ Has("descriptive-analytics", "top_n") =>
       \E r \in Rankings(table) : report["descriptive-analytics"].top_n = Top(table, r)

Followed ==
  /\ Has("overtime-trend", "time_series") =>
       report["overtime-trend"].time_series = MonthlySeries(table)
  /\ Has("overtime-trend", "anomalies") =>
       report["overtime-trend"].anomalies = Anomalies(DailySeries(table))

ReportInv ==
  /\ table \in Tables
  /\ DOMAIN report = ToSet(Analyst)
  /\ Explored
  /\ TiedOut
  /\ Described
  /\ Followed

LEMMA Analysts ==
  ToSet(Analyst) = {"data-explorer", "source-tieout", "descriptive-analytics", "overtime-trend"}
<1>1. DOMAIN Analyst = {1, 2, 3, 4}
  BY DEF Analyst
<1>2. /\ Analyst[1] = "data-explorer" /\ Analyst[2] = "source-tieout"
      /\ Analyst[3] = "descriptive-analytics" /\ Analyst[4] = "overtime-trend"
  BY DEF Analyst
<1> QED
  BY <1>1, <1>2 DEF ToSet

LEMMA InitReport == Init => ReportInv
<1> SUFFICES ASSUME Init
             PROVE  ReportInv
  OBVIOUS
<1>1. DOMAIN Pending = {"done"}
  BY DEF Pending
<1>2. /\ table \in Tables /\ DOMAIN report = ToSet(Analyst)
      /\ \A a \in ToSet(Analyst) : report[a] = Pending
  BY DEF Init
<1>3. \A a \in ToSet(Analyst) : \A k : Has(a, k) => k = "done"
  BY <1>1, <1>2 DEF Has
<1> QED
  BY <1>2, <1>3, Analysts DEF ReportInv, Explored, TiedOut, Described, Followed

(* A report has what its agent has computed, and the others are as before. *)
LEMMA ReportOfOne ==
  ASSUME DOMAIN report = ToSet(Analyst), NEW a \in ToSet(Analyst), NEW computed, Report(a, computed)
  PROVE  /\ DOMAIN report' = ToSet(Analyst)
         /\ report'[a] = computed
         /\ \A b : b # a => report'[b] = report[b] \/ b \notin ToSet(Analyst)
BY DEF Report

LEMMA StepReport == ReportInv /\ [Next]_vars => ReportInv'
<1> SUFFICES ASSUME ReportInv, [Next]_vars
             PROVE  ReportInv'
  OBVIOUS
<1> USE DEF ReportInv
<1>1. ASSUME NEW ok \in SUBSET {"profiles"}, Explore(ok)
      PROVE  ReportInv'
  <2> DEFINE value == Stats(table, {i \in DOMAIN table : table[i].value = {}})
  <2>1. UNCHANGED table /\ ok \subseteq {"profiles"}
    BY <1>1 DEF Explore
  <2>2. PICK results : /\ results.profiles.value = value
                       /\ Report("data-explorer", Computed(ok, results))
    BY <1>1 DEF Explore
  <2>3. /\ DOMAIN report' = ToSet(Analyst)
        /\ report'["data-explorer"] = Computed(ok, results)
        /\ report'["source-tieout"] = report["source-tieout"]
        /\ report'["descriptive-analytics"] = report["descriptive-analytics"]
        /\ report'["overtime-trend"] = report["overtime-trend"]
    BY <2>2, Analysts, ReportOfOne
  <2>4. Explored'
    BY <2>1, <2>2, <2>3 DEF Explored, Has, Computed
  <2> QED
    BY <2>1, <2>3, <2>4 DEF TiedOut, Described, Followed, Has
<1>2. ASSUME NEW ok \in SUBSET {"row_count", "numeric_sum"}, TieOut(ok)
      PROVE  ReportInv'
  <2>1. UNCHANGED table
    BY <1>2 DEF TieOut
  <2>2. PICK results : /\ results.row_count = Len(table)
                       /\ results.numeric_sum = Sum(table, DOMAIN table)
                       /\ Report("source-tieout", Computed(ok, results))
    BY <1>2 DEF TieOut
  <2>3. /\ DOMAIN report' = ToSet(Analyst)
        /\ report'["source-tieout"] = Computed(ok, results)
        /\ report'["data-explorer"] = report["data-explorer"]
        /\ report'["descriptive-analytics"] = report["descriptive-analytics"]
        /\ report'["overtime-trend"] = report["overtime-trend"]
    BY <2>2, Analysts, ReportOfOne
  <2>4. TiedOut'
    BY <2>1, <2>2, <2>3 DEF TiedOut, Has, Computed
  <2> QED
    BY <2>1, <2>3, <2>4 DEF Explored, Described, Followed, Has
<1>3. ASSUME NEW ok \in SUBSET {"segments", "top_n"}, NEW r \in Rankings(table), NEW s \in Rankings(table),
             Describe(ok, r, s)
      PROVE  ReportInv'
  <2>1. UNCHANGED table
    BY <1>3 DEF Describe
  <2>2. PICK results : /\ results.segments = Segmentation(table, r)
                       /\ results.top_n = Top(table, s)
                       /\ Report("descriptive-analytics", Computed(ok, results))
    BY <1>3 DEF Describe
  <2>3. /\ DOMAIN report' = ToSet(Analyst)
        /\ report'["descriptive-analytics"] = Computed(ok, results)
        /\ report'["data-explorer"] = report["data-explorer"]
        /\ report'["source-tieout"] = report["source-tieout"]
        /\ report'["overtime-trend"] = report["overtime-trend"]
    BY <2>2, Analysts, ReportOfOne
  <2>4. Described'
    BY <2>1, <2>2, <2>3 DEF Described, Has, Computed
  <2> QED
    BY <2>1, <2>3, <2>4 DEF Explored, TiedOut, Followed, Has
<1>4. ASSUME NEW ok \in SUBSET {"time_series", "anomalies"}, Trend(ok)
      PROVE  ReportInv'
  <2>1. UNCHANGED table
    BY <1>4 DEF Trend
  <2>2. PICK kept, results : /\ results.time_series = MonthlySeries(table)
                             /\ results.anomalies = Anomalies(DailySeries(table))
                             /\ Report("overtime-trend", Computed(kept, results))
    BY <1>4 DEF Trend
  <2>3. /\ DOMAIN report' = ToSet(Analyst)
        /\ report'["overtime-trend"] = Computed(kept, results)
        /\ report'["data-explorer"] = report["data-explorer"]
        /\ report'["source-tieout"] = report["source-tieout"]
        /\ report'["descriptive-analytics"] = report["descriptive-analytics"]
    BY <2>2, Analysts, ReportOfOne
  <2>4. Followed'
    BY <2>1, <2>2, <2>3 DEF Followed, Has, Computed
  <2> QED
    BY <2>1, <2>3, <2>4 DEF Explored, TiedOut, Described, Has
<1>5. ASSUME NEW a \in ToSet(Analyst), SkipHelpers(a)
      PROVE  ReportInv'
  <2>1. UNCHANGED table /\ Report(a, << >>)
    BY <1>5 DEF SkipHelpers
  <2>2. /\ DOMAIN report' = ToSet(Analyst)
        /\ report'[a] = << >>
        /\ \A b \in ToSet(Analyst) : b # a => report'[b] = report[b]
    BY <2>1, ReportOfOne
  <2>3. \A k : k \notin DOMAIN << >>
    OBVIOUS
  <2>4. \A b \in ToSet(Analyst) : report'[b] = report[b] \/ \A k : k \notin DOMAIN report'[b]
    BY <2>2, <2>3
  <2>5. Explored'
    BY <2>1, <2>4, Analysts DEF Explored, Has
  <2>6. TiedOut'
    BY <2>1, <2>4, Analysts DEF TiedOut, Has
  <2>7. Described'
    BY <2>1, <2>4, Analysts DEF Described, Has
  <2>8. Followed'
    BY <2>1, <2>4, Analysts DEF Followed, Has
  <2> QED
    BY <2>1, <2>2, <2>5, <2>6, <2>7, <2>8
<1>6. CASE RemoveFiles \/ UNCHANGED vars
  <2>1. UNCHANGED <<table, report>>
    BY <1>6 DEF RemoveFiles, vars
  <2> QED
    BY <2>1 DEF Explored, TiedOut, Described, Followed, Has
<1> QED
  BY <1>1, <1>2, <1>3, <1>4, <1>5, <1>6 DEF Next

(* Every report was computed of the table.                                 *)
THEOREM ReportsAreComputed == Spec => []ReportInv
<1> QED
  BY InitReport, StepReport, PTL DEF Spec

-----------------------------------------------------------------------------

LEMMA DaysAreNatural ==
  ASSUME NEW t, IsTable(t)
  PROVE  /\ [i \in DOMAIN t |-> t[i].day] \in [1 .. Len(t) -> Nat]
         /\ [i \in DOMAIN t |-> Month(t[i].day)] \in [1 .. Len(t) -> Nat]
<1>1. DOMAIN t = 1 .. Len(t) /\ \A i \in DOMAIN t : t[i].day \in Nat
  BY TableHasValues
<1>2. ASSUME NEW d \in Nat
      PROVE  Month(d) \in Nat
  <2>1. DaysPerMonth \in Nat \ {0}
    BY BoundsAssumption
  <2>2. d # 0 => (d - 1) \div DaysPerMonth \in Nat
    BY <2>1
  <2> QED
    BY <2>2 DEF Month
<1> QED
  BY <1>1, <1>2

(* Agrees, for groups that have the rows and the sum of the table.         *)
LEMMA WholeAgrees ==
  ASSUME ReportInv, NEW F, RowsOf(F) = Len(table), SumsOf(F) = Number(Sum(table, DOMAIN table))
  PROVE  Agrees(F)
<1>1. Len(table) \in Nat /\ DOMAIN table = 1 .. Len(table)
  BY TablesAssumption, TableHasValues DEF ReportInv
<1>2. ASSUME NEW I \in SUBSET (DOMAIN table)
      PROVE  Stats(table, I).count + Stats(table, I).null_count = Len(table)
  <2>1. I \in SUBSET (1 .. Len(table))
    BY <1>1
  <2>2. Cardinality(I) \in Nat
    BY <1>1, <2>1, SumCounts, Zenon
  <2> QED
    BY <1>1, <2>2 DEF Stats
<1>3. Has("data-explorer", "profiles") =>
        LET stats == report["data-explorer"].profiles.value
        IN RowsOf(F) = stats.count + stats.null_count
  <2> DEFINE nulls == {i \in DOMAIN table : table[i].value = {}}
  <2>1. nulls \in SUBSET (DOMAIN table)
    OBVIOUS
  <2>2. Has("data-explorer", "profiles") =>
          report["data-explorer"].profiles.value = Stats(table, nulls)
    BY DEF ReportInv, Explored
  <2> HIDE DEF nulls
  <2> QED
    BY <1>2, <2>1, <2>2
<1> QED
  BY <1>3 DEF Agrees, ReportInv, TiedOut

(* What the agents compute of a table agrees, whatever the tables and the  *)
(* limits are and whichever queries fail.                                  *)
THEOREM AgentsAlwaysAgree == Spec => []AgentsAgree
<1>1. ReportInv => AgentsAgree
  <2> SUFFICES ASSUME ReportInv
               PROVE  AgentsAgree
    OBVIOUS
  <2>1. IsTable(table)
    BY TablesAssumption DEF ReportInv
  <2>2. ASSUME Has("descriptive-analytics", "segments")
        PROVE  LET segments == report["descriptive-analytics"].segments
               IN /\ Agrees(segments)
                  /\ Cardinality(DOMAIN segments) <= MaxSegments + 1
                  /\ Has("descriptive-analytics", "top_n") =>
                       TopAgrees(report["descriptive-analytics"].top_n, segments)
    <3>1. PICK r \in Rankings(table) : report["descriptive-analytics"].segments = Segmentation(table, r)
      BY <2>2 DEF ReportInv, Described
    <3>2. /\ Agrees(Segmentation(table, r))
          /\ Cardinality(DOMAIN Segmentation(table, r)) <= MaxSegments + 1
      BY <2>1, SegmentsAddUp, WholeAgrees
    <3>3. Has("descriptive-analytics", "top_n") =>
            TopAgrees(report["descriptive-analytics"].top_n, Segmentation(table, r))
      BY <2>1, TopOfAnyRankingAgrees DEF ReportInv, Described
    <3> QED
      BY <3>1, <3>2, <3>3
  <2>3. ASSUME Has("overtime-trend", "time_series")
        PROVE  LET series == report["overtime-trend"].time_series
               IN Len(series) < MaxRows => Agrees(series)
    <3>1. report["overtime-trend"].time_series = MonthlySeries(table)
      BY <2>3 DEF ReportInv, Followed
    <3>2. Len(MonthlySeries(table)) < MaxRows => Agrees(MonthlySeries(table))
      BY <2>1, DaysAreNatural, SeriesAddsUp, WholeAgrees DEF MonthlySeries
    <3> QED
      BY <3>1, <3>2
  <2> QED
    BY <2>2, <2>3 DEF AgentsAgree
<1> QED
  BY <1>1, ReportsAreComputed, PTL

(* Fewer than a quarter of the days of any series beyond the first are     *)
(* anomalies.                                                              *)
THEOREM AnomaliesAreAlwaysRare == Spec => []AnomaliesAreRare
<1>1. ReportInv => AnomaliesAreRare
  <2> SUFFICES ASSUME ReportInv, Has("overtime-trend", "anomalies"),
                      report["overtime-trend"].anomalies # {}
               PROVE  4 * Cardinality(report["overtime-trend"].anomalies) < Len(DailySeries(table)) - 1
    BY DEF AnomaliesAreRare
  <2>1. IsTable(table) /\ report["overtime-trend"].anomalies = Anomalies(DailySeries(table))
    BY TablesAssumption DEF ReportInv, Followed
  <2>2. DailySeries(table) \in Seq([sum : Int, count : Nat])
    BY <2>1, DaysAreNatural, SeriesAddsUp DEF DailySeries
  <2> QED
    BY <2>1, <2>2, FewAnomalies
<1> QED
  BY <1>1, ReportsAreComputed, PTL

=============================================================================
