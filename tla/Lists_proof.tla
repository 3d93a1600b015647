---------------------------- MODULE Lists_proof ----------------------------
(***************************************************************************)
(* What the loops of Lists compute, for lists of any length.  Induction is *)
(* by the least counterexample, which every set of natural numbers has.    *)
(***************************************************************************)
EXTENDS Lists, SequencesExt, WellFoundedInduction, SequenceTheorems, FiniteSetTheorems, TLAPS

(* Every set of natural numbers that is not empty has a least element.     *)
LEMMA Least ==
  ASSUME NEW T \in SUBSET Nat, T # {}
  PROVE  \E m \in T : \A k \in T : m <= k
<1> DEFINE R == OpToRel(<, Nat)
<1>1. IsWellFoundedOn(R, Nat)
  BY NatLessThanWellFounded
<1>2. \A k, m \in Nat : k < m => <<k, m>> \in R
  BY DEF OpToRel
<1> HIDE DEF R
<1>3. PICK m \in T : \A k \in T : ~ (<<k, m>> \in R)
  BY <1>1, WFMin
<1>4. ASSUME NEW k \in T PROVE m <= k
  <2>1. ~ (k < m)
    BY <1>2, <1>3
  <2> QED
    BY <2>1
<1> QED
  BY <1>4

(* A set of positions in a list that is not empty has a greatest one.      *)
LEMMA Greatest ==
  ASSUME NEW N \in Nat, NEW S \in SUBSET (1 .. N), S # {}
  PROVE  \E m \in S : \A k \in S : k <= m
<1> DEFINE T == {N - k : k \in S}
<1>1. T \in SUBSET Nat /\ T # {}
  <2>1. \A k \in S : k \in 1 .. N /\ N - k \in Nat
    OBVIOUS
  <2>2. \E k \in S : N - k \in T
    OBVIOUS
  <2> QED
    BY <2>1, <2>2
<1> HIDE DEF T
<1>2. PICK t \in T : \A k \in T : t <= k
  BY <1>1, Least
<1>3. PICK m \in S : t = N - m
  BY DEF T
<1>4. ASSUME NEW k \in S PROVE k <= m
  <2>1. N - k \in T
    BY DEF T
  <2>2. t <= N - k
    BY <1>2, <2>1
  <2> QED
    BY <1>3, <2>2
<1> QED
  BY <1>4

(* Induction over an initial segment, with the induction set as data.      *)
LEMMA Induction ==
  ASSUME NEW N \in Nat, NEW T, 0 \in T,
         \A n \in 1 .. N : n - 1 \in T => n \in T
  PROVE  0 .. N \subseteq T
<1> DEFINE F == (0 .. N) \ T
<1> SUFFICES ASSUME F # {} PROVE FALSE
  OBVIOUS
<1>1. PICK m \in F : \A k \in F : m <= k
  <2>1. F \in SUBSET Nat
    OBVIOUS
  <2> HIDE DEF F
  <2> QED
    BY <2>1, Least
<1>2. m - 1 \in 0 .. N /\ m - 1 \notin F
  BY <1>1
<1> QED
  BY <1>1, <1>2

(* f is defined on 0 .. N by recursion: the step from n - 1 to n is given  *)
(* as a function of the value at n - 1.                                    *)
Recursive(f, V, base, N, step) ==
  /\ f \in [0 .. N -> V]
  /\ f[0] = base
  /\ \A n \in 1 .. N : f[n] = step[n][f[n-1]]

(* There is such a function. *)
LEMMA Recursion ==
  ASSUME NEW V, NEW base \in V, NEW N \in Nat, NEW step \in [1 .. N -> [V -> V]]
  PROVE  \E f : Recursive(f, V, base, N, step)
<1> DEFINE Approx(k, f) == Recursive(f, V, base, k, step)
           T == {k \in 0 .. N : \E f : Approx(k, f)}
<1>1. 0 \in T
  <2> DEFINE g == [n \in 0 .. 0 |-> base]
  <2>1. Approx(0, g)
    BY DEF Recursive
  <2> HIDE DEF g
  <2> QED
    BY <2>1
<1>2. ASSUME NEW k \in 1 .. N, k - 1 \in T PROVE k \in T
  <2>1. PICK f : Approx(k - 1, f)
    BY <1>2
  <2> DEFINE g == [n \in 0 .. k |-> IF n = k THEN step[k][f[k-1]] ELSE f[n]]
  <2>2. Approx(k, g)
    BY <2>1 DEF Recursive
  <2> HIDE DEF g, Approx
  <2> QED
    BY <2>2
<1>3. N \in T
  <2>1. \A k \in 1 .. N : k - 1 \in T => k \in T
    BY <1>2
  <2> HIDE DEF T
  <2>2. 0 .. N \subseteq T
    BY <1>1, <2>1, Induction
  <2> QED
    BY <2>2
<1>4. PICK f : Approx(N, f)
  BY <1>3
<1> QED
  BY <1>4

-----------------------------------------------------------------------------
(* kept is what the loop of Those has after each pass. *)
ThosePasses(kept, A, list, S) ==
  /\ kept \in [0 .. Len(list) -> Seq(A)]
  /\ kept[0] = <<>>
  /\ \A n \in 1 .. Len(list) :
       kept[n] = IF list[n] \in S THEN Append(kept[n-1], list[n]) ELSE kept[n-1]

(* Those has such passes, and their last result. *)
LEMMA ThoseLoop ==
  ASSUME NEW A, NEW list \in Seq(A), NEW S
  PROVE  \E kept : ThosePasses(kept, A, list, S) /\ Those(list, S) = kept[Len(list)]
<1> DEFINE N == Len(list)
           Pass(n, q) == IF list[n] \in S THEN Append(q, list[n]) ELSE q
           step == [n \in 1 .. N |-> [q \in Seq(A) |-> Pass(n, q)]]
           Is(f) == f = [n \in 0 .. N |->
                           IF n = 0 THEN <<>>
                           ELSE IF list[n] \in S THEN Append(f[n-1], list[n]) ELSE f[n-1]]
           kept == CHOOSE f : Is(f)
<1>1. step \in [1 .. N -> [Seq(A) -> Seq(A)]]
  <2>1. \A n \in 1 .. N, q \in Seq(A) : Pass(n, q) \in Seq(A)
    OBVIOUS
  <2> HIDE DEF Pass
  <2> QED
    BY <2>1
<1>2. N \in Nat /\ <<>> \in Seq(A) /\ 0 \in 0 .. N
  OBVIOUS
<1> HIDE DEF step, N, Pass, Is
<1>3. PICK f : Recursive(f, Seq(A), <<>>, N, step)
  BY <1>1, <1>2, Recursion
<1>4. \A n \in 1 .. N : f[n] = Pass(n, f[n-1])
  <2>1. \A n \in 1 .. N, q \in Seq(A) : step[n][q] = Pass(n, q)
    BY DEF step
  <2>2. \A n \in 1 .. N : f[n-1] \in Seq(A)
    BY <1>2, <1>3 DEF Recursive
  <2> QED
    BY <1>3, <2>1, <2>2 DEF Recursive
<1>5. Is(f)
  <2>1. \A n \in 0 .. N :
          f[n] = IF n = 0 THEN <<>>
                 ELSE IF list[n] \in S THEN Append(f[n-1], list[n]) ELSE f[n-1]
    <3> SUFFICES ASSUME NEW n \in 0 .. N
                 PROVE  f[n] = IF n = 0 THEN <<>>
                               ELSE IF list[n] \in S THEN Append(f[n-1], list[n]) ELSE f[n-1]
      OBVIOUS
    <3>1. CASE n = 0
      <4>1. f[n] = <<>>
        BY <1>3, <3>1 DEF Recursive
      <4> QED
        BY <3>1, <4>1
    <3>2. CASE n \in 1 .. N
      <4>1. n # 0
        BY <1>2, <3>2
      <4>2. f[n] = Pass(n, f[n-1])
        BY <1>4, <3>2
      <4> QED
        BY <4>1, <4>2 DEF Pass
    <3> QED
      BY <1>2, <3>1, <3>2
  <2>2. f = [n \in 0 .. N |-> f[n]]
    BY <1>3 DEF Recursive
  <2> QED
    BY <2>1, <2>2 DEF Is
<1>6. Is(kept)
  BY <1>5
<1> HIDE DEF kept
<1>7. \A n \in 0 .. N :
        kept[n] = IF n = 0 THEN <<>>
                  ELSE IF list[n] \in S THEN Append(kept[n-1], list[n]) ELSE kept[n-1]
  BY <1>6 DEF Is
<1>8. kept[0] = <<>> /\ \A n \in 1 .. N : kept[n] = Pass(n, kept[n-1])
  BY <1>2, <1>7 DEF Pass
<1>9. kept \in [0 .. N -> Seq(A)]
  <2> DEFINE T == {n \in 0 .. N : kept[n] \in Seq(A)}
  <2>1. 0 \in T
    <3>1. kept[0] \in Seq(A)
      BY <1>2, <1>8
    <3> QED
      BY <1>2, <3>1
  <2>2. \A n \in 1 .. N : n - 1 \in T => n \in T
    <3>1. \A n \in 1 .. N, q \in Seq(A) : Pass(n, q) \in Seq(A)
      BY DEF Pass, N
    <3> QED
      BY <1>2, <1>8, <3>1
  <2> HIDE DEF T
  <2>3. 0 .. N \subseteq T
    BY <1>2, <2>1, <2>2, Induction
  <2>4. \A n \in 0 .. N : kept[n] \in Seq(A)
    BY <2>3 DEF T
  <2>5. kept = [n \in 0 .. N |-> kept[n]]
    BY <1>6 DEF Is
  <2> QED
    BY <2>4, <2>5
<1>10. Those(list, S) = kept[N]
  BY DEF Those, kept, Is, N
<1>11. ThosePasses(kept, A, list, S)
  BY <1>8, <1>9 DEF N, Pass, ThosePasses
<1> QED
  BY <1>10, <1>11 DEF N

(* Those(list, S) has the items of the list that are in S, none moved to   *)
(* the right, and no item twice when the list has none twice.              *)
THEOREM ThoseProperties ==
  ASSUME NEW A, NEW list \in Seq(A), NEW S
  PROVE  LET r == Those(list, S)
         IN /\ r \in Seq(A)
            /\ Len(r) <= Len(list)
            /\ \A i \in 1 .. Len(r) : r[i] \in S /\ \E j \in i .. Len(list) : r[i] = list[j]
            /\ \A j \in 1 .. Len(list) : list[j] \in S => \E i \in 1 .. Len(r) : r[i] = list[j]
            /\ IsInjective(list) => IsInjective(r)
            /\ (\A j \in 1 .. Len(list) : list[j] \in S) => r = list
<1>0. PICK kept : ThosePasses(kept, A, list, S) /\ Those(list, S) = kept[Len(list)]
  BY ThoseLoop
<1>1. /\ kept \in [0 .. Len(list) -> Seq(A)]
      /\ kept[0] = <<>>
      /\ \A n \in 1 .. Len(list) :
           kept[n] = IF list[n] \in S THEN Append(kept[n-1], list[n]) ELSE kept[n-1]
  BY <1>0 DEF ThosePasses
<1> DEFINE Items(n, r) ==
             /\ Len(r) <= n
             /\ \A i \in 1 .. Len(r) : r[i] \in S /\ \E j \in i .. n : r[i] = list[j]
             /\ \A j \in 1 .. n : list[j] \in S => \E i \in 1 .. Len(r) : r[i] = list[j]
           Apart(r) == IsInjective(list) => IsInjective(r)
           All(n, r) == (\A j \in 1 .. n : list[j] \in S) =>
                          Len(r) = n /\ \A i \in 1 .. n : r[i] = list[i]
           T == {n \in 0 .. Len(list) : Items(n, kept[n]) /\ Apart(kept[n]) /\ All(n, kept[n])}
<1>2. 0 \in T
  BY <1>1 DEF IsInjective
<1>3. ASSUME NEW n \in 1 .. Len(list), n - 1 \in T PROVE n \in T
  <2> DEFINE q == kept[n-1]
             r == kept[n]
  <2>0. q \in Seq(A) /\ r \in Seq(A)
    BY <1>1
  <2>1. Items(n - 1, q) /\ Apart(q) /\ All(n - 1, q)
    <3> HIDE DEF Items, Apart, All
    <3> QED
      BY <1>3
  <2>2. CASE list[n] \notin S
    <3>1. r = q
      BY <1>1, <2>2
    <3>2. Items(n, r) /\ All(n, r)
      <4> HIDE DEF q, r
      <4> QED
        BY <2>0, <2>1, <2>2, <3>1
    <3> HIDE DEF Items, Apart, All
    <3> QED
      BY <2>1, <3>1, <3>2
  <2>3. CASE list[n] \in S
    <3>1. r = Append(q, list[n])
      BY <1>1, <2>3
    <3>2. list[n] \in A
      OBVIOUS
    <3> HIDE DEF q, r
    <3>3. /\ Len(r) = Len(q) + 1
          /\ \A i \in 1 .. Len(q) : r[i] = q[i]
          /\ r[Len(q) + 1] = list[n]
          /\ Len(q) \in Nat
      BY <2>0, <3>1, <3>2
    <3>4. ASSUME NEW i \in 1 .. Len(r)
          PROVE  r[i] \in S /\ \E j \in i .. n : r[i] = list[j]
      <4>1. CASE i \in 1 .. Len(q)
        BY <2>1, <3>3, <4>1
      <4>2. CASE i = Len(q) + 1
        BY <2>1, <2>3, <3>3, <4>2
      <4> QED
        BY <3>3, <4>1, <4>2
    <3>5. ASSUME NEW j \in 1 .. n, list[j] \in S
          PROVE  \E i \in 1 .. Len(r) : r[i] = list[j]
      <4>1. CASE j \in 1 .. n - 1
        BY <2>1, <3>3, <3>5, <4>1
      <4>2. CASE j = n
        BY <3>3, <4>2
      <4> QED
        BY <4>1, <4>2
    <3>6. Apart(r)
      <4> SUFFICES ASSUME IsInjective(list), NEW i \in 1 .. Len(r), NEW k \in 1 .. Len(r),
                          r[i] = r[k], i < k
                   PROVE  FALSE
        BY <2>0, <2>1, <3>3 DEF IsInjective
      <4>1. i \in 1 .. Len(q)
        BY <3>3
      <4>2. CASE k \in 1 .. Len(q)
        BY <2>1, <3>3, <4>1, <4>2 DEF IsInjective
      <4>3. CASE k = Len(q) + 1
        <5>1. PICK j \in 1 .. n - 1 : q[i] = list[j]
          BY <2>1, <4>1
        <5> QED
          BY <3>3, <4>1, <4>3, <5>1 DEF IsInjective
      <4> QED
        BY <3>3, <4>2, <4>3
    <3>7. Items(n, r)
      BY <2>1, <3>3, <3>4, <3>5
    <3>8. All(n, r)
      <4> SUFFICES ASSUME \A j \in 1 .. n : list[j] \in S
                   PROVE  Len(r) = n /\ \A i \in 1 .. n : r[i] = list[i]
        OBVIOUS
      <4>1. Len(q) = n - 1 /\ \A i \in 1 .. n - 1 : q[i] = list[i]
        BY <2>1
      <4> QED
        BY <3>3, <4>1
    <3> HIDE DEF Items, Apart, All
    <3> QED
      BY <3>6, <3>7, <3>8 DEF r
  <2> QED
    BY <2>2, <2>3
<1>4. Len(list) \in T
  <2>1. \A n \in 1 .. Len(list) : n - 1 \in T => n \in T
    BY <1>3
  <2>2. Len(list) \in Nat
    OBVIOUS
  <2> HIDE DEF T
  <2>3. 0 .. Len(list) \subseteq T
    BY <1>2, <2>1, <2>2, Induction
  <2> QED
    BY <2>2, <2>3
<1> DEFINE result == kept[Len(list)]
<1>5. result \in Seq(A)
  BY <1>1
<1>6. Items(Len(list), result) /\ Apart(result) /\ All(Len(list), result)
  <2> HIDE DEF Items, Apart, All
  <2> QED
    BY <1>4
<1> HIDE DEF result
<1>7. Those(list, S) = result
  BY <1>0 DEF result
<1>8. (\A j \in 1 .. Len(list) : list[j] \in S) => result = list
  BY <1>5, <1>6, SeqEqual
<1> QED
  BY <1>5, <1>6, <1>7, <1>8

(* s is what is left of r when items are taken out: no item has moved to   *)
(* the right, and none is there twice that was not before.                 *)
Shortened(s, r) ==
  /\ Len(s) <= Len(r)
  /\ \A i \in 1 .. Len(s) : \E j \in i .. Len(r) : s[i] = r[j]
  /\ IsInjective(r) => IsInjective(s)

(* Without(list, S) is the list without the items of S, and has the others. *)
THEOREM WithoutProperties ==
  ASSUME NEW A, NEW list \in Seq(A), NEW S
  PROVE  /\ Without(list, S) \in Seq(A)
         /\ Shortened(Without(list, S), list)
         /\ ToSet(Without(list, S)) = ToSet(list) \ S
         /\ S = {} => Without(list, S) = list
<1> DEFINE T == {list[i] : i \in DOMAIN list} \ S
           r == Those(list, T)
<1>1. Without(list, S) = r
  BY DEF Without
<1>2. /\ r \in Seq(A)
      /\ Len(r) <= Len(list)
      /\ \A i \in 1 .. Len(r) : r[i] \in T /\ \E j \in i .. Len(list) : r[i] = list[j]
      /\ \A j \in 1 .. Len(list) : list[j] \in T => \E i \in 1 .. Len(r) : r[i] = list[j]
      /\ IsInjective(list) => IsInjective(r)
      /\ (\A j \in 1 .. Len(list) : list[j] \in T) => r = list
  <2> HIDE DEF T
  <2> QED
    BY ThoseProperties
<1> HIDE DEF r
<1>3. \A j \in 1 .. Len(list) : list[j] \notin S <=> list[j] \in T
  OBVIOUS
<1>4. Shortened(r, list)
  BY <1>2 DEF Shortened
<1>5. ToSet(r) = T
  <2>1. DOMAIN r = 1 .. Len(r) /\ DOMAIN list = 1 .. Len(list)
    BY <1>2
  <2>2. ASSUME NEW c \in T PROVE c \in ToSet(r)
    <3>1. PICK j \in 1 .. Len(list) : c = list[j]
      BY <2>1
    <3> HIDE DEF T
    <3>2. PICK i \in 1 .. Len(r) : r[i] = list[j]
      BY <1>2, <3>1
    <3> QED
      BY <2>1, <3>1, <3>2 DEF ToSet
  <2>3. ASSUME NEW c \in ToSet(r) PROVE c \in T
    <3> HIDE DEF T
    <3> QED
      BY <1>2, <2>1 DEF ToSet
  <2> HIDE DEF T
  <2> QED
    BY <2>2, <2>3
<1>6. S = {} => r = list
  BY <1>2, <1>3
<1>7. T = ToSet(list) \ S
  BY DEF ToSet
<1> QED
  BY <1>1, <1>2, <1>4, <1>5, <1>6, <1>7

-----------------------------------------------------------------------------
(* all is what the loop of Flat has after each pass. *)
FlatPasses(all, A, lists) ==
  /\ all \in [0 .. Len(lists) -> Seq(A)]
  /\ all[0] = <<>>
  /\ \A n \in 1 .. Len(lists) : all[n] = all[n-1] \o lists[n]

(* Flat has such passes, and their last result. *)
LEMMA FlatLoop ==
  ASSUME NEW A, NEW lists \in Seq(Seq(A))
  PROVE  \E all : FlatPasses(all, A, lists) /\ Flat(lists) = all[Len(lists)]
<1> DEFINE N == Len(lists)
           Pass(n, q) == q \o lists[n]
           step == [n \in 1 .. N |-> [q \in Seq(A) |-> Pass(n, q)]]
           Is(f) == f = [n \in 0 .. N |-> IF n = 0 THEN <<>> ELSE f[n-1] \o lists[n]]
           all == CHOOSE f : Is(f)
<1>0. \A n \in 1 .. N, q \in Seq(A) : Pass(n, q) \in Seq(A)
  OBVIOUS
<1>1. step \in [1 .. N -> [Seq(A) -> Seq(A)]]
  <2> HIDE DEF Pass
  <2> QED
    BY <1>0
<1>2. N \in Nat /\ <<>> \in Seq(A) /\ 0 \in 0 .. N
  OBVIOUS
<1> HIDE DEF step, N, Pass, Is
<1>3. PICK f : Recursive(f, Seq(A), <<>>, N, step)
  BY <1>1, <1>2, Recursion
<1>4. \A n \in 1 .. N : f[n] = Pass(n, f[n-1])
  <2>1. \A n \in 1 .. N, q \in Seq(A) : step[n][q] = Pass(n, q)
    BY DEF step
  <2>2. \A n \in 1 .. N : f[n-1] \in Seq(A)
    BY <1>2, <1>3 DEF Recursive
  <2> QED
    BY <1>3, <2>1, <2>2 DEF Recursive
<1>5. Is(f)
  <2>1. \A n \in 0 .. N : f[n] = IF n = 0 THEN <<>> ELSE f[n-1] \o lists[n]
    <3> SUFFICES ASSUME NEW n \in 0 .. N
                 PROVE  f[n] = IF n = 0 THEN <<>> ELSE f[n-1] \o lists[n]
      OBVIOUS
    <3>1. CASE n = 0
      <4>1. f[n] = <<>>
        BY <1>3, <3>1 DEF Recursive
      <4> QED
        BY <3>1, <4>1
    <3>2. CASE n \in 1 .. N
      <4>1. n # 0
        BY <1>2, <3>2
      <4>2. f[n] = Pass(n, f[n-1])
        BY <1>4, <3>2
      <4> QED
        BY <4>1, <4>2 DEF Pass
    <3> QED
      BY <1>2, <3>1, <3>2
  <2>2. f = [n \in 0 .. N |-> f[n]]
    BY <1>3 DEF Recursive
  <2> QED
    BY <2>1, <2>2 DEF Is
<1>6. Is(all)
  BY <1>5
<1> HIDE DEF all
<1>7. \A n \in 0 .. N : all[n] = IF n = 0 THEN <<>> ELSE all[n-1] \o lists[n]
  BY <1>6 DEF Is
<1>8. all[0] = <<>> /\ \A n \in 1 .. N : all[n] = Pass(n, all[n-1])
  <2>1. \A n \in 1 .. N : n \in 0 .. N /\ n # 0
    BY <1>2
  <2>2. \A n \in 0 .. N : all[n] = IF n = 0 THEN <<>> ELSE Pass(n, all[n-1])
    BY <1>7 DEF Pass
  <2> QED
    BY <1>2, <2>1, <2>2
<1>9. all \in [0 .. N -> Seq(A)]
  <2> DEFINE T == {n \in 0 .. N : all[n] \in Seq(A)}
  <2>1. 0 \in T
    <3>1. all[0] \in Seq(A)
      BY <1>2, <1>8
    <3> QED
      BY <1>2, <3>1
  <2>2. \A n \in 1 .. N : n - 1 \in T => n \in T
    BY <1>0, <1>2, <1>8
  <2> HIDE DEF T
  <2>3. 0 .. N \subseteq T
    BY <1>2, <2>1, <2>2, Induction
  <2>4. \A n \in 0 .. N : all[n] \in Seq(A)
    BY <2>3 DEF T
  <2>5. all = [n \in 0 .. N |-> all[n]]
    BY <1>6 DEF Is
  <2> QED
    BY <2>4, <2>5
<1>10. Flat(lists) = all[N]
  BY DEF Flat, all, Is, N
<1>11. FlatPasses(all, A, lists)
  BY <1>8, <1>9 DEF N, Pass, FlatPasses
<1> QED
  BY <1>10, <1>11 DEF N

(* Flat(lists) has the items of all the lists and no others. *)
THEOREM FlatProperties ==
  ASSUME NEW A, NEW lists \in Seq(Seq(A))
  PROVE  /\ Flat(lists) \in Seq(A)
         /\ \A i \in 1 .. Len(Flat(lists)) :
              \E k \in 1 .. Len(lists) : \E j \in 1 .. Len(lists[k]) : Flat(lists)[i] = lists[k][j]
         /\ \A k \in 1 .. Len(lists) : \A j \in 1 .. Len(lists[k]) :
              \E i \in 1 .. Len(Flat(lists)) : Flat(lists)[i] = lists[k][j]
<1> DEFINE N == Len(lists)
           From(n, r) == \A i \in 1 .. Len(r) :
                           \E k \in 1 .. n : \E j \in 1 .. Len(lists[k]) : r[i] = lists[k][j]
           Has(n, r) == \A k \in 1 .. n : \A j \in 1 .. Len(lists[k]) :
                          \E i \in 1 .. Len(r) : r[i] = lists[k][j]
<1>1. PICK all : FlatPasses(all, A, lists) /\ Flat(lists) = all[N]
  BY FlatLoop
<1>2. /\ \A n \in 0 .. N : all[n] \in Seq(A)
      /\ all[0] = <<>>
      /\ \A n \in 1 .. N : lists[n] \in Seq(A)
      /\ N \in Nat
  <2>1. all \in [0 .. N -> Seq(A)] /\ all[0] = <<>>
    BY <1>1, Zenon DEF FlatPasses
  <2>2. \A n \in 0 .. N : all[n] \in Seq(A)
    BY <2>1, Zenon
  <2>3. N \in Nat /\ \A n \in 1 .. N : lists[n] \in Seq(A)
    BY ElementOfSeq, LenProperties
  <2> QED
    BY <2>1, <2>2, <2>3, Zenon
<1>7. \A n \in 1 .. N : all[n] = all[n-1] \o lists[n]
  BY <1>1, Zenon DEF FlatPasses
<1> DEFINE T == {n \in 0 .. N : From(n, all[n]) /\ Has(n, all[n])}
<1>3. 0 \in T
  BY <1>2
<1>4. ASSUME NEW n \in 1 .. N, n - 1 \in T PROVE n \in T
  <2> DEFINE q == all[n-1]
             r == all[n]
             list == lists[n]
  <2>1. q \in Seq(A) /\ list \in Seq(A)
    BY <1>2
  <2>6. r = q \o list
    BY <1>7, Zenon
  <2>2. From(n - 1, q) /\ Has(n - 1, q)
    <3> HIDE DEF From, Has
    <3> QED
      BY <1>4
  <2> HIDE DEF q, r, N
  <2>3. /\ Len(q) \in Nat /\ Len(list) \in Nat /\ Len(r) = Len(q) + Len(list)
        /\ \A i \in 1 .. Len(q) : r[i] = q[i]
        /\ \A j \in 1 .. Len(list) : r[Len(q) + j] = list[j]
    <3> HIDE DEF list
    <3> QED
      BY <2>1, <2>6
  <2>4. From(n, r)
    <3> SUFFICES ASSUME NEW i \in 1 .. Len(r)
                 PROVE  \E k \in 1 .. n : \E j \in 1 .. Len(lists[k]) : r[i] = lists[k][j]
      OBVIOUS
    <3>1. CASE i \in 1 .. Len(q)
      <4>1. PICK k \in 1 .. n - 1 : \E j \in 1 .. Len(lists[k]) : q[i] = lists[k][j]
        BY <2>2, <3>1
      <4>2. k \in 1 .. n
        BY <1>2
      <4> QED
        BY <2>3, <3>1, <4>1, <4>2
    <3>2. CASE i \notin 1 .. Len(q)
      <4>1. i - Len(q) \in 1 .. Len(list) /\ i = Len(q) + (i - Len(q))
        BY <2>3, <3>2
      <4>2. r[i] = lists[n][i - Len(q)]
        BY <2>3, <4>1
      <4>3. n \in 1 .. n
        BY <1>2
      <4> QED
        BY <4>1, <4>2, <4>3
    <3> QED
      BY <3>1, <3>2
  <2>5. Has(n, r)
    <3> SUFFICES ASSUME NEW k \in 1 .. n, NEW j \in 1 .. Len(lists[k])
                 PROVE  \E i \in 1 .. Len(r) : r[i] = lists[k][j]
      OBVIOUS
    <3>1. CASE k \in 1 .. n - 1
      <4>1. PICK i \in 1 .. Len(q) : q[i] = lists[k][j]
        BY <2>2, <3>1
      <4>2. i \in 1 .. Len(r)
        BY <2>3
      <4> QED
        BY <2>3, <4>1, <4>2
    <3>2. CASE k = n
      <4>1. Len(q) + j \in 1 .. Len(r)
        BY <2>3, <3>2
      <4> QED
        BY <2>3, <3>2, <4>1
    <3> QED
      BY <1>2, <3>1, <3>2
  <2> HIDE DEF From, Has
  <2> QED
    BY <2>4, <2>5 DEF r
<1>5. N \in T
  <2>1. \A n \in 1 .. N : n - 1 \in T => n \in T
    BY <1>4
  <2> HIDE DEF T, N
  <2>2. 0 .. N \subseteq T
    BY <1>2, <1>3, <2>1, Induction
  <2> QED
    BY <1>2, <2>2
<1> HIDE DEF From, Has
<1>6. From(N, all[N]) /\ Has(N, all[N])
  BY <1>5
<1> QED
  BY <1>1, <1>2, <1>6 DEF From, Has

-----------------------------------------------------------------------------
(* sum is what the loop of SumOf has after each pass. *)
SumPasses(sum, N, numbers) ==
  /\ sum \in [0 .. N -> Int]
  /\ sum[0] = 0
  /\ \A n \in 1 .. N : sum[n] = sum[n-1] + numbers[n]

(* SumOf has such passes, and their last result. *)
LEMMA SumLoop ==
  ASSUME NEW N \in Nat, NEW numbers \in [1 .. N -> Int]
  PROVE  \E sum : SumPasses(sum, N, numbers) /\ SumOf(numbers) = sum[N]
<1> DEFINE Pass(n, q) == q + numbers[n]
           step == [n \in 1 .. N |-> [q \in Int |-> Pass(n, q)]]
           Is(f) == f = [n \in 0 .. N |-> IF n = 0 THEN 0 ELSE f[n-1] + numbers[n]]
           sum == CHOOSE f : Is(f)
<1>0. \A n \in 1 .. N, q \in Int : Pass(n, q) \in Int
  OBVIOUS
<1>1. step \in [1 .. N -> [Int -> Int]]
  <2> HIDE DEF Pass
  <2> QED
    BY <1>0
<1>2. Len(numbers) = N /\ 0 \in 0 .. N /\ 0 \in Int
  OBVIOUS
<1> HIDE DEF step, Pass, Is
<1>3. PICK f : Recursive(f, Int, 0, N, step)
  BY <1>1, <1>2, Recursion
<1>4. \A n \in 1 .. N : f[n] = Pass(n, f[n-1])
  <2>1. \A n \in 1 .. N, q \in Int : step[n][q] = Pass(n, q)
    BY DEF step
  <2>2. \A n \in 1 .. N : f[n-1] \in Int
    BY <1>3 DEF Recursive
  <2> QED
    BY <1>3, <2>1, <2>2 DEF Recursive
<1>5. Is(f)
  <2>1. \A n \in 0 .. N : f[n] = IF n = 0 THEN 0 ELSE f[n-1] + numbers[n]
    BY <1>3, <1>4 DEF Recursive, Pass
  <2>2. f = [n \in 0 .. N |-> f[n]]
    BY <1>3 DEF Recursive
  <2> QED
    BY <2>1, <2>2 DEF Is
<1>6. Is(sum)
  BY <1>5
<1> HIDE DEF sum
<1>7. \A n \in 0 .. N : sum[n] = IF n = 0 THEN 0 ELSE sum[n-1] + numbers[n]
  BY <1>6 DEF Is
<1>8. sum[0] = 0 /\ \A n \in 1 .. N : sum[n] = Pass(n, sum[n-1])
  BY <1>2, <1>7 DEF Pass
<1>9. sum \in [0 .. N -> Int]
  <2> DEFINE T == {n \in 0 .. N : sum[n] \in Int}
  <2>1. 0 \in T
    BY <1>2, <1>8
  <2>2. ASSUME NEW n \in 1 .. N, n - 1 \in T PROVE n \in T
    <3>1. sum[n-1] \in Int /\ sum[n] = Pass(n, sum[n-1])
      BY <1>8, <2>2
    <3>2. sum[n] \in Int
      <4>1. Pass(n, sum[n-1]) \in Int
        BY <1>0, <3>1
      <4> QED
        BY <3>1, <4>1
    <3>3. n \in 0 .. N
      OBVIOUS
    <3> QED
      BY <3>2, <3>3
  <2> HIDE DEF T
  <2>3. 0 .. N \subseteq T
    BY <2>1, <2>2, Induction
  <2>4. \A n \in 0 .. N : sum[n] \in Int
    BY <2>3 DEF T
  <2>5. sum = [n \in 0 .. N |-> sum[n]]
    BY <1>6 DEF Is
  <2> QED
    BY <2>4, <2>5
<1>10. SumOf(numbers) = sum[N]
  BY <1>2 DEF SumOf, sum, Is
<1>11. SumPasses(sum, N, numbers)
  BY <1>8, <1>9 DEF Pass, SumPasses
<1> QED
  BY <1>10, <1>11

LEMMA SumIsInteger ==
  ASSUME NEW N \in Nat, NEW f \in [1 .. N -> Int]
  PROVE  SumOf(f) \in Int
<1>1. PICK s : SumPasses(s, N, f) /\ SumOf(f) = s[N]
  BY SumLoop
<1> QED
  BY <1>1 DEF SumPasses

(* A sum of integers is one, and grows with each of them; one of natural   *)
(* numbers is a natural number.                                            *)
THEOREM SumIsMonotone ==
  ASSUME NEW N \in Nat, NEW f \in [1 .. N -> Int], NEW g \in [1 .. N -> Int],
         \A n \in 1 .. N : f[n] <= g[n]
  PROVE  /\ SumOf(f) \in Int /\ SumOf(g) \in Int /\ SumOf(f) <= SumOf(g)
         /\ (\A n \in 1 .. N : f[n] >= 0) => SumOf(f) \in Nat
<1>1. PICK s : SumPasses(s, N, f) /\ SumOf(f) = s[N]
  BY SumLoop
<1>2. PICK t : SumPasses(t, N, g) /\ SumOf(g) = t[N]
  BY SumLoop
<1> DEFINE T == {n \in 0 .. N : s[n] <= t[n] /\ ((\A k \in 1 .. N : f[k] >= 0) => s[n] >= 0)}
<1>3. 0 \in T
  BY <1>1, <1>2 DEF SumPasses
<1>4. ASSUME NEW n \in 1 .. N, n - 1 \in T PROVE n \in T
  <2>1. /\ s[n-1] \in Int /\ t[n-1] \in Int /\ f[n] \in Int /\ g[n] \in Int /\ f[n] <= g[n]
        /\ s[n] = s[n-1] + f[n] /\ t[n] = t[n-1] + g[n]
    BY <1>1, <1>2 DEF SumPasses
  <2>2. s[n-1] <= t[n-1] /\ ((\A k \in 1 .. N : f[k] >= 0) => s[n-1] >= 0)
    BY <1>4
  <2>3. s[n] <= t[n]
    BY <2>1, <2>2
  <2>4. (\A k \in 1 .. N : f[k] >= 0) => s[n] >= 0
    BY <2>1, <2>2
  <2> QED
    BY <2>3, <2>4
<1>5. s[N] \in Int /\ t[N] \in Int
  BY <1>1, <1>2 DEF SumPasses
<1> HIDE DEF T
<1>6. 0 .. N \subseteq T
  BY <1>3, <1>4, Induction
<1>7. s[N] <= t[N] /\ ((\A k \in 1 .. N : f[k] >= 0) => s[N] >= 0)
  BY <1>6 DEF T
<1> QED
  BY <1>1, <1>2, <1>5, <1>7

LEMMA SumIsNatural ==
  ASSUME NEW N \in Nat, NEW f \in [1 .. N -> Nat]
  PROVE  SumOf(f) \in Nat
<1>1. f \in [1 .. N -> Int]
  OBVIOUS
<1>2. \A n \in 1 .. N : f[n] <= f[n] /\ f[n] >= 0
  OBVIOUS
<1> QED
  BY <1>1, <1>2, SumIsMonotone

(* Sums can be added up number by number. *)
THEOREM SumsAddUp ==
  ASSUME NEW N \in Nat, NEW f \in [1 .. N -> Int], NEW g \in [1 .. N -> Int],
         NEW h \in [1 .. N -> Int], \A n \in 1 .. N : h[n] = f[n] + g[n]
  PROVE  SumOf(h) = SumOf(f) + SumOf(g)
<1>1. PICK s : SumPasses(s, N, f) /\ SumOf(f) = s[N]
  BY SumLoop
<1>2. PICK t : SumPasses(t, N, g) /\ SumOf(g) = t[N]
  BY SumLoop
<1>3. PICK u : SumPasses(u, N, h) /\ SumOf(h) = u[N]
  BY SumLoop
<1> DEFINE T == {n \in 0 .. N : u[n] = s[n] + t[n]}
<1>4. 0 \in T
  BY <1>1, <1>2, <1>3 DEF SumPasses
<1>5. ASSUME NEW n \in 1 .. N, n - 1 \in T PROVE n \in T
  <2>1. /\ s[n-1] \in Int /\ t[n-1] \in Int /\ f[n] \in Int /\ g[n] \in Int
        /\ s[n] = s[n-1] + f[n] /\ t[n] = t[n-1] + g[n] /\ u[n] = u[n-1] + h[n]
    BY <1>1, <1>2, <1>3 DEF SumPasses
  <2>2. u[n-1] = s[n-1] + t[n-1]
    BY <1>5
  <2>3. u[n] = s[n] + t[n]
    BY <2>1, <2>2
  <2> QED
    BY <2>3
<1> HIDE DEF T
<1>6. 0 .. N \subseteq T
  BY <1>4, <1>5, Induction
<1>7. u[N] = s[N] + t[N]
  BY <1>6 DEF T
<1> QED
  BY <1>1, <1>2, <1>3, <1>7

(* Numbers that are multiplied have the multiple of their sum. *)
THEOREM SumIsMultiplied ==
  ASSUME NEW N \in Nat, NEW f \in [1 .. N -> Int], NEW c \in Int,
         NEW h \in [1 .. N -> Int], \A n \in 1 .. N : h[n] = c * f[n]
  PROVE  SumOf(h) = c * SumOf(f)
<1>1. PICK s : SumPasses(s, N, f) /\ SumOf(f) = s[N]
  BY SumLoop
<1>2. PICK u : SumPasses(u, N, h) /\ SumOf(h) = u[N]
  BY SumLoop
<1> DEFINE T == {n \in 0 .. N : u[n] = c * s[n]}
<1>3. 0 \in T
  BY <1>1, <1>2 DEF SumPasses
<1>4. ASSUME NEW n \in 1 .. N, n - 1 \in T PROVE n \in T
  <2>1. s[n-1] \in Int /\ f[n] \in Int /\ s[n] = s[n-1] + f[n] /\ u[n] = u[n-1] + h[n]
    BY <1>1, <1>2 DEF SumPasses
  <2>2. u[n-1] = c * s[n-1]
    BY <1>4
  <2>3. c * (s[n-1] + f[n]) = c * s[n-1] + c * f[n]
    BY <2>1
  <2>4. u[n] = c * s[n]
    BY <2>1, <2>2, <2>3
  <2> QED
    BY <2>4
<1> HIDE DEF T
<1>5. 0 .. N \subseteq T
  BY <1>3, <1>4, Induction
<1>6. u[N] = c * s[N]
  BY <1>5 DEF T
<1> QED
  BY <1>1, <1>2, <1>6

(* The sum of zeros is zero. *)
LEMMA SumOfZeros ==
  ASSUME NEW N \in Nat, NEW f \in [1 .. N -> Int], \A n \in 1 .. N : f[n] = 0
  PROVE  SumOf(f) = 0
<1>1. \A n \in 1 .. N : f[n] = f[n] + f[n]
  OBVIOUS
<1>2. SumOf(f) = SumOf(f) + SumOf(f)
  BY <1>1, SumsAddUp
<1>3. SumOf(f) \in Int
  BY SumIsInteger
<1> QED
  BY <1>2, <1>3

(* How many positions are in a set is a sum of ones. *)
THEOREM SumCounts ==
  ASSUME NEW N \in Nat, NEW I \in SUBSET (1 .. N)
  PROVE  /\ IsFiniteSet(I) /\ Cardinality(I) \in Nat
         /\ SumOf([n \in 1 .. N |-> IF n \in I THEN 1 ELSE 0]) = Cardinality(I)
<1> DEFINE f == [n \in 1 .. N |-> IF n \in I THEN 1 ELSE 0]
           Upto(n) == I \cap (1 .. n)
<1>0. f \in [1 .. N -> Int] /\ \A i \in I : i \in 1 .. N
  OBVIOUS
<1> HIDE DEF f
<1>1. PICK s : SumPasses(s, N, f) /\ SumOf(f) = s[N]
  BY <1>0, SumLoop
<1> DEFINE T == {n \in 0 .. N : IsFiniteSet(Upto(n)) /\ Cardinality(Upto(n)) = s[n]}
<1>2. 0 \in T
  <2>1. Upto(0) = {}
    BY <1>0
  <2>2. s[0] = 0 /\ 0 \in 0 .. N
    BY <1>1 DEF SumPasses
  <2>3. IsFiniteSet(Upto(0)) /\ Cardinality(Upto(0)) = 0
    BY <2>1, FS_EmptySet
  <2> HIDE DEF Upto
  <2> QED
    BY <2>2, <2>3
<1>3. ASSUME NEW n \in 1 .. N, n - 1 \in T PROVE n \in T
  <2>1. IsFiniteSet(Upto(n - 1)) /\ Cardinality(Upto(n - 1)) = s[n-1]
    <3> HIDE DEF Upto
    <3> QED
      BY <1>3
  <2>2. s[n] = s[n-1] + f[n] /\ s[n-1] \in Int
    BY <1>1 DEF SumPasses
  <2>3. CASE n \in I
    <3>1. Upto(n) = Upto(n - 1) \cup {n} /\ n \notin Upto(n - 1)
      BY <1>0, <2>3
    <3>2. f[n] = 1
      BY <2>3 DEF f
    <3> HIDE DEF Upto
    <3>3. IsFiniteSet(Upto(n)) /\ Cardinality(Upto(n)) = Cardinality(Upto(n - 1)) + 1
      BY <2>1, <3>1, FS_AddElement
    <3> QED
      BY <2>1, <2>2, <3>2, <3>3
  <2>4. CASE n \notin I
    <3>1. Upto(n) = Upto(n - 1)
      BY <1>0, <2>4
    <3>2. f[n] = 0
      BY <2>4 DEF f
    <3> HIDE DEF Upto
    <3> QED
      BY <2>1, <2>2, <3>1, <3>2
  <2> QED
    BY <2>3, <2>4
<1>4. Upto(N) = I
  BY <1>0
<1> HIDE DEF T, Upto
<1>5. 0 .. N \subseteq T
  BY <1>2, <1>3, Induction
<1>6. IsFiniteSet(I) /\ Cardinality(I) = s[N]
  BY <1>4, <1>5 DEF T
<1> QED
  BY <1>1, <1>6, FS_CardinalityType DEF f

(* Those of N numbers that are in group k; the others count as nothing.    *)
Part(N, g, key, k) == [n \in 1 .. N |-> IF key[n] = k THEN g[n] ELSE 0]

(* F has the sums of N numbers that are put into the groups K by their key. *)
SumsOfParts(F, N, g, K, key) ==
  /\ N \in Nat /\ g \in [1 .. N -> Int]
  /\ IsFiniteSet(K) /\ key \in [1 .. N -> K]
  /\ DOMAIN F = K /\ \A k \in K : F[k] = SumOf(Part(N, g, key, k))

(* The sums of the groups add up to the sum of the numbers.                *)
THEOREM SumOverParts ==
  ASSUME NEW F, NEW N, NEW g, NEW K, NEW key, SumsOfParts(F, N, g, K, key)
  PROVE  SumOver(F) = SumOf(g)
<1> DEFINE In(S) == [n \in 1 .. N |-> IF key[n] \in S THEN g[n] ELSE 0]
           part == [S \in SUBSET K |-> SumOf(In(S))]
           First(S) == CHOOSE k \in S : TRUE
           Is(h) == h = [S \in SUBSET DOMAIN F |->
                           IF S = {} THEN 0
                           ELSE LET k == CHOOSE k \in S : TRUE IN F[k] + h[S \ {k}]]
           sum == CHOOSE h : Is(h)
<1>a. /\ N \in Nat /\ g \in [1 .. N -> Int] /\ IsFiniteSet(K) /\ key \in [1 .. N -> K]
       /\ DOMAIN F = K /\ \A k \in K : F[k] = SumOf(Part(N, g, key, k))
  BY DEF SumsOfParts
<1>0. \A S : In(S) \in [1 .. N -> Int]
  BY <1>a
<1>1. part[{}] = 0
  <2>1. In({}) \in [1 .. N -> Int] /\ \A n \in 1 .. N : In({})[n] = 0
    BY <1>0
  <2> HIDE DEF In
  <2> QED
    BY <1>a, <2>1, SumOfZeros
<1>2. ASSUME NEW S \in SUBSET K, NEW k \in S
      PROVE  part[S] = F[k] + part[S \ {k}]
  <2>1. \A n \in 1 .. N : In(S)[n] = In({k})[n] + In(S \ {k})[n]
    BY <1>a
  <2>2. F[k] = SumOf(In({k}))
    <3>1. Part(N, g, key, k) = In({k})
      BY DEF Part
    <3>2. F[k] = SumOf(Part(N, g, key, k))
      BY <1>a
    <3> HIDE DEF In
    <3> QED
      BY <3>1, <3>2
  <2>4. /\ N \in Nat
        /\ In(S) \in [1 .. N -> Int] /\ In({k}) \in [1 .. N -> Int] /\ In(S \ {k}) \in [1 .. N -> Int]
    BY <1>0, <1>a
  <2> DEFINE all == In(S)
             one == In({k})
             rest == In(S \ {k})
  <2>5. /\ all \in [1 .. N -> Int] /\ one \in [1 .. N -> Int] /\ rest \in [1 .. N -> Int]
        /\ \A n \in 1 .. N : all[n] = one[n] + rest[n]
    BY <2>1, <2>4
  <2> HIDE DEF In, all, one, rest
  <2>6. SumOf(all) = SumOf(one) + SumOf(rest)
    BY <2>4, <2>5, SumsAddUp
  <2>3. SumOf(In(S)) = SumOf(In({k})) + SumOf(In(S \ {k}))
    BY <2>6 DEF all, one, rest
  <2> QED
    BY <2>2, <2>3
<1>3. part[K] = SumOf(g)
  <2>1. In(K) = g
    BY <1>a
  <2> HIDE DEF In
  <2> QED
    BY <2>1
<1>4. DOMAIN F = K
  BY <1>a
<1> HIDE DEF part, In
<1>5. Is(part)
  <2>1. \A S \in SUBSET K : part[S] = IF S = {} THEN 0 ELSE F[First(S)] + part[S \ {First(S)}]
    BY <1>1, <1>2
  <2>2. part = [S \in SUBSET K |-> part[S]]
    BY DEF part
  <2>3. part = [S \in SUBSET K |-> IF S = {} THEN 0 ELSE F[First(S)] + part[S \ {First(S)}]]
    BY <2>1, <2>2, Zenon
  <2> QED
    BY <1>4, <2>3
<1> HIDE DEF Is
<1>6. Is(sum)
  BY <1>5
<1> HIDE DEF sum
<1>7. \A S \in SUBSET K : sum[S] = IF S = {} THEN 0 ELSE F[First(S)] + sum[S \ {First(S)}]
  BY <1>4, <1>6 DEF Is
<1>8. SumOver(F) = sum[K]
  BY <1>4 DEF SumOver, sum, Is
<1> HIDE DEF First
<1> DEFINE T == {m \in 0 .. Cardinality(K) :
                   \A S \in SUBSET K : Cardinality(S) = m => sum[S] = part[S]}
<1>9. \A S \in SUBSET K : IsFiniteSet(S) /\ Cardinality(S) \in Nat
  BY <1>a, FS_Subset, FS_CardinalityType
<1>10. 0 \in T
  <2>1. ASSUME NEW S \in SUBSET K, Cardinality(S) = 0 PROVE sum[S] = part[S]
    <3>1. S = {}
      BY <1>9, <2>1, FS_EmptySet
    <3> QED
      BY <1>1, <1>7, <3>1
  <2> QED
    BY <1>9, <2>1
<1>11. ASSUME NEW m \in 1 .. Cardinality(K), m - 1 \in T PROVE m \in T
  <2>1. ASSUME NEW S \in SUBSET K, Cardinality(S) = m PROVE sum[S] = part[S]
    <3> DEFINE k == First(S)
    <3>1. S # {}
      BY <1>9, <2>1, FS_EmptySet
    <3>2. k \in S
      BY <3>1 DEF First
    <3>3. Cardinality(S \ {k}) = m - 1
      BY <1>9, <2>1, <3>2, FS_RemoveElement
    <3>4. sum[S \ {k}] = part[S \ {k}]
      BY <1>11, <3>3
    <3> HIDE DEF k
    <3>5. sum[S] = F[k] + sum[S \ {k}]
      BY <1>7, <3>1 DEF k
    <3>6. part[S] = F[k] + part[S \ {k}]
      BY <1>2, <3>2
    <3> QED
      BY <3>4, <3>5, <3>6
  <2> QED
    BY <1>9, <2>1
<1>12. Cardinality(K) \in T
  <2>1. Cardinality(K) \in Nat
    BY <1>9
  <2> HIDE DEF T
  <2>2. 0 .. Cardinality(K) \subseteq T
    BY <1>10, <1>11, <2>1, Induction
  <2> QED
    BY <2>1, <2>2
<1>13. sum[K] = part[K]
  BY <1>12
<1> QED
  BY <1>3, <1>8, <1>13

=============================================================================
