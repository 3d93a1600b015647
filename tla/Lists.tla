------------------------------- MODULE Lists -------------------------------
(***************************************************************************)
(* Loops over Python lists that several modules have, as recursive         *)
(* functions: what SelectSeq and a fold say too, in a form that can be     *)
(* reasoned about (Lists_proof).                                           *)
(***************************************************************************)
EXTENDS Integers, Sequences

(* [x for x in list if x in S] *)
Those(list, S) ==
  LET kept[n \in 0 .. Len(list)] ==
        IF n = 0 THEN <<>>
        ELSE IF list[n] \in S THEN Append(kept[n-1], list[n]) ELSE kept[n-1]
  IN  kept[Len(list)]

(* [x for x in list if x not in S] *)
Without(list, S) == Those(list, {list[i] : i \in DOMAIN list} \ S)

(* sum(numbers) *)
SumOf(numbers) ==
  LET sum[n \in 0 .. Len(numbers)] == IF n = 0 THEN 0 ELSE sum[n-1] + numbers[n]
  IN  sum[Len(numbers)]

(* The sum of what F maps its keys to, in whatever order they are taken. *)
SumOver(F) ==
  LET sum[K \in SUBSET DOMAIN F] ==
        IF K = {} THEN 0
        ELSE LET k == CHOOSE k \in K : TRUE IN F[k] + sum[K \ {k}]
  IN  sum[DOMAIN F]

(* [x for list in lists for x in list] *)
Flat(lists) ==
  LET all[n \in 0 .. Len(lists)] == IF n = 0 THEN <<>> ELSE all[n-1] \o lists[n]
  IN  all[Len(lists)]

(* Whether a value is a list at all, whatever its items are. *)
IsList(list) == list \in Seq({list[i] : i \in DOMAIN list})

=============================================================================
