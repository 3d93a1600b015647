---------------------------- MODULE MCAnalytics ----------------------------
(* Tables for Analytics: every table of a few rows for the segments, and   *)
(* weeks of one row a day for the series and its anomalies.                *)
EXTENDS Analytics

Row(s, v, d) == [segment |-> s, value |-> v, day |-> d]

Segment == <<"a", "b", "Other", "null">>
Value == <<{}, {1}, {3}>>

Rows ==
  [n \in 1 .. 14 |->
     CASE n = 13 -> Row("c", {1}, 0)
       [] n = 14 -> Row("c", {-2}, 3)
       [] OTHER -> Row(Segment[(n - 1) \div 3 + 1], Value[((n - 1) % 3) + 1], 1)]

(* The order of the rows of a small table does not matter.                 *)
ThreeRows == {q \in [1 .. 3 -> 1 .. 14] : q[1] <= q[2] /\ q[2] <= q[3]}

SmallTables == {[i \in 1 .. 3 |-> Rows[q[i]]] : q \in ThreeRows}

Week(values) == [n \in DOMAIN values |-> Row("a", {values[n]}, n)]

Weeks == {Week(v) : v \in [1 .. 7 -> {0, 1, 9}]}

MCTables == {<<>>} \cup SmallTables \cup {t \in Weeks : t[1].value # {1}}

=============================================================================
