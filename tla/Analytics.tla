----------------------------- MODULE Analytics -----------------------------
(***************************************************************************)
(* What the agents compute of the first table of a dataset, whatever their *)
(* providers say: the helpers of implementations.py over the functions of  *)
(* analytics_helpers.py, each a few queries (sql_helpers.execute_query)    *)
(* that may fail one by one.  Between two agents the dataset may be        *)
(* deleted; within a helper nothing else runs, as nothing in it waits.     *)
(*                                                                         *)
(* A row has the first categorical column (segment), the first date column *)
(* (day, 0 for NULL) and the first numeric one: value is {} for NULL, {v}  *)
(* for v.  What a query answers is written from what SQL says it does,     *)
(* with each order of ties.  Percentages and means are left out.           *)
(***************************************************************************)
EXTENDS Lists, FiniteSets, SequencesExt

CONSTANTS
  Tables,           \* the tables a dataset may have
  MaxSegments,      \* MAX_SEGMENTS
  TopGroups,        \* n of compute_top_n
  MaxRows,          \* DEFAULT_MAX_ROWS of execute_query
  MinAnomalyPoints, \* MIN_ANOMALY_POINTS
  DaysPerMonth,
  MaxFailures       \* bound: queries of a run that fail

ASSUME BoundsAssumption ==
  /\ {MaxSegments, TopGroups, MaxRows, DaysPerMonth} \subseteq Nat \ {0}
  /\ TopGroups <= MaxSegments
  /\ MinAnomalyPoints \in Nat

IsTable(t) ==
  /\ IsList(t)
  /\ \A i \in DOMAIN t :
       /\ t[i].day \in Nat
       /\ t[i].value = {} \/ \E v \in t[i].value : v \in Int /\ t[i].value = {v}

ASSUME TablesAssumption == \A t \in Tables : IsTable(t)

VARIABLES
  table,     \* the table, which nothing writes to
  present,   \* its file has not been removed
  failures,  \* queries that have failed
  report     \* what each agent's helpers have computed

vars == <<table, present, failures, report>>

(* The agents with queries, in the order of their tiers.                   *)
Analyst == <<"data-explorer", "source-tieout", "descriptive-analytics", "overtime-trend">>

-----------------------------------------------------------------------------
(* Queries: of the rows of table t with the indices I. *)

Number(cell) == IF cell = {} THEN 0 ELSE CHOOSE v \in cell : TRUE

(* SUM, NULL when there is no value to sum. *)
Sum(t, I) ==
  IF \A i \in I : t[i].value = {} THEN {}
  ELSE {SumOf([i \in DOMAIN t |-> IF i \in I THEN Number(t[i].value) ELSE 0])}

(* execute_query keeps max_rows rows; its callers do not look at truncated. *)
Kept(rows) == SubSeq(rows, 1, IF Len(rows) < MaxRows THEN Len(rows) ELSE MaxRows)

Group(t, s) == {i \in DOMAIN t : t[i].segment = s}

Segments(t) == {t[i].segment : i \in DOMAIN t}

(* ORDER BY sum DESC, NULL last. *)
Below(a, b) == b # {} /\ (a = {} \/ Number(a) < Number(b))

Rankings(t) ==
  {r \in [1 .. Cardinality(Segments(t)) -> Segments(t)] :
     \A m, n \in DOMAIN r :
       m < n => r[m] # r[n] /\ ~ Below(Sum(t, Group(t, r[m])), Sum(t, Group(t, r[n])))}

Entry(t, I) == [sum |-> Number(Sum(t, I)), count |-> Cardinality(I)]

(* Mutant: the segments beyond the cap are not shown.                      *)
CappedOnly(t, r) ==
  [s \in {r[n] : n \in 1 .. MaxSegments} |-> Entry(t, Group(t, s))]

(* _build_segmentation_sql, capped: the rest is summed up as 'Other', with *)
(* a segment of that name.                                                 *)
Capped(t, r) ==
  LET shown(n) == IF n <= MaxSegments THEN r[n] ELSE "Other"
  IN [s \in {shown(n) : n \in DOMAIN r} |->
        Entry(t, UNION {Group(t, r[n]) : n \in {m \in DOMAIN r : shown(m) = s}})]

(* compute_segmentation: COUNT(DISTINCT) decides, which leaves NULL out. *)
Segmentation(t, r) ==
  IF Cardinality(Segments(t) \ {"null"}) > MaxSegments THEN Capped(t, r)
  ELSE [s \in Segments(t) |-> Entry(t, Group(t, s))]

(* compute_top_n *)
Top(t, r) ==
  [s \in {r[n] : n \in DOMAIN r \cap 1 .. TopGroups} |-> Entry(t, Group(t, s))]

(* compute_time_series, by day or by month; rows without a date are one    *)
(* period, the last.                                                       *)
Month(day) == IF day = 0 THEN 0 ELSE (day - 1) \div DaysPerMonth + 1

Before(p, q) == p # q /\ (q = 0 \/ (p # 0 /\ p < q))

Series(t, period) ==
  LET periods == {period[i] : i \in DOMAIN t}
      nth(n) == CHOOSE p \in periods : Cardinality({q \in periods : Before(q, p)}) = n - 1
  IN Kept([n \in 1 .. Cardinality(periods) |->
             Entry(t, {i \in DOMAIN t : period[i] = nth(n)})])

MonthlySeries(t) == Series(t, [i \in DOMAIN t |-> Month(t[i].day)])
DailySeries(t) == Series(t, [i \in DOMAIN t |-> t[i].day])

(* The deviation of a point from the mean, times the number of points. *)
Deviation(series, n) ==
  Len(series) * series[n].sum - SumOf([m \in DOMAIN series |-> series[m].sum])

SquaredDeviations(series) ==
  SumOf([n \in DOMAIN series |-> Deviation(series, n) * Deviation(series, n)])

(* Mutant: more than one standard deviation.                               *)
AnomaliesOneSigma(series) ==
  {n \in DOMAIN series :
     Deviation(series, n) * Deviation(series, n) * (Len(series) - 1) > SquaredDeviations(series)}

(* detect_anomalies: more than two standard deviations, squared. *)
Anomalies(series) ==
  {n \in DOMAIN series :
     Deviation(series, n) * Deviation(series, n) * (Len(series) - 1)
       > 4 * SquaredDeviations(series)}

-----------------------------------------------------------------------------
(* The helpers of the agents.  A report has what was computed; what is not *)
(* in it failed, or was not looked for.                                    *)

Pending == [done |-> FALSE]

Init ==
  /\ table \in Tables
  /\ present = TRUE
  /\ failures = 0
  /\ report = [a \in ToSet(Analyst) |-> Pending]

IsNext(a) ==
  \E n \in DOMAIN Analyst :
    /\ Analyst[n] = a /\ report[a] = Pending
    /\ \A m \in 1 .. (n - 1) : report[Analyst[m]] # Pending

Report(a, computed) == report' = [report EXCEPT ![a] = computed]

(* Which of the computations of an agent, ok, have all their queries answered *)
SomeAnswered(all, ok) ==
  /\ ok \subseteq all
  /\ failures' = failures + Cardinality(all \ ok)
  /\ failures' <= MaxFailures

Computed(ok, results) == [k \in ok |-> results[k]]

(* DataExplorerAgent, compute_summary_stats, of a column that is NULL in   *)
(* the rows nulls: the first query that fails leaves nothing of any column *)
Stats(t, nulls) ==
  [count |-> Len(t) - Cardinality(nulls), null_count |-> Cardinality(nulls)]

Explore(ok) ==
  /\ IsNext("data-explorer") /\ present
  /\ SomeAnswered({"profiles"}, ok)
  /\ Report("data-explorer", Computed(ok,
       [profiles |-> [segment |-> Stats(table, {i \in DOMAIN table : table[i].segment = "null"}),
                      day     |-> Stats(table, {i \in DOMAIN table : table[i].day = 0}),
                      value   |-> Stats(table, {i \in DOMAIN table : table[i].value = {}})]]))
  /\ UNCHANGED <<table, present>>

(* SourceTieoutAgent: _verify_row_count, _verify_numeric_sums *)
TieOut(ok) ==
  /\ IsNext("source-tieout") /\ present
  /\ SomeAnswered({"row_count", "numeric_sum"}, ok)
  /\ Report("source-tieout", Computed(ok,
       [row_count |-> Len(table), numeric_sum |-> Sum(table, DOMAIN table)]))
  /\ UNCHANGED <<table, present>>

(* DescriptiveAnalyticsAgent.  The two queries break their ties each.      *)
Describe(ok, r, s) ==
  /\ IsNext("descriptive-analytics") /\ present
  /\ SomeAnswered({"segments", "top_n"}, ok)
  /\ Report("descriptive-analytics", Computed(ok,
       [segments |-> Segmentation(table, r), top_n |-> Top(table, s)]))
  /\ UNCHANGED <<table, present>>

(* OvertimeTrendAgent: the anomalies are looked for in a series of their   *)
(* own, and not in a short one.  The type of the date column is that of    *)
(* the first row: an empty table has no series.                            *)
Trend(ok) ==
  /\ IsNext("overtime-trend") /\ present
  /\ SomeAnswered({"time_series", "anomalies"}, ok)
  /\ LET daily == DailySeries(table)
         kept == IF table = <<>> THEN {}
                 ELSE IF Len(daily) < MinAnomalyPoints THEN ok \ {"anomalies"}
                 ELSE ok
     IN Report("overtime-trend", Computed(kept,
          [time_series |-> MonthlySeries(table), anomalies |-> Anomalies(daily)]))
  /\ UNCHANGED <<table, present>>

(* run_helpers finds no file. *)
SkipHelpers(a) ==
  /\ IsNext(a) /\ ~ present
  /\ Report(a, << >>)
  /\ UNCHANGED <<table, present, failures>>

(* delete_dataset, between two agents. *)
RemoveFiles ==
  /\ present
  /\ present' = FALSE
  /\ UNCHANGED <<table, failures, report>>

Next ==
  \/ \E ok \in SUBSET {"profiles"} : Explore(ok)
  \/ \E ok \in SUBSET {"row_count", "numeric_sum"} : TieOut(ok)
  \/ \E ok \in SUBSET {"segments", "top_n"}, r, s \in Rankings(table) : Describe(ok, r, s)
  \/ \E ok \in SUBSET {"time_series", "anomalies"} : Trend(ok)
  \/ \E a \in ToSet(Analyst) : SkipHelpers(a)
  \/ RemoveFiles

Spec == Init /\ [][Next]_vars

-----------------------------------------------------------------------------

Has(a, k) == k \in DOMAIN report[a]

RowsOf(F) == SumOver([k \in DOMAIN F |-> F[k].count])
SumsOf(F) == SumOver([k \in DOMAIN F |-> F[k].sum])

(***************************************************************************)
(* What the agents compute of the table agrees, whichever of their queries *)
(* failed: the segments, however many were put together as 'Other', and    *)
(* the periods of a series that was not cut off have the rows and the sum  *)
(* that the source tie-out verified, and as many rows as the explorer      *)
(* found with and without a value; and a top group is a segment with the   *)
(* same numbers, unless it is named as the rest is or one of equals: then  *)
(* another group with its sum may be shown in its place.                   *)
(***************************************************************************)
Agrees(F) ==
  /\ Has("source-tieout", "row_count") => RowsOf(F) = report["source-tieout"].row_count
  /\ Has("source-tieout", "numeric_sum") =>
       SumsOf(F) = Number(report["source-tieout"].numeric_sum)
  /\ Has("data-explorer", "profiles") =>
       LET stats == report["data-explorer"].profiles.value
       IN RowsOf(F) = stats.count + stats.null_count

TopAgrees(top, segments) ==
  \A s \in DOMAIN top :
    \/ s = "Other"
    \/ s \in DOMAIN segments /\ segments[s] = top[s]
    \/ /\ s \notin DOMAIN segments
       /\ \E g \in Segments(table) \cap DOMAIN segments :
            Entry(table, Group(table, g)).sum = top[s].sum

AgentsAgree ==
  /\ Has("descriptive-analytics", "segments") =>
       LET segments == report["descriptive-analytics"].segments
       IN /\ Agrees(segments)
          /\ Cardinality(DOMAIN segments) <= MaxSegments + 1
          /\ Has("descriptive-analytics", "top_n") =>
               TopAgrees(report["descriptive-analytics"].top_n, segments)
  /\ Has("overtime-trend", "time_series") =>
       LET series == report["overtime-trend"].time_series
       IN Len(series) < MaxRows => Agrees(series)

(***************************************************************************)
(* The days that are reported as anomalies are few: fewer than a quarter   *)
(* of the days that the series has beyond the first.                       *)
(***************************************************************************)
AnomaliesAreRare ==
  Has("overtime-trend", "anomalies") /\ report["overtime-trend"].anomalies # {} =>
    4 * Cardinality(report["overtime-trend"].anomalies) < Len(DailySeries(table)) - 1

=============================================================================
