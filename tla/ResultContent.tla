--------------------------- MODULE ResultContent ---------------------------
(***************************************************************************)
(* From what the agents said to what a reader is shown: the findings the   *)
(* validation agent collects, the rows build_and_store_results makes, and  *)
(* the normalisation each finding goes through when it is stored, read     *)
(* (results.py) and read again from the cache.                             *)
(*                                                                         *)
(* The output of an agent is a record: .shape is "object" (a JSON object), *)
(* "text" (raw_text, what does not parse), "odd-text" (an object whose     *)
(* raw_text is no string) or "list" (any other JSON value); .findings the  *)
(* list under the key .under: "findings", or "elsewhere" for results and   *)
(* analysis, or "none"; .charts "none", "specs", or "odd" when an item of  *)
(* the list is not a dict; .storable FALSE when what is stored of it holds *)
(* a value that JSONB refuses, such as a NaN.                              *)
(***************************************************************************)
EXTENDS ValidationStack

IsAnswer(ans) ==
  /\ IsList(ans.findings)
  /\ \A i \in DOMAIN ans.findings : IsItem(ans.findings[i])
  /\ IF ans.under # "none" THEN ans.shape = "object" ELSE ans.findings = <<>>

(* The agents whose findings are collected, and stored, in this order. *)
Analysts == <<"descriptive-analytics", "root-cause-investigator", "overtime-trend">>

(* An output without a list of findings is validated as one finding, none  *)
(* of whose fields are there.                                              *)
Whole ==
  [kind |-> "finding", headline |-> "missing", detail |-> "missing", impact |-> "missing",
   confidence |-> [is |-> "missing", value |-> 0], sources |-> "none",
   percents |-> 0, huge |-> 0, amounts |-> 0, broken |-> FALSE, says |-> "neither",
   supporting |-> [delta |-> 0, revenue |-> "none", rate |-> "none", date |-> "none",
                   segments |-> <<>>, aggregate |-> 0]]

(* _collect_findings: of the analysts that have an output by now, what     *)
(* they list under any of three keys.                                      *)
Collected(outputs) ==
  Flat([i \in 1 .. 3 |->
    IF Analysts[i] \notin DOMAIN outputs THEN <<>>
    ELSE LET out == outputs[Analysts[i]] IN IF out.under # "none" THEN out.findings ELSE <<Whole>>])

-----------------------------------------------------------------------------
(* normalize_finding.  The headline comes from the detail when there is    *)
(* none, and from the agent's name when there is neither; one that is made *)
(* of something is named like it here.                                     *)

Limited(c) == IF c > 10000 THEN 10000 ELSE c

(* Mutant: 1 is taken for a percentage too.                                *)
NormalConfidenceOfOne(c) ==
  IF c.is \in {"missing", "word"} THEN 7000
  ELSE IF c.value >= 10000 THEN Limited(c.value \div 100)
  ELSE IF c.value < 0 THEN 0 ELSE c.value

(* _normalize_confidence: above 1 it is taken for a percentage. *)
NormalConfidence(c) ==
  IF c.is \in {"missing", "word"} THEN 7000
  ELSE IF c.value > 10000 THEN Limited(c.value \div 100)
  ELSE IF c.value < 0 THEN 0 ELSE c.value

(* _normalize_impact *)
NormalImpact(level) ==
  CASE level \in {"high", "critical", "severe"} -> "high"
    [] level \in {"low", "minor", "negligible", "informational"} -> "low"
    [] OTHER -> "medium"

(* _normalize_sources makes a list of one empty string of an empty string; *)
(* in a list what is empty is dropped ("blank": nothing is left).          *)
NormalSources(sources, agent) ==
  CASE sources \in {"none", "blank"} -> agent
    [] sources = "empty" -> "blank"
    [] OTHER -> sources

(* What is under no key of the schema becomes supporting data, and so does *)
(* the supporting data itself, which is under none.  (A finding without it *)
(* is taken for one in which it is empty.)                                 *)
Nested(supporting) == [supporting |-> supporting]

Normalized(f, agent) ==
  [headline   |-> IF f.headline \notin {"missing", "empty"} THEN f.headline
                  ELSE IF f.detail \notin {"missing", "empty"} THEN f.detail ELSE agent,
   detail     |-> IF f.detail = "missing" THEN "empty" ELSE f.detail,
   impact     |-> NormalImpact(f.impact),
   confidence |-> [is |-> "number", value |-> NormalConfidence(f.confidence)],
   sources    |-> NormalSources(f.sources, agent),
   supporting |-> Nested(f.supporting)]

(* The finding stored of an answer that is text. *)
Raw(agent) ==
  [headline |-> agent, detail |-> "raw-text", impact |-> "medium",
   confidence |-> [is |-> "number", value |-> 7000], sources |-> agent,
   supporting |-> Whole.supporting]

(* _extract_findings: of the items under "findings" those that are dicts;  *)
(* the text when nothing is listed.                                        *)
FindingRows(agent, out) ==
  LET dicts == Those(out.findings, {f \in ToSet(out.findings) : f.kind = "finding"})
  IN IF out.shape = "text" THEN <<Raw(agent)>>
     ELSE IF out.under = "findings" THEN [i \in DOMAIN dicts |-> Normalized(dicts[i], agent)]
     ELSE <<>>

StoredFindings(outputs) ==
  Flat([i \in 1 .. 3 |->
    IF Analysts[i] \in DOMAIN outputs THEN FindingRows(Analysts[i], outputs[Analysts[i]])
    ELSE <<>>])

(* _extract_findings cuts the text at 5000 characters, _extract_charts     *)
(* asks each chart for its path, _extract_narrative the story for its      *)
(* summary, and the database refuses what is no JSON to it:                *)
(* build_and_store_results raises, and the run fails although all its      *)
(* agents have completed.                                                  *)
BuildRaises(outputs) ==
  \/ \E i \in 1 .. 3 : Analysts[i] \in DOMAIN outputs /\ outputs[Analysts[i]].shape = "odd-text"
  \/ "chart-maker" \in DOMAIN outputs /\ outputs["chart-maker"].charts = "odd"
  \/ "storytelling" \in DOMAIN outputs /\ outputs["storytelling"].shape = "list"
  \/ \E a \in DOMAIN outputs : ~ outputs[a].storable

(* _build_results_response, get_findings, _normalize_cached_results: the   *)
(* findings are normalised again when they are read from the rows, and     *)
(* what was cached of that when it is read from the cache.                 *)
Shown(findings) == [i \in DOMAIN findings |-> Normalized(findings[i], "unknown")]

=============================================================================
