-------------------------- MODULE ValidationStack --------------------------
(***************************************************************************)
(* The four layers that check the findings of a run (validation_stack.py)  *)
(* and the two scores that are made of their counts: the stack's own and   *)
(* the confidence of the run (confidence_scorer.py).  A finding is what    *)
(* the layers look at; one of kind "bare" is an item that is not a dict.   *)
(***************************************************************************)
EXTENDS Lists, SequencesExt

(* finding.headline, .detail: "missing", "empty", "blank" (white space     *)
(*   only) or "text"                                                       *)
(* finding.impact: "missing", "number", or a level as written              *)
(* finding.confidence: .is "missing", "number", "numeral" (a string that   *)
(*   reads as a number) or "word"; .value in ten-thousandths               *)
(* finding.percents, .huge, .amounts: percentages in the detail, those     *)
(*   above 1000, amounts after "$"; .broken: an amount without a digit     *)
(* finding.says: "up", "down" or "neither"                                 *)
(* finding.supporting: delta (0: none), revenue, rate and date ("none",    *)
(*   "fine" and so on), the deltas of its segments and of their aggregate  *)

(* What the layers may rely on.                                            *)
IsItem(f) ==
  \/ f.kind = "bare"
  \/ /\ f.kind = "finding"
     /\ f.confidence.value \in Int
     /\ f.percents \in Nat /\ f.amounts \in Nat /\ f.huge \in Nat
     /\ f.supporting.delta \in Int

Count(b) == IF b THEN 1 ELSE 0

Total(F, Op(_)) == SumOf([i \in DOMAIN F |-> Op(F[i])])

Layer(checks, failures, warnings) ==
  [checks |-> IF checks = 0 THEN 1 ELSE checks, failures |-> failures, warnings |-> warnings]

Probability(c) == c.is = "number" /\ c.value \in 0 .. 10000

Nothing == {"empty", "blank"}

(* validate_structural: the required fields, and their types. *)
Structural(F) ==
  LET missing(f) == Count(f.headline = "missing") + Count(f.detail = "missing")
                    + Count(f.impact = "missing") + Count(f.confidence.is = "missing")
      wrong(f) == Count(f.headline \in Nothing) + Count(f.detail \in Nothing)
                  + Count(f.impact = "number")
                  + Count(f.confidence.is # "missing" /\ ~ Probability(f.confidence))
      unknown(f) == Count(f.impact \notin {"missing", "number", "high", "medium", "low",
                                           "critical", "negligible"})
  IN Layer(Total(F, LAMBDA f : 8 - missing(f)), Total(F, LAMBDA f : missing(f) + wrong(f)),
           Total(F, unknown))

Far(delta) == delta > 1000 \/ delta < -1000

Given(s) == Count(s.delta # 0) + Count(s.revenue # "none") + Count(s.rate # "none")

(* validate_logical: the stack is given no computed values to compare the  *)
(* numbers of a finding with, so a number is counted and never fails.      *)
Logical(F) ==
  LET delta(f) == f.supporting.delta
  IN Layer(Total(F, LAMBDA f : f.percents + f.amounts + Given(f.supporting) + Count(delta(f) # 0)),
           Total(F, LAMBDA f : Count(f.says = "up" /\ delta(f) < 0)
                               + Count(f.says = "down" /\ delta(f) > 0)),
           Total(F, LAMBDA f : f.huge))

(* validate_business_rules *)
BusinessRules(F) ==
  LET s(f) == f.supporting
  IN Layer(Total(F, LAMBDA f : f.percents + f.amounts + Given(s(f)) + Count(s(f).date # "none")),
           Total(F, LAMBDA f : Count(s(f).revenue = "negative") + Count(s(f).date = "far-off")),
           Total(F, LAMBDA f : f.huge + Count(s(f).rate = "outside") + Count(Far(s(f).delta))
                               + Count(s(f).date = "unreadable")))

(* validate_simpsons_paradox: most of the segments move against the whole. *)
SimpsonsParadox(F) ==
  LET moving(f) == SelectSeq(f.supporting.segments, LAMBDA d : d # 0)
      against(f) == SelectSeq(moving(f), LAMBDA d : (d > 0) # (f.supporting.aggregate > 0))
      looked(f) == f.supporting.segments # <<>> /\ f.supporting.aggregate # 0
  IN Layer(Total(F, LAMBDA f : Count(looked(f))), 0,
           Total(F, LAMBDA f : Count(looked(f) /\ 2 * Len(against(f)) > Len(moving(f)))))

(* An item that is not a dict has no get, and "$," is not a number.        *)
Raises(F) == \E i \in DOMAIN F : F[i].kind = "bare" \/ F[i].broken

(* run_validation; without findings every layer makes one check, and       *)
(* passes.  ValidationAgent catches what it raises.                        *)
Error == [raised |-> TRUE, layers |-> <<>>]

Validate(F) ==
  IF Raises(F) THEN Error
  ELSE [raised |-> FALSE,
        layers |-> <<Structural(F), Logical(F), BusinessRules(F), SimpsonsParadox(F)>>]

-----------------------------------------------------------------------------
(* The scores.  Unit is 1.0, a multiple of the numbers of checks there are *)
(* in bounded instances; the floats of the code are taken as exact.        *)

Unit == 1441440

(* _layer_score.  No layer has more warnings than checks. *)
LayerScore(l) ==
  IF l.failures > 0 THEN Unit - (Unit * l.failures) \div l.checks
  ELSE Unit - ((Unit \div 2) * l.warnings) \div l.checks

(* Mutant: a layer that failed is scored by its warnings.                  *)
LayerConfidenceIgnoresFailures(l) == Unit - ((Unit \div 2) * l.warnings) \div l.checks

(* _score_layer of the confidence scorer: no credit for a layer that fails *)
LayerConfidence(l) ==
  IF l.failures > 0 THEN 0 ELSE Unit - ((Unit \div 2) * l.warnings) \div l.checks

(* LAYER_WEIGHTS, in tenths *)
Weights == <<2, 3, 3, 2>>

Weighed(s) ==
  Weights[1] * s[1] + Weights[2] * s[2] + Weights[3] * s[3] + Weights[4] * s[4]

OverallScore(v) == Weighed([n \in 1 .. 4 |-> LayerScore(v.layers[n])])

(* compute_confidence: a layer that is not there, as in {"error": ...}, is *)
(* taken for one that passed.                                              *)
Confidence(v) ==
  IF v.raised THEN 10 * Unit
  ELSE Weighed([n \in 1 .. 4 |-> LayerConfidence(v.layers[n])])

=============================================================================
