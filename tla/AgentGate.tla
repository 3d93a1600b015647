----------------------------- MODULE AgentGate -----------------------------
(***************************************************************************)
(* The agent gate (app/orchestration/agent_gate.py): from the output of    *)
(* the question-framing agent, the intent and the complexity of the        *)
(* question, and from those the agents worth dispatching.                  *)
(*                                                                         *)
(* A framing output is reduced to what the rules look at: how many         *)
(* hypotheses, dimensions and comparative dimensions it lists, whether it  *)
(* has a temporal scope and whether its text holds a keyword of either     *)
(* list.  The counts are independent of each other: the legacy keys        *)
(* ("dimensions", "comparative_dimensions", "temporal_scope") are free,    *)
(* and what the rules derive from "sub_questions" is a special case.       *)
(***************************************************************************)
EXTENDS AgentRegistry, Lists

(* Counts past the last threshold of a rule behave like the threshold.     *)
Framing ==
  [ wellFormed     : BOOLEAN,
    hypotheses     : 0 .. 4,
    dimensions     : 0 .. 5,
    comparative    : 0 .. 2,
    temporal       : BOOLEAN,
    rootCauseWords : BOOLEAN,
    anomalyWords   : BOOLEAN ]

(* _INTENT_PRIORITY: a later entry wins a tie. *)
IntentPriority ==
  << "overview", "trend_analysis", "comparison", "anomaly_detection",
     "hypothesis_testing", "root_cause_investigation" >>

MatchedIntents(f) ==
  LET hasHypotheses == f.hypotheses > 0 IN
  {i \in Intents :
     \/ i = "root_cause_investigation" /\ hasHypotheses /\ f.rootCauseWords
     \/ i = "hypothesis_testing" /\ hasHypotheses /\ ~ f.temporal
     \/ i = "anomaly_detection" /\ f.anomalyWords
     \/ i = "comparison" /\ f.comparative >= 2
     \/ i = "trend_analysis" /\ f.temporal /\ ~ hasHypotheses
     \/ i = "overview" /\ ~ hasHypotheses /\ ~ f.temporal /\ f.dimensions <= 2}

ClassifyIntent(f) ==
  LET ranks == {k \in 1 .. Len(IntentPriority) : IntentPriority[k] \in MatchedIntents(f)}
  IN  IF ranks = {} THEN "overview"
      ELSE IntentPriority[CHOOSE k \in ranks : \A j \in ranks : j <= k]

ClassifyComplexity(f) ==
  IF \/ f.dimensions > 4
     \/ f.hypotheses > 3
     \/ f.temporal /\ f.hypotheses > 0 /\ f.dimensions > 2
  THEN "high"
  ELSE IF f.dimensions <= 2 /\ f.hypotheses <= 1 /\ ~ f.temporal THEN "low"
  ELSE "medium"

(* An overview never counts as high: the model over-generated hypotheses. *)
GateComplexity(f) ==
  IF ClassifyIntent(f) = "overview" /\ ClassifyComplexity(f) = "high"
  THEN "medium" ELSE ClassifyComplexity(f)

(* Mutant: the selection is dispatched as it is.                           *)
ResolveNothing(selected, available) == selected

(* The agents chosen and what they depend on, one edge away. *)
WithDependencies(chosen, available) ==
  chosen \cup ((UNION {RegistryDependsOn[a] : a \in chosen \cap available}) \cap available)

(* resolve_gated_dependencies: all that follows from the selection after   *)
(* so many edges that there can be no more.  GatedClosure models its       *)
(* search, which returns the same.                                         *)
ResolveGatedDependencies(selected, available) ==
  LET grow[n \in 0 .. Cardinality(available)] ==
        IF n = 0 THEN selected ELSE WithDependencies(grow[n-1], available)
  IN  grow[Cardinality(available)]

(* _cap_agents: the priority agents, then the first others in registry     *)
(* order, until there are five.  available is in registry order.           *)
CapAgents(dispatched, available) ==
  LET priority == {"question-framing", "data-explorer", "storytelling"} \cap dispatched
      others   == Those(Registry, (dispatched \cap available) \ priority)
      room     == 5 - Cardinality(priority)
  IN  priority \cup {others[i] : i \in {j \in 1 .. Len(others) : j <= room}}

(* Mutant: a malformed framing output dispatches the mandatory agents.     *)
FallBackToMandatory(available) ==
  [complexity |-> "high", dispatched |-> ResolveGatedDependencies(MandatoryAgents, available)]

(* The decision on a malformed framing output: every agent. *)
FallBack(available) == [complexity |-> "high", dispatched |-> available]

(* AgentGate.evaluate *)
Evaluate(f, available, plan, mapReadable) ==
  LET intent     == ClassifyIntent(f)
      complexity == GateComplexity(f)
      relevant   == IF complexity = "high" THEN available
                    ELSE RelevanceMap(mapReadable, intent, complexity)
                           \cup ({"question-framing"} \cap available)
      resolved   == ResolveGatedDependencies(relevant, available) \cap available
      capped     == plan = "deep_dive" /\ complexity = "low" /\ Cardinality(resolved) > 5
  IN  IF ~ f.wellFormed
      THEN FallBack(available)
      ELSE [complexity |-> complexity,
            dispatched |-> IF capped THEN CapAgents(resolved, available) ELSE resolved]

=============================================================================
