--------------------------- MODULE AgentRegistry ---------------------------
(***************************************************************************)
(* What the deployed configuration says about the ten agents: registry.yaml*)
(* (as load_registry reads it), the plans of filter_agents_by_plan, the    *)
(* relevance map of agent_relevance.yaml (as load_relevance_map builds it) *)
(* and, from implementations.py, whose outputs each agent reads.           *)
(***************************************************************************)
EXTENDS Naturals, FiniteSets, Sequences

(* load_registry keeps the order of registry.yaml. *)
Registry ==
  << "question-framing", "data-explorer", "hypothesis", "source-tieout",
     "descriptive-analytics", "overtime-trend", "root-cause-investigator",
     "validation", "chart-maker", "storytelling" >>

Agent == {Registry[i] : i \in 1 .. Len(Registry)}

(* depends_on of registry.yaml; no agent uses depends_on_any. *)
RegistryDependsOn ==
  [a \in Agent |->
     CASE a = "hypothesis"              -> {"question-framing"}
       [] a = "source-tieout"           -> {"data-explorer"}
       [] a = "descriptive-analytics"   -> {"source-tieout"}
       [] a = "overtime-trend"          -> {"source-tieout"}
       [] a = "root-cause-investigator" -> {"descriptive-analytics"}
       [] a = "validation"              -> {"root-cause-investigator"}
       [] a = "chart-maker"             -> {"validation"}
       [] a = "storytelling"            -> {"chart-maker"}
       [] OTHER                         -> {}]

(* The agents whose outputs an agent looks up in context.agent_outputs to  *)
(* build its prompt or to validate: an output that is not there reads as   *)
(* empty text, and no error says so.                                       *)
Reads ==
  [a \in Agent |->
     CASE a \in {"hypothesis", "overtime-trend"} -> {"question-framing"}
       [] a = "descriptive-analytics"   -> {"question-framing", "hypothesis", "data-explorer"}
       [] a = "root-cause-investigator" -> {"question-framing", "descriptive-analytics"}
       [] a = "validation"              -> {"root-cause-investigator", "descriptive-analytics",
                                            "overtime-trend"}
       [] a = "chart-maker"             -> {"root-cause-investigator", "validation"}
       [] a = "storytelling"            -> {"question-framing", "root-cause-investigator",
                                            "validation", "chart-maker"}
       [] OTHER                         -> {}]

Plans == {"deep_dive", "full_presentation", "validate_only", "quick_overview"}

(* filter_agents_by_plan: deep_dive lists the ten agents there are. *)
PlanAgents(plan) ==
  CASE plan = "validate_only"  -> {"validation"}
    [] plan = "quick_overview" -> {"question-framing", "data-explorer",
                                   "descriptive-analytics", "storytelling"}
    [] OTHER                   -> Agent

-----------------------------------------------------------------------------
(* The relevance map. *)

Intents == {"overview", "trend_analysis", "comparison", "anomaly_detection",
            "hypothesis_testing", "root_cause_investigation"}

Complexities == {"low", "medium", "high"}

MandatoryAgents == {"data-explorer", "storytelling"}

(* The entries of agent_relevance.yaml, without the mandatory agents. *)
Rule(intent, complexity) ==
  CASE complexity = "high" -> Agent
    [] complexity = "low" ->
         ( CASE intent \in {"overview", "comparison"} -> {"descriptive-analytics"}
             [] intent = "trend_analysis"     -> {"overtime-trend"}
             [] intent = "hypothesis_testing" -> {"hypothesis", "descriptive-analytics"}
             [] intent = "root_cause_investigation" -> {"hypothesis", "root-cause-investigator"}
             [] intent = "anomaly_detection"  -> {"descriptive-analytics", "overtime-trend"} )
         \cup {"chart-maker"}
    [] complexity = "medium" ->
         ( CASE intent = "overview" -> {}
             [] intent \in {"trend_analysis", "comparison"} -> {"overtime-trend"}
             [] intent = "hypothesis_testing" -> {"hypothesis", "root-cause-investigator"}
             [] intent = "root_cause_investigation" ->
                  {"hypothesis", "root-cause-investigator", "overtime-trend"}
             [] intent = "anomaly_detection"  -> {"overtime-trend", "hypothesis"} )
         \cup {"descriptive-analytics", "chart-maker", "source-tieout"}

(* load_relevance_map: a file that is missing or does not parse gives every *)
(* agent for every entry; otherwise the mandatory agents are in each entry. *)
RelevanceMap(fileReadable, intent, complexity) ==
  IF fileReadable THEN Rule(intent, complexity) \cup MandatoryAgents ELSE Agent

=============================================================================
