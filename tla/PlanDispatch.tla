---------------------------- MODULE PlanDispatch ----------------------------
(***************************************************************************)
(* Which agents a pipeline runs, and in which order: from the plan the     *)
(* user asks for, through auto_select_plan, filter_agents_by_plan, the     *)
(* question-framing call, the agent gate and the tiers of the second call  *)
(* of execute_pipeline (app/api/pipelines.py, _run_pipeline).  This module *)
(* composes the registry, the gate and the tiers; how the agents of a tier *)
(* run concurrently, and what their failures do, is in PipelineExecutor.   *)
(***************************************************************************)
EXTENDS AgentGate

VARIABLES
  request,    \* what the user asked for
  plan,       \* execution_plan of the row, once selected
  phase,      \* where _run_pipeline is
  agents,     \* the plan's agents
  dependsOn,  \* AgentNode.depends_on of this run's nodes
  remaining,  \* remaining_agents: those of the second execute_pipeline call
  decision,   \* the GatingDecision; NoDecision when there is none
  gatedOut,   \* agents whose execution row was set to "gated_out"
  running,    \* the tier being executed
  executed    \* agents with an entry in context.agent_outputs

vars == <<request, plan, phase, agents, dependsOn, remaining, decision, gatedOut, running, executed>>

NoDecision == [complexity |-> "none", dispatched |-> {}]

Phases == {"requested", "loading", "framing", "gate", "resolving", "running",
           "finished", "agent_failed", "unresolvable"}

TypeOK ==
  /\ plan \in Plans
  /\ phase \in Phases
  /\ agents \subseteq Agent
  /\ dependsOn \in [Agent -> SUBSET Agent]
  /\ remaining \subseteq agents
  /\ decision.dispatched \subseteq agents \ {"question-framing"}
  /\ gatedOut \subseteq agents
  /\ running \subseteq agents
  /\ executed \subseteq agents

Init ==
  /\ request \in [plan : Plans, simpleQuestion : BOOLEAN, forceFullAnalysis : BOOLEAN]
  /\ plan = request.plan
  /\ phase = "requested"
  /\ agents = {}
  /\ dependsOn = RegistryDependsOn
  /\ remaining = {}
  /\ decision = NoDecision
  /\ gatedOut = {}
  /\ running = {}
  /\ executed = {}

(* create_pipeline: auto_select_plan only ever downgrades deep_dive. *)
SelectPlan ==
  /\ phase = "requested"
  /\ plan' = IF request.plan = "deep_dive" /\ request.simpleQuestion
             THEN "quick_overview" ELSE request.plan
  /\ phase' = "loading"
  /\ UNCHANGED <<request, agents, dependsOn, remaining, decision, gatedOut, running, executed>>

(* filter_agents_by_plan; for quick_overview, dependencies outside the     *)
(* plan are taken as satisfied.                                            *)
LoadAgents ==
  /\ phase = "loading"
  /\ agents' = PlanAgents(plan)
  /\ dependsOn' = IF plan = "quick_overview"
                  THEN [a \in Agent |-> RegistryDependsOn[a] \cap PlanAgents(plan)]
                  ELSE RegistryDependsOn
  /\ phase' = IF "question-framing" \in PlanAgents(plan) THEN "framing" ELSE "gate"
  /\ remaining' = PlanAgents(plan) \ {"question-framing"}
  /\ UNCHANGED <<request, plan, decision, gatedOut, running, executed>>

(* Mutant: all dependencies are taken as satisfied.                        *)
FrameQuestionStripsAll ==
  /\ phase = "framing"
  /\ executed' = {"question-framing"}
  /\ dependsOn' = [a \in Agent |-> {}]
  /\ phase' = "gate"
  /\ UNCHANGED <<request, plan, agents, remaining, decision, gatedOut, running>>

(* The first execute_pipeline call: question-framing alone; then its name  *)
(* is removed from the dependencies of the others.                         *)
FrameQuestion ==
  /\ phase = "framing"
  /\ executed' = {"question-framing"}
  /\ dependsOn' = [a \in Agent |-> dependsOn[a] \ {"question-framing"}]
  /\ phase' = "gate"
  /\ UNCHANGED <<request, plan, agents, remaining, decision, gatedOut, running>>

BypassGating == request.forceFullAnalysis \/ plan \in {"validate_only", "quick_overview"}

(* No gate, or one that raised or took more than five seconds: every agent *)
(* of the plan is dispatched.                                              *)
SkipGate ==
  /\ phase = "gate"
  /\ phase' = "resolving"
  /\ UNCHANGED <<request, plan, agents, dependsOn, remaining, decision, gatedOut, running, executed>>

(* Mutant: the rows of the agents left out are not updated.                *)
ApplyGateSilently(f, mapReadable) ==
  /\ phase = "gate"
  /\ ~ BypassGating
  /\ decision' = Evaluate(f, agents \ {"question-framing"}, plan, mapReadable)
  /\ remaining' = remaining \cap decision'.dispatched
  /\ phase' = "resolving"
  /\ UNCHANGED <<request, plan, agents, dependsOn, running, executed, gatedOut>>

(* _apply_gating_and_filter *)
ApplyGate(f, mapReadable) ==
  /\ phase = "gate"
  /\ ~ BypassGating
  /\ decision' = Evaluate(f, agents \ {"question-framing"}, plan, mapReadable)
  /\ gatedOut' = remaining \ decision'.dispatched
  /\ remaining' = remaining \cap decision'.dispatched
  /\ phase' = "resolving"
  /\ UNCHANGED <<request, plan, agents, dependsOn, running, executed>>

(* resolve_tiers on the remaining agents: a dependency that is not among   *)
(* them is a ValueError, and the pipeline fails before the call's first    *)
(* agent.  (The registry has no cycle.)                                    *)
ResolveTiers ==
  /\ phase = "resolving"
  /\ phase' = IF \A a \in remaining : dependsOn[a] \subseteq remaining
              THEN "running" ELSE "unresolvable"
  /\ UNCHANGED <<request, plan, agents, dependsOn, remaining, decision, gatedOut, running, executed>>

(* The next tier: by KahnTiers, all agents whose dependencies are in the   *)
(* tiers before.                                                           *)
StartTier ==
  /\ phase = "running"
  /\ running = {}
  /\ running' = {a \in remaining \ executed : dependsOn[a] \subseteq executed}
  /\ running' # {}
  /\ UNCHANGED <<request, plan, phase, agents, dependsOn, remaining, decision, gatedOut, executed>>

FinishTier ==
  /\ running # {}
  /\ phase = "running"
  /\ executed' = executed \cup running
  /\ running' = {}
  /\ UNCHANGED <<request, plan, phase, agents, dependsOn, remaining, decision, gatedOut>>

(* Every agent of the registry is critical: its failure ends the pipeline. *)
FailAgent ==
  /\ \/ phase = "framing"
     \/ phase = "running" /\ running # {}
  /\ phase' = "agent_failed"
  /\ UNCHANGED <<request, plan, agents, dependsOn, remaining, decision, gatedOut, running, executed>>

Finish ==
  /\ phase = "running"
  /\ remaining \subseteq executed
  /\ phase' = "finished"
  /\ UNCHANGED <<request, plan, agents, dependsOn, remaining, decision, gatedOut, running, executed>>

Next ==
  \/ SelectPlan \/ LoadAgents \/ FrameQuestion \/ SkipGate
  \/ \E f \in Framing, mapReadable \in BOOLEAN : ApplyGate(f, mapReadable)
  \/ ResolveTiers \/ StartTier \/ FinishTier \/ FailAgent \/ Finish

Spec == Init /\ [][Next]_vars

-----------------------------------------------------------------------------

Ended == phase \in {"finished", "agent_failed", "unresolvable"}

(* The gate had five agents kept out of more (deep_dive, low complexity).  *)
Capped == plan = "deep_dive" /\ decision.complexity = "low"

(***************************************************************************)
(* No agent starts before an agent of the same run whose output it reads.  *)
(* The reads are not all declared: descriptive-analytics reads hypothesis  *)
(* and validation reads overtime-trend without depending on them, and get  *)
(* them only because the tiers happen to come in the right order.          *)
(***************************************************************************)
ReadsAreReady ==
  plan # "quick_overview" =>
    \A a \in running : Reads[a] \cap (remaining \cup executed) \subseteq executed

(***************************************************************************)
(* The run fails in resolve_tiers in two ways only: in validate_only,      *)
(* whose agent depends on one outside of the plan, and when the gate has   *)
(* capped its decision to five agents.  Otherwise neither the filter, nor  *)
(* the stripping, nor the gate ever removes an agent that another one      *)
(* still needs.                                                            *)
(***************************************************************************)
UnresolvableOnlyWhenCapped ==
  phase = "unresolvable" => plan = "validate_only" \/ Capped

(***************************************************************************)
(* At the end of a run every agent of the plan was run or has its row set  *)
(* to gated_out, never both and never neither, and the metrics stored with *)
(* the run (available minus dispatched) count exactly the gated-out rows.  *)
(***************************************************************************)
EveryAgentAccountedFor ==
  phase = "finished" =>
    /\ executed \cup gatedOut = agents
    /\ executed \cap gatedOut = {}
    /\ decision # NoDecision =>
         Cardinality(gatedOut) =
           Cardinality(agents \ {"question-framing"}) - Cardinality(decision.dispatched)

(***************************************************************************)
(* Without a decision (full analysis forced, a bypassing plan, a gate that *)
(* raised or timed out) and after one of high complexity (a malformed      *)
(* framing output included), nothing is skipped.                           *)
(***************************************************************************)
NothingSkippedWithoutReason ==
  phase = "finished" /\ decision.complexity \in {"none", "high"} => executed = agents

=============================================================================
