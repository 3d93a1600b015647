----------------------------- MODULE KahnTiers -----------------------------
(***************************************************************************)
(* resolve_tiers (app/orchestration/dag_resolver.py): the tiers in which   *)
(* the executor runs a list of agents.  The function is Kahn's algorithm,  *)
(* one pass of its inner loop per action: an agent is taken from the       *)
(* current queue, gets the current tier, and the in-degree of every agent  *)
(* that depends on it drops by one; the ones that reach zero wait in       *)
(* next_queue for the following tier.                                      *)
(*                                                                         *)
(* The input (which agents are in the list, what each depends on) is       *)
(* chosen in Init, so that one run of TLC covers every graph on Name.  The *)
(* deques are sets here: the order in which agents of one tier are taken   *)
(* does not affect the tier of any agent, and leaving it open covers every *)
(* order the registry could list them in.                                  *)
(***************************************************************************)
EXTENDS Integers, FiniteSets

CONSTANT Name   \* the names an agent or a dependency can have

ASSUME NameAssumption == IsFiniteSet(Name)

VARIABLES
  agents,       \* the names in the list passed to resolve_tiers
  dependsOn,    \* AgentNode.depends_on
  dependsOnAny, \* AgentNode.depends_on_any
  status,       \* "validating", "sorting", or how the call ended
  inDegree,     \* in_degree
  queue,        \* queue
  nextQueue,    \* next_queue
  level,        \* len(tiers)
  tierOf        \* AgentNode.tier; -1 until the agent is placed

input    == <<agents, dependsOn, dependsOnAny>>
sortVars == <<agents, dependsOn, dependsOnAny, status, inDegree, queue, nextQueue, level, tierOf>>

Statuses == {"validating", "sorting", "tiers", "unknown_dependency", "cycle"}

SortTypeOK ==
  /\ agents \subseteq Name
  /\ dependsOn \in [Name -> SUBSET Name]
  /\ dependsOnAny \in [Name -> SUBSET Name]
  /\ status \in Statuses
  /\ inDegree \in [Name -> Nat]
  /\ queue \subseteq agents
  /\ nextQueue \subseteq agents
  /\ level \in Nat
  /\ tierOf \in [Name -> Nat \cup {-1}]

(* The agents that have a tier; the code counts them in "processed". *)
Placed == {a \in agents : tierOf[a] # -1}

(* The call begins; its input is given. *)
Start ==
  /\ status = "validating"
  /\ inDegree = [a \in Name |-> 0]
  /\ queue = {}
  /\ nextQueue = {}
  /\ level = 0
  /\ tierOf = [a \in Name |-> -1]

SortInit ==
  /\ agents \in SUBSET Name
  /\ dependsOn \in [Name -> SUBSET Name]
  /\ dependsOnAny \in [Name -> SUBSET Name]
  /\ Start

(* Mutant: depends_on is not validated.                                    *)
AllKnownAny == \A a \in agents : dependsOnAny[a] \subseteq agents

(* Every name an agent mentions, in depends_on or depends_on_any, must be  *)
(* the name of an agent of the list.                                       *)
AllKnown ==
  \A a \in agents : dependsOn[a] \subseteq agents /\ dependsOnAny[a] \subseteq agents

RejectUnknown ==
  /\ status = "validating"
  /\ ~ AllKnown
  /\ status' = "unknown_dependency"
  /\ UNCHANGED <<input, inDegree, queue, nextQueue, level, tierOf>>

(* depends_on_any is validated but takes no part in the in-degrees. *)
CountDegrees ==
  /\ status = "validating"
  /\ AllKnown
  /\ status' = "sorting"
  /\ inDegree' = [a \in Name |-> IF a \in agents THEN Cardinality(dependsOn[a]) ELSE 0]
  /\ queue' = {a \in agents : dependsOn[a] = {}}
  /\ UNCHANGED <<input, nextQueue, level, tierOf>>

(* Dependents of an agent, as in the "dependents" adjacency list. *)
Dependents(name) == {a \in agents : name \in dependsOn[a]}

Place(name) ==
  /\ status = "sorting"
  /\ name \in queue
  /\ tierOf' = [tierOf EXCEPT ![name] = level]
  /\ inDegree' = [a \in Name |-> IF a \in Dependents(name) THEN inDegree[a] - 1 ELSE inDegree[a]]
  /\ queue' = queue \ {name}
  /\ nextQueue' = nextQueue \cup {a \in Dependents(name) : inDegree'[a] = 0}
  /\ UNCHANGED <<input, status, level>>

(* Mutant: the tier number is not advanced.                                *)
NextTierSameLevel ==
  /\ status = "sorting" /\ queue = {} /\ nextQueue # {}
  /\ queue' = nextQueue
  /\ nextQueue' = {}
  /\ UNCHANGED <<input, status, inDegree, tierOf, level>>

(* tiers.append(tier_agents); queue = next_queue *)
NextTier ==
  /\ status = "sorting"
  /\ queue = {}
  /\ nextQueue # {}
  /\ level' = level + 1
  /\ queue' = nextQueue
  /\ nextQueue' = {}
  /\ UNCHANGED <<input, status, inDegree, tierOf>>

Finish ==
  /\ status = "sorting"
  /\ queue = {}
  /\ nextQueue = {}
  /\ status' = IF Placed = agents THEN "tiers" ELSE "cycle"
  /\ UNCHANGED <<input, inDegree, queue, nextQueue, level, tierOf>>

SortNext ==
  \/ RejectUnknown
  \/ CountDegrees
  \/ \E name \in Name : Place(name)
  \/ NextTier
  \/ Finish

SortSpec == SortInit /\ [][SortNext]_sortVars

-----------------------------------------------------------------------------

(***************************************************************************)
(* The tiers are a schedule: every agent is in a later tier than all it    *)
(* depends on, and no later than it must be (an agent of tier k > 0 has a  *)
(* dependency in tier k-1, so it could not have run earlier).              *)
(***************************************************************************)
TiersRespectDependencies ==
  status = "tiers" =>
    \A a \in agents :
      /\ tierOf[a] # -1
      /\ \A d \in dependsOn[a] : d \in agents /\ tierOf[d] < tierOf[a]
      /\ tierOf[a] > 0 => \E d \in dependsOn[a] : tierOf[d] = tierOf[a] - 1

(***************************************************************************)
(* "Cycle detected" is never a false alarm: when it is raised, the agents  *)
(* left without a tier are not empty and each of them depends on another   *)
(* of them, so following depends_on inside that set never ends.            *)
(***************************************************************************)
CycleIsReal ==
  status = "cycle" =>
    LET left == agents \ Placed
    IN  left # {} /\ \A a \in left : dependsOn[a] \cap left # {}

=============================================================================
