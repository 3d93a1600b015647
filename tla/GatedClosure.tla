---------------------------- MODULE GatedClosure ----------------------------
(***************************************************************************)
(* resolve_gated_dependencies (app/orchestration/dag_resolver.py): the     *)
(* agent gate has selected some agents; this breadth-first search adds the *)
(* agents they depend on, directly or not, among the ones the plan offers. *)
(*                                                                         *)
(* One action is one pass of the while loop.  The deque is a set: the      *)
(* order of the visits is left open.  A selected name that the plan does   *)
(* not offer stays in the result and is not followed, as in the code.      *)
(***************************************************************************)
EXTENDS FiniteSets

CONSTANT Name   \* the names an agent or a dependency can have

ASSUME NameAssumption == IsFiniteSet(Name)

VARIABLES
  available,   \* names in agent_map: the registry agents the plan offers
  edges,       \* AgentNode.depends_on
  dispatched,  \* the argument: what the gate selected
  result,      \* result
  queue,       \* queue
  visited      \* visited

input      == <<available, edges, dispatched>>
searchVars == <<available, edges, dispatched, result, queue, visited>>

SearchTypeOK ==
  /\ available \subseteq Name
  /\ edges \in [Name -> SUBSET Name]
  /\ dispatched \subseteq Name
  /\ result \subseteq Name
  /\ queue \subseteq visited
  /\ visited \subseteq available

(* Mutant: every agent counts as visited, so dependencies are not walked.  *)
StartAllVisited ==
  /\ result = dispatched
  /\ queue = dispatched \cap available
  /\ visited = available

Start ==
  /\ result = dispatched
  /\ queue = dispatched \cap available
  /\ visited = dispatched \cap available

SearchInit ==
  /\ available \in SUBSET Name
  /\ edges \in [Name -> SUBSET Name]
  /\ dispatched \in SUBSET Name
  /\ Start

(* Mutant: edges are reversed.                                             *)
FollowDependents(current) == {a \in available : current \in edges[a]}

(* What is followed: the dependencies that are in agent_map. *)
Follow(current) == edges[current] \cap available

Visit(current) ==
  LET deps == Follow(current) IN
  /\ current \in queue
  /\ result' = result \cup deps
  /\ queue' = (queue \ {current}) \cup (deps \ visited)
  /\ visited' = visited \cup deps
  /\ UNCHANGED input

SearchNext == \E current \in Name : Visit(current)

SearchSpec == SearchInit /\ [][SearchNext]_searchVars

Returned == queue = {}

-----------------------------------------------------------------------------

(* A set of names in which no available agent misses an available          *)
(* dependency, and which holds at least what the gate selected.            *)
ClosedSuperset(S) ==
  /\ dispatched \subseteq S
  /\ \A a \in S \cap available : edges[a] \cap available \subseteq S

(***************************************************************************)
(* What the docstring promises, "Ensure all dependencies of dispatched     *)
(* agents are also dispatched": the set returned is closed under the       *)
(* dependencies the plan offers, cycles among them included.               *)
(***************************************************************************)
ResultIsClosed == Returned => ClosedSuperset(result)

(***************************************************************************)
(* ... and nothing else is re-included: an agent the gate skipped comes    *)
(* back only if every closed set holding the selection has it, so the gate *)
(* never loses more of its saving than the graph forces.                   *)
(***************************************************************************)
NothingElseIncluded ==
  \A S \in SUBSET Name : ClosedSuperset(S) => result \subseteq S

=============================================================================
