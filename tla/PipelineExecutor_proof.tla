----------------------- MODULE PipelineExecutor_proof -----------------------
(***************************************************************************)
(* execute_pipeline, from the agents and their dependencies to the end of  *)
(* the call.                                                               *)
(*                                                                         *)
(* resolve_tiers is correct for every finite set of names and every graph  *)
(* on them.  The inductive invariant says what Kahn's in-degrees count     *)
(* (the dependencies not yet placed), that the two queues hold exactly the *)
(* agents whose dependencies are all placed, and which tier the last of    *)
(* those dependencies has.  What it returns is a schedule.                 *)
(*                                                                         *)
(* The executor is correct for every set of agents, every dependency graph *)
(* and every schedule of them: whatever returns, raises, hangs or is       *)
(* cancelled.  The inductive invariant describes the three kinds of tiers  *)
(* there are at any time: the closed ones, all collected; the current one, *)
(* whose coroutines are alive only while gather waits for them; the later  *)
(* ones, not started.  Of a row it says that the session and the database  *)
(* agree unless the session is ahead, and never ahead of a final status.   *)
(***************************************************************************)
EXTENDS PipelineExecutor, KahnTiers, FiniteSetTheorems, TLAPS

(* resolve_tiers. *)

Sorted == status \in {"sorting", "tiers", "cycle"}

(* in_degree counts the dependencies that have no tier yet. *)
DegreesCountUnplaced ==
  \A a \in agents : inDegree[a] = Cardinality(dependsOn[a] \ Placed)

(* The queues hold the agents that can be placed, each in one of them. *)
QueuesHoldReady ==
  /\ queue \cap nextQueue = {}
  /\ queue \cup nextQueue = {a \in agents \ Placed : dependsOn[a] \subseteq Placed}

PlacedInOrder ==
  \A a \in Placed :
    /\ tierOf[a] <= level
    /\ dependsOn[a] \subseteq Placed
    /\ \A d \in dependsOn[a] : tierOf[d] < tierOf[a]
    /\ tierOf[a] > 0 => \E d \in dependsOn[a] : tierOf[d] = tierOf[a] - 1

(* The current queue is for this tier, next_queue for the following one. *)
QueueIsThisTier ==
  \A a \in queue :
    /\ \A d \in dependsOn[a] : tierOf[d] < level
    /\ level > 0 => \E d \in dependsOn[a] : tierOf[d] = level - 1

NextQueueIsNextTier ==
  \A a \in nextQueue : \E d \in dependsOn[a] : tierOf[d] = level

SortInv ==
  /\ AllKnown
  /\ DegreesCountUnplaced
  /\ QueuesHoldReady
  /\ PlacedInOrder
  /\ QueueIsThisTier
  /\ NextQueueIsNextTier

TiersInv ==
  /\ SortTypeOK
  /\ status = "validating" =>
       /\ tierOf = [a \in Name |-> -1]
       /\ nextQueue = {}
       /\ level = 0
  /\ Sorted => SortInv
  /\ status \in {"tiers", "cycle"} =>
       /\ queue = {} /\ nextQueue = {}
       /\ status = "tiers" <=> Placed = agents

-----------------------------------------------------------------------------

(* Taking one member out of a finite set lowers its size by one, and a set *)
(* without members is the one of size zero.                                *)
LEMMA CardinalityStep ==
  ASSUME NEW S, IsFiniteSet(S), NEW x \in S
  PROVE  /\ Cardinality(S \ {x}) = Cardinality(S) - 1
         /\ Cardinality(S) \in Nat
         /\ Cardinality(S \ {x}) \in Nat
<1>1. IsFiniteSet(S \ {x})
  BY FS_RemoveElement
<1>2. QED
  BY <1>1, FS_RemoveElement, FS_CardinalityType

(* The initial states satisfy the inductive invariant. *)
LEMMA SortInitially == SortInit => TiersInv
BY DEF SortInit, Start, TiersInv, SortTypeOK, Statuses, Sorted

(* Rejecting an unknown dependency keeps the invariant. *)
LEMMA RejectKeeps == TiersInv /\ RejectUnknown => TiersInv'
BY DEF TiersInv, RejectUnknown, SortTypeOK, Statuses, Sorted, input

(* Counting the in-degrees establishes the sorting invariant. *)
LEMMA CountKeeps == TiersInv /\ CountDegrees => TiersInv'
<1> SUFFICES ASSUME TiersInv, CountDegrees PROVE TiersInv'
  OBVIOUS
<1>1. Placed' = {} /\ Placed = {}
  BY DEF TiersInv, CountDegrees, Placed, input, SortTypeOK
<1>2. \A a \in Name : IsFiniteSet(dependsOn[a]) /\ Cardinality(dependsOn[a]) \in Nat
  BY NameAssumption, FS_Subset, FS_CardinalityType DEF TiersInv, SortTypeOK
<1>3. SortTypeOK'
  BY <1>2 DEF TiersInv, CountDegrees, SortTypeOK, Statuses, input
<1>4. SortInv'
  <2>1. AllKnown'
    BY DEF CountDegrees, AllKnown, input
  <2>2. DegreesCountUnplaced'
    <3>1. \A a \in agents : inDegree'[a] = Cardinality(dependsOn[a])
      BY DEF CountDegrees, TiersInv, SortTypeOK
    <3>2. \A a \in agents : dependsOn[a] \ {} = dependsOn[a]
      OBVIOUS
    <3>3. agents' = agents /\ dependsOn' = dependsOn
      BY DEF CountDegrees, input
    <3>4. QED
      BY <1>1, <3>1, <3>2, <3>3 DEF DegreesCountUnplaced
  <2>3. QueuesHoldReady'
    BY <1>1 DEF QueuesHoldReady, CountDegrees, input, TiersInv
  <2>4. PlacedInOrder'
    BY <1>1 DEF PlacedInOrder
  <2>5. QueueIsThisTier' /\ NextQueueIsNextTier'
    BY DEF QueueIsThisTier, NextQueueIsNextTier, CountDegrees, TiersInv, input
  <2>6. QED
    BY <2>1, <2>2, <2>3, <2>4, <2>5 DEF SortInv
<1>5. QED
  BY <1>3, <1>4 DEF TiersInv, CountDegrees, Sorted

(* Placing an agent keeps the invariant: what it adds to Placed is what it *)
(* takes from the queue, and the in-degrees that drop are the ones that    *)
(* counted it.                                                             *)
LEMMA PlaceKeeps == ASSUME NEW name \in Name, TiersInv, Place(name) PROVE TiersInv'
<1>1. /\ SortTypeOK /\ SortInv /\ status = "sorting"
      /\ status' = "sorting" /\ level' = level /\ agents' = agents
      /\ dependsOn' = dependsOn /\ dependsOnAny' = dependsOnAny
  BY DEF TiersInv, Place, Sorted, input
<1>2. name \in agents \ Placed /\ dependsOn[name] \subseteq Placed
  BY <1>1 DEF Place, SortInv, QueuesHoldReady
<1>3. /\ tierOf' = [tierOf EXCEPT ![name] = level]
      /\ tierOf'[name] = level
      /\ \A a \in Name : a # name => tierOf'[a] = tierOf[a]
  BY <1>1 DEF Place, SortTypeOK
<1>4. Placed' = Placed \cup {name}
  BY <1>1, <1>2, <1>3 DEF Placed, SortTypeOK
<1>5. \A a \in agents : IsFiniteSet(dependsOn[a] \ Placed)
  BY <1>1, NameAssumption, FS_Subset DEF SortTypeOK
<1>6. \A a \in agents : inDegree'[a] = Cardinality(dependsOn[a] \ Placed') /\ inDegree'[a] \in Nat
  <2> TAKE a \in agents
  <2>1. a \in Name
    BY <1>1 DEF SortTypeOK
  <2>2. CASE name \in dependsOn[a]
    <3>1. name \in dependsOn[a] \ Placed
      BY <1>2, <2>2
    <3>2. dependsOn[a] \ Placed' = (dependsOn[a] \ Placed) \ {name}
      BY <1>4
    <3>3. inDegree'[a] = inDegree[a] - 1
      BY <2>1, <2>2 DEF Place, Dependents
    <3>4. inDegree[a] = Cardinality(dependsOn[a] \ Placed)
      BY <1>1 DEF SortInv, DegreesCountUnplaced
    <3>5. QED
      BY <1>5, <3>1, <3>2, <3>3, <3>4, CardinalityStep
  <2>3. CASE name \notin dependsOn[a]
    <3>1. dependsOn[a] \ Placed' = dependsOn[a] \ Placed
      BY <1>4, <2>3
    <3>2. inDegree'[a] = inDegree[a]
      BY <2>1, <2>3 DEF Place, Dependents
    <3>3. QED
      BY <1>1, <2>1, <3>1, <3>2 DEF SortInv, DegreesCountUnplaced, SortTypeOK
  <2>4. QED
    BY <2>2, <2>3
<1>7. nextQueue' = nextQueue \cup {a \in agents : name \in dependsOn[a] /\ dependsOn[a] \subseteq Placed'}
  <2>1. \A a \in agents : inDegree'[a] = 0 <=> dependsOn[a] \subseteq Placed'
    <3> TAKE a \in agents
    <3>1. IsFiniteSet(dependsOn[a] \ Placed')
      BY <1>1, NameAssumption, FS_Subset DEF SortTypeOK
    <3>2. Cardinality(dependsOn[a] \ Placed') = 0 <=> dependsOn[a] \ Placed' = {}
      BY <3>1, FS_EmptySet
    <3>3. QED
      BY <1>6, <3>2
  <2>2. QED
    BY <2>1 DEF Place, Dependents
<1>8. SortTypeOK'
  <2>1. inDegree' \in [Name -> Nat]
    <3>1. \A a \in Name : a \notin agents => inDegree'[a] = inDegree[a]
      BY DEF Place, Dependents
    <3>2. \A a \in Name : inDegree'[a] \in Nat
      BY <1>1, <1>6, <3>1 DEF SortTypeOK
    <3>3. inDegree' = [a \in Name |-> inDegree'[a]]
      BY DEF Place
    <3>4. QED
      BY <3>2, <3>3
  <2>2. tierOf' \in [Name -> Nat \cup {-1}]
    BY <1>1, <1>3 DEF SortTypeOK
  <2>3. queue' \subseteq agents /\ nextQueue' \subseteq agents
    BY <1>1, <1>7 DEF SortTypeOK, Place
  <2>4. QED
    BY <1>1, <2>1, <2>2, <2>3 DEF SortTypeOK, Statuses
<1>9. SortInv'
  <2>1. AllKnown' /\ DegreesCountUnplaced'
    BY <1>1, <1>6 DEF SortInv, AllKnown, DegreesCountUnplaced
  <2>2. QueuesHoldReady'
    <3>1. /\ queue' = queue \ {name} /\ queue \cap nextQueue = {}
          /\ \A a \in agents : a \in queue \cup nextQueue <=> a \notin Placed /\ dependsOn[a] \subseteq Placed
          /\ queue \subseteq agents /\ nextQueue \subseteq agents /\ name \in queue
      BY <1>1 DEF SortInv, QueuesHoldReady, Place, SortTypeOK
    <3>2. \A a \in Placed : dependsOn[a] \subseteq Placed
      BY <1>1 DEF SortInv, PlacedInOrder
    <3>3. queue' \cap nextQueue' = {}
      BY <1>2, <1>7, <3>1
    <3>4. \A a \in agents : a \in queue' \cup nextQueue' <=> a \notin Placed' /\ dependsOn[a] \subseteq Placed'
      BY <1>2, <1>4, <1>7, <3>1, <3>2
    <3>5. QED
      BY <1>1, <1>7, <3>1, <3>3, <3>4 DEF QueuesHoldReady
  <2>3. PlacedInOrder'
    <3>1. \A d \in dependsOn[name] : tierOf'[d] = tierOf[d] /\ d # name
      BY <1>1, <1>2, <1>3 DEF SortTypeOK, Placed
    <3>2. /\ \A d \in dependsOn[name] : tierOf'[d] < level
          /\ level > 0 => \E d \in dependsOn[name] : tierOf'[d] = level - 1
      BY <1>1, <3>1 DEF SortInv, QueueIsThisTier, Place
    <3>3. ASSUME NEW a \in Placed
          PROVE  /\ a # name /\ tierOf'[a] = tierOf[a]
                 /\ \A d \in dependsOn[a] : tierOf'[d] = tierOf[d]
      BY <1>1, <1>2, <1>3 DEF SortInv, PlacedInOrder, Placed, SortTypeOK
    <3>4. \A a \in Placed : /\ tierOf'[a] <= level /\ dependsOn[a] \subseteq Placed
                            /\ \A d \in dependsOn[a] : tierOf'[d] < tierOf'[a]
                            /\ tierOf'[a] > 0 => \E d \in dependsOn[a] : tierOf'[d] = tierOf'[a] - 1
      BY <1>1, <3>3 DEF SortInv, PlacedInOrder
    <3>5. level \in Nat
      BY <1>1 DEF SortTypeOK
    <3>6. QED
      BY <1>1, <1>2, <1>3, <1>4, <3>2, <3>4, <3>5 DEF PlacedInOrder
  <2>4. QueueIsThisTier'
    <3>1. ASSUME NEW a \in queue, a # name, NEW d \in dependsOn[a] PROVE tierOf'[d] = tierOf[d]
      <4>1. d \in Placed
        BY <1>1 DEF SortInv, QueuesHoldReady
      <4>2. QED
        BY <1>2, <1>3, <1>1, <4>1 DEF Placed, SortTypeOK
    <3>2. queue' = queue \ {name}
      BY DEF Place
    <3>3. QED
      BY <1>1, <3>1, <3>2 DEF SortInv, QueueIsThisTier
  <2>5. NextQueueIsNextTier'
    <3>1. ASSUME NEW a \in nextQueue, NEW d \in dependsOn[a] PROVE tierOf'[d] = tierOf[d]
      <4>1. d \in Placed
        BY <1>1 DEF SortInv, QueuesHoldReady
      <4>2. QED
        BY <1>2, <1>3, <1>1, <4>1 DEF Placed, SortTypeOK
    <3>2. QED
      BY <1>1, <1>3, <1>7, <3>1 DEF SortInv, NextQueueIsNextTier
  <2>6. QED
    BY <2>1, <2>2, <2>3, <2>4, <2>5 DEF SortInv
<1>10. QED
  BY <1>1, <1>8, <1>9 DEF TiersInv

(* Moving on to the next tier keeps the invariant: the agents that waited  *)
(* in next_queue have their last dependency in the tier just closed.       *)
LEMMA NextTierKeeps == TiersInv /\ NextTier => TiersInv'
<1> SUFFICES ASSUME TiersInv, NextTier PROVE TiersInv'
  OBVIOUS
<1>1. /\ SortTypeOK /\ SortInv /\ status = "sorting" /\ status' = "sorting"
      /\ level' = level + 1 /\ queue = {} /\ queue' = nextQueue /\ nextQueue' = {}
      /\ agents' = agents /\ dependsOn' = dependsOn /\ dependsOnAny' = dependsOnAny
      /\ inDegree' = inDegree /\ tierOf' = tierOf
  BY DEF TiersInv, NextTier, Sorted, input
<1>2. Placed' = Placed
  BY <1>1 DEF Placed
<1>3. SortTypeOK'
  BY <1>1 DEF SortTypeOK
<1>4. AllKnown' /\ DegreesCountUnplaced' /\ QueuesHoldReady' /\ NextQueueIsNextTier'
  BY <1>1, <1>2 DEF SortInv, AllKnown, DegreesCountUnplaced, QueuesHoldReady, NextQueueIsNextTier
<1>5. PlacedInOrder'
  <2>1. \A a \in Placed : tierOf[a] \in Int /\ level \in Int
    BY <1>1 DEF SortTypeOK, Placed
  <2>2. QED
    BY <1>1, <1>2, <2>1 DEF SortInv, PlacedInOrder
<1>6. QueueIsThisTier'
  <2>1. ASSUME NEW a \in nextQueue, NEW d \in dependsOn[a] PROVE tierOf[d] < level + 1
    <3>1. d \in Placed
      BY <1>1 DEF SortInv, QueuesHoldReady
    <3>2. tierOf[d] <= level /\ tierOf[d] \in Int /\ level \in Nat
      BY <1>1, <3>1 DEF SortInv, PlacedInOrder, SortTypeOK, Placed
    <3>3. QED
      BY <3>2
  <2>2. \A a \in nextQueue : \E d \in dependsOn[a] : tierOf[d] = (level + 1) - 1
    BY <1>1 DEF SortInv, NextQueueIsNextTier, SortTypeOK
  <2>3. QED
    BY <1>1, <2>1, <2>2 DEF QueueIsThisTier
<1>7. QED
  BY <1>1, <1>3, <1>4, <1>5, <1>6 DEF TiersInv, SortInv

(* The end of the sort keeps the invariant. *)
LEMMA FinishKeeps == TiersInv /\ Finish => TiersInv'
BY DEF TiersInv, Finish, Sorted, input, SortTypeOK, Statuses, SortInv, Placed, AllKnown,
       DegreesCountUnplaced, QueuesHoldReady, PlacedInOrder, QueueIsThisTier, NextQueueIsNextTier

(* IInv is an invariant of resolve_tiers. *)
LEMMA TiersInductive == SortSpec => []TiersInv
<1>1. TiersInv /\ [SortNext]_sortVars => TiersInv'
  <2> SUFFICES ASSUME TiersInv, [SortNext]_sortVars PROVE TiersInv'
    OBVIOUS
  <2>1. CASE RejectUnknown
    BY <2>1, RejectKeeps
  <2>2. CASE CountDegrees
    BY <2>2, CountKeeps
  <2>3. ASSUME NEW name \in Name, Place(name) PROVE TiersInv'
    BY <2>3, PlaceKeeps
  <2>4. CASE NextTier
    BY <2>4, NextTierKeeps
  <2>5. CASE Finish
    BY <2>5, FinishKeeps
  <2>6. CASE UNCHANGED sortVars
    BY <2>6 DEF sortVars, TiersInv, Sorted, SortTypeOK, SortInv, Placed, AllKnown, DegreesCountUnplaced,
                QueuesHoldReady, PlacedInOrder, QueueIsThisTier, NextQueueIsNextTier
  <2>7. QED
    BY <2>1, <2>2, <2>3, <2>4, <2>5, <2>6 DEF SortNext
<1>2. QED
  BY <1>1, SortInitially, PTL DEF SortSpec

-----------------------------------------------------------------------------

(* The variables of resolve_tiers keep their types; in particular no       *)
(* in-degree ever goes below zero.                                         *)
THEOREM SortTypeCorrect == SortSpec => []SortTypeOK
<1>1. TiersInv => SortTypeOK
  BY DEF TiersInv
<1>2. QED
  BY <1>1, TiersInductive, PTL

(* Whenever resolve_tiers returns, its tiers respect every depends_on and  *)
(* place every agent as early as its dependencies allow.                   *)
THEOREM TiersCorrect == SortSpec => []TiersRespectDependencies
<1>1. TiersInv => TiersRespectDependencies
  BY DEF TiersInv, TiersRespectDependencies, Sorted, SortInv, PlacedInOrder, Placed, AllKnown
<1>2. QED
  BY <1>1, TiersInductive, PTL

(* Whenever resolve_tiers reports a cycle there is one.                    *)
THEOREM CycleCorrect == SortSpec => []CycleIsReal
<1>1. TiersInv => CycleIsReal
  <2> SUFFICES ASSUME TiersInv, status = "cycle" PROVE CycleIsReal
    BY DEF CycleIsReal
  <2>1. SortInv /\ queue = {} /\ nextQueue = {} /\ Placed # agents
    BY DEF TiersInv, Sorted
  <2>2. agents \ Placed # {}
    BY <2>1 DEF Placed
  <2>3. ASSUME NEW a \in agents \ Placed PROVE dependsOn[a] \cap (agents \ Placed) # {}
    BY <2>1 DEF SortInv, QueuesHoldReady, AllKnown
  <2>4. QED
    BY <2>2, <2>3 DEF CycleIsReal
<1>2. QED
  BY <1>1, TiersInductive, PTL

(* len(tiers), after the last tier was appended. *)
NumberOfTiers == IF agents = {} THEN 0 ELSE level + 1

(* What resolve_tiers returns is what the executor assumes of the tiers    *)
(* that it is given (execute_pipeline passes them on).                     *)
ReturnsSchedule ==
  status = "tiers" =>
    IsSchedule(agents, [a \in agents |-> dependsOn[a]], [a \in agents |-> tierOf[a]], NumberOfTiers)

THEOREM ExecutorGetsSchedule == SortSpec => []ReturnsSchedule
<1>1. TiersInv => ReturnsSchedule
  <2> SUFFICES ASSUME TiersInv, status = "tiers"
               PROVE  IsSchedule(agents, [a \in agents |-> dependsOn[a]],
                                 [a \in agents |-> tierOf[a]], NumberOfTiers)
    BY DEF ReturnsSchedule
  <2>1. /\ SortTypeOK /\ AllKnown /\ PlacedInOrder /\ Placed = agents
        /\ agents \subseteq Name /\ level \in Nat
    BY DEF TiersInv, Sorted, SortInv, SortTypeOK
  <2>2. \A a \in agents : tierOf[a] \in Nat /\ tierOf[a] <= level
    BY <2>1 DEF Placed, PlacedInOrder, SortTypeOK
  <2>3. \A a \in agents : dependsOn[a] \subseteq agents /\ \A d \in dependsOn[a] : tierOf[d] < tierOf[a]
    BY <2>1 DEF AllKnown, PlacedInOrder
  <2>4. NumberOfTiers \in Nat /\ \A a \in agents : tierOf[a] < NumberOfTiers
    BY <2>1, <2>2 DEF NumberOfTiers
  <2> QED
    BY <2>2, <2>3, <2>4 DEF IsSchedule
<1> QED
  BY <1>1, TiersInductive, PTL

(* A tier has the agents that are not in a tier before it and depend only  *)
(* on agents that are: none waits for a tier that it does not need.        *)
EarlierThan(k) == {a \in agents : tierOf[a] < k}

TiersAreWaves ==
  status = "tiers" =>
    \A k \in Nat :
      {a \in agents : tierOf[a] = k} =
        {a \in agents \ EarlierThan(k) : dependsOn[a] \subseteq EarlierThan(k)}

THEOREM EachTierIsAWave == SortSpec => []TiersAreWaves
<1>1. TiersInv => TiersAreWaves
  <2> SUFFICES ASSUME TiersInv, status = "tiers", NEW k \in Nat, NEW a \in agents
               PROVE  tierOf[a] = k <=>
                        a \notin EarlierThan(k) /\ dependsOn[a] \subseteq EarlierThan(k)
    BY DEF TiersAreWaves
  <2>1. SortTypeOK /\ AllKnown /\ PlacedInOrder /\ Placed = agents
    BY DEF TiersInv, Sorted, SortInv
  <2>2. \A b \in agents : tierOf[b] \in Nat
    BY <2>1 DEF Placed, SortTypeOK
  <2>3. \A d \in dependsOn[a] : d \in agents /\ tierOf[d] < tierOf[a]
    BY <2>1 DEF AllKnown, PlacedInOrder
  <2>4. tierOf[a] > 0 => \E d \in dependsOn[a] : tierOf[d] = tierOf[a] - 1
    BY <2>1 DEF PlacedInOrder
  <2>5. CASE tierOf[a] = k
    BY <2>2, <2>3, <2>5 DEF EarlierThan
  <2>6. CASE tierOf[a] < k
    BY <2>6 DEF EarlierThan
  <2>7. CASE tierOf[a] > k
    <3>1. PICK d \in dependsOn[a] : tierOf[d] = tierOf[a] - 1
      BY <2>2, <2>4, <2>7
    <3>2. d \notin EarlierThan(k)
      BY <2>2, <2>3, <2>7, <3>1 DEF EarlierThan
    <3> QED
      BY <2>7, <3>1, <3>2
  <2> QED
    BY <2>2, <2>5, <2>6, <2>7
<1> QED
  BY <1>1, TiersInductive, PTL

-----------------------------------------------------------------------------
(* The executor. *)

ClosedTiers ==
  \A a \in Agent : TierOf[a] < tier => a \in collected

LaterTiers ==
  \A a \in Agent : TierOf[a] > tier => pc[a] = "waiting" /\ a \notin collected

CurrentTier ==
  \A a \in Agent : TierOf[a] = tier =>
    /\ phase \in {"starting", "launching"} => pc[a] = "waiting"
    /\ phase \in {"tier", "collecting"} => pc[a] # "waiting"
    /\ phase \in {"starting", "launching", "tier"} => a \notin collected

ActiveOnlyInTier ==
  \A a \in Agent : pc[a] \in Active => phase = "tier" /\ TierOf[a] = tier

CollectedAgents ==
  \A a \in collected :
    /\ pc[a] \in {"returned", "empty", "raised"}
    /\ a \in Critical => a \in outputs

OutputsAreCollected == outputs \subseteq collected

TierIndex ==
  /\ phase \in {"launching", "tier", "collecting"} => tier < NumTiers
  /\ phase = "completed" => tier = NumTiers
  /\ phase = "starting" => tier = 0

(* Only one exception is being reported, and only by the loop. *)
ReportingInLoop ==
  \A a \in Agent : pc[a] = "reporting_exception" =>
    /\ phase = "collecting" /\ TierOf[a] = tier /\ a \notin collected
    /\ \A b \in Agent : pc[b] = "reporting_exception" => b = a

(* What the work came to, given where the coroutine is. *)
ResultFits ==
  \A a \in Agent :
    /\ pc[a] \in {"waiting", "announcing", "working"} => result[a] = "none"
    /\ pc[a] \in {"reporting", "returned"} => result[a] = "returned"
    /\ pc[a] \in {"reporting_timeout", "empty", "error"} => result[a] = "timed_out"
    /\ pc[a] \in {"reporting_exception", "raised"} => result[a] = "raised"

(* What has been reported of an agent, given where its coroutine is. *)
ReportCounts ==
  \A a \in Agent :
    /\ pc[a] \in {"waiting", "announcing", "working"} => reports[a] = 0
    /\ pc[a] = "raised" /\ a \notin collected /\ phase \in {"tier", "collecting"} =>
         reports[a] = 0
    /\ pc[a] \in {"reporting", "reporting_timeout", "reporting_exception"} => reports[a] = 1
    /\ reports[a] <= 1

SessionIsTrue ==
  \A a \in Agent :
    /\ session[a] = "completed" => result[a] = "returned"
    /\ session[a] = "failed" => result[a] \in {"raised", "timed_out"}
    /\ session[a] = "running" => pc[a] # "waiting"

(* What the session has not committed is later than what the row says. *)
SessionAhead ==
  \A a \in Agent :
    \/ session[a] = rows[a]
    \/ rows[a] = "queued"
    \/ rows[a] = "running" /\ session[a] \in {"completed", "failed"}

(* An agent whose end is known has been reported, and its row says so      *)
(* unless that callback raised.                                            *)
EndsAreReported ==
  \A a \in Agent :
    pc[a] \in {"returned", "empty", "error"} \/ (pc[a] = "raised" /\ a \in collected) =>
      /\ reports[a] = 1
      /\ a \notin lost => rows[a] = IF result[a] = "returned" THEN "completed" ELSE "failed"

IInv ==
  /\ TypeOK
  /\ ClosedTiers
  /\ LaterTiers
  /\ CurrentTier
  /\ ActiveOnlyInTier
  /\ CollectedAgents
  /\ OutputsAreCollected
  /\ TierIndex
  /\ ReportingInLoop
  /\ ResultFits
  /\ ReportCounts
  /\ SessionIsTrue
  /\ SessionAhead
  /\ EndsAreReported
  /\ RowsAreTrue

-----------------------------------------------------------------------------

(* IInv is an invariant of the executor. *)
LEMMA Inductive == Spec => []IInv
<1> USE TiersAssumption DEF IsSchedule, IInv, TypeOK, Phases, AgentStates, Active, RowStatus,
        ClosedTiers, LaterTiers, CurrentTier, ActiveOnlyInTier, CollectedAgents,
        OutputsAreCollected, TierIndex, ReportingInLoop, ResultFits, ReportCounts, SessionIsTrue,
        SessionAhead, EndsAreReported, RowsAreTrue, scheduleVars, rowVars
<1>1. Init => IInv
  <2> SUFFICES ASSUME Init PROVE IInv
    OBVIOUS
  <2>1. TypeOK
    BY DEF Init
  <2>2. ClosedTiers /\ LaterTiers /\ CurrentTier /\ ActiveOnlyInTier /\ TierIndex
    BY DEF Init
  <2>3. CollectedAgents /\ OutputsAreCollected /\ ReportingInLoop /\ ResultFits /\ ReportCounts
    BY DEF Init
  <2>4. SessionIsTrue /\ SessionAhead /\ EndsAreReported /\ RowsAreTrue
    BY DEF Init
  <2>5. QED
    BY <2>1, <2>2, <2>3, <2>4
<1>2. IInv /\ [Next]_vars => IInv'
  <2> SUFFICES ASSUME IInv, [Next]_vars PROVE IInv'
    OBVIOUS
  <2>1. CASE StartPipeline
    BY <2>1 DEF StartPipeline
  <2>2. CASE LaunchTier
    BY <2>2 DEF LaunchTier, Tier
  <2>3. CASE GatherReturns
    BY <2>3 DEF GatherReturns, Tier
  <2>4. CASE CloseTier
    BY <2>4 DEF CloseTier, Uncollected, Tier
  <2>5. CASE PipelineTimeout
    BY <2>5 DEF PipelineTimeout, InTimeout, Cancelled
  <2>6. CASE TimeoutReported
    BY <2>6 DEF TimeoutReported
  <2>7. CASE CommitRows
    BY <2>7 DEF CommitRows
  <2>8. CASE LoseChanges
    <3>1. broken' \in BOOLEAN
      BY <2>8, Zenon DEF LoseChanges
    <3>2. /\ session' = rows /\ rows' = rows
          /\ UNCHANGED <<phase, pc, tier, collected, outputs, result, lost, reports>>
      BY <2>8 DEF LoseChanges
    <3>3. QED
      BY <3>1, <3>2
  <2>9. ASSUME NEW a \in Agent, SetStatus(a) PROVE IInv'
    BY <2>9 DEF SetStatus, InFlight, Told
  <2>10. ASSUME NEW a \in Agent, Announced(a) PROVE IInv'
    BY <2>10 DEF Announced, CallbackEnds
  <2>11. ASSUME NEW a \in Agent, WorkReturns(a) \/ WorkRaises(a) \/ AgentTimeout(a) PROVE IInv'
    <3>1. CASE WorkReturns(a)
      BY <3>1 DEF WorkReturns, Report
    <3>2. CASE WorkRaises(a)
      BY <3>2 DEF WorkRaises
    <3>3. CASE AgentTimeout(a)
      BY <3>3 DEF AgentTimeout, Report
    <3>4. QED
      BY <2>11, <3>1, <3>2, <3>3
  <2>12. ASSUME NEW a \in Agent, ReportedCompleted(a) \/ ReportedTimeout(a) PROVE IInv'
    <3>1. CASE ReportedCompleted(a)
      BY <3>1 DEF ReportedCompleted, CallbackEnds, Told
    <3>2. CASE ReportedTimeout(a)
      BY <3>2 DEF ReportedTimeout, CallbackEnds, Told
    <3>3. QED
      BY <2>12, <3>1, <3>2
  <2>13. ASSUME NEW a \in Agent, TakeOutput(a) PROVE IInv'
    BY <2>13 DEF TakeOutput, AtResult, Uncollected, Tier
  <2>14. ASSUME NEW a \in Agent, RaisePipelineError(a) PROVE IInv'
    BY <2>14 DEF RaisePipelineError, AtResult
  <2>15. ASSUME NEW a \in Agent, ReportException(a) PROVE IInv'
    BY <2>15 DEF ReportException, AtResult, Report, Uncollected, Tier
  <2>16. ASSUME NEW a \in Agent, ReportedException(a) PROVE IInv'
    BY <2>16 DEF ReportedException, CallbackEnds, Told
  <2>17. CASE UNCHANGED vars
    BY <2>17 DEF vars
  <2>18. QED
    BY <2>1, <2>2, <2>3, <2>4, <2>5, <2>6, <2>7, <2>8, <2>9, <2>10, <2>11, <2>12, <2>13, <2>14,
       <2>15, <2>16, <2>17 DEF Next, AgentStep, Collect, Database
<1>3. QED
  BY <1>1, <1>2, PTL DEF Spec

(* The executor's variables keep their types. *)
THEOREM TypeCorrect == Spec => []TypeOK
<1>1. IInv => TypeOK
  BY DEF IInv
<1>2. QED
  BY <1>1, Inductive, PTL

(* When the call is over, however it ended, none of its coroutines is      *)
(* left.                                                                   *)
THEOREM NothingOutlives == Spec => []NothingOutlivesTheCall
<1>1. IInv => NothingOutlivesTheCall
  BY DEF IInv, ActiveOnlyInTier, ReportingInLoop, NothingOutlivesTheCall, Ended, Active, InFlight
<1>2. QED
  BY <1>1, Inductive, PTL

(* No agent runs while the output of another agent of its tier is visible. *)
THEOREM SiblingsIsolated == Spec => []SiblingsAreIsolated
<1>1. IInv => SiblingsAreIsolated
  BY DEF IInv, ActiveOnlyInTier, CurrentTier, OutputsAreCollected, SiblingsAreIsolated
<1>2. QED
  BY <1>1, Inductive, PTL

(* No agent's end is reported twice.                                       *)
THEOREM ReportedOnce == Spec => []OneReportPerAgent
<1>1. IInv => OneReportPerAgent
  BY DEF IInv, ReportCounts, OneReportPerAgent
<1>2. QED
  BY <1>1, Inductive, PTL

(* What a row says of its agent's work is true, wherever the session's     *)
(* changes are committed, lost or cut off by the pipeline timeout.         *)
THEOREM RowsTrue == Spec => []RowsAreTrue
<1>1. IInv => RowsAreTrue
  BY DEF IInv
<1>2. QED
  BY <1>1, Inductive, PTL

(* A call that completes has reported how every agent ended.               *)
THEOREM CompletedReported == Spec => []CompletedCallIsReported
<1>1. IInv => CompletedCallIsReported
  <2> SUFFICES ASSUME IInv, phase = "completed", NEW a \in Agent
               PROVE  /\ reports[a] = 1
                      /\ a \notin lost =>
                           rows[a] = IF result[a] = "returned" THEN "completed" ELSE "failed"
    BY DEF CompletedCallIsReported
  <2>1. TierOf[a] < tier
    BY TiersAssumption DEF IsSchedule, IInv, TierIndex
  <2>2. a \in collected /\ pc[a] \in {"returned", "empty", "raised"}
    BY <2>1 DEF IInv, ClosedTiers, CollectedAgents
  <2>3. QED
    BY <2>2 DEF IInv, EndsAreReported
<1>2. QED
  BY <1>1, Inductive, PTL

-----------------------------------------------------------------------------

(* When a tier is launched, whatever its agents depend on is in a closed   *)
(* tier: collected, and with an output if it is critical.                  *)
LEMMA LaunchedCanStart ==
  ASSUME IInv, LaunchTier, NEW a \in Tier(tier), NEW d \in DependsOn[a]
  PROVE  d \in collected /\ (d \in Critical => d \in outputs)
<1>1. a \in Agent /\ d \in Agent /\ TierOf[d] < tier
  BY TiersAssumption DEF IsSchedule, Tier
<1>2. d \in collected
  BY <1>1 DEF IInv, ClosedTiers
<1>3. QED
  BY <1>2 DEF IInv, CollectedAgents

(* Every step of the executor is a step of the schedule or changes nothing *)
(* that the schedule sees.                                                 *)
LEMMA StepSimulation == IInv /\ [Next]_vars => [Schedule!Next]_(Schedule!vars)
<1> SUFFICES ASSUME IInv, [Next]_vars PROVE [Schedule!Next]_(Schedule!vars)
  OBVIOUS
<1> USE DEF Schedule!vars, Ended
<1>1. CASE StartPipeline
  <2>1. pc' = pc /\ collected' = collected /\ outputs' = outputs /\ phase = "starting"
    BY <1>1 DEF StartPipeline, scheduleVars
  <2>2. CASE NumTiers = 0
    <3>1. Agent = {} /\ collected = {}
      BY <2>2, TiersAssumption DEF IsSchedule, IInv, TypeOK
    <3>2. phase' = "completed"
      BY <1>1, <2>2 DEF StartPipeline
    <3>3. Schedule!Complete
      BY <2>1, <3>1, <3>2 DEF Schedule!Complete
    <3>4. QED
      BY <3>3 DEF Schedule!Next
  <2>3. CASE NumTiers # 0
    BY <1>1, <2>1, <2>3 DEF StartPipeline
  <2>4. QED
    BY <2>2, <2>3
<1>2. CASE LaunchTier
  <2>1. PICK S \in SUBSET Agent : S = Tier(tier)
    BY DEF Tier
  <2>2. S \cap {a \in Agent : pc[a] # "waiting"} = {}
    BY <1>2, <2>1 DEF IInv, CurrentTier, LaunchTier, Tier
  <2>3. \A a \in S : Schedule!CanStart(a)
    BY <1>2, <2>1, LaunchedCanStart DEF Schedule!CanStart
  <2>4. {a \in Agent : pc'[a] # "waiting"} = {a \in Agent : pc[a] # "waiting"} \cup S
    BY <1>2, <2>1 DEF LaunchTier, Tier, IInv, TypeOK
  <2>5. Schedule!StartAgents(S)
    BY <1>2, <2>2, <2>3, <2>4 DEF Schedule!StartAgents, LaunchTier, scheduleVars
  <2>6. QED
    BY <2>5 DEF Schedule!Next
<1>3. CASE GatherReturns
  <2>1. pc' = pc /\ collected' = collected /\ outputs' = outputs
    BY <1>3 DEF GatherReturns, scheduleVars
  <2>2. phase = "tier" /\ phase' = "collecting"
    BY <1>3 DEF GatherReturns
  <2>3. QED
    BY <2>1, <2>2
<1>4. CASE CloseTier
  <2>1. CASE tier + 1 = NumTiers
    <3>1. collected = Agent
      <4>1. collected \subseteq Agent /\ tier \in Nat
        BY <1>4 DEF IInv, TypeOK
      <4>2. ASSUME NEW a \in Agent PROVE a \in collected
        <5>1. TierOf[a] = tier \/ TierOf[a] < tier
          BY <2>1, <4>1, TiersAssumption DEF IsSchedule
        <5>2. CASE TierOf[a] = tier
          BY <1>4, <5>2 DEF CloseTier, Uncollected, Tier
        <5>3. CASE TierOf[a] < tier
          BY <5>3 DEF IInv, ClosedTiers
        <5>4. QED
          BY <5>1, <5>2, <5>3
      <4>3. QED
        BY <4>1, <4>2
    <3>2. Schedule!Complete
      BY <1>4, <2>1, <3>1 DEF CloseTier, Schedule!Complete
    <3>3. QED
      BY <3>2 DEF Schedule!Next
  <2>2. CASE tier + 1 # NumTiers
    BY <1>4, <2>2 DEF CloseTier
  <2>3. QED
    BY <2>1, <2>2
<1>5. CASE PipelineTimeout
  <2>1. {a \in Agent : pc'[a] # "waiting"} = {a \in Agent : pc[a] # "waiting"}
    BY <1>5 DEF PipelineTimeout, Cancelled, Active, IInv, TypeOK
  <2>2. /\ phase \in {"launching", "tier", "collecting"} /\ phase' = "timing_out"
        /\ collected' = collected /\ outputs' = outputs
    BY <1>5 DEF PipelineTimeout, InTimeout, scheduleVars
  <2>3. QED
    BY <2>1, <2>2
<1>6. CASE TimeoutReported
  <2>1. Schedule!Fail
    BY <1>6 DEF TimeoutReported, Schedule!Fail, scheduleVars
  <2>2. QED
    BY <2>1 DEF Schedule!Next
<1>7. CASE Database
  <2>1. phase' = phase /\ pc' = pc /\ collected' = collected /\ outputs' = outputs
    BY <1>7 DEF Database, CommitRows, LoseChanges, SetStatus, scheduleVars
  <2>2. QED
    BY <2>1
<1>8. ASSUME NEW a \in Agent, AgentStep(a) \/ ReportException(a)
      PROVE  [Schedule!Next]_(Schedule!vars)
  <2>1. /\ phase' = phase /\ collected' = collected /\ outputs' = outputs
        /\ \A b \in Agent : pc'[b] # "waiting" <=> pc[b] # "waiting"
    BY <1>8 DEF AgentStep, Announced, WorkReturns, WorkRaises, AgentTimeout, ReportException,
                ReportedCompleted, ReportedTimeout, IInv, TypeOK, scheduleVars
  <2>2. {b \in Agent : pc'[b] # "waiting"} = {b \in Agent : pc[b] # "waiting"}
    BY <2>1
  <2>3. QED
    BY <2>1, <2>2
<1>9. ASSUME NEW a \in Agent, TakeOutput(a) PROVE [Schedule!Next]_(Schedule!vars)
  <2>1. Schedule!Settle(a, TRUE)
    BY <1>9 DEF TakeOutput, AtResult, Uncollected, Schedule!Settle
  <2>2. QED
    BY <2>1 DEF Schedule!Next
<1>10. ASSUME NEW a \in Agent, RaisePipelineError(a) PROVE [Schedule!Next]_(Schedule!vars)
  <2>1. Schedule!Fail
    BY <1>10 DEF RaisePipelineError, AtResult, Schedule!Fail, scheduleVars
  <2>2. QED
    BY <2>1 DEF Schedule!Next
<1>11. ASSUME NEW a \in Agent, ReportedException(a) PROVE [Schedule!Next]_(Schedule!vars)
  <2>1. /\ phase = "collecting" /\ a \notin collected /\ outputs' = outputs
        /\ {b \in Agent : pc'[b] # "waiting"} = {b \in Agent : pc[b] # "waiting"}
        /\ pc[a] # "waiting"
    BY <1>11 DEF ReportedException, IInv, TypeOK, ReportingInLoop
  <2>2. CASE a \in Critical
    <3>1. Schedule!Fail
      BY <1>11, <2>1, <2>2 DEF ReportedException, Schedule!Fail
    <3>2. QED
      BY <3>1 DEF Schedule!Next
  <2>3. CASE a \notin Critical
    <3>1. Schedule!Settle(a, FALSE)
      BY <1>11, <2>1, <2>3 DEF ReportedException, Schedule!Settle
    <3>2. QED
      BY <3>1 DEF Schedule!Next
  <2>4. QED
    BY <2>2, <2>3
<1>12. CASE UNCHANGED vars
  BY <1>12 DEF vars, scheduleVars
<1>13. QED
  BY <1>1, <1>2, <1>3, <1>4, <1>5, <1>6, <1>7, <1>8, <1>9, <1>10, <1>11, <1>12 DEF Next, Collect

(* The executor implements the dependency schedule.                        *)
THEOREM Refinement == Spec => ImplementsSchedule
<1>1. Init => Schedule!Init
  BY DEF Init, Schedule!Init, Ended
<1>2. QED
  BY <1>1, StepSimulation, Inductive, PTL DEF Spec, ImplementsSchedule, Schedule!Spec

-----------------------------------------------------------------------------

(* A row only moves forward: a commit writes what the session has, which   *)
(* by SessionAhead is the row's own status or a later one.                 *)
THEOREM RowsOnlyAdvance == Spec => RowsMoveForward
<1> DEFINE Forward(a) == rows'[a] # rows[a] =>
                           \/ rows[a] = "queued"
                           \/ rows[a] = "running" /\ rows'[a] \in {"completed", "failed"}
<1>1. IInv /\ [Next]_vars => [\A a \in Agent : Forward(a)]_vars
  <2> SUFFICES ASSUME IInv, [Next]_vars, rows' # rows, NEW a \in Agent
               PROVE  Forward(a)
    OBVIOUS
  <2>1. CommitRows
    BY DEF Next, vars, rowVars, StartPipeline, LaunchTier, GatherReturns, CloseTier,
           PipelineTimeout, TimeoutReported, Database, LoseChanges, SetStatus, AgentStep,
           Announced, WorkReturns, WorkRaises, AgentTimeout, ReportedCompleted, ReportedTimeout,
           Collect, TakeOutput, RaisePipelineError, ReportException, ReportedException
  <2>2. rows' = session
    BY <2>1 DEF CommitRows
  <2> QED
    BY <2>2 DEF IInv, SessionAhead
<1> QED
  BY <1>1, Inductive, PTL DEF Spec, RowsMoveForward

=============================================================================
