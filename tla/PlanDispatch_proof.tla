------------------------- MODULE PlanDispatch_proof -------------------------
(***************************************************************************)
(* Which agents run: the search of resolve_gated_dependencies on any graph,*)
(* its place in the agent gate, and the safety invariants of PlanDispatch. *)
(***************************************************************************)
EXTENDS PlanDispatch, GatedClosure, Lists_proof, FiniteSetTheorems

-----------------------------------------------------------------------------
(* The closure that the gate asks for. *)

LEMMA AgentNames ==
  Agent = {"question-framing", "data-explorer", "hypothesis", "source-tieout",
           "descriptive-analytics", "overtime-trend", "root-cause-investigator",
           "validation", "chart-maker", "storytelling"}
<1>1. /\ Len(Registry) = 10
      /\ Registry[1] = "question-framing" /\ Registry[2] = "data-explorer"
      /\ Registry[3] = "hypothesis" /\ Registry[4] = "source-tieout"
      /\ Registry[5] = "descriptive-analytics" /\ Registry[6] = "overtime-trend"
      /\ Registry[7] = "root-cause-investigator" /\ Registry[8] = "validation"
      /\ Registry[9] = "chart-maker" /\ Registry[10] = "storytelling"
  BY DEF Registry
<1>2. \A i \in 1 .. 10 : i \in {1, 2, 3, 4, 5, 6, 7, 8, 9, 10}
  OBVIOUS
<1> QED
  BY <1>1, <1>2 DEF Agent

(* The registry, as a function. *)
LEMMA Dependencies ==
  /\ RegistryDependsOn \in [Agent -> SUBSET Agent]
  /\ RegistryDependsOn["question-framing"] = {}
  /\ RegistryDependsOn["data-explorer"] = {}
  /\ RegistryDependsOn["hypothesis"] = {"question-framing"}
  /\ RegistryDependsOn["source-tieout"] = {"data-explorer"}
  /\ RegistryDependsOn["descriptive-analytics"] = {"source-tieout"}
  /\ RegistryDependsOn["overtime-trend"] = {"source-tieout"}
  /\ RegistryDependsOn["root-cause-investigator"] = {"descriptive-analytics"}
  /\ RegistryDependsOn["validation"] = {"root-cause-investigator"}
  /\ RegistryDependsOn["chart-maker"] = {"validation"}
  /\ RegistryDependsOn["storytelling"] = {"chart-maker"}
<1>1. \A a \in Agent : RegistryDependsOn[a] \in SUBSET Agent
  BY AgentNames DEF RegistryDependsOn
<1>2. RegistryDependsOn = [a \in Agent |-> RegistryDependsOn[a]]
  BY DEF RegistryDependsOn
<1>3. RegistryDependsOn \in [Agent -> SUBSET Agent]
  BY <1>1, <1>2
<1> QED
  BY <1>3, AgentNames DEF RegistryDependsOn

LEMMA AgentsAreFinite ==
  /\ IsFiniteSet(Agent)
  /\ \A S \in SUBSET Agent : IsFiniteSet(S) /\ Cardinality(S) \in Nat
<1>1. IsFiniteSet(Agent)
  <2> DEFINE f == [i \in 1 .. Len(Registry) |-> Registry[i]]
  <2>1. Len(Registry) \in Nat
    BY DEF Registry
  <2>2. IsFiniteSet(1 .. Len(Registry))
    BY <2>1, FS_Interval
  <2>3. f \in Surjection(1 .. Len(Registry), Agent)
    BY DEF Surjection, Agent
  <2> QED
    BY <2>2, <2>3, FS_Surjection
<1> QED
  BY <1>1, FS_Subset, FS_CardinalityType

(* S is closed under the dependencies that are on offer. *)
Closed(S, offer) ==
  \A a \in S \cap offer : RegistryDependsOn[a] \cap offer \subseteq S

GrowPasses(grow, selected, offer) ==
  /\ grow \in [0 .. Cardinality(offer) -> SUBSET Agent]
  /\ grow[0] = selected
  /\ \A n \in 1 .. Cardinality(offer) : grow[n] = WithDependencies(grow[n-1], offer)

(* ResolveGatedDependencies has such passes, and their last result. *)
LEMMA GrowLoop ==
  ASSUME NEW selected \in SUBSET Agent, NEW offer \in SUBSET Agent
  PROVE  \E grow : /\ GrowPasses(grow, selected, offer)
                   /\ ResolveGatedDependencies(selected, offer) = grow[Cardinality(offer)]
<1> DEFINE N == Cardinality(offer)
           V == SUBSET Agent
           Pass(q) == WithDependencies(q, offer)
           step == [n \in 1 .. N |-> [q \in V |-> Pass(q)]]
           Is(f) == f = [n \in 0 .. N |-> IF n = 0 THEN selected
                                          ELSE WithDependencies(f[n-1], offer)]
           grow == CHOOSE f : Is(f)
<1>0. \A q \in V : Pass(q) \in V
  BY Dependencies DEF WithDependencies
<1>1. step \in [1 .. N -> [V -> V]]
  <2> HIDE DEF Pass, V
  <2> QED
    BY <1>0
<1>2. N \in Nat /\ 0 \in 0 .. N /\ selected \in V
  BY AgentsAreFinite
<1> HIDE DEF step, Pass, Is, V, N
<1>3. PICK f : Recursive(f, V, selected, N, step)
  BY <1>1, <1>2, Recursion
<1>4. \A n \in 1 .. N : f[n] = Pass(f[n-1])
  <2>1. \A n \in 1 .. N, q \in V : step[n][q] = Pass(q)
    BY DEF step
  <2>2. \A n \in 1 .. N : f[n-1] \in V
    BY <1>2, <1>3 DEF Recursive
  <2> QED
    BY <1>3, <2>1, <2>2 DEF Recursive
<1>5. Is(f)
  <2>1. \A n \in 0 .. N : f[n] = IF n = 0 THEN selected ELSE Pass(f[n-1])
    BY <1>2, <1>3, <1>4 DEF Recursive
  <2>2. f = [n \in 0 .. N |-> f[n]]
    BY <1>3 DEF Recursive
  <2>3. f = [n \in 0 .. N |-> IF n = 0 THEN selected ELSE Pass(f[n-1])]
    BY <2>1, <2>2
  <2> QED
    BY <2>3 DEF Is, Pass
<1>6. Is(grow)
  BY <1>5
<1> HIDE DEF grow
<1>7. \A n \in 0 .. N :
        grow[n] = IF n = 0 THEN selected ELSE WithDependencies(grow[n-1], offer)
  BY <1>6 DEF Is
<1>8. grow[0] = selected /\ \A n \in 1 .. N : grow[n] = Pass(grow[n-1])
  BY <1>2, <1>7 DEF Pass
<1>9. grow \in [0 .. N -> V]
  <2> DEFINE T == {n \in 0 .. N : grow[n] \in V}
  <2>1. 0 \in T
    BY <1>2, <1>8
  <2>2. \A n \in 1 .. N : n - 1 \in T => n \in T
    BY <1>0, <1>2, <1>8
  <2> HIDE DEF T
  <2>3. 0 .. N \subseteq T
    BY <1>2, <2>1, <2>2, Induction
  <2>4. \A n \in 0 .. N : grow[n] \in V
    BY <2>3 DEF T
  <2>5. grow = [n \in 0 .. N |-> grow[n]]
    BY <1>6 DEF Is
  <2> QED
    BY <2>4, <2>5
<1>10. ResolveGatedDependencies(selected, offer) = grow[N]
  BY DEF ResolveGatedDependencies, grow, Is, N
<1>11. GrowPasses(grow, selected, offer)
  BY <1>8, <1>9 DEF GrowPasses, Pass, N, V
<1> QED
  BY <1>10, <1>11 DEF N

(* A pass reaches what is one edge away, and nothing when there is nothing. *)
LEMMA PassReaches ==
  ASSUME NEW S \in SUBSET Agent, NEW offer \in SUBSET Agent
  PROVE  LET r == WithDependencies(S, offer)
         IN /\ S \subseteq r /\ r \subseteq S \cup offer
            /\ \A a \in S \cap offer : RegistryDependsOn[a] \cap offer \subseteq r
            /\ Closed(S, offer) => r = S
            /\ \A C \in SUBSET Agent : S \subseteq C /\ Closed(C, offer) => r \subseteq C
            /\ ~ Closed(S, offer) => \E b \in offer : b \in r /\ b \notin S
BY Dependencies DEF WithDependencies, Closed

(* A pass that reaches something new makes what is available of it larger. *)
LEMMA PassGrows ==
  ASSUME NEW S \in SUBSET Agent, NEW offer \in SUBSET Agent, NEW n \in Nat,
         Closed(S, offer) \/ Cardinality(S \cap offer) >= n
  PROVE  LET r == WithDependencies(S, offer)
         IN  Closed(r, offer) \/ Cardinality(r \cap offer) >= n + 1
<1> DEFINE r == WithDependencies(S, offer)
<1>1. CASE Closed(S, offer)
  <2>1. r = S
    BY <1>1, PassReaches
  <2> QED
    BY <1>1, <2>1
<1>2. CASE ~ Closed(S, offer)
  <2>1. PICK b \in offer : b \in r /\ b \notin S
    BY <1>2, PassReaches
  <2>2. S \subseteq r /\ r \in SUBSET Agent
    BY PassReaches
  <2>3. IsFiniteSet(S \cap offer) /\ IsFiniteSet(r \cap offer)
    BY <2>2, AgentsAreFinite
  <2>4. Cardinality((S \cap offer) \cup {b}) = Cardinality(S \cap offer) + 1
    BY <2>1, <2>3, FS_AddElement
  <2>5. (S \cap offer) \cup {b} \subseteq r \cap offer
    BY <2>1, <2>2
  <2>6. Cardinality((S \cap offer) \cup {b}) <= Cardinality(r \cap offer)
    BY <2>3, <2>5, FS_Subset
  <2>7. Cardinality(S \cap offer) \in Nat /\ Cardinality(r \cap offer) \in Nat
    BY <2>3, FS_CardinalityType
  <2>8. Cardinality(S \cap offer) >= n
    BY <1>2
  <2>9. Cardinality(r \cap offer) >= n + 1
    BY <2>4, <2>6, <2>7, <2>8
  <2> QED
    BY <2>9
<1> QED
  BY <1>1, <1>2

(* The closure that the gate dispatches: closed, and the least such set    *)
(* that has the selection.                                                 *)
THEOREM GateClosure ==
  ASSUME NEW selected \in SUBSET Agent, NEW offer \in SUBSET Agent
  PROVE  LET r == ResolveGatedDependencies(selected, offer)
         IN /\ selected \subseteq r /\ r \subseteq selected \cup offer
            /\ Closed(r, offer)
            /\ \A C \in SUBSET Agent :
                 selected \subseteq C /\ Closed(C, offer) => r \subseteq C
<1> DEFINE N == Cardinality(offer)
<1>1. PICK grow : /\ GrowPasses(grow, selected, offer)
                  /\ ResolveGatedDependencies(selected, offer) = grow[N]
  BY GrowLoop
<1>2. N \in Nat /\ IsFiniteSet(offer)
  BY AgentsAreFinite
<1>3. /\ \A n \in 0 .. N : grow[n] \in SUBSET Agent
      /\ grow[0] = selected
      /\ \A n \in 1 .. N : grow[n] = WithDependencies(grow[n-1], offer)
  BY <1>1 DEF GrowPasses
<1> DEFINE Large(n) == Closed(grow[n], offer) \/ Cardinality(grow[n] \cap offer) >= n
           Least0(n) == \A C \in SUBSET Agent :
                          selected \subseteq C /\ Closed(C, offer) => grow[n] \subseteq C
           Good(n) == /\ selected \subseteq grow[n] /\ grow[n] \subseteq selected \cup offer
                      /\ Large(n) /\ Least0(n)
           T == {n \in 0 .. N : Good(n)}
<1>4. 0 \in T
  <2>1. selected \cap offer \in SUBSET Agent
    OBVIOUS
  <2>2. Cardinality(selected \cap offer) >= 0
    BY <2>1, AgentsAreFinite
  <2> QED
    BY <1>2, <1>3, <2>2
<1>5. ASSUME NEW n \in 1 .. N, n - 1 \in T PROVE n \in T
  <2>1. /\ n - 1 \in 0 .. N /\ n - 1 \in Nat /\ Good(n - 1) /\ n \in 0 .. N
        /\ (n - 1) + 1 = n
    BY <1>2, <1>5
  <2>2. grow[n-1] \in SUBSET Agent /\ grow[n] = WithDependencies(grow[n-1], offer)
    BY <1>3, <2>1
  <2>3. Large(n)
    <3>1. Closed(grow[n], offer) \/ Cardinality(grow[n] \cap offer) >= (n - 1) + 1
      BY <2>1, <2>2, PassGrows
    <3> QED
      BY <2>1, <3>1
  <2>4. selected \subseteq grow[n] /\ grow[n] \subseteq selected \cup offer /\ Least0(n)
    BY <2>1, <2>2, PassReaches
  <2> QED
    BY <2>1, <2>3, <2>4
<1>6. Good(N)
  <2>1. \A n \in 1 .. N : n - 1 \in T => n \in T
    BY <1>5
  <2> HIDE DEF T
  <2>2. 0 .. N \subseteq T
    BY <1>2, <1>4, <2>1, Induction
  <2>3. N \in T
    BY <1>2, <2>2
  <2> QED
    BY <2>3 DEF T
<1>7. Closed(grow[N], offer)
  <2> SUFFICES ASSUME Cardinality(grow[N] \cap offer) >= N
               PROVE  Closed(grow[N], offer)
    BY <1>6
  <2>1. grow[N] \cap offer = offer
    <3>1. Cardinality(grow[N] \cap offer) <= N
      BY <1>2, FS_Subset
    <3>2. Cardinality(grow[N] \cap offer) \in Nat
      BY <1>2, FS_Subset, FS_CardinalityType
    <3>3. Cardinality(grow[N] \cap offer) = N
      BY <1>2, <3>1, <3>2
    <3> QED
      BY <1>2, <3>3, FS_Subset
  <2> QED
    BY <2>1 DEF Closed
<1> HIDE DEF N
<1> QED
  BY <1>1, <1>6, <1>7

-----------------------------------------------------------------------------
(* The search that computes it, for any names and dependencies. *)

(* A visited agent that has left the queue has had its dependencies        *)
(* included and visited; everything included was selected or is forced.    *)
SearchInv ==
  /\ SearchTypeOK
  /\ dispatched \subseteq result
  /\ result \cap available = visited
  /\ \A a \in visited \ queue : edges[a] \cap available \subseteq visited
  /\ NothingElseIncluded

(* SearchInv is an invariant of the search. *)
LEMMA SearchInductive == SearchSpec => []SearchInv
<1>1. SearchInit => SearchInv
  BY DEF SearchInit, Start, SearchInv, SearchTypeOK, NothingElseIncluded,
         ClosedSuperset
<1>2. SearchInv /\ [SearchNext]_searchVars => SearchInv'
  <2> SUFFICES ASSUME SearchInv, [SearchNext]_searchVars PROVE SearchInv'
    OBVIOUS
  <2>1. ASSUME NEW current \in Name, Visit(current) PROVE SearchInv'
    <3> DEFINE deps == edges[current] \cap available
    <3>1. /\ current \in queue /\ current \in visited /\ current \in result \cap available
          /\ result' = result \cup deps
          /\ queue' = (queue \ {current}) \cup (deps \ visited)
          /\ visited' = visited \cup deps
          /\ available' = available /\ edges' = edges /\ dispatched' = dispatched
      BY <2>1 DEF Visit, Follow, input, SearchInv, SearchTypeOK
    <3>2. deps \subseteq Name /\ deps \subseteq available
      BY DEF SearchInv, SearchTypeOK
    <3>3. SearchTypeOK' /\ (dispatched \subseteq result)' /\ (result \cap available = visited)'
      BY <3>1, <3>2 DEF SearchInv, SearchTypeOK
    <3>4. (\A a \in visited \ queue : edges[a] \cap available \subseteq visited)'
      BY <3>1 DEF SearchInv
    <3>5. NothingElseIncluded'
      <4> SUFFICES ASSUME NEW S \in SUBSET Name, ClosedSuperset(S)
                   PROVE  result' \subseteq S
        BY <3>1 DEF NothingElseIncluded, ClosedSuperset
      <4>1. result \subseteq S
        BY DEF SearchInv, NothingElseIncluded
      <4>2. deps \subseteq S
        BY <3>1, <4>1 DEF ClosedSuperset
      <4>3. QED
        BY <3>1, <4>1, <4>2
    <3>6. QED
      BY <3>3, <3>4, <3>5 DEF SearchInv
  <2>2. CASE UNCHANGED searchVars
    BY <2>2 DEF searchVars, input, SearchInv, SearchTypeOK, NothingElseIncluded,
                ClosedSuperset
  <2>3. QED
    BY <2>1, <2>2 DEF SearchNext
<1>3. QED
  BY <1>1, <1>2, PTL DEF SearchSpec

(* The set returned holds every dependency the plan offers. *)
THEOREM ResultClosed == SearchSpec => []ResultIsClosed
<1>1. SearchInv => ResultIsClosed
  BY DEF SearchInv, SearchTypeOK, ResultIsClosed, Returned, ClosedSuperset
<1>2. QED
  BY <1>1, SearchInductive, PTL

(* No agent is re-included that the dependencies do not force. *)
THEOREM ResultMinimal == SearchSpec => []NothingElseIncluded
<1>1. SearchInv => NothingElseIncluded
  BY DEF SearchInv
<1>2. QED
  BY <1>1, SearchInductive, PTL

(* What the search returns on the graph of the registry is what the gate   *)
(* of AgentGate computes.                                                  *)
SearchAnswersGate ==
  Returned /\ edges = RegistryDependsOn
    => result = ResolveGatedDependencies(dispatched, available)

THEOREM SearchIsTheGate == Name = Agent => (SearchSpec => []SearchAnswersGate)
<1> SUFFICES ASSUME Name = Agent PROVE SearchSpec => []SearchAnswersGate
  OBVIOUS
<1>1. SearchInv => SearchAnswersGate
  <2> SUFFICES ASSUME SearchInv, Returned, edges = RegistryDependsOn
               PROVE  result = ResolveGatedDependencies(dispatched, available)
    BY DEF SearchAnswersGate
  <2> DEFINE r == ResolveGatedDependencies(dispatched, available)
  <2>1. dispatched \in SUBSET Agent /\ available \in SUBSET Agent /\ result \in SUBSET Agent
    BY DEF SearchInv, SearchTypeOK
  <2>2. /\ dispatched \subseteq r /\ r \subseteq dispatched \cup available
        /\ Closed(r, available)
        /\ \A C \in SUBSET Agent : dispatched \subseteq C /\ Closed(C, available) => r \subseteq C
    BY <2>1, GateClosure
  <2> HIDE DEF r
  <2>3. result \subseteq r
    <3>1. r \in SUBSET Name /\ ClosedSuperset(r)
      BY <2>1, <2>2 DEF ClosedSuperset, Closed
    <3> QED
      BY <3>1 DEF SearchInv, NothingElseIncluded
  <2>4. r \subseteq result
    <3>1. dispatched \subseteq result /\ Closed(result, available)
      BY DEF SearchInv, Returned, Closed, SearchTypeOK
    <3> QED
      BY <2>1, <2>2, <3>1
  <2> QED
    BY <2>3, <2>4 DEF r
<1> QED
  BY <1>1, SearchInductive, PTL

-----------------------------------------------------------------------------
(* The gate's decision. *)

LEMMA IntentIsKnown == \A f : ClassifyIntent(f) \in Intents
<1> SUFFICES ASSUME NEW f PROVE ClassifyIntent(f) \in Intents
  OBVIOUS
<1> DEFINE ranks == {k \in 1 .. Len(IntentPriority) : IntentPriority[k] \in MatchedIntents(f)}
           k0 == CHOOSE k \in ranks : \A j \in ranks : j <= k
<1>1. Len(IntentPriority) \in Nat
  BY DEF IntentPriority
<1>2. CASE ranks = {}
  BY <1>2 DEF ClassifyIntent, Intents
<1>3. CASE ranks # {}
  <2>1. \E k \in ranks : \A j \in ranks : j <= k
    <3>1. ranks \in SUBSET (1 .. Len(IntentPriority))
      OBVIOUS
    <3> HIDE DEF ranks
    <3> QED
      BY <1>1, <1>3, <3>1, Greatest
  <2>2. k0 \in ranks
    BY <2>1
  <2>3. IntentPriority[k0] \in MatchedIntents(f)
    BY <2>2
  <2>4. ClassifyIntent(f) = IntentPriority[k0]
    BY <1>3 DEF ClassifyIntent
  <2> HIDE DEF k0
  <2> QED
    BY <2>3, <2>4 DEF MatchedIntents
<1> QED
  BY <1>2, <1>3

LEMMA ComplexityIsKnown == \A f : GateComplexity(f) \in Complexities
BY DEF GateComplexity, ClassifyComplexity, Complexities

LEMMA RelevantAreAgents ==
  ASSUME NEW readable, NEW intent \in Intents, NEW complexity \in Complexities
  PROVE  RelevanceMap(readable, intent, complexity) \in SUBSET Agent
<1>1. Rule(intent, complexity) \subseteq Agent
  <2>1. CASE complexity = "high"
    BY <2>1 DEF Rule
  <2>2. CASE complexity = "low"
    BY <2>2, AgentNames DEF Rule, Intents
  <2>3. CASE complexity = "medium"
    BY <2>3, AgentNames DEF Rule, Intents
  <2> QED
    BY <2>1, <2>2, <2>3 DEF Complexities
<1> QED
  BY <1>1, AgentNames DEF RelevanceMap, MandatoryAgents

(* Capping drops agents and adds none. *)
LEMMA CapDrops ==
  ASSUME NEW D \in SUBSET Agent, NEW offer \in SUBSET Agent
  PROVE  CapAgents(D, offer) \subseteq D
<1> DEFINE priority == {"question-framing", "data-explorer", "storytelling"} \cap D
           S == (D \cap offer) \ priority
           others == Those(Registry, S)
<1>1. Registry \in Seq(Agent)
  <2>1. Registry = [i \in 1 .. Len(Registry) |-> Registry[i]] /\ Len(Registry) \in Nat
    BY DEF Registry
  <2>2. \A i \in 1 .. Len(Registry) : Registry[i] \in Agent
    BY DEF Agent
  <2> QED
    BY <2>1, <2>2
<1>2. \A i \in 1 .. Len(others) : others[i] \in S
  BY <1>1, ThoseProperties
<1>3. CapAgents(D, offer)
        = priority \cup {others[i] : i \in {j \in 1 .. Len(others) : j <= 5 - Cardinality(priority)}}
  BY DEF CapAgents
<1> HIDE DEF others
<1> QED
  BY <1>2, <1>3

(* What is dispatched is on offer; only the cap leaves a dependency out;   *)
(* and a question of high complexity dispatches everything.                *)
LEMMA DecisionIsSound ==
  ASSUME NEW f, NEW offer \in SUBSET Agent, NEW p, NEW readable
  PROVE  LET d == Evaluate(f, offer, p, readable)
         IN /\ d.complexity \in Complexities
            /\ d.dispatched \subseteq offer
            /\ d.complexity = "high" => d.dispatched = offer
            /\ ~ (p = "deep_dive" /\ d.complexity = "low") => Closed(d.dispatched, offer)
<1> DEFINE d == Evaluate(f, offer, p, readable)
           complexity == GateComplexity(f)
           relevant == IF complexity = "high" THEN offer
                       ELSE RelevanceMap(readable, ClassifyIntent(f), complexity)
                              \cup ({"question-framing"} \cap offer)
           closure == ResolveGatedDependencies(relevant, offer)
           resolved == closure \cap offer
           capped == p = "deep_dive" /\ complexity = "low" /\ Cardinality(resolved) > 5
<1>1. CASE ~ f.wellFormed
  <2>1. d = [complexity |-> "high", dispatched |-> offer]
    BY <1>1 DEF Evaluate, FallBack
  <2> QED
    BY <2>1 DEF Complexities, Closed
<1>2. CASE f.wellFormed
  <2>1. d = [complexity |-> complexity,
             dispatched |-> IF capped THEN CapAgents(resolved, offer) ELSE resolved]
    BY <1>2 DEF Evaluate
  <2>2. complexity \in Complexities
    BY ComplexityIsKnown
  <2>3. relevant \in SUBSET Agent
    BY <2>2, IntentIsKnown, RelevantAreAgents
  <2>4. relevant \subseteq closure /\ Closed(closure, offer)
    BY <2>3, GateClosure
  <2>5. Closed(resolved, offer)
    BY <2>4 DEF Closed
  <2>6. CapAgents(resolved, offer) \subseteq resolved
    <3>1. resolved \in SUBSET Agent
      OBVIOUS
    <3> HIDE DEF resolved
    <3> QED
      BY <3>1, CapDrops
  <2>7. complexity = "high" => resolved = offer
    BY <2>4
  <2> HIDE DEF d, complexity, resolved
  <2> QED
    BY <2>1, <2>2, <2>5, <2>6, <2>7 DEF d, resolved
<1> QED
  BY <1>1, <1>2

-----------------------------------------------------------------------------
(* The inductive invariant of a run. *)

Framer == {"question-framing"}

(* depends_on of the nodes of a run that has been framed. *)
Needs(p, a) ==
  (IF p = "quick_overview" THEN RegistryDependsOn[a] \cap PlanAgents(p) ELSE RegistryDependsOn[a])
    \ Framer

(* Nothing has been decided or run. *)
Untouched == decision = NoDecision /\ gatedOut = {} /\ running = {}

Before ==
  /\ phase \in {"requested", "loading"} => Untouched /\ executed = {} /\ dependsOn = RegistryDependsOn
  /\ phase \in {"framing", "gate"} =>
       /\ Untouched
       /\ remaining = agents \ Framer
       /\ executed = IF phase = "gate" THEN agents \cap Framer ELSE {}
  /\ phase = "framing" => Framer \subseteq agents

(* The agents of the plan and what they need. *)
Loaded ==
  /\ phase \notin {"requested", "loading"} => agents = PlanAgents(plan)
  /\ phase \notin {"requested", "loading"} =>
       \A a \in Agent : dependsOn[a] \ Framer = Needs(plan, a)
  /\ phase \in {"gate", "resolving", "running", "finished"} =>
       \A a \in agents : dependsOn[a] \cap Framer = {}

(* What the gate left, and what for. *)
Gated ==
  phase \in {"resolving", "running", "finished", "unresolvable"} =>
    /\ remaining \cup gatedOut = agents \ Framer
    /\ remaining \cap gatedOut = {}
    /\ decision.complexity \in {"none", "high"} => gatedOut = {}
    /\ decision # NoDecision => remaining = decision.dispatched
    /\ plan # "validate_only" /\ ~ Capped => \A a \in remaining : dependsOn[a] \subseteq remaining

(* Whole tiers have been run: with an agent all that need no more than it. *)
Tiers ==
  phase \in {"resolving", "running", "finished"} =>
    /\ agents \cap Framer \subseteq executed /\ executed \subseteq (agents \cap Framer) \cup remaining
    /\ running \subseteq remaining \ executed
    /\ \A a \in (executed \cap remaining) \cup running : dependsOn[a] \subseteq executed
    /\ \A a \in executed \cap remaining, b \in remaining :
         dependsOn[b] \subseteq dependsOn[a] => b \in executed
    /\ running # {} => \A b \in remaining \ executed : dependsOn[b] \subseteq executed => b \in running
    /\ phase = "resolving" => running = {} /\ executed = agents \cap Framer
    /\ phase # "resolving" => \A a \in remaining : dependsOn[a] \subseteq remaining
    /\ phase = "finished" => remaining \subseteq executed

IInv ==
  /\ TypeOK
  /\ request.plan \in Plans
  /\ Before
  /\ Loaded
  /\ Gated
  /\ Tiers
  /\ ReadsAreReady
  /\ UnresolvableOnlyWhenCapped

LEMMA PlansAreAgents ==
  ASSUME NEW p \in Plans
  PROVE  /\ PlanAgents(p) \in SUBSET Agent
         /\ p \in {"deep_dive", "full_presentation"} => PlanAgents(p) = Agent
         /\ p = "quick_overview" =>
              PlanAgents(p) = {"question-framing", "data-explorer",
                               "descriptive-analytics", "storytelling"}
         /\ p = "validate_only" => PlanAgents(p) = {"validation"}
BY AgentNames DEF Plans, PlanAgents

LEMMA InitIInv == Init => IInv
<1> SUFFICES ASSUME Init PROVE IInv
  OBVIOUS
<1>1. request.plan \in Plans
  BY DEF Init
<1>2. TypeOK
  BY <1>1, Dependencies DEF Init, TypeOK, Phases, NoDecision
<1> QED
  BY <1>1, <1>2 DEF Init, IInv, Before, Untouched, Loaded, Gated, Tiers, ReadsAreReady,
                    UnresolvableOnlyWhenCapped

LEMMA SelectPlanStep ==
  ASSUME IInv, SelectPlan PROVE IInv'
<1>1. TypeOK' /\ request'.plan \in Plans
  BY DEF IInv, SelectPlan, TypeOK, Phases, Plans
<1> QED
  BY <1>1 DEF IInv, SelectPlan, Before, Untouched, Loaded, Gated, Tiers, ReadsAreReady,
              UnresolvableOnlyWhenCapped

LEMMA LoadAgentsStep ==
  ASSUME IInv, LoadAgents PROVE IInv'
<1>1. /\ plan \in Plans /\ plan' = plan /\ request' = request /\ request.plan \in Plans
      /\ decision' = decision /\ gatedOut' = {} /\ running' = {} /\ executed' = {}
      /\ decision = NoDecision
      /\ agents' = PlanAgents(plan) /\ remaining' = PlanAgents(plan) \ Framer
      /\ phase' = IF "question-framing" \in PlanAgents(plan) THEN "framing" ELSE "gate"
  BY DEF IInv, TypeOK, LoadAgents, Before, Untouched, Framer
<1>2. /\ dependsOn' \in [Agent -> SUBSET Agent]
      /\ \A a \in Agent : dependsOn'[a] \ Framer = Needs(plan, a)
  <2>1. RegistryDependsOn \in [Agent -> SUBSET Agent]
    BY Dependencies
  <2>2. dependsOn' = IF plan = "quick_overview"
                     THEN [a \in Agent |-> RegistryDependsOn[a] \cap PlanAgents(plan)]
                     ELSE RegistryDependsOn
    BY DEF LoadAgents
  <2> QED
    BY <2>1, <2>2 DEF Needs
<1>3. TypeOK'
  BY <1>1, <1>2, PlansAreAgents DEF TypeOK, Phases, NoDecision
<1>4. phase' = "gate" => \A a \in agents' : dependsOn'[a] \cap Framer = {}
  <2>1. SUFFICES ASSUME phase' = "gate" PROVE plan = "validate_only"
    BY <1>1, <2>1, PlansAreAgents, Dependencies DEF LoadAgents, Framer
  <2> QED
    BY <1>1, <2>1, PlansAreAgents, AgentNames DEF Plans
<1>5. Before'
  BY <1>1 DEF Before, Untouched, Framer
<1>6. Loaded'
  BY <1>1, <1>2, <1>4 DEF Loaded
<1> QED
  BY <1>1, <1>3, <1>5, <1>6 DEF IInv, Gated, Tiers, ReadsAreReady, UnresolvableOnlyWhenCapped

LEMMA FrameQuestionStep ==
  ASSUME IInv, FrameQuestion PROVE IInv'
<1>1. /\ phase = "framing" /\ phase' = "gate" /\ executed' = Framer
      /\ dependsOn' = [a \in Agent |-> dependsOn[a] \ Framer]
      /\ UNCHANGED <<request, plan, agents, remaining, decision, gatedOut, running>>
  BY DEF FrameQuestion, Framer
<1>2. agents \subseteq Agent /\ dependsOn \in [Agent -> SUBSET Agent]
  BY DEF IInv, TypeOK
<1>3. "question-framing" \in agents
  BY <1>1 DEF IInv, Before, Framer
<1>4. TypeOK'
  BY <1>1, <1>2, <1>3 DEF IInv, TypeOK, Phases, Framer
<1> QED
  BY <1>1, <1>2, <1>3, <1>4 DEF IInv, Before, Untouched, Loaded, Gated, Tiers, ReadsAreReady,
     UnresolvableOnlyWhenCapped, Framer

(* What the whole plan needs is in the plan, but for the plan that only    *)
(* validates.                                                              *)
LEMMA PlanIsClosed ==
  ASSUME NEW p \in Plans, p # "validate_only", NEW a \in PlanAgents(p)
  PROVE  Needs(p, a) \subseteq PlanAgents(p) \ Framer
BY PlansAreAgents, Dependencies DEF Needs, Plans

LEMMA SkipGateStep ==
  ASSUME IInv, SkipGate PROVE IInv'
<1>1. /\ phase = "gate" /\ phase' = "resolving"
      /\ UNCHANGED <<request, plan, agents, dependsOn, remaining, decision, gatedOut, running, executed>>
  BY DEF SkipGate
<1>2. TypeOK'
  BY <1>1 DEF IInv, TypeOK, Phases
<1>3. /\ remaining = agents \ Framer /\ gatedOut = {} /\ running = {} /\ decision = NoDecision
      /\ executed = agents \cap Framer
      /\ agents = PlanAgents(plan) /\ plan \in Plans /\ agents \subseteq Agent
      /\ dependsOn \in [Agent -> SUBSET Agent]
      /\ \A a \in Agent : dependsOn[a] \ Framer = Needs(plan, a)
      /\ \A a \in agents : dependsOn[a] \cap Framer = {}
  BY <1>1 DEF IInv, TypeOK, Before, Untouched, Loaded
<1>4. plan # "validate_only" => \A a \in remaining : dependsOn[a] \subseteq remaining
  BY <1>3, PlanIsClosed
<1>5. Gated'
  BY <1>1, <1>3, <1>4 DEF Gated, Capped, NoDecision
<1>6. Tiers'
  BY <1>1, <1>3 DEF Tiers
<1> QED
  BY <1>1, <1>2, <1>5, <1>6 DEF IInv, Before, Loaded, ReadsAreReady, UnresolvableOnlyWhenCapped

LEMMA ApplyGateStep ==
  ASSUME IInv, NEW f \in Framing, NEW readable \in BOOLEAN, ApplyGate(f, readable)
  PROVE  IInv'
<1> DEFINE d == Evaluate(f, agents \ Framer, plan, readable)
<1>1. /\ phase = "gate" /\ phase' = "resolving" /\ ~ BypassGating
      /\ decision' = d
      /\ gatedOut' = remaining \ d.dispatched
      /\ remaining' = remaining \cap d.dispatched
      /\ UNCHANGED <<request, plan, agents, dependsOn, running, executed>>
  BY DEF ApplyGate, Framer
<1>2. /\ remaining = agents \ Framer /\ running = {}
      /\ executed = agents \cap Framer
      /\ agents = PlanAgents(plan) /\ plan \in Plans /\ agents \subseteq Agent
      /\ dependsOn \in [Agent -> SUBSET Agent]
      /\ \A a \in Agent : dependsOn[a] \ Framer = Needs(plan, a)
      /\ \A a \in agents : dependsOn[a] \cap Framer = {}
  BY <1>1 DEF IInv, TypeOK, Before, Untouched, Loaded
<1>3. agents = Agent /\ plan # "quick_overview"
  BY <1>1, <1>2, PlansAreAgents DEF BypassGating, Plans
<1>4. /\ d.complexity \in Complexities
      /\ d.dispatched \subseteq agents \ Framer
      /\ d.complexity = "high" => d.dispatched = agents \ Framer
      /\ ~ (plan = "deep_dive" /\ d.complexity = "low") => Closed(d.dispatched, agents \ Framer)
  <2>1. agents \ Framer \in SUBSET Agent
    BY <1>2
  <2> QED
    BY <2>1, DecisionIsSound
<1> HIDE DEF d
<1>5. TypeOK'
  BY <1>1, <1>2, <1>4 DEF IInv, TypeOK, Phases, Framer
<1>6. remaining' = d.dispatched
  BY <1>1, <1>2, <1>4
<1>7. ~ Capped' => \A a \in remaining' : dependsOn[a] \subseteq remaining'
  <2> SUFFICES ASSUME ~ Capped', NEW a \in remaining' PROVE dependsOn[a] \subseteq remaining'
    OBVIOUS
  <2>1. Closed(d.dispatched, agents \ Framer)
    BY <1>1, <1>4 DEF Capped
  <2>2. a \in agents /\ a \in Agent /\ a \in d.dispatched \cap (agents \ Framer)
    BY <1>2, <1>4, <1>6
  <2>3. dependsOn[a] = RegistryDependsOn[a] \ Framer
    BY <1>2, <1>3, <2>2 DEF Needs
  <2>4. RegistryDependsOn[a] \cap (agents \ Framer) \subseteq d.dispatched
    BY <2>1, <2>2 DEF Closed
  <2> QED
    BY <1>2, <1>3, <1>6, <2>2, <2>3, <2>4
<1>8. Gated'
  BY <1>1, <1>2, <1>4, <1>6, <1>7 DEF Gated, Complexities
<1>9. Tiers'
  BY <1>1, <1>2 DEF Tiers
<1> QED
  BY <1>1, <1>5, <1>8, <1>9 DEF IInv, Before, Loaded, ReadsAreReady, UnresolvableOnlyWhenCapped

LEMMA ResolveTiersStep ==
  ASSUME IInv, ResolveTiers PROVE IInv'
<1> USE DEF ResolveTiers
<1>1. TypeOK'
  BY DEF IInv, TypeOK, Phases
<1>2. UnresolvableOnlyWhenCapped'
  BY DEF IInv, Gated, Capped, UnresolvableOnlyWhenCapped
<1>3. Gated' /\ Loaded' /\ Before'
  BY DEF IInv, Gated, Capped, Loaded, Before, Untouched
<1>4. Tiers'
  BY DEF IInv, Tiers
<1> QED
  BY <1>1, <1>2, <1>3, <1>4 DEF IInv, ReadsAreReady

(* An agent that starts has been left by the gate what it reads, or has it *)
(* from a tier before: declared or not.                                    *)
LEMMA TierReads ==
  ASSUME IInv, phase = "running", running = {}, plan # "quick_overview",
         NEW a \in remaining \ executed, dependsOn[a] \subseteq executed
  PROVE  Reads[a] \cap (remaining \cup executed) \subseteq executed
<1> DEFINE done == executed \cap remaining
<1>1. /\ plan \in Plans /\ agents = PlanAgents(plan) /\ remaining \subseteq agents \ Framer
      /\ executed \subseteq Agent /\ remaining \subseteq Agent
      /\ agents \cap Framer \subseteq executed
      /\ \A b \in Agent : dependsOn[b] \ Framer = Needs(plan, b)
      /\ \A b \in agents : dependsOn[b] \cap Framer = {}
      /\ \A b \in remaining : dependsOn[b] \subseteq remaining
      /\ \A b \in done : dependsOn[b] \subseteq executed
      /\ \A b \in done, c \in remaining : dependsOn[c] \subseteq dependsOn[b] => c \in executed
  BY DEF IInv, TypeOK, Loaded, Gated, Tiers
<1>2. \A b \in remaining : dependsOn[b] = RegistryDependsOn[b] \ Framer
  BY <1>1 DEF Needs
<1>3. plan # "validate_only" /\ agents = Agent
  <2>1. SUFFICES ASSUME plan = "validate_only" PROVE FALSE
    BY <1>1, <2>1, PlansAreAgents DEF Plans
  <2>2. a = "validation" /\ "root-cause-investigator" \notin remaining
    BY <1>1, <2>1, PlansAreAgents
  <2>3. "root-cause-investigator" \in dependsOn[a]
    BY <1>2, <2>2, Dependencies DEF Framer
  <2> QED
    BY <1>1, <2>2, <2>3
<1>4. "question-framing" \in executed
  BY <1>1, <1>3, AgentNames DEF Framer
<1>5. /\ "hypothesis" \in remaining => dependsOn["hypothesis"] = {}
      /\ "source-tieout" \in remaining => dependsOn["source-tieout"] = {"data-explorer"}
      /\ "descriptive-analytics" \in remaining => dependsOn["descriptive-analytics"] = {"source-tieout"}
      /\ "overtime-trend" \in remaining => dependsOn["overtime-trend"] = {"source-tieout"}
      /\ "root-cause-investigator" \in remaining
           => dependsOn["root-cause-investigator"] = {"descriptive-analytics"}
      /\ "validation" \in remaining => dependsOn["validation"] = {"root-cause-investigator"}
      /\ "chart-maker" \in remaining => dependsOn["chart-maker"] = {"validation"}
      /\ "storytelling" \in remaining => dependsOn["storytelling"] = {"chart-maker"}
  BY <1>2, Dependencies DEF Framer
<1>6. /\ a \in Agent /\ a \in remaining
      /\ dependsOn[a] \subseteq done
  BY <1>1
<1> HIDE DEF done
<1>7. done \subseteq executed /\ done \subseteq remaining
  BY DEF done
<1>8. /\ "chart-maker" \in done => "validation" \in done
      /\ "validation" \in done => "root-cause-investigator" \in done
      /\ "root-cause-investigator" \in done => "descriptive-analytics" \in done
      /\ "source-tieout" \in done => "data-explorer" \in done
  <2>1. \A b \in done : dependsOn[b] \subseteq done
    BY <1>1 DEF done
  <2> QED
    BY <1>5, <1>7, <2>1
<1>9. /\ "source-tieout" \in done /\ "hypothesis" \in remaining => "hypothesis" \in executed
      /\ "descriptive-analytics" \in done /\ "overtime-trend" \in remaining
           => "overtime-trend" \in executed
  BY <1>1, <1>5, <1>7
<1>10. /\ Reads["hypothesis"] = {"question-framing"}
       /\ Reads["overtime-trend"] = {"question-framing"}
       /\ Reads["descriptive-analytics"] = {"question-framing", "hypothesis", "data-explorer"}
       /\ Reads["root-cause-investigator"] = {"question-framing", "descriptive-analytics"}
       /\ Reads["validation"] = {"root-cause-investigator", "descriptive-analytics", "overtime-trend"}
       /\ Reads["chart-maker"] = {"root-cause-investigator", "validation"}
       /\ Reads["storytelling"] = {"question-framing", "root-cause-investigator", "validation",
                                   "chart-maker"}
       /\ Reads["data-explorer"] = {} /\ Reads["source-tieout"] = {}
  BY AgentNames DEF Reads
<1>11. a # "question-framing"
  BY <1>4
<1>12. CASE a = "descriptive-analytics"
  BY <1>4, <1>5, <1>6, <1>7, <1>8, <1>9, <1>10, <1>12
<1>13. CASE a \in {"validation", "chart-maker", "root-cause-investigator", "storytelling"}
  BY <1>4, <1>5, <1>6, <1>7, <1>8, <1>9, <1>10, <1>13
<1>14. CASE a \in {"hypothesis", "overtime-trend", "data-explorer", "source-tieout"}
  BY <1>4, <1>10, <1>14
<1> QED
  BY <1>6, <1>11, <1>12, <1>13, <1>14, AgentNames

LEMMA StartTierStep ==
  ASSUME IInv, StartTier PROVE IInv'
<1>1. /\ phase = "running" /\ running = {}
      /\ running' = {a \in remaining \ executed : dependsOn[a] \subseteq executed}
      /\ UNCHANGED <<request, plan, phase, agents, dependsOn, remaining, decision, gatedOut, executed>>
  BY DEF StartTier
<1>2. TypeOK'
  BY <1>1 DEF IInv, TypeOK
<1>3. ReadsAreReady'
  BY <1>1, TierReads DEF ReadsAreReady
<1>4. Tiers'
  BY <1>1 DEF IInv, Tiers
<1> QED
  BY <1>1, <1>2, <1>3, <1>4 DEF IInv, Before, Loaded, Gated, Capped, UnresolvableOnlyWhenCapped

LEMMA FinishTierStep ==
  ASSUME IInv, FinishTier PROVE IInv'
<1>1. /\ phase = "running" /\ running' = {} /\ executed' = executed \cup running
      /\ UNCHANGED <<request, plan, phase, agents, dependsOn, remaining, decision, gatedOut>>
  BY DEF FinishTier
<1>2. TypeOK'
  BY <1>1 DEF IInv, TypeOK
<1>3. Tiers'
  <2>1. /\ running \subseteq remaining \ executed
        /\ \A a \in (executed \cap remaining) \cup running : dependsOn[a] \subseteq executed
        /\ \A a \in executed \cap remaining, b \in remaining :
             dependsOn[b] \subseteq dependsOn[a] => b \in executed
        /\ \A b \in remaining \ executed :
             running # {} /\ dependsOn[b] \subseteq executed => b \in running
    BY <1>1 DEF IInv, Tiers
  <2>2. ASSUME NEW a \in executed' \cap remaining, NEW b \in remaining, dependsOn[b] \subseteq dependsOn[a]
        PROVE  b \in executed'
    BY <1>1, <2>1, <2>2
  <2>3. \A a \in executed' \cap remaining : dependsOn[a] \subseteq executed'
    BY <1>1, <2>1
  <2> QED
    BY <1>1, <2>2, <2>3 DEF IInv, Tiers
<1> QED
  BY <1>1, <1>2, <1>3 DEF IInv, Before, Loaded, Gated, Capped, ReadsAreReady,
     UnresolvableOnlyWhenCapped

LEMMA EndStep ==
  ASSUME IInv, FailAgent \/ Finish \/ UNCHANGED vars PROVE IInv'
<1>1. CASE FailAgent
  BY <1>1 DEF FailAgent, IInv, TypeOK, Phases, Before, Loaded, Gated, Tiers, ReadsAreReady,
     UnresolvableOnlyWhenCapped
<1>2. CASE Finish
  <2>1. TypeOK' /\ Tiers'
    BY <1>2 DEF Finish, IInv, TypeOK, Phases, Tiers
  <2> QED
    BY <1>2, <2>1 DEF Finish, IInv, Before, Loaded, Gated, Capped, ReadsAreReady,
       UnresolvableOnlyWhenCapped
<1>3. CASE UNCHANGED vars
  BY <1>3 DEF vars, IInv, TypeOK, Before, Untouched, Loaded, Gated, Capped, Tiers, ReadsAreReady,
     UnresolvableOnlyWhenCapped
<1> QED
  BY <1>1, <1>2, <1>3

-----------------------------------------------------------------------------
(* IInv is an invariant: what the plan, the gate and the tiers have to do  *)
(* with each other.                                                        *)
LEMMA Inductive == Spec => []IInv
<1>1. IInv /\ [Next]_vars => IInv'
  BY SelectPlanStep, LoadAgentsStep, FrameQuestionStep, SkipGateStep, ApplyGateStep,
     ResolveTiersStep, StartTierStep, FinishTierStep, EndStep DEF Next
<1> QED
  BY <1>1, InitIInv, PTL DEF Spec

(* The variables of a run have their types.                                *)
THEOREM TypeCorrect == Spec => []TypeOK
<1>1. IInv => TypeOK
  BY DEF IInv
<1> QED
  BY <1>1, Inductive, PTL

(* No agent starts before one whose output it reads, declared or not.      *)
THEOREM ReadsReady == Spec => []ReadsAreReady
<1>1. IInv => ReadsAreReady
  BY DEF IInv
<1> QED
  BY <1>1, Inductive, PTL

(* resolve_tiers fails a run only when the plan validates without analysts *)
(* or the gate has capped its agents.                                      *)
THEOREM ResolvableUnlessCapped == Spec => []UnresolvableOnlyWhenCapped
<1>1. IInv => UnresolvableOnlyWhenCapped
  BY DEF IInv
<1> QED
  BY <1>1, Inductive, PTL

(* Without a reason every agent of the plan is run.                        *)
THEOREM NothingSkipped == Spec => []NothingSkippedWithoutReason
<1>1. IInv => NothingSkippedWithoutReason
  BY DEF IInv, TypeOK, Gated, Tiers, NothingSkippedWithoutReason
<1> QED
  BY <1>1, Inductive, PTL

(* Every agent is run or gated out, and the metrics count the latter.      *)
THEOREM EveryAgentCounted == Spec => []EveryAgentAccountedFor
<1>1. IInv => EveryAgentAccountedFor
  <2> SUFFICES ASSUME IInv, phase = "finished" PROVE EveryAgentAccountedFor
    BY DEF EveryAgentAccountedFor
  <2>1. /\ remaining \cup gatedOut = agents \ Framer /\ remaining \cap gatedOut = {}
        /\ agents \cap Framer \subseteq executed
        /\ executed \subseteq (agents \cap Framer) \cup remaining /\ remaining \subseteq executed
        /\ decision # NoDecision => remaining = decision.dispatched
        /\ agents \subseteq Agent
    BY DEF IInv, TypeOK, Gated, Tiers
  <2>2. executed \cup gatedOut = agents /\ executed \cap gatedOut = {}
    BY <2>1
  <2>3. Cardinality(gatedOut) = Cardinality(agents \ Framer) - Cardinality(remaining)
    <3>1. /\ agents \ Framer \in SUBSET Agent
          /\ gatedOut = (agents \ Framer) \ remaining
          /\ (agents \ Framer) \cap remaining = remaining
      BY <2>1
    <3>2. IsFiniteSet(agents \ Framer)
      BY <3>1, AgentsAreFinite
    <3>3. \A T : Cardinality((agents \ Framer) \ T)
                  = Cardinality(agents \ Framer) - Cardinality((agents \ Framer) \cap T)
      BY <3>2, FS_Difference
    <3>4. Cardinality((agents \ Framer) \ remaining)
            = Cardinality(agents \ Framer) - Cardinality((agents \ Framer) \cap remaining)
      BY <3>3
    <3> QED
      BY <3>1, <3>4, Zenon
  <2> QED
    BY <2>1, <2>2, <2>3 DEF EveryAgentAccountedFor, Framer
<1> QED
  BY <1>1, Inductive, PTL

=============================================================================
