--------------------------- MODULE AgentRun_proof ---------------------------
(***************************************************************************)
(* Proofs about AgentRun, for any answers, any selections, any sets of     *)
(* agents and of keys, and any number of retries.                          *)
(***************************************************************************)
EXTENDS AgentRun, Lists_proof

Framing == "question-framing"

(* Why an agent is in the state failed.                                    *)
HasReason(a) ==
  \/ GivenUp(a)
  \/ BadAnswer(a)
  \/ Framing \in DOMAIN outputs /\ outputs[Framing].shape = "list"

(* Nothing is called before the selection is accepted and resolved.        *)
Resolved ==
  /\ selection # "none" => Accepts(selection, keys)
  /\ status = "requested" => \A a \in Agent : phase[a] = "waiting"
  /\ status = "running" => selection # "none" /\ ~ NothingConfigured(selection, keys)
  /\ \A a \in Agent : phase[a] # "waiting" =>
       selection # "none" /\ ~ NothingConfigured(selection, keys)

(* An output is the answer of an agent that has completed and changes no   *)
(* more; an agent that failed, and so a run that failed, has a reason.     *)
Inv ==
  /\ TypeOK
  /\ keys \subseteq Provider
  /\ answer = [a \in Agent |-> answer[a]]
  /\ Resolved
  /\ \A a \in DOMAIN outputs : phase[a] = "completed" /\ outputs[a] = answer[a]
  /\ \A a \in Agent : phase[a] = "failed" => HasReason(a)
  /\ RunsFailForAReason

LEMMA InitInv == Init => Inv
  BY RetriesAssumption, DispatchedAssumption, KeysAssumption
  DEF Init, Inv, TypeOK, Phases, Statuses, Resolved, RunsFailForAReason

-----------------------------------------------------------------------------
(* The steps of the run as a whole.                                        *)

LEMMA RequestStep ==
  ASSUME Inv, NEW s \in Selections, Request(s)
  PROVE  Inv'
BY DEF Inv, TypeOK, Request, Resolved, agentVars, contentVars, Statuses, NothingConfigured,
       HasReason, GivenUp, BadAnswer, RunsFailForAReason

LEMMA ResolveStep ==
  ASSUME Inv, ResolveAssignments
  PROVE  Inv'
BY DEF Inv, TypeOK, ResolveAssignments, Resolved, NothingConfigured, HasReason, GivenUp,
       BadAnswer, RunsFailForAReason, agentVars, contentVars, Statuses

(* A tier fails with one of its agents, which has a reason, and an output  *)
(* of question framing that is a list is a bad answer of that agent.       *)
LEMMA EndTierStep ==
  ASSUME Inv, EndTier
  PROVE  Inv'
<1>1. Tier \subseteq plan
  BY DEF Tier
<1>2. CASE \E a \in Tier : phase[a] = "failed"
  <2>1. PICK a \in Tier : phase[a] = "failed"
    BY <1>2
  <2>2. \E b \in plan : GivenUp(b) \/ BadAnswer(b)
    <3>1. a \in plan /\ a \in Agent
      BY <1>1, <2>1 DEF Inv, TypeOK
    <3>2. HasReason(a)
      BY <2>1, <3>1 DEF Inv
    <3>3. CASE GivenUp(a) \/ BadAnswer(a)
      BY <3>1, <3>3
    <3>4. CASE Framing \in DOMAIN outputs /\ outputs[Framing].shape = "list"
      <4>1. Framing \in plan /\ outputs[Framing] = answer[Framing]
        BY <3>4 DEF Inv, TypeOK
      <4>2. BadAnswer(Framing)
        BY <3>4, <4>1 DEF BadAnswer, Framing
      <4> QED
        BY <4>1, <4>2
    <3> QED
      BY <3>2, <3>3, <3>4 DEF HasReason
  <2>3. RunsFailForAReason'
    BY <2>2 DEF EndTier, RunsFailForAReason, GivenUp, BadAnswer, agentVars
  <2>4. status' = "failed" /\ UNCHANGED <<keys, selection, plan, phase, tries, error, answer, outputs>>
    BY <1>2 DEF EndTier, agentVars
  <2>5. \A b \in Agent : phase'[b] = "failed" => HasReason(b)'
    BY <2>4 DEF Inv, HasReason, GivenUp, BadAnswer
  <2> QED
    BY <2>3, <2>4, <2>5 DEF Inv, TypeOK, Resolved, Statuses
<1>3. CASE ~ \E a \in Tier : phase[a] = "failed"
  <2>1. /\ outputs' = [a \in DOMAIN outputs \cup Tier |->
                         IF a \in Tier THEN answer[a] ELSE outputs[a]]
        /\ UNCHANGED <<status, keys, selection, plan, phase, tries, error, answer>>
        /\ \A a \in Tier : phase[a] = "completed"
    BY <1>3 DEF EndTier, agentVars
  <2>2. \A a \in DOMAIN outputs' : phase[a] = "completed" /\ outputs'[a] = answer[a]
    BY <2>1 DEF Inv
  <2>3. \A a \in Agent : phase[a] = "failed" => HasReason(a)'
    <3>1. DOMAIN outputs' = DOMAIN outputs \cup Tier /\ Framing \in DOMAIN outputs =>
            outputs'[Framing] = outputs[Framing]
      BY <2>1, <2>2 DEF Inv
    <3> QED
      BY <2>1, <3>1 DEF Inv, HasReason, GivenUp, BadAnswer
  <2> QED
    BY <1>1, <2>1, <2>2, <2>3 DEF Inv, TypeOK, EndTier, Resolved, RunsFailForAReason
<1> QED
  BY <1>2, <1>3

LEMMA ContentStep ==
  ASSUME Inv, BuildResults \/ Finalize \/ Read \/ Expire
  PROVE  Inv'
BY DEF Inv, TypeOK, BuildResults, Finalize, Read, Expire, Resolved, HasReason, GivenUp, BadAnswer,
       RunsFailForAReason, runVars, agentVars, Statuses

-----------------------------------------------------------------------------
(* The steps of one agent: nothing of another changes, nor of the run; the *)
(* agent was waiting or calling, and so has no output.                     *)
LEMMA OneAgent ==
  ASSUME Inv, NEW a \in Agent, status = "running",
         UNCHANGED <<runVars, outputs>>,
         TypeOK', answer' = [b \in Agent |-> answer'[b]],
         phase[a] \in {"waiting", "calling"},
         \A b \in Agent \ {a} : /\ phase'[b] = phase[b] /\ tries'[b] = tries[b]
                               /\ error'[b] = error[b] /\ answer'[b] = answer[b],
         phase'[a] = "failed" => HasReason(a)'
  PROVE  Inv'
<1>1. Resolved'
  BY DEF Inv, Resolved, runVars
<1>2. a \notin DOMAIN outputs
  BY DEF Inv
<1>3. \A b \in DOMAIN outputs' : phase'[b] = "completed" /\ outputs'[b] = answer'[b]
  BY <1>2 DEF Inv, TypeOK, runVars
<1>4. \A b \in Agent : phase'[b] = "failed" => HasReason(b)'
  BY DEF Inv, HasReason, GivenUp, BadAnswer
<1> QED
  BY <1>1, <1>3, <1>4 DEF Inv, RunsFailForAReason, runVars

LEMMA AgentStepKeepsInv ==
  ASSUME Inv, NEW a \in Agent, AgentStep(a)
  PROVE  Inv'
<1> USE RetriesAssumption
<1>1. CASE StartAgent(a)
  <2>1. TypeOK' /\ phase'[a] \in {"failed", "calling"}
    BY <1>1 DEF Inv, TypeOK, StartAgent, runVars, Phases
  <2>2. phase'[a] = "failed" => HasReason(a)'
    BY <1>1 DEF Inv, TypeOK, StartAgent, UnreadableBrief, HasReason, Framing, Phases
  <2> QED
    BY <1>1, <2>1, <2>2, OneAgent DEF Inv, TypeOK, StartAgent, runVars
<1>2. CASE TimeOut(a)
  <2>1. TypeOK' /\ error'[a] = "timeout"
    BY <1>2 DEF Inv, TypeOK, TimeOut, Called, runVars, Phases
  <2> QED
    BY <1>2, <2>1, OneAgent DEF Inv, TypeOK, TimeOut, Called, HasReason, GivenUp
<1>3. ASSUME NEW ans \in Answers[a], NEW trouble \in BOOLEAN, Answer(a, ans, trouble)
      PROVE  Inv'
  <2> USE <1>3 DEF Answer, MayCall, Called, Settle
  <2>1. TypeOK'
    BY DEF Inv, TypeOK, runVars, Phases
  <2>2. answer' = [b \in Agent |-> answer'[b]] /\ answer'[a] = ans
    BY DEF Inv
  <2>3. phase'[a] = "failed" => BadAnswer(a)'
    BY <2>2 DEF Inv, TypeOK, Unusable, BadAnswer, Helpers
  <2> QED
    BY <2>1, <2>2, <2>3, OneAgent DEF Inv, TypeOK, HasReason
<1>4. ASSUME NEW kind \in {"transient", "fatal"}, ProviderFails(a, kind)
      PROVE  Inv'
  <2> USE <1>4 DEF ProviderFails, MayCall, Called
  <2>0. tries[a] \in 0 .. MaxRetries /\ tries'[a] = tries[a] + 1 /\ error'[a] = kind
    BY DEF Inv, TypeOK
  <2>1. TypeOK'
    <3>1. tries' \in [Agent -> 0 .. MaxRetries + 1] /\ tries'[a] \in 0 .. MaxRetries + 1
      BY <2>0 DEF Inv, TypeOK
    <3>2. phase' \in [Agent -> Phases]
      BY DEF Inv, TypeOK, Phases
    <3>3. error' \in [Agent -> {"none", "transient", "fatal", "timeout"}]
      BY DEF Inv, TypeOK
    <3> QED
      BY <3>1, <3>2, <3>3 DEF Inv, TypeOK, runVars
  <2>2. phase'[a] = "failed" => GivenUp(a)'
    BY <2>0 DEF Inv, TypeOK, GivenUp, Phases
  <2> QED
    BY <2>0, <2>1, <2>2, OneAgent DEF Inv, TypeOK, HasReason
<1> QED
  BY <1>1, <1>2, <1>3, <1>4 DEF AgentStep

-----------------------------------------------------------------------------

LEMMA StutterStep ==
  ASSUME Inv, UNCHANGED vars
  PROVE  Inv'
BY DEF Inv, TypeOK, Resolved, HasReason, GivenUp, BadAnswer, RunsFailForAReason, vars, runVars,
       agentVars, contentVars

(* Inv holds throughout every run.                                         *)
THEOREM Inductive == Spec => []Inv
<1>1. Inv /\ [Next]_vars => Inv'
  BY RequestStep, ResolveStep, EndTierStep, ContentStep, AgentStepKeepsInv, StutterStep DEF Next
<1> QED
  BY InitInv, <1>1, PTL DEF Spec

(* A run fails for a reason outside the analysis of its data: nothing is   *)
(* configured, a provider, an answer, or the shape of a chart or a story   *)
(* (base.py, implementations.py, retry.py, result_builder.py).             *)
THEOREM FailuresHaveReasons == Spec => []RunsFailForAReason
<1>1. Inv => RunsFailForAReason
  BY DEF Inv
<1> QED
  BY Inductive, <1>1, PTL

-----------------------------------------------------------------------------
(* The router. *)

(* Each priority list names every provider.                                *)
LEMMA PicksAvailable ==
  ASSUME NEW available \in SUBSET Provider, available # {},
         NEW tier \in {"premium", "standard", "fast"}
  PROVE  PickProvider(tier, available) \in available
<1> DEFINE order == TierPriorities[tier]
           first(n) == order[n] \in available /\ \A m \in 1 .. (n - 1) : order[m] \notin available
<1>1. /\ DOMAIN order = 1 .. 4
      /\ \A p \in Provider : p \in {order[1], order[2], order[3], order[4]}
  BY DEF TierPriorities, Provider, Models
<1>2. \E n \in 1 .. 4 : order[n] \in available
  BY <1>1
<1> HIDE DEF order
<1>3. \E n \in 1 .. 4 : first(n)
  <2>1. CASE order[1] \in available
    BY <2>1
  <2>2. CASE order[1] \notin available /\ order[2] \in available
    BY <2>2
  <2>3. CASE order[1] \notin available /\ order[2] \notin available /\ order[3] \in available
    BY <2>3
  <2>4. CASE order[1] \notin available /\ order[2] \notin available /\ order[3] \notin available
    BY <1>2, <2>4
  <2> QED
    BY <2>1, <2>2, <2>3, <2>4
<1>4. PickProvider(tier, available) = order[CHOOSE n \in DOMAIN order : first(n)]
  BY DEF PickProvider, order
<1> HIDE DEF first
<1>5. first(CHOOSE n \in DOMAIN order : first(n))
  BY <1>1, <1>3
<1> QED
  BY <1>4, <1>5 DEF first

LEMMA DefaultIsAModel ==
  ASSUME NEW p \in Provider
  PROVE  DefaultModel(p) \in ModelsOf(p)
BY DEF Provider, Models, DefaultModel, ModelsOf

(* An accepted selection is resolved to a configured provider.             *)
LEMMA AssignmentIsConfigured ==
  ASSUME NEW a \in Agent, NEW available \in SUBSET Provider, NEW s,
         Accepts(s, available), ~ NothingConfigured(s, available)
  PROVE  LET m == Assignment(a, s, available)
         IN m.provider \in available /\ m.model \in ModelsOf(m.provider)
<1> DEFINE m == Assignment(a, s, available)
<1>1. "auto" \notin ModelId /\ "auto" \notin Provider /\ Provider \cap ModelId = {}
  BY DEF ModelId, ModelsOf, Models, Provider
<1>2. CASE s = "auto"
  <2>1. ModelTier[a] \in {"premium", "standard", "fast"}
    BY DEF ModelTier
  <2>2. m.provider = PickProvider(ModelTier[a], available) /\ m.model = DefaultModel(m.provider)
    BY <1>1, <1>2 DEF Assignment
  <2>3. m.provider \in available
    BY <1>2, <2>1, <2>2, PicksAvailable DEF NothingConfigured
  <2> QED
    BY <2>2, <2>3, DefaultIsAModel
<1>3. CASE s \in Provider \cap available
  <2>1. m.provider = s /\ m.model = DefaultModel(s)
    BY <1>1, <1>3 DEF Assignment
  <2> QED
    BY <1>3, <2>1, DefaultIsAModel
<1>4. CASE s \in ModelId /\ ProviderFor(s) \in available
  <2>1. s \in ModelsOf(ProviderFor(s))
    BY <1>4 DEF ModelId, ProviderFor
  <2>2. m.provider = ProviderFor(s) /\ m.model = s
    BY <1>1, <1>4 DEF Assignment
  <2> QED
    BY <1>4, <2>1, <2>2
<1> QED
  BY <1>2, <1>3, <1>4 DEF Accepts

(* Every agent calls a provider that has a key, with a model of its own    *)
(* (create_pipeline, model_router.py), whatever the client has asked for.  *)
THEOREM CallsAreConfigured == Spec => []ConfiguredProvidersOnly
<1>1. Inv => ConfiguredProvidersOnly
  BY AssignmentIsConfigured DEF Inv, Resolved, ConfiguredProvidersOnly
<1> QED
  BY Inductive, <1>1, PTL

-----------------------------------------------------------------------------
(* The scores. *)

(* A layer does not fail more often than it checks. *)
SoundLayer(l) ==
  /\ l.checks \in Nat \ {0} /\ l.failures \in Nat /\ l.warnings \in Nat
  /\ l.failures <= l.checks

(* It is enough that this is so for each finding. *)
LEMMA LayerIsSound ==
  ASSUME NEW N \in Nat, NEW c \in [1 .. N -> Nat], NEW f \in [1 .. N -> Nat],
         NEW w \in [1 .. N -> Nat],
         \A i \in 1 .. N : f[i] <= c[i]
  PROVE  SoundLayer(Layer(SumOf(c), SumOf(f), SumOf(w)))
<1>1. f \in [1 .. N -> Int] /\ c \in [1 .. N -> Int]
  OBVIOUS
<1>2. SumOf(f) \in Nat /\ SumOf(c) \in Nat /\ SumOf(w) \in Nat
  BY SumIsNatural
<1>3. SumOf(f) <= SumOf(c)
  BY <1>1, SumIsMonotone
<1> QED
  BY <1>2, <1>3 DEF SoundLayer, Layer

(* The findings that validation does not raise for. *)
Findings(F) ==
  /\ DOMAIN F = 1 .. Len(F) /\ Len(F) \in Nat
  /\ \A i \in 1 .. Len(F) : IsItem(F[i]) /\ F[i].kind = "finding"

LEMMA StructuralIsSound ==
  ASSUME NEW F, Findings(F)
  PROVE  SoundLayer(Structural(F))
<1> DEFINE N == Len(F)
           missing(x) == Count(x.headline = "missing") + Count(x.detail = "missing")
                         + Count(x.impact = "missing") + Count(x.confidence.is = "missing")
           wrong(x) == Count(x.headline \in Nothing) + Count(x.detail \in Nothing)
                       + Count(x.impact = "number")
                       + Count(x.confidence.is # "missing" /\ ~ Probability(x.confidence))
           checks(x) == 8 - missing(x)
           failures(x) == missing(x) + wrong(x)
           unknown(x) == Count(x.impact \notin {"missing", "number", "high", "medium", "low",
                                                "critical", "negligible"})
           c == [i \in 1 .. N |-> checks(F[i])]
           f == [i \in 1 .. N |-> failures(F[i])]
           w == [i \in 1 .. N |-> unknown(F[i])]
<1>1. \A x : /\ checks(x) \in Nat /\ failures(x) \in Nat /\ unknown(x) \in Nat
             /\ failures(x) <= checks(x)
  BY DEF Count, Nothing
<1>2. Structural(F) = Layer(SumOf(c), SumOf(f), SumOf(w))
  BY DEF Findings, Structural, Total
<1> HIDE DEF checks, failures, unknown
<1>3. /\ c \in [1 .. N -> Nat] /\ f \in [1 .. N -> Nat] /\ w \in [1 .. N -> Nat]
      /\ \A i \in 1 .. N : f[i] <= c[i]
  BY <1>1
<1> HIDE DEF c, f, w
<1> QED
  BY <1>2, <1>3, LayerIsSound DEF Findings

LEMMA LogicalIsSound ==
  ASSUME NEW F, Findings(F)
  PROVE  SoundLayer(Logical(F))
<1> DEFINE N == Len(F)
           delta(x) == x.supporting.delta
           given(x) == Given(x.supporting)
           moves(x) == Count(delta(x) # 0)
           checks(x) == x.percents + x.amounts + given(x) + moves(x)
           failures(x) == Count(x.says = "up" /\ delta(x) < 0)
                          + Count(x.says = "down" /\ delta(x) > 0)
           c == [i \in 1 .. N |-> checks(F[i])]
           f == [i \in 1 .. N |-> failures(F[i])]
           w == [i \in 1 .. N |-> F[i].huge]
<1>1. \A i \in 1 .. N : /\ checks(F[i]) \in Nat /\ failures(F[i]) \in Nat /\ F[i].huge \in Nat
                        /\ failures(F[i]) <= checks(F[i])
  <2> SUFFICES ASSUME NEW i \in 1 .. N
               PROVE  /\ checks(F[i]) \in Nat /\ failures(F[i]) \in Nat /\ F[i].huge \in Nat
                      /\ failures(F[i]) <= checks(F[i])
    OBVIOUS
  <2>1. /\ F[i].percents \in Nat /\ F[i].amounts \in Nat /\ F[i].huge \in Nat
        /\ delta(F[i]) \in Int
    BY DEF Findings, IsItem
  <2>2. given(F[i]) \in Nat /\ moves(F[i]) \in Nat
    BY DEF Given, Count
  <2>3. failures(F[i]) \in Nat /\ failures(F[i]) <= moves(F[i])
    <3> HIDE DEF delta
    <3> QED
      BY <2>1 DEF Count
  <2>4. \A p, n, g, m, q \in Nat : q <= m => p + n + g + m \in Nat /\ q <= p + n + g + m
    OBVIOUS
  <2> HIDE DEF delta, given, moves, failures
  <2> QED
    BY <2>1, <2>2, <2>3, <2>4, Zenon
<1>2. Logical(F) = Layer(SumOf(c), SumOf(f), SumOf(w))
  BY DEF Findings, Logical, Total
<1> HIDE DEF checks, failures
<1>3. /\ c \in [1 .. N -> Nat] /\ f \in [1 .. N -> Nat] /\ w \in [1 .. N -> Nat]
      /\ \A i \in 1 .. N : f[i] <= c[i]
  BY <1>1
<1> HIDE DEF c, f, w
<1> QED
  BY <1>2, <1>3, LayerIsSound DEF Findings

LEMMA BusinessRulesIsSound ==
  ASSUME NEW F, Findings(F)
  PROVE  SoundLayer(BusinessRules(F))
<1> DEFINE N == Len(F)
           s(x) == x.supporting
           given(x) == Given(s(x))
           dated(x) == Count(s(x).date # "none")
           negative(x) == Count(s(x).revenue = "negative")
           off(x) == Count(s(x).date = "far-off")
           odd(x) == Count(s(x).rate = "outside")
           far(x) == Count(Far(s(x).delta))
           unreadable(x) == Count(s(x).date = "unreadable")
           checks(x) == x.percents + x.amounts + given(x) + dated(x)
           failures(x) == negative(x) + off(x)
           warnings(x) == x.huge + odd(x) + far(x) + unreadable(x)
           c == [i \in 1 .. N |-> checks(F[i])]
           f == [i \in 1 .. N |-> failures(F[i])]
           w == [i \in 1 .. N |-> warnings(F[i])]
<1>1. \A i \in 1 .. N : /\ checks(F[i]) \in Nat /\ failures(F[i]) \in Nat
                        /\ warnings(F[i]) \in Nat /\ failures(F[i]) <= checks(F[i])
  <2> SUFFICES ASSUME NEW i \in 1 .. N
               PROVE  /\ checks(F[i]) \in Nat /\ failures(F[i]) \in Nat
                      /\ warnings(F[i]) \in Nat /\ failures(F[i]) <= checks(F[i])
    OBVIOUS
  <2>1. F[i].percents \in Nat /\ F[i].amounts \in Nat /\ F[i].huge \in Nat
    BY DEF Findings, IsItem
  <2>2. /\ negative(F[i]) \in Nat /\ given(F[i]) \in Nat /\ negative(F[i]) <= given(F[i])
        /\ off(F[i]) \in Nat /\ dated(F[i]) \in Nat /\ off(F[i]) <= dated(F[i])
    BY DEF Given, Count
  <2>3. odd(F[i]) \in Nat /\ far(F[i]) \in Nat /\ unreadable(F[i]) \in Nat
    BY DEF Count
  <2>4. \A p, n, g, m, q, k \in Nat : q <= g /\ k <= m =>
          p + n + g + m \in Nat /\ q + k \in Nat /\ q + k <= p + n + g + m
    OBVIOUS
  <2> HIDE DEF s, given, dated, negative, off, odd, far, unreadable
  <2>5. /\ checks(F[i]) \in Nat /\ failures(F[i]) \in Nat
        /\ failures(F[i]) <= checks(F[i])
    BY <2>1, <2>2, <2>4, Zenon
  <2>6. warnings(F[i]) \in Nat
    <3>1. \A p, n, g, m \in Nat : p + n + g + m \in Nat
      OBVIOUS
    <3> QED
      BY <2>1, <2>3, <3>1, Zenon
  <2> QED
    BY <2>5, <2>6, Zenon
<1>2. BusinessRules(F) = Layer(SumOf(c), SumOf(f), SumOf(w))
  BY DEF Findings, BusinessRules, Total
<1> HIDE DEF checks, failures, warnings
<1>3. /\ c \in [1 .. N -> Nat] /\ f \in [1 .. N -> Nat] /\ w \in [1 .. N -> Nat]
      /\ \A i \in 1 .. N : f[i] <= c[i]
  BY <1>1
<1> HIDE DEF c, f, w
<1> QED
  BY <1>2, <1>3, LayerIsSound DEF Findings

LEMMA SimpsonsParadoxIsSound ==
  ASSUME NEW F, Findings(F)
  PROVE  SoundLayer(SimpsonsParadox(F))
<1> DEFINE N == Len(F)
           moving(x) == SelectSeq(x.supporting.segments, LAMBDA d : d # 0)
           against(x) == SelectSeq(moving(x), LAMBDA d : (d > 0) # (x.supporting.aggregate > 0))
           looked(x) == x.supporting.segments # <<>> /\ x.supporting.aggregate # 0
           checks(x) == Count(looked(x))
           warnings(x) == Count(looked(x) /\ 2 * Len(against(x)) > Len(moving(x)))
           c == [i \in 1 .. N |-> checks(F[i])]
           w == [i \in 1 .. N |-> warnings(F[i])]
<1>1. \A x : checks(x) \in Nat /\ warnings(x) \in Nat
  <2> HIDE DEF moving, against, looked
  <2> QED
    BY DEF Count
<1>2. SimpsonsParadox(F) = Layer(SumOf(c), 0, SumOf(w))
  BY DEF Findings, SimpsonsParadox, Total
<1> HIDE DEF checks, warnings
<1>3. c \in [1 .. N -> Nat] /\ w \in [1 .. N -> Nat]
  BY <1>1
<1> HIDE DEF c, w
<1>4. SumOf(c) \in Nat /\ SumOf(w) \in Nat
  BY <1>3, SumIsNatural DEF Findings
<1> QED
  BY <1>2, <1>4 DEF SoundLayer, Layer

(* validate of findings that nothing is raised for. *)
LEMMA LayersAreSound ==
  ASSUME NEW A, NEW F \in Seq(A), \A i \in 1 .. Len(F) : IsItem(F[i]), ~ Validate(F).raised
  PROVE  \A n \in 1 .. 4 : SoundLayer(Validate(F).layers[n])
<1>1. ~ Raises(F)
  BY DEF Validate, Error
<1>2. Findings(F)
  BY <1>1 DEF Findings, Raises, IsItem
<1>3. Validate(F).layers =
        <<Structural(F), Logical(F), BusinessRules(F), SimpsonsParadox(F)>>
  BY <1>1 DEF Validate
<1>4. /\ SoundLayer(Structural(F)) /\ SoundLayer(Logical(F))
      /\ SoundLayer(BusinessRules(F)) /\ SoundLayer(SimpsonsParadox(F))
  BY <1>2, StructuralIsSound, LogicalIsSound, BusinessRulesIsSound, SimpsonsParadoxIsSound
<1> QED
  BY <1>3, <1>4

(* A share of the unit is no more than the unit. *)
LEMMA Share ==
  ASSUME NEW u \in Nat, NEW f \in Nat, NEW c \in Nat \ {0}, f <= c
  PROVE  (u * f) \div c \in Int /\ (u * f) \div c <= u
<1> DEFINE q == (u * f) \div c
<1>1. q \in Int
  OBVIOUS
<1>2. c * q <= u * f
  OBVIOUS
<1> HIDE DEF q
<1>3. u * f <= u * c
  OBVIOUS
<1>4. SUFFICES ASSUME q >= u + 1 PROVE FALSE
  BY <1>1 DEF q
<1>5. c * q >= c * (u + 1)
  BY <1>1, <1>4
<1>6. c * (u + 1) = u * c + c
  OBVIOUS
<1> QED
  BY <1>1, <1>2, <1>3, <1>5, <1>6

(* The confidence gives a layer no more than its score, and the same when  *)
(* nothing in it failed.                                                   *)
LEMMA ConfidenceInALayer ==
  ASSUME NEW l, SoundLayer(l)
  PROVE  /\ LayerConfidence(l) \in Int /\ LayerScore(l) \in Int
         /\ LayerConfidence(l) <= LayerScore(l)
         /\ l.failures = 0 => LayerConfidence(l) = LayerScore(l)
<1> DEFINE c == l.checks
           f == l.failures
           w == l.warnings
           failed == (Unit * f) \div c
           warned == ((Unit \div 2) * w) \div c
<1>1. c \in Nat \ {0} /\ f \in Nat /\ w \in Nat /\ f <= c
  BY DEF SoundLayer
<1>2. Unit \in Nat /\ Unit \div 2 \in Nat
  BY DEF Unit
<1> HIDE DEF c, f, w, Unit
<1>3. failed \in Int /\ failed <= Unit
  BY <1>1, <1>2, Share
<1>4. warned \in Int
  BY <1>1, <1>2
<1>5. /\ LayerScore(l) = IF f > 0 THEN Unit - failed ELSE Unit - warned
      /\ LayerConfidence(l) = IF f > 0 THEN 0 ELSE Unit - warned
  BY DEF LayerScore, LayerConfidence, c, f, w
<1> HIDE DEF failed, warned
<1>6. l.failures = f
  BY DEF f
<1> QED
  BY <1>1, <1>2, <1>3, <1>4, <1>5, <1>6

LEMMA WeighedIsMonotone ==
  ASSUME NEW s, NEW t,
         \A n \in 1 .. 4 : s[n] \in Int /\ t[n] \in Int /\ s[n] <= t[n]
  PROVE  Weighed(s) <= Weighed(t)
<1>1. /\ s[1] \in Int /\ s[2] \in Int /\ s[3] \in Int /\ s[4] \in Int
      /\ t[1] \in Int /\ t[2] \in Int /\ t[3] \in Int /\ t[4] \in Int
      /\ s[1] <= t[1] /\ s[2] <= t[2] /\ s[3] <= t[3] /\ s[4] <= t[4]
  OBVIOUS
<1>2. \A x : Weighed(x) = 2 * x[1] + 3 * x[2] + 3 * x[3] + 2 * x[4]
  BY DEF Weighed, Weights
<1> QED
  BY <1>1, <1>2

(* The confidence of a run and the overall score of its validation. *)
LEMMA ConfidenceAndScore ==
  ASSUME NEW v, ~ v.raised, \A n \in 1 .. 4 : SoundLayer(v.layers[n])
  PROVE  /\ Confidence(v) <= OverallScore(v)
         /\ (\A n \in 1 .. 4 : v.layers[n].failures = 0) => Confidence(v) = OverallScore(v)
<1> DEFINE s == [n \in 1 .. 4 |-> LayerConfidence(v.layers[n])]
           t == [n \in 1 .. 4 |-> LayerScore(v.layers[n])]
<1>1. Confidence(v) = Weighed(s) /\ OverallScore(v) = Weighed(t)
  BY DEF Confidence, OverallScore
<1>2. \A n \in 1 .. 4 : s[n] \in Int /\ t[n] \in Int /\ s[n] <= t[n]
  BY ConfidenceInALayer
<1>3. ASSUME \A n \in 1 .. 4 : v.layers[n].failures = 0
      PROVE  s = t
  <2>1. \A n \in 1 .. 4 : LayerConfidence(v.layers[n]) = LayerScore(v.layers[n])
    BY <1>3, ConfidenceInALayer
  <2> QED
    BY <2>1
<1> HIDE DEF s, t
<1> QED
  BY <1>1, <1>2, <1>3, WeighedIsMonotone

-----------------------------------------------------------------------------
(* What the validation agent is given, and what is stored. *)

AnalystSet == {Analysts[i] : i \in 1 .. 3}

LEMMA AnalystNames ==
  AnalystSet = {"descriptive-analytics", "root-cause-investigator", "overtime-trend"}
BY DEF AnalystSet, Analysts

LEMMA AgentNames ==
  Agent = {"question-framing", "data-explorer", "hypothesis", "source-tieout",
           "descriptive-analytics", "overtime-trend", "root-cause-investigator",
           "validation", "chart-maker", "storytelling"}
<1>1. /\ Len(Registry) = 10
      /\ Registry[1] = "question-framing" /\ Registry[2] = "data-explorer"
      /\ Registry[3] = "hypothesis" /\ Registry[4] = "source-tieout"
      /\ Registry[5] = "descriptive-analytics" /\ Registry[6] = "overtime-trend"
      /\ Registry[7] = "root-cause-investigator" /\ Registry[8] = "validation"
      /\ Registry[9] = "chart-maker" /\ Registry[10] = "storytelling"
  BY DEF Registry
<1>2. \A i \in 1 .. 10 : i \in {1, 2, 3, 4, 5, 6, 7, 8, 9, 10}
  OBVIOUS
<1> QED
  BY <1>1, <1>2 DEF Agent

LEMMA Dependencies ==
  /\ RegistryDependsOn["validation"] = {"root-cause-investigator"}
  /\ RegistryDependsOn["root-cause-investigator"] = {"descriptive-analytics"}
  /\ RegistryDependsOn["descriptive-analytics"] = {"source-tieout"}
  /\ RegistryDependsOn["overtime-trend"] = {"source-tieout"}
  /\ RegistryDependsOn["question-framing"] = {}
BY AgentNames DEF RegistryDependsOn

(* An agent that has begun has the outputs of those it depends on; the two *)
(* analysts that depend on the same agent are always in one tier.          *)
TierInv ==
  /\ plan \in Dispatched
  /\ \A a \in Agent : phase[a] # "waiting" =>
       a \in plan /\ RegistryDependsOn[a] \cap plan \subseteq DOMAIN outputs
  /\ {"descriptive-analytics", "overtime-trend"} \subseteq plan =>
       ("descriptive-analytics" \in DOMAIN outputs <=> "overtime-trend" \in DOMAIN outputs)
  /\ \A a \in Agent : phase[a] = "completed" => answer[a] \in Answers[a]
  /\ status \in {"built", "completed"} => plan = DOMAIN outputs

LEMMA TierFacts ==
  ASSUME Inv, TierInv
  PROVE  /\ Tier \subseteq plan \ DOMAIN outputs
         /\ \A a \in Tier : RegistryDependsOn[a] \cap plan \subseteq DOMAIN outputs
         /\ {"descriptive-analytics", "overtime-trend"} \subseteq plan =>
              ("descriptive-analytics" \in Tier <=> "overtime-trend" \in Tier)
BY Dependencies DEF Tier, TierInv

LEMMA InitTierInv == Init => TierInv
BY DEF Init, TierInv

(* Whatever one agent does, it is of the tier that runs.                   *)
LEMMA AgentStepTier ==
  ASSUME Inv, TierInv, NEW a \in Agent, AgentStep(a)
  PROVE  TierInv'
<1>1. /\ a \in Tier /\ status = "running" /\ UNCHANGED <<runVars, outputs>>
      /\ phase \in [Agent -> Phases] /\ answer = [b \in Agent |-> answer[b]]
  BY DEF AgentStep, StartAgent, TimeOut, Answer, ProviderFails, MayCall, Called, Inv, TypeOK
<1>2. a \in plan /\ RegistryDependsOn[a] \cap plan \subseteq DOMAIN outputs
  BY <1>1, TierFacts
<1> DEFINE Others == \A b \in Agent \ {a} : phase'[b] = phase[b] /\ answer'[b] = answer[b]
           Own == phase'[a] = "completed" => answer'[a] \in Answers[a]
<1>3. Others /\ Own
  <2>1. CASE StartAgent(a)
    BY <1>1, <2>1 DEF StartAgent
  <2>2. CASE TimeOut(a)
    BY <1>1, <2>2 DEF TimeOut
  <2>3. ASSUME NEW ans \in Answers[a], NEW trouble \in BOOLEAN, Answer(a, ans, trouble)
        PROVE  Others /\ Own
    BY <1>1, <2>3 DEF Answer, Settle
  <2>4. ASSUME NEW kind \in {"transient", "fatal"}, ProviderFails(a, kind)
        PROVE  Others /\ Own
    BY <1>1, <2>4 DEF ProviderFails, MayCall, Called
  <2> QED
    BY <2>1, <2>2, <2>3, <2>4 DEF AgentStep
<1> QED
  BY <1>1, <1>2, <1>3 DEF TierInv, runVars

LEMMA StepTierInv == Inv /\ TierInv /\ [Next]_vars => TierInv'
<1> SUFFICES ASSUME Inv, TierInv, [Next]_vars PROVE TierInv'
  OBVIOUS
<1>1. ASSUME NEW s \in Selections, Request(s) PROVE TierInv'
  BY <1>1 DEF Request, TierInv, agentVars
<1>2. CASE ResolveAssignments
  BY <1>2 DEF ResolveAssignments, TierInv, agentVars
<1>3. ASSUME NEW a \in Agent, AgentStep(a) PROVE TierInv'
  BY <1>3, AgentStepTier
<1>4. CASE EndTier
  <2>1. /\ UNCHANGED <<plan, phase, answer>>
        /\ status' \in {"failed", "running"}
        /\ DOMAIN outputs' = DOMAIN outputs \/ DOMAIN outputs' = DOMAIN outputs \cup Tier
    BY <1>4 DEF EndTier, agentVars
  <2> QED
    BY <2>1, TierFacts DEF TierInv
<1>5. CASE BuildResults
  BY <1>5 DEF BuildResults, TierInv, agentVars
<1>6. CASE Finalize
  BY <1>6 DEF Finalize, TierInv, agentVars
<1>7. CASE Read \/ Expire
  BY <1>7 DEF Read, Expire, TierInv, agentVars, runVars
<1>8. CASE UNCHANGED vars
  BY <1>8 DEF vars, TierInv, agentVars, runVars
<1> QED
  BY <1>1, <1>2, <1>3, <1>4, <1>5, <1>6, <1>7, <1>8 DEF Next

(* When the validation agent begins, the analysts of the run have ended.   *)
LEMMA AnalystsHaveEnded ==
  ASSUME Inv, TierInv, phase["validation"] # "waiting"
  PROVE  AnalystSet \cap plan \subseteq DOMAIN outputs
<1>1. "validation" \in Agent /\ "validation" \in plan
  BY AgentNames DEF TierInv
<1>2. \A a \in plan : RegistryDependsOn[a] \ {"question-framing"} \subseteq plan
  BY <1>1, DispatchedAssumption DEF TierInv, PlanAgents
<1>3. "root-cause-investigator" \in plan /\ "descriptive-analytics" \in plan
  BY <1>1, <1>2, Dependencies
<1>4. "root-cause-investigator" \in DOMAIN outputs
  BY <1>1, <1>3, Dependencies DEF TierInv
<1>5. phase["root-cause-investigator"] = "completed" /\ "root-cause-investigator" \in Agent
  BY <1>4, AgentNames DEF Inv
<1>6. "descriptive-analytics" \in DOMAIN outputs
  BY <1>3, <1>5, Dependencies DEF TierInv
<1> QED
  BY <1>3, <1>4, <1>6, AnalystNames DEF TierInv

LEMMA SameCollected ==
  ASSUME NEW o, NEW p,
         \A a \in AnalystSet : (a \in DOMAIN o <=> a \in DOMAIN p) /\ (a \in DOMAIN o => o[a] = p[a])
  PROVE  Collected(o) = Collected(p)
<1> DEFINE lists(q) == [i \in 1 .. 3 |->
                          IF Analysts[i] \notin DOMAIN q THEN <<>>
                          ELSE LET out == q[Analysts[i]]
                               IN IF out.under # "none" THEN out.findings ELSE <<Whole>>]
<1>1. \A i \in 1 .. 3 : Analysts[i] \in AnalystSet
  BY DEF AnalystSet
<1> HIDE DEF Whole
<1>2. lists(o) = lists(p)
  BY <1>1
<1> QED
  BY <1>2 DEF Collected

(* The findings that validation saw are those of the outputs there are     *)
(* now, and the confidence of the run is made of what it said.             *)
ValidatedInv ==
  /\ phase["validation"] = "completed" =>
       collected = Collected(outputs) /\ validation = Validate(collected)
  /\ status = "completed" =>
       confidence = IF "validation" \in plan THEN Confidence(validation) ELSE -1

LEMMA AgentStepValidated ==
  ASSUME Inv, ValidatedInv, NEW a \in Agent, AgentStep(a)
  PROVE  ValidatedInv'
<1>1. /\ UNCHANGED <<plan, status, outputs, confidence>> /\ status = "running"
      /\ phase \in [Agent -> Phases] /\ "validation" \in Agent
  BY AgentNames DEF AgentStep, StartAgent, TimeOut, Answer, ProviderFails, MayCall, Called, Inv,
     TypeOK, runVars, contentVars
<1>2. CASE StartAgent(a)
  BY <1>1, <1>2 DEF StartAgent, contentVars, ValidatedInv
<1>3. CASE TimeOut(a)
  BY <1>1, <1>3 DEF TimeOut, contentVars, ValidatedInv
<1>4. ASSUME NEW ans \in Answers[a], NEW trouble \in BOOLEAN, Answer(a, ans, trouble)
      PROVE  ValidatedInv'
  <2>1. Settle(a, ans, trouble)
    BY <1>4 DEF Answer
  <2>2. CASE a = "validation" /\ ~ Unusable(a, ans, trouble)
    <3>1. collected' = Collected(outputs) /\ validation' = Validate(Collected(outputs))
      BY <2>1, <2>2 DEF Settle, CollectFindings
    <3> QED
      BY <1>1, <3>1 DEF ValidatedInv
  <2>3. CASE ~ (a = "validation" /\ ~ Unusable(a, ans, trouble))
    <3>1. UNCHANGED <<collected, validation>>
      BY <2>1, <2>3 DEF Settle
    <3>2. phase'["validation"] = "completed" => phase["validation"] = "completed"
      BY <1>1, <2>1, <2>3 DEF Settle
    <3> QED
      BY <1>1, <3>1, <3>2 DEF ValidatedInv
  <2> QED
    BY <2>2, <2>3
<1>5. ASSUME NEW kind \in {"transient", "fatal"}, ProviderFails(a, kind)
      PROVE  ValidatedInv'
  BY <1>1, <1>5 DEF ProviderFails, contentVars, ValidatedInv
<1> QED
  BY <1>2, <1>3, <1>4, <1>5 DEF AgentStep

LEMMA StepValidatedInv == Inv /\ TierInv /\ ValidatedInv /\ [Next]_vars => ValidatedInv'
<1> SUFFICES ASSUME Inv, TierInv, ValidatedInv, [Next]_vars PROVE ValidatedInv'
  OBVIOUS
<1>1. ASSUME NEW s \in Selections, Request(s) PROVE ValidatedInv'
  BY <1>1 DEF Request, ValidatedInv, agentVars, contentVars
<1>2. CASE ResolveAssignments
  BY <1>2 DEF ResolveAssignments, ValidatedInv, agentVars, contentVars
<1>3. ASSUME NEW a \in Agent, AgentStep(a) PROVE ValidatedInv'
  BY <1>3, AgentStepValidated
<1>4. CASE EndTier
  <2>1. /\ UNCHANGED <<plan, phase, answer, collected, validation, confidence>>
        /\ status' \in {"failed", "running"}
    BY <1>4 DEF EndTier, agentVars, contentVars
  <2>2. ASSUME phase["validation"] = "completed"
        PROVE  Collected(outputs') = Collected(outputs)
    <3>1. /\ outputs' = outputs \/ outputs' = [a \in DOMAIN outputs \cup Tier |->
                                                 IF a \in Tier THEN answer[a] ELSE outputs[a]]
          /\ Tier \subseteq plan \ DOMAIN outputs
      BY <1>4, TierFacts DEF EndTier
    <3>2. AnalystSet \cap plan \subseteq DOMAIN outputs
      BY <2>2, AnalystsHaveEnded
    <3>3. \A a \in AnalystSet : /\ a \in DOMAIN outputs' <=> a \in DOMAIN outputs
                                /\ a \in DOMAIN outputs' => outputs'[a] = outputs[a]
      BY <3>1, <3>2
    <3> QED
      BY <3>3, SameCollected
  <2> QED
    BY <2>1, <2>2 DEF ValidatedInv
<1>5. CASE BuildResults
  BY <1>5 DEF BuildResults, ValidatedInv, agentVars
<1>6. CASE Finalize
  BY <1>6 DEF Finalize, ValidatedInv, TierInv, agentVars
<1>7. CASE Read \/ Expire
  BY <1>7 DEF Read, Expire, ValidatedInv, agentVars, runVars
<1>8. CASE UNCHANGED vars
  BY <1>8 DEF vars, ValidatedInv, agentVars, runVars, contentVars
<1> QED
  BY <1>1, <1>2, <1>3, <1>4, <1>5, <1>6, <1>7, <1>8 DEF Next

(* Before the end of the validation agent nothing has been validated.      *)
LEMMA InitValidatedInv == Init => ValidatedInv
BY AgentNames DEF Init, ValidatedInv

(* The tiers, and what validation saw of them. *)
THEOREM ValidationInductive == Spec => [](Inv /\ TierInv /\ ValidatedInv)
<1>1. Inv /\ TierInv /\ ValidatedInv /\ [Next]_vars => TierInv' /\ ValidatedInv'
  BY StepTierInv, StepValidatedInv
<1> QED
  BY Inductive, InitTierInv, InitValidatedInv, <1>1, PTL DEF Spec

-----------------------------------------------------------------------------
(* The findings that are collected. *)

Answered(o) == \A a \in DOMAIN o : IsAnswer(o[a])

(* What validation is given: the items the analysts list, and, of an       *)
(* output that lists nothing, the output as a whole.                       *)
LEMMA CollectedItems ==
  ASSUME NEW o, Answered(o)
  PROVE  /\ \E A : Collected(o) \in Seq(A)
         /\ \A j \in 1 .. Len(Collected(o)) : IsItem(Collected(o)[j])
         /\ \A a \in DOMAIN o \cap AnalystSet :
              /\ \A i \in DOMAIN o[a].findings :
                   \E j \in DOMAIN Collected(o) : Collected(o)[j] = o[a].findings[i]
              /\ o[a].shape = "text" => \E j \in DOMAIN Collected(o) : Collected(o)[j] = Whole
<1> DEFINE list(a) == IF a \notin DOMAIN o THEN <<>>
                      ELSE IF o[a].under # "none" THEN o[a].findings ELSE <<Whole>>
           A == {Whole} \cup UNION {{o[a].findings[i] : i \in DOMAIN o[a].findings} : a \in DOMAIN o}
           lists == [i \in 1 .. 3 |-> list(Analysts[i])]
           all == Flat(lists)
<1>1. IsItem(Whole)
  BY DEF IsItem, Whole
<1> HIDE DEF Whole
<1>2. \A f \in A : IsItem(f)
  BY <1>1 DEF Answered, IsAnswer
<1>3. \A a : list(a) \in Seq(A)
  <2> SUFFICES ASSUME NEW a PROVE list(a) \in Seq(A)
    OBVIOUS
  <2>1. CASE a \in DOMAIN o
    <3> DEFINE B == {o[a].findings[i] : i \in DOMAIN o[a].findings}
    <3>1. o[a].findings \in Seq(B) /\ B \subseteq A
      BY <2>1 DEF Answered, IsAnswer, IsList
    <3>2. Whole \in A
      OBVIOUS
    <3> HIDE DEF A, B
    <3>3. o[a].findings \in Seq(A) /\ <<Whole>> \in Seq(A)
      BY <3>1, <3>2
    <3> QED
      BY <2>1, <3>3
  <2>2. CASE a \notin DOMAIN o
    BY <2>2
  <2> QED
    BY <2>1, <2>2
<1>4. Collected(o) = all
  BY DEF Collected
<1> HIDE DEF A, list
<1>5. lists \in Seq(Seq(A)) /\ Len(lists) = 3
  BY <1>3
<1>6. /\ all \in Seq(A)
      /\ \A k \in 1 .. Len(lists) : \A j \in 1 .. Len(lists[k]) :
           \E i \in 1 .. Len(all) : all[i] = lists[k][j]
  <2> HIDE DEF lists
  <2> QED
    BY <1>5, FlatProperties
<1>7. ASSUME NEW a \in DOMAIN o \cap AnalystSet
      PROVE  \A j \in 1 .. Len(list(a)) : \E i \in DOMAIN all : all[i] = list(a)[j]
  <2>1. PICK k \in 1 .. 3 : a = Analysts[k]
    BY DEF AnalystSet
  <2>2. lists[k] = list(a)
    BY <2>1
  <2> HIDE DEF lists, all
  <2>3. DOMAIN all = 1 .. Len(all)
    BY <1>6
  <2>4. k \in 1 .. Len(lists)
    BY <1>5
  <2>5. \A j \in 1 .. Len(lists[k]) : \E i \in 1 .. Len(all) : all[i] = lists[k][j]
    BY <1>6, <2>4, Zenon
  <2> QED
    BY <2>2, <2>3, <2>5, Zenon
<1>8. ASSUME NEW a \in DOMAIN o \cap AnalystSet
      PROVE  /\ \A i \in DOMAIN o[a].findings : \E j \in DOMAIN all : all[j] = o[a].findings[i]
             /\ o[a].shape = "text" => \E j \in DOMAIN all : all[j] = Whole
  <2> HIDE DEF all
  <2>1. CASE o[a].under # "none"
    <3>1. list(a) = o[a].findings /\ o[a].shape = "object"
      BY <2>1 DEF list, Answered, IsAnswer
    <3>2. DOMAIN o[a].findings = 1 .. Len(o[a].findings)
      BY <1>3, <3>1
    <3> QED
      BY <1>7, <3>1, <3>2
  <2>2. CASE o[a].under = "none"
    <3>1. list(a) = <<Whole>> /\ o[a].findings = <<>>
      BY <2>2 DEF list, Answered, IsAnswer
    <3>2. 1 \in 1 .. Len(list(a)) /\ list(a)[1] = Whole
      BY <3>1
    <3>3. \E j \in DOMAIN all : all[j] = Whole
      BY <1>7, <3>2
    <3> QED
      BY <3>1, <3>3
  <2> QED
    BY <2>1, <2>2
<1> HIDE DEF all
<1>9. \A j \in 1 .. Len(all) : all[j] \in A
  BY <1>6
<1> QED
  BY <1>2, <1>4, <1>6, <1>8, <1>9

LEMMA OutputsAreAnswers == Inv /\ TierInv => Answered(outputs)
BY AnswersAssumption DEF Inv, TypeOK, TierInv, Answered

(* At the end of a run the validation agent has said what it says of the   *)
(* findings of its outputs.                                                *)
LEMMA ValidatedAtTheEnd ==
  ASSUME Inv, TierInv, ValidatedInv, status = "completed", "validation" \in plan
  PROVE  /\ collected = Collected(outputs) /\ validation = Validate(collected)
         /\ confidence = Confidence(validation)
<1>1. phase["validation"] = "completed"
  BY DEF Inv, TierInv
<1> QED
  BY <1>1 DEF ValidatedInv

(* A finding that is stored was seen by the validation of its run          *)
(* (_collect_findings of implementations.py, _extract_findings of          *)
(* result_builder.py), for any run that resolve_tiers accepts.             *)
THEOREM StoredAreValidated == Spec => []StoredFindingsWereValidated
<1>1. ASSUME Inv, TierInv, ValidatedInv PROVE StoredFindingsWereValidated
  <2> SUFFICES ASSUME status = "completed", "validation" \in plan,
                      NEW a \in DOMAIN outputs \cap AnalystSet
               PROVE  /\ \A i \in DOMAIN outputs[a].findings :
                           \E j \in DOMAIN collected : collected[j] = outputs[a].findings[i]
                      /\ outputs[a].shape = "text" => \E j \in DOMAIN collected : collected[j] = Whole
    BY DEF StoredFindingsWereValidated, AnalystSet
  <2>1. collected = Collected(outputs)
    BY <1>1, ValidatedAtTheEnd
  <2>2. Answered(outputs)
    BY <1>1, OutputsAreAnswers
  <2> QED
    BY <2>1, <2>2, CollectedItems
<1> QED
  BY ValidationInductive, <1>1, PTL

(* The confidence of a run is never above the score of its own validation, *)
(* and is that score when no layer fails (confidence_scorer.py,            *)
(* validation_stack.py), for any findings.                                 *)
THEOREM ConfidenceIsModest == Spec => []ConfidenceNeverFlatters
<1>1. ASSUME Inv, TierInv, ValidatedInv PROVE ConfidenceNeverFlatters
  <2> SUFFICES ASSUME status = "completed", confidence # -1, ~ validation.raised
               PROVE  /\ confidence <= OverallScore(validation)
                      /\ (\A n \in 1 .. 4 : validation.layers[n].failures = 0) =>
                           confidence = OverallScore(validation)
    BY DEF ConfidenceNeverFlatters
  <2>1. "validation" \in plan
    BY <1>1 DEF ValidatedInv
  <2>2. /\ collected = Collected(outputs) /\ validation = Validate(collected)
        /\ confidence = Confidence(validation)
    BY <1>1, <2>1, ValidatedAtTheEnd
  <2>3. Answered(outputs)
    BY <1>1, OutputsAreAnswers
  <2>4. /\ \E A : collected \in Seq(A)
        /\ \A j \in 1 .. Len(collected) : IsItem(collected[j])
    BY <2>2, <2>3, CollectedItems
  <2>5. \A n \in 1 .. 4 : SoundLayer(validation.layers[n])
    BY <2>2, <2>4, LayersAreSound
  <2> QED
    BY <2>2, <2>5, ConfidenceAndScore
<1> QED
  BY ValidationInductive, <1>1, PTL

-----------------------------------------------------------------------------
(* The findings that are stored. *)

(* A finding whose fields another normalisation does not change, but for   *)
(* the place of its supporting data and for sources that are all empty.    *)
Canonical(r) ==
  /\ r = [headline |-> r.headline, detail |-> r.detail, impact |-> r.impact,
          confidence |-> r.confidence, sources |-> r.sources, supporting |-> r.supporting]
  /\ r.headline \notin {"missing", "empty"} /\ r.detail # "missing"
  /\ NormalImpact(r.impact) = r.impact
  /\ r.confidence = [is |-> "number", value |-> NormalConfidence(r.confidence)]
  /\ r.sources \notin {"none", "empty"}

LEMMA DeeperRecord ==
  ASSUME NEW h, NEW d, NEW i, NEW c, NEW s, NEW p
  PROVE  Deeper([headline |-> h, detail |-> d, impact |-> i, confidence |-> c, sources |-> s,
                 supporting |-> p])
         = [headline |-> h, detail |-> d, impact |-> i, confidence |-> c,
            sources |-> IF s = "blank" THEN "unknown" ELSE s, supporting |-> Nested(p)]
<1> DEFINE q == IF s = "blank" THEN "unknown" ELSE s
           n == Nested(p)
           r == [headline |-> h, detail |-> d, impact |-> i, confidence |-> c, sources |-> s,
                 supporting |-> p]
<1>1. Deeper(r) = [r EXCEPT !.supporting = n, !.sources = q]
  BY DEF Deeper
<1> HIDE DEF q, n
<1>2. [r EXCEPT !.supporting = n, !.sources = q]
      = [headline |-> h, detail |-> d, impact |-> i, confidence |-> c, sources |-> q,
         supporting |-> n]
  <2>1. [r EXCEPT !.supporting = n]
        = [headline |-> h, detail |-> d, impact |-> i, confidence |-> c, sources |-> s,
           supporting |-> n]
    OBVIOUS
  <2>2. [[headline |-> h, detail |-> d, impact |-> i, confidence |-> c, sources |-> s,
          supporting |-> n] EXCEPT !.sources = q]
        = [headline |-> h, detail |-> d, impact |-> i, confidence |-> c, sources |-> q,
           supporting |-> n]
    OBVIOUS
  <2> HIDE DEF r
  <2> QED
    BY <2>1, <2>2, Zenon
<1> QED
  BY <1>1, <1>2 DEF q, n

LEMMA CanonicalGoesDeeper ==
  ASSUME NEW r, Canonical(r)
  PROVE  Normalized(r, "unknown") = Deeper(r) /\ Canonical(Deeper(r))
<1> DEFINE sources == IF r.sources = "blank" THEN "unknown" ELSE r.sources
<1>1. NormalSources(r.sources, "unknown") = sources /\ sources \notin {"none", "empty"}
  BY DEF Canonical, NormalSources
<1> DEFINE d == [headline |-> r.headline, detail |-> r.detail, impact |-> r.impact,
                 confidence |-> r.confidence, sources |-> sources,
                 supporting |-> Nested(r.supporting)]
<1>2. Normalized(r, "unknown") = d
  BY <1>1 DEF Canonical, Normalized
<1>3. Deeper(r) = d
  <2> DEFINE c == [headline |-> r.headline, detail |-> r.detail, impact |-> r.impact,
                   confidence |-> r.confidence, sources |-> r.sources,
                   supporting |-> r.supporting]
  <2>1. r = c
    BY DEF Canonical
  <2>2. Deeper(c) = d
    BY DeeperRecord
  <2> HIDE DEF c, d
  <2> QED
    BY <2>1, <2>2, Zenon
<1>4. /\ d.headline = r.headline /\ d.detail = r.detail /\ d.impact = r.impact
      /\ d.confidence = r.confidence /\ d.sources = sources
      /\ d.supporting = Nested(r.supporting)
  OBVIOUS
<1> HIDE DEF sources
<1>5. Canonical(d)
  BY <1>1, <1>4 DEF Canonical
<1> QED
  BY <1>2, <1>3, <1>5

LEMMA RatioIsKept ==
  ASSUME NEW v \in Int, v >= 0, v =< 10000
  PROVE  NormalConfidence([is |-> "number", value |-> v]) = v
BY DEF NormalConfidence

LEMMA NormalConfidenceIsStable ==
  ASSUME NEW c, c.value \in Int
  PROVE  NormalConfidence([is |-> "number", value |-> NormalConfidence(c)]) = NormalConfidence(c)
<1>1. NormalConfidence(c) \in Int /\ NormalConfidence(c) >= 0 /\ NormalConfidence(c) =< 10000
  <2> DEFINE v == c.value
             share == v \div 100
  <2>1. v \in Int
    OBVIOUS
  <2>2. share \in Int /\ (v > 10000 => share >= 0)
    BY <2>1
  <2>3. NormalConfidence(c) = IF c.is \in {"missing", "word"} THEN 7000
                              ELSE IF v > 10000 THEN IF share > 10000 THEN 10000 ELSE share
                              ELSE IF v < 0 THEN 0 ELSE v
    BY DEF NormalConfidence, Limited
  <2> HIDE DEF v, share
  <2> QED
    BY <2>1, <2>2, <2>3
<1> QED
  BY <1>1, RatioIsKept

LEMMA NormalizedIsCanonical ==
  ASSUME NEW f, f.confidence.value \in Int, NEW a \in AnalystSet
  PROVE  Canonical(Normalized(f, a))
<1> DEFINE r == Normalized(f, a)
<1>1. a \notin {"missing", "empty", "none"}
  BY AnalystNames
<1>2. r.headline \notin {"missing", "empty"} /\ r.detail # "missing"
  BY <1>1 DEF Normalized
<1>3. r.impact = NormalImpact(f.impact) /\ NormalImpact(r.impact) = r.impact
  BY DEF Normalized, NormalImpact
<1>4. /\ r.confidence = [is |-> "number", value |-> NormalConfidence(f.confidence)]
      /\ NormalConfidence(r.confidence) = NormalConfidence(f.confidence)
  BY NormalConfidenceIsStable DEF Normalized
<1>5. r.sources \notin {"none", "empty"}
  BY <1>1 DEF Normalized, NormalSources
<1>6. r = [headline |-> r.headline, detail |-> r.detail, impact |-> r.impact,
           confidence |-> r.confidence, sources |-> r.sources, supporting |-> r.supporting]
  BY DEF Normalized
<1> HIDE DEF r
<1>7. Canonical(r)
  BY <1>2, <1>3, <1>4, <1>5, <1>6 DEF Canonical
<1> QED
  BY <1>7 DEF r

LEMMA RawIsCanonical ==
  ASSUME NEW a \in AnalystSet
  PROVE  Canonical(Raw(a))
BY AnalystNames DEF Canonical, Raw, NormalImpact, NormalConfidence

(* A list of some items is a list of more items. *)
LEMMA WiderRows ==
  ASSUME NEW A, NEW B, A \subseteq B, NEW list \in Seq(A)
  PROVE  list \in Seq(B)
OBVIOUS

(* The rows of one analyst. *)
LEMMA RowsAreCanonical ==
  ASSUME NEW a \in AnalystSet, NEW out, IsAnswer(out)
  PROVE  \E A : FindingRows(a, out) \in Seq(A) /\ \A r \in A : Canonical(r)
<1> DEFINE B == {out.findings[i] : i \in DOMAIN out.findings}
           S == {f \in ToSet(out.findings) : f.kind = "finding"}
           dicts == Those(out.findings, S)
           A == {Raw(a)} \cup {Normalized(f, a) : f \in S}
<1>1. out.findings \in Seq(B)
  BY DEF IsAnswer, IsList
<1>2. \A f \in S : f.confidence.value \in Int
  BY DEF ToSet, IsAnswer, IsItem
<1>3. \A r \in A : Canonical(r)
  BY <1>2, NormalizedIsCanonical, RawIsCanonical
<1>4. dicts \in Seq(B) /\ \A i \in 1 .. Len(dicts) : dicts[i] \in S
  <2> HIDE DEF B, S
  <2> QED
    BY <1>1, ThoseProperties
<1>5. FindingRows(a, out) = IF out.shape = "text" THEN <<Raw(a)>>
                            ELSE IF out.under = "findings" THEN [i \in DOMAIN dicts |-> Normalized(dicts[i], a)]
                            ELSE <<>>
  BY DEF FindingRows
<1> HIDE DEF dicts, S
<1>6. DOMAIN dicts = 1 .. Len(dicts) /\ Len(dicts) \in Nat
  BY <1>4
<1>7. \A i \in 1 .. Len(dicts) : Normalized(dicts[i], a) \in A
  BY <1>4
<1>8. Raw(a) \in A
  OBVIOUS
<1> HIDE DEF A
<1>9. [i \in DOMAIN dicts |-> Normalized(dicts[i], a)] \in Seq(A)
  BY <1>6, <1>7
<1>10. <<Raw(a)>> \in Seq(A)
  BY <1>8
<1>11. FindingRows(a, out) \in Seq(A)
  BY <1>5, <1>9, <1>10
<1> QED
  BY <1>3, <1>11

LEMMA StoredAreCanonical ==
  ASSUME NEW o, Answered(o)
  PROVE  \A i \in DOMAIN StoredFindings(o) : Canonical(StoredFindings(o)[i])
<1> DEFINE rows(a) == IF a \in DOMAIN o THEN FindingRows(a, o[a]) ELSE <<>>
           A == UNION {{rows(a)[j] : j \in DOMAIN rows(a)} : a \in AnalystSet}
           lists == [i \in 1 .. 3 |-> rows(Analysts[i])]
           all == Flat(lists)
<1>1. ASSUME NEW a \in AnalystSet
      PROVE  rows(a) \in Seq(A) /\ \A j \in DOMAIN rows(a) : Canonical(rows(a)[j])
  <2>1. \E B : rows(a) \in Seq(B) /\ \A r \in B : Canonical(r)
    <3>1. CASE a \in DOMAIN o
      BY <3>1, RowsAreCanonical DEF Answered
    <3>2. CASE a \notin DOMAIN o
      <4>1. rows(a) \in Seq({})
        BY <3>2
      <4> QED
        BY <4>1
    <3> QED
      BY <3>1, <3>2
  <2>2. {rows(a)[j] : j \in DOMAIN rows(a)} \subseteq A
    OBVIOUS
  <2> HIDE DEF rows, A
  <2>3. PICK B : rows(a) \in Seq(B) /\ \A r \in B : Canonical(r)
    BY <2>1
  <2>4. rows(a) \in Seq({rows(a)[j] : j \in DOMAIN rows(a)})
    BY <2>3
  <2>5. rows(a) \in Seq(A)
    BY <2>2, <2>4, WiderRows
  <2> QED
    BY <2>3, <2>5
<1>2. \A r \in A : Canonical(r)
  <2>1. \A a \in AnalystSet : \A j \in DOMAIN rows(a) : Canonical(rows(a)[j])
    BY <1>1
  <2> HIDE DEF rows
  <2> QED
    BY <2>1
<1>3. StoredFindings(o) = all
  BY DEF StoredFindings
<1> HIDE DEF rows, A
<1>4. lists \in Seq(Seq(A))
  <2>1. \A i \in 1 .. 3 : rows(Analysts[i]) \in Seq(A)
    BY <1>1 DEF AnalystSet
  <2> QED
    BY <2>1
<1> HIDE DEF lists
<1>5. all \in Seq(A)
  BY <1>4, FlatProperties
<1> HIDE DEF all
<1>6. \A i \in DOMAIN all : Canonical(all[i])
  <2>1. \A i \in DOMAIN all : all[i] \in A
    BY <1>5
  <2> QED
    BY <1>2, <2>1
<1> QED
  BY <1>3, <1>6

(* Reading goes one level deeper, and leaves findings that are canonical.  *)
LEMMA ReadingGoesDeeper ==
  ASSUME NEW rows, \A i \in DOMAIN rows : Canonical(rows[i])
  PROVE  /\ Shown(rows) = AllDeeper(rows)
         /\ \A i \in DOMAIN AllDeeper(rows) : Canonical(AllDeeper(rows)[i])
<1>1. \A i \in DOMAIN rows :
        Normalized(rows[i], "unknown") = Deeper(rows[i]) /\ Canonical(Deeper(rows[i]))
  BY CanonicalGoesDeeper
<1>2. DOMAIN AllDeeper(rows) = DOMAIN rows /\ \A i \in DOMAIN rows : AllDeeper(rows)[i] = Deeper(rows[i])
  BY DEF AllDeeper
<1>3. Shown(rows) = AllDeeper(rows)
  BY <1>1 DEF Shown, AllDeeper
<1> QED
  BY <1>1, <1>2, <1>3

(* What readers have been shown is made of the rows, and so is what is in  *)
(* the cache.                                                              *)
ShownInv ==
  /\ \A i \in DOMAIN findings : Canonical(findings[i])
  /\ cached \in {<<>>, AllDeeper(findings)}
  /\ FindingsKeepTheirMeaning
  /\ status # "completed" => shown = <<>> /\ cached = <<>>

LEMMA InitShownInv == Init => ShownInv
BY DEF Init, ShownInv, FindingsKeepTheirMeaning

LEMMA StepShownInv == Inv /\ TierInv /\ ShownInv /\ [Next]_vars => ShownInv'
<1> SUFFICES ASSUME Inv, TierInv, ShownInv, [Next]_vars PROVE ShownInv'
  OBVIOUS
<1>1. ASSUME UNCHANGED <<findings, cached, shown>>, status' = "completed" \/ status # "completed"
      PROVE  ShownInv'
  BY <1>1 DEF ShownInv, FindingsKeepTheirMeaning, AllDeeper
<1>2. CASE BuildResults
  <2>1. /\ shown = <<>> /\ shown' = <<>> /\ cached = <<>> /\ cached' = <<>>
        /\ findings' = findings \/ findings' = StoredFindings(outputs)
    BY <1>2 DEF BuildResults, ShownInv
  <2>2. \A i \in DOMAIN StoredFindings(outputs) : Canonical(StoredFindings(outputs)[i])
    BY OutputsAreAnswers, StoredAreCanonical
  <2>3. \A i \in DOMAIN findings' : Canonical(findings'[i])
    BY <2>1, <2>2 DEF ShownInv
  <2> QED
    BY <2>1, <2>3 DEF ShownInv, FindingsKeepTheirMeaning
<1>3. CASE Read
  <2>1. /\ findings' = findings /\ status' = status /\ status = "completed"
        /\ \/ shown' = Shown(findings) /\ cached' = Shown(findings)
           \/ cached = AllDeeper(findings) /\ shown' = Shown(cached) /\ cached' = cached
    BY <1>3 DEF Read, runVars, ShownInv
  <2>2. /\ Shown(findings) = AllDeeper(findings)
        /\ \A i \in DOMAIN AllDeeper(findings) : Canonical(AllDeeper(findings)[i])
    BY ReadingGoesDeeper DEF ShownInv
  <2>3. Shown(AllDeeper(findings)) = AllDeeper(AllDeeper(findings))
    BY <2>2, ReadingGoesDeeper
  <2>4. /\ shown' \in {AllDeeper(findings), AllDeeper(AllDeeper(findings))}
        /\ cached' = AllDeeper(findings)
    BY <2>1, <2>2, <2>3
  <2>5. AllDeeper(findings)' = AllDeeper(findings)
        /\ AllDeeper(AllDeeper(findings))' = AllDeeper(AllDeeper(findings))
    BY <2>1 DEF AllDeeper
  <2>6. (\A i \in DOMAIN findings : Canonical(findings[i]))'
    BY <2>1 DEF ShownInv
  <2> QED
    BY <2>1, <2>4, <2>5, <2>6 DEF ShownInv, FindingsKeepTheirMeaning
<1>4. CASE Expire
  <2>1. cached' = <<>> /\ UNCHANGED <<findings, shown, status>>
    BY <1>4 DEF Expire, runVars
  <2> QED
    BY <2>1 DEF ShownInv, FindingsKeepTheirMeaning, AllDeeper
<1>5. ASSUME NEW a \in Agent, AgentStep(a)
      PROVE  UNCHANGED <<findings, cached, shown, status>>
  BY <1>5 DEF AgentStep, StartAgent, TimeOut, Answer, ProviderFails, runVars, contentVars
<1>6. ASSUME Finalize \/ EndTier \/ ResolveAssignments \/ (\E s \in Selections : Request(s))
             \/ UNCHANGED vars
      PROVE  \/ UNCHANGED <<findings, cached, shown>> /\ (status' = "completed" \/ status # "completed")
             \/ UNCHANGED <<findings, cached, shown, status>>
  BY <1>6 DEF Finalize, EndTier, ResolveAssignments, Request, contentVars, vars, runVars
<1>7. ASSUME UNCHANGED <<findings, cached, shown, status>> PROVE ShownInv'
  BY <1>7 DEF ShownInv, FindingsKeepTheirMeaning, AllDeeper
<1> QED
  BY <1>1, <1>2, <1>3, <1>4, <1>5, <1>6, <1>7 DEF Next

(* A finding is shown as it is stored, but for the depth of its supporting *)
(* data and for sources that are all empty, however often it is normalised *)
(* on the way (normalize_finding, results.py), whatever the agents said.   *)
THEOREM FindingsAreKept == Spec => []FindingsKeepTheirMeaning
<1>1. Inv /\ TierInv /\ ShownInv /\ [Next]_vars => ShownInv'
  BY StepShownInv
<1>2. ShownInv => FindingsKeepTheirMeaning
  BY DEF ShownInv
<1> QED
  BY ValidationInductive, InitShownInv, <1>1, <1>2, PTL DEF Spec

=============================================================================
