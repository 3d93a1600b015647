------------------------------ MODULE AgentRun ------------------------------
(***************************************************************************)
(* One run from the model selection of the request to the results a reader *)
(* is shown: each agent builds its prompt, calls its provider with retries *)
(* (or finds the answer in the cache), parses what comes back and runs its *)
(* helpers (agents/base.py, implementations.py); the tiers take in the     *)
(* outputs together, and build_and_store_results and _finalize_pipeline    *)
(* make rows and a confidence of them.  Progress events and the rows of    *)
(* the agents are in PipelineExecutor, the row of the run in PipelineRun.  *)
(***************************************************************************)
EXTENDS ModelRouter, ResultContent

CONSTANTS
  Dispatched,  \* the sets of agents a run may be left with after the gate
  Keys,        \* the sets of providers that may have a key
  Answers,     \* what the provider of each agent may answer
  Selections,  \* what clients ask for
  MaxRetries   \* settings.llm_max_retries

ASSUME RetriesAssumption == MaxRetries \in Nat

(* Answers are lists of findings, or have none. *)
ASSUME AnswersAssumption ==
  \A a \in Agent : \A ans \in Answers[a] : IsAnswer(ans)

(* resolve_tiers refuses a run whose agents depend on others that it does  *)
(* not have, except for question framing, which has run by then; only for  *)
(* the quick overview such dependencies are taken as satisfied.            *)
ASSUME DispatchedAssumption ==
  \A agents \in Dispatched :
    /\ agents \subseteq Agent
    /\ \/ agents = PlanAgents("quick_overview")
       \/ \A a \in agents : RegistryDependsOn[a] \ {"question-framing"} \subseteq agents
ASSUME KeysAssumption == Keys \subseteq SUBSET Provider

VARIABLES
  keys,       \* the providers with a key
  selection,  \* the model field of the request
  plan,       \* the agents of this run
  status,     \* of the run
  phase,      \* of each agent
  tries,      \* calls to the provider of an agent that failed, in a row
  error,      \* the last error of the provider of each agent
  answer,     \* what each agent's provider answered
  outputs,    \* context.agent_outputs
  collected,  \* the findings the validation stack was given
  validation, \* its result
  findings,   \* the finding rows of the run, in their order
  confidence, \* confidence_score of the run, -1 for none
  cached,     \* the answer of get_results in the cache, <<>> for none
  shown       \* what get_results answered last

runVars == <<keys, selection, plan, status>>
agentVars == <<phase, tries, error, answer>>
contentVars == <<collected, validation, findings, confidence, cached, shown>>
vars == <<runVars, agentVars, outputs, contentVars>>

None == [shape |-> "none"]

Unread == [raised |-> FALSE, layers |-> <<>>]

Phases == {"waiting", "calling", "completed", "failed"}
Statuses == {"requested", "running", "built", "completed", "failed"}

TypeOK ==
  /\ plan \subseteq Agent
  /\ status \in Statuses
  /\ phase \in [Agent -> Phases]
  /\ tries \in [Agent -> 0 .. MaxRetries + 1]
  /\ error \in [Agent -> {"none", "transient", "fatal", "timeout"}]
  /\ DOMAIN outputs \subseteq plan

Init ==
  /\ keys \in Keys
  /\ selection = "none"
  /\ plan \in Dispatched
  /\ status = "requested"
  /\ phase = [a \in Agent |-> "waiting"]
  /\ tries = [a \in Agent |-> 0]
  /\ error = [a \in Agent |-> "none"]
  /\ answer = [a \in Agent |-> None]
  /\ outputs = << >>
  /\ collected = <<>>
  /\ validation = Unread
  /\ findings = <<>>
  /\ confidence = -1
  /\ cached = <<>>
  /\ shown = <<>>

(* create_pipeline refuses what it does not accept.  The client's list of  *)
(* models may be from before the keys were changed.                        *)
Request(s) ==
  /\ status = "requested" /\ selection = "none"
  /\ \E seen \in Keys : s \in Offered(seen)
  /\ Accepts(s, keys)
  /\ selection' = s
  /\ UNCHANGED <<keys, plan, status, agentVars, outputs, contentVars>>

(* _run_pipeline resolves the assignments before any agent is started. *)
ResolveAssignments ==
  /\ status = "requested" /\ selection # "none"
  /\ status' = IF NothingConfigured(selection, keys) THEN "failed" ELSE "running"
  /\ UNCHANGED <<keys, selection, plan, agentVars, outputs, contentVars>>

-----------------------------------------------------------------------------
(* The agents.  The tier that runs: the agents whose dependencies, of      *)
(* those the run has, are in the outputs already.  Question framing is a   *)
(* tier of its own, and no other starts before it.                         *)

Tier ==
  IF "question-framing" \in plan \ DOMAIN outputs THEN {"question-framing"}
  ELSE {a \in plan \ DOMAIN outputs : RegistryDependsOn[a] \cap plan \subseteq DOMAIN outputs}

(* _get_question_brief asks the output of question framing for raw_text.   *)
BriefReaders == {"hypothesis", "descriptive-analytics", "overtime-trend",
                 "root-cause-investigator", "storytelling"}

UnreadableBrief(a) ==
  /\ a \in BriefReaders
  /\ "question-framing" \in DOMAIN outputs
  /\ outputs["question-framing"].shape = "list"

(* Agents whose run_helpers writes into the parsed answer. *)
Helpers == Agent \ {"question-framing", "storytelling"}

(* Mutant: a helper lets an exception through.                             *)
UnusableInTrouble(a, ans, trouble) ==
  \/ ans.shape = "unclosed"
  \/ ans.shape = "list" /\ a \in Helpers
  \/ trouble /\ a \in Helpers

(* parse_response finds no closing fence, or run_helpers no dict to write  *)
(* into.  What the queries, the statistics, the validation stack and the   *)
(* charts of the helpers come to (trouble) is caught in every helper.      *)
Unusable(a, ans, trouble) ==
  \/ ans.shape = "unclosed"
  \/ ans.shape = "list" /\ a \in Helpers

(* Mutant: what the analysts of the tier before it said is not collected.  *)
CollectRootCause == Collected([a \in DOMAIN outputs \cap {"root-cause-investigator"} |-> outputs[a]])

CollectFindings == Collected(outputs)

(* From the answer to the end of the agent nothing else runs: neither      *)
(* parse_response nor any run_helpers waits.  The state of the retries is  *)
(* gone with the call.                                                     *)
Settle(a, ans, trouble) ==
  /\ tries' = [tries EXCEPT ![a] = 0]
  /\ error' = [error EXCEPT ![a] = "none"]
  /\ answer' = [answer EXCEPT ![a] = ans]
  /\ phase' = [phase EXCEPT ![a] = IF Unusable(a, ans, trouble) THEN "failed" ELSE "completed"]
  /\ IF a = "validation" /\ ~ Unusable(a, ans, trouble)
     THEN /\ collected' = CollectFindings
          /\ validation' = Validate(CollectFindings)
     ELSE UNCHANGED <<collected, validation>>

Called(a) == a \in Tier /\ status = "running" /\ phase[a] = "calling"

(* execute up to the call: the prompt is built of the outputs there are.   *)
StartAgent(a) ==
  /\ status = "running" /\ a \in Tier /\ phase[a] = "waiting"
  /\ phase' = [phase EXCEPT ![a] = IF UnreadableBrief(a) THEN "failed" ELSE "calling"]
  /\ UNCHANGED <<runVars, tries, error, answer, outputs, contentVars>>

(* llm_retry: stop_after_attempt(1 + llm_max_retries). *)
MayCall(a) == Called(a) /\ tries[a] <= MaxRetries

(* The provider answers, or _call_llm_with_cache has kept the answer: the  *)
(* cache is looked up before the first call.                               *)
Answer(a, ans, trouble) ==
  /\ MayCall(a)
  /\ Settle(a, ans, trouble)
  /\ UNCHANGED <<runVars, outputs, findings, confidence, cached, shown>>

(* A provider's error: a transient one (is_retryable) is followed by       *)
(* another attempt while there are any, a fatal one ends the call.         *)
ProviderFails(a, kind) ==
  /\ MayCall(a)
  /\ tries' = [tries EXCEPT ![a] = @ + 1]
  /\ error' = [error EXCEPT ![a] = kind]
  /\ phase' = [phase EXCEPT ![a] =
                 IF kind = "fatal" \/ tries'[a] > MaxRetries THEN "failed" ELSE @]
  /\ UNCHANGED <<runVars, answer, outputs, contentVars>>

(* The executor's timeout comes during a call, or the pause before one. *)
TimeOut(a) ==
  /\ Called(a)
  /\ error' = [error EXCEPT ![a] = "timeout"]
  /\ phase' = [phase EXCEPT ![a] = "failed"]
  /\ UNCHANGED <<runVars, tries, answer, outputs, contentVars>>

(* _execute_tiers takes in the results of a tier when all its agents have  *)
(* ended: every agent of the registry is critical.                         *)
EndTier ==
  /\ status = "running" /\ Tier # {}
  /\ \A a \in Tier : phase[a] \in {"completed", "failed"}
  /\ IF \E a \in Tier : phase[a] = "failed"
     THEN status' = "failed" /\ UNCHANGED outputs
     ELSE /\ outputs' = [a \in DOMAIN outputs \cup Tier |->
                           IF a \in Tier THEN answer[a] ELSE outputs[a]]
          /\ UNCHANGED status
  /\ UNCHANGED <<keys, selection, plan, agentVars, contentVars>>

-----------------------------------------------------------------------------
(* The results. *)

BuildResults ==
  /\ status = "running" /\ plan = DOMAIN outputs
  /\ IF BuildRaises(outputs)
     THEN status' = "failed" /\ UNCHANGED findings
     ELSE status' = "built" /\ findings' = StoredFindings(outputs)
  /\ UNCHANGED <<keys, selection, plan, agentVars, outputs, collected, validation, confidence, cached,
                 shown>>

(* _finalize_pipeline *)
Finalize ==
  /\ status = "built"
  /\ status' = "completed"
  /\ confidence' = IF "validation" \in DOMAIN outputs THEN Confidence(validation) ELSE -1
  /\ UNCHANGED <<keys, selection, plan, agentVars, outputs, collected, validation, findings, cached,
                 shown>>

(* get_results, from the rows, whose answer it keeps, or from the cache,   *)
(* which it leaves as it is.                                               *)
Read ==
  /\ status = "completed"
  /\ IF cached = <<>>
     THEN shown' = Shown(findings) /\ cached' = Shown(findings)
     ELSE shown' = Shown(cached) /\ UNCHANGED cached
  /\ UNCHANGED <<runVars, agentVars, outputs, collected, validation, findings, confidence>>

(* The entry expires after its hour, or was never taken. *)
Expire ==
  /\ cached # <<>>
  /\ cached' = <<>>
  /\ UNCHANGED <<runVars, agentVars, outputs, collected, validation, findings, confidence, shown>>

AgentStep(a) ==
  \/ StartAgent(a) \/ TimeOut(a)
  \/ \E ans \in Answers[a], trouble \in BOOLEAN : Answer(a, ans, trouble)
  \/ \E kind \in {"transient", "fatal"} : ProviderFails(a, kind)

Next ==
  \/ \E s \in Selections : Request(s)
  \/ ResolveAssignments
  \/ \E a \in Agent : AgentStep(a)
  \/ EndTier \/ BuildResults \/ Finalize \/ Read \/ Expire

Spec == Init /\ [][Next]_vars

-----------------------------------------------------------------------------

(***************************************************************************)
(* A run fails for a reason that lies outside the analysis of its data:    *)
(* nothing is configured; or an agent of it timed out, was given up on by  *)
(* its provider (an error no retry helps, or as many transient ones as     *)
(* there are attempts), got an answer it cannot use or a brief it cannot   *)
(* read; or what an agent said is not of the shape the result rows need.   *)
(* No query, statistic, validation or chart that goes wrong fails a run.   *)
(***************************************************************************)
GivenUp(a) ==
  \/ error[a] \in {"timeout", "fatal"}
  \/ error[a] = "transient" /\ tries[a] = 1 + MaxRetries

BadAnswer(a) ==
  \/ answer[a].shape = "unclosed"
  \/ answer[a].shape = "list" /\ a # "storytelling"

RunsFailForAReason ==
  status = "failed" =>
    \/ keys = {}
    \/ \E a \in plan : GivenUp(a) \/ BadAnswer(a)
    \/ /\ plan = DOMAIN outputs
       /\ BuildRaises(outputs)

(***************************************************************************)
(* Whatever the client asked for and whenever its list of models is from,  *)
(* every agent calls a provider that has a key, with a model of that       *)
(* provider.  (The keys are those of now, from the request to the end: the *)
(* server reads them when it starts.)                                      *)
(***************************************************************************)
ConfiguredProvidersOnly ==
  \A a \in Agent :
    phase[a] = "calling" =>
      LET m == Assignment(a, selection, keys)
      IN m.provider \in keys /\ m.model \in ModelsOf(m.provider)

(***************************************************************************)
(* A finding that is stored was seen by the validation stack of the run,   *)
(* if it had one: the analysts are read by two functions, at two times.    *)
(* (A stack that raises was given it all the same.)                        *)
(***************************************************************************)
StoredFindingsWereValidated ==
  status = "completed" /\ "validation" \in plan =>
    \A a \in DOMAIN outputs \cap {Analysts[i] : i \in 1 .. 3} :
      LET out == outputs[a]
      IN /\ \A i \in DOMAIN out.findings : \E j \in DOMAIN collected : collected[j] = out.findings[i]
         /\ out.shape = "text" => \E j \in DOMAIN collected : collected[j] = Whole

(***************************************************************************)
(* The confidence a run is given never exceeds the score of its own        *)
(* validation, which is shown beside it, and is that score when no layer   *)
(* failed; only where the stack raised there is none to compare with.      *)
(***************************************************************************)
ConfidenceNeverFlatters ==
  status = "completed" /\ confidence # -1 /\ ~ validation.raised =>
    /\ confidence <= OverallScore(validation)
    /\ (\A n \in 1 .. 4 : validation.layers[n].failures = 0) => confidence = OverallScore(validation)

(***************************************************************************)
(* However often a stored finding is normalised on its way to a reader,    *)
(* the reader sees its headline, detail, impact and confidence, and its    *)
(* sources unless all of them are empty, in the order of the rows; only    *)
(* the supporting data is found one level deeper than it is stored in what *)
(* is read from the rows, and two in what is read from the cache.          *)
(***************************************************************************)
Deeper(row) ==
  [row EXCEPT !.supporting = Nested(@), !.sources = IF @ = "blank" THEN "unknown" ELSE @]

AllDeeper(rows) == [i \in DOMAIN rows |-> Deeper(rows[i])]

FindingsKeepTheirMeaning ==
  shown \in {<<>>, AllDeeper(findings), AllDeeper(AllDeeper(findings))}

=============================================================================
