---------------------------- MODULE ModelRouter ----------------------------
(***************************************************************************)
(* Which model each agent of a run calls: what create_pipeline accepts as  *)
(* a selection, and what resolve_assignments makes of it in the task, from *)
(* the static registry of providers and the keys that are configured.      *)
(***************************************************************************)
EXTENDS AgentRegistry

(* _PROVIDERS, the default model of each first. *)
Models ==
  [anthropic |-> <<"claude-sonnet-4-20250514", "claude-haiku">>,
   openai    |-> <<"gpt-4o", "gpt-4o-mini">>,
   gemini    |-> <<"gemini-2.5-pro">>,
   groq      |-> <<"llama-3.3-70b-versatile">>]

Provider == DOMAIN Models

ModelsOf(p) == {Models[p][i] : i \in DOMAIN Models[p]}

DefaultModel(p) == Models[p][1]

ModelId == UNION {ModelsOf(p) : p \in Provider}

(* get_provider_for_model *)
ProviderFor(model) == CHOOSE p \in Provider : model \in ModelsOf(p)

(* What list_models offers: a provider stands for its default model. *)
Offered(available) ==
  {"auto"} \cup available \cup UNION {ModelsOf(p) \ {DefaultModel(p)} : p \in available}

(* create_pipeline: a known selection whose provider has a key.  "auto" is *)
(* accepted whatever is configured.                                        *)
Accepts(selection, available) ==
  \/ selection = "auto"
  \/ selection \in Provider \cap available
  \/ selection \in ModelId /\ ProviderFor(selection) \in available

(* model_tier of registry.yaml *)
ModelTier ==
  [a \in Agent |->
     CASE a \in {"question-framing", "data-explorer"} -> "fast"
       [] a \in {"root-cause-investigator", "validation"} -> "premium"
       [] OTHER -> "standard"]

TierPriorities ==
  [premium  |-> <<"anthropic", "openai", "gemini", "groq">>,
   standard |-> <<"gemini", "openai", "anthropic", "groq">>,
   fast     |-> <<"groq", "anthropic", "openai", "gemini">>]

(* Mutant: the first of the list, configured or not.                       *)
PickFirst(tier, available) == TierPriorities[tier][1]

(* _pick_provider_for_tier: each list names every provider, so that one of *)
(* them is available when any is.                                          *)
PickProvider(tier, available) ==
  LET order == TierPriorities[tier]
      i == CHOOSE n \in DOMAIN order :
             order[n] \in available /\ \A m \in 1 .. (n - 1) : order[m] \notin available
  IN order[i]

(* resolve_assignments raises ConfigurationError. *)
NothingConfigured(selection, available) == selection = "auto" /\ available = {}

(* resolve_assignments: _resolve_auto, _resolve_provider, _resolve_model_id *)
Assignment(a, selection, available) ==
  LET provider == CASE selection = "auto" -> PickProvider(ModelTier[a], available)
                    [] selection \in Provider -> selection
                    [] OTHER -> ProviderFor(selection)
  IN [provider |-> provider,
      model |-> IF selection \in ModelId THEN selection ELSE DefaultModel(provider)]

=============================================================================
