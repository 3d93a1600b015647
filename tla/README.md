# A TLA+ model of The Analyst backend

The backend takes a question about an uploaded dataset, runs ten LLM agents over
it as a DAG, streams progress over a WebSocket and stores the results. This
directory models what makes that hard: which agents are run and in which order;
what happens when they run at the same time and fail or time out; how one run's
row is shared by a task, requests, readers with a cache and a crash; how events
reach clients; how an upload, deletions and readers meet in a database, a
directory and a cache; and what becomes of data and answers on the way from an
agent to the reader: computed, validated, scored, stored, normalised.

Everything is translated from the source under `src/` (`PROJECT.json`, `map`,
names the lines of every definition). Where the source leans on PostgreSQL,
SQLAlchemy or asyncio, the assumption is stated below and marked external.

## 1. The system

| Component | State | Operations | Hard because |
|---|---|---|---|
| `dag_resolver.py` | none | `resolve_tiers`, `resolve_gated_dependencies`, `filter_agents_by_plan` | arbitrary graphs: cycles, missing names, self loops |
| `registry.yaml`, `relevance_map.py`, `agent_relevance.yaml` | none | loaded at each run | agents read outputs they do not declare; the map, the plan and the graph must fit |
| `agent_gate.py` | none | `evaluate` | a closure, then a cap that does not know of it |
| `executor.py` | `context.agent_outputs` | `execute_pipeline` | concurrent coroutines, two nested timeouts, awaited callbacks that fail, partial failure of a tier |
| `api/pipelines.py`, the run | `pipeline_runs`, `agent_executions`, `analysis_results` rows | create, `_run_pipeline`, cancel | a background task, requests and the deletion of the dataset race on one row; sessions that need a rollback; a crash |
| `api/pipelines.py`, progress | `_ws_connections` | connect, disconnect, `broadcast_progress` | the list changes, in place or by replacement, under walks that await |
| `api/results.py`, `cache.py` | Redis keys | read results, findings, narrative, export | row and results read in two statements, answers kept for an hour |
| `api/datasets.py`, `file_processing.py` | `datasets` row, directory, DuckDB file, Redis keys | upload, process, detail, preview, delete | three stores updated one after the other; names that collide |
| `api/knowledge.py`, `knowledge_bootstrap.py` | corrections, learnings | create, `bootstrap_context` | a reference set to NULL means something else than it did |
| `llm/*` | a cache of answers | completion with retries | attempts under the agent's timeout, errors that no retry helps |
| `llm/model_router.py`, registry of models | none | list, accept, `resolve_assignments` | three places decide on one selection, at three times |
| `agents/*` | `context.agent_outputs` | `execute`, helpers | an answer may have any shape; some errors are caught, some are not |
| `validation_stack.py`, `confidence_scorer.py`, `result_builder.py` | result rows | validate, score, store, normalise | two collectors, two scores, three normalisations that must fit |
| `analytics_helpers.py`, `sql_helpers.py` | none | statistics by query | NULLs, ties, caps; each query may fail |
| `chart_helper.py`, `services/*_exporter.py`, `api/auth.py` | files; `users` rows | draw, export, register | layout, and a unique constraint |

How they interact. `create_pipeline` inserts the run, starts `_run_pipeline` as
a task and returns; `get_db` commits after that. The task has a session of its
own for its whole life. It resolves the models of the agents, is told
corrections and learnings, and calls `execute_pipeline` twice, for
question-framing and for the other agents, with the agent gate in between; each
call reports its progress through `_handle_progress_event`, which broadcasts and
then writes the agent's row through the task's session. Agents call a provider
and then their helpers, which query the DuckDB file of the dataset, validate
findings or draw charts into its directory. When the agents are done the task
stores the results, then commits them with the status. Cancel, the deletion of
the dataset and readers come in through sessions of their own and see only what
is committed; readers also see Redis.

## 2. Modules

```
KahnTiers ------------------------- PipelineExecutor_proof  resolve_tiers
GatedClosure ---------------------- PlanDispatch_proof      resolve_gated_dependencies
AgentRegistry <- AgentGate <- PlanDispatch - PlanDispatch_proof   which agents, in which order
DependencySchedule <- PipelineExecutor - PipelineExecutor_proof
PipelineRun <- ResultsReader ------ ResultsReader_proof     the life of a run, and those who read it
Lists ----------------------------- Lists_proof             loops over Python lists (AgentGate too)
Lists <- ProgressHub -------------- ProgressHub_proof       the WebSocket connections
Lists <- DatasetProfile <- DatasetStore <- Knowledge - Knowledge_proof   a dataset, and what is taught about it
AgentRegistry <- ModelRouter <- AgentRun - AgentRun_proof       from the model a client selects ...
Lists <- ValidationStack <- ResultContent <- AgentRun           ... to the findings it is shown
Lists <- Analytics ---------------- Analytics_proof         what agents compute of a table
MCKahnTiers, MCGatedClosure, MCPipelineExecutor, MCProgressHub,
MCKnowledge, MCAgentRun, MCAnalytics                        values for TLC
```

`A <- B` reads "B extends A" (for DependencySchedule: "B refines A").

**KahnTiers.** One action per pass of the inner loop of `resolve_tiers`. The
input (list, `depends_on`, `depends_on_any`) is chosen in `Init`. `inDegree`,
`queue`, `nextQueue`, `tierOf` are the variables of the code, `level` is
`len(tiers)`. Deques are sets: within a tier the order does not matter, so
leaving it open covers every registry order. (Its specification is `SortSpec`, and
that of GatedClosure `SearchSpec`: the proofs extend them together with the modules of
their callers.)

**GatedClosure.** One action per pass of the `while` loop of
`resolve_gated_dependencies`.

**AgentRegistry, AgentGate.** The deployed configuration as constants and the
gate as pure operators. A framing output is a record of the counts and flags the
rules look at, each up to the last threshold of any rule. `Reads` is taken from
`implementations.py`: whose output each agent looks up, declared or not.

**PlanDispatch.** One run from the requested plan to its end, one action per
stage of `_run_pipeline`: plan selection, filter and stripping, framing, gate
(applied, bypassed, or fallen back after an error or its five seconds), tiers,
one action to start and one to finish a tier. How agents of a tier interleave is
left to PipelineExecutor; that the tiers are those of KahnTiers is the theorem
`EachTierIsAWave`.

**PipelineExecutor.** One call of `execute_pipeline`, a step being what happens
between two awaits. `pc` holds the place of each coroutine (`announcing` is the
await of `agent_started`, and so on), `phase` that of `_execute_tiers`,
`collected` what the loop over the results has passed. `session` is the status of
the `agent_executions` rows as the task's `AsyncSession` has them, `rows` what the
database has committed. While a callback is in flight for an agent (its `pc` is in
`InFlight`) the session may take the status (`SetStatus`), the database the commit
(`CommitRows`, which writes whatever has changed in the session) or neither
(`LoseChanges`, after which the session may be `broken` for good); the callback
returns, raises or is cancelled independently of that, so a row may say "completed"
of an agent that the pipeline timeout cancelled after the commit. `result` remembers
what the work of an agent came to, `lost` whose last callback raised; `_emit`
swallows that. After a pipeline timeout `timing_out` is the await of
`pipeline_failed`, through the same callback and outside the timeout. Results of a
tier are taken in any order, which covers the list's order.

**DependencySchedule.** What the executor promises, without how: an agent starts
once, when all it depends on is settled, the critical ones with an output;
"completed" only when all are settled; nothing after the verdict.
PipelineExecutor refines it with `started` the agents whose `pc` has left
`waiting`, `settled` the collected ones.

**PipelineRun.** One run. `row` and `results` are what is committed; `session`
is the task's session: `clean`, `holding` (results flushed, not committed) or
`broken` (a flush failed; SQLAlchemy refuses everything until a rollback, and no
code of the task does one). It may break with a database that works: agents of a
tier use it at the same time (`LoseRowUpdate`), and JSONB may refuse the results
(`StoreResults`). `request` is `create_pipeline` with the commit of
`get_db`; `cancel[c]` is each request to cancel, reading and writing in separate
steps. The calls of `execute_pipeline` are single steps here: that they end is
`CallEnds` of PipelineExecutor, and that nothing of them is left is
`NothingOutlivesTheCall`.

**Lists.** Filtering, removing, chaining and summing, the loops and comprehensions
that several modules have. They are recursive functions over the positions of
the list, the form in which `Lists_proof` can reason about them.

**ProgressHub.** `_ws_connections` for one pipeline. `connections` is the list in
the dict; a broadcast walks a list object by index, which is the dict's list
(`shared`) until a handler's `finally` puts a new one there, from when on it is a
frozen copy (`old`). `append` and `remove` change it in place. A send is awaited,
so everything else can happen between two indices, and the timeout of the pipeline
or of the agent may end the walk there (`CutOff`).

**ResultsReader.** PipelineRun with the clients of `api/results.py`. `reader[r]`
is a request: `missed` (the cache had nothing, or failed), `half` (the run is
read), `loaded` (the results too), `answered`; `kept` is what Redis has for an
endpoint. What an endpoint keeps differs: the full answer only of a completed
run, findings and narrative whenever they are not empty, an export never.

**DatasetProfile, DatasetStore.** One dataset. DatasetProfile has the pure part:
which uploads are refused, which tables the files and sheets become, which names
collide, and the relationships `build_schema_profile` finds among them.
DatasetStore has the transaction of `create_dataset` (`upload.at`), the
directory (`dir`), the DuckDB file (`database`), the committed `row` and
`profile`, the detail in Redis (`cached`), deletions, readers, and a run that
makes the directory of its charts when the chart maker has answered. An upload may
fail for what it is and not for a fault: a file whose name cannot be written, or a
profile that JSONB does not take (`Storable`: the null rate of a file without rows
is NaN), which the commit at the end of the request finds out.

**Knowledge.** DatasetStore with corrections and learnings. `entries` are the
rows with `about` as the row has it and `meant` as the user said it; the cascade
of the foreign key happens in the step that commits the deletion. `told` is what
the last `bootstrap_context` handed to a run, on this dataset or on another.

**ModelRouter, ValidationStack, ResultContent.** Pure operators. ModelRouter: the
static registry, what is offered, accepted and assigned. ValidationStack: each
layer as counts of checks, failures and warnings over findings reduced to the
fields the layers look at, the score of the stack and the confidence of the run.
ResultContent: what is collected for validation (under any key the validation agent
accepts), what is stored (only of `findings`), which answers the rows or the database
refuse, and the normalisation, which is applied when a finding is stored, when its
row is read, and again when the cached answer is read. It nests `supporting_data` one
level deeper each time.

**AgentRun.** One run from the selection of a model to what a reader is shown.
`phase[a]` is the place of each agent, `tries` and `error` what its provider has
done to it, `answer` what it said; `outputs` takes a tier in together. Here the
helpers of an agent are one step with the answer (they wait for nothing), the
validation agent's being the one that changes state. How
coroutines, callbacks and rows interleave is PipelineExecutor's; here agents of a
tier go on in any order and what matters is what they say. A reader is served from the
rows, which fills `cached`, or from there, which stores nothing back.

**Analytics.** The helpers of four agents over the first table of a dataset, in
the order of their tiers; each query may fail by itself, and between two agents
the file may be removed. What a query answers is written as SQL defines it, with
every order of ties.

External assumptions. A statement, flush or commit may fail at any time
(`Fault`). A write to a row that is gone fails. `DELETE` waits for a transaction
that has inserted a row referring to what it deletes (the foreign-key lock of
PostgreSQL), which is why `DeleteDataset` is not enabled while the run or its
results are flushed and not committed. Foreign keys cascade from datasets to
runs to results, and set the dataset of a correction to NULL.
`asyncio.gather(return_exceptions=True)` returns when all its coroutines are
done; a cancelled timeout scope cancels them. Redis drops a key when its time is
over. A provider answers, fails or hangs; what its SDK does inside is left open.

## 3. Checks

Passing runs. Every property has a mutant, an operator next to the one it
replaces that changes it the way a plausible bug would; TLC finds the property
violated with the mutant in place.

| Run | Bounds | Shows |
|---|---|---|
| `kahn_tiers` | every graph of up to 4 names, one `depends_on_any` entry | the tiers are the earliest schedule (`TiersRespectDependencies`); a cycle error is never false (`CycleIsReal`) |
| `gated_closure` | every graph of up to 3 names, every selection | the result is closed (`ResultIsClosed`) and the least such set (`NothingElseIncluded`) |
| `plan_dispatch` | the deployed registry, all plans, all framing classes | agents start after what they read (`ReadsAreReady`); a run is unschedulable only in the two known ways (`UnresolvableOnlyWhenCapped`); every agent ran or is gated out, and the metrics agree (`EveryAgentAccountedFor`); nothing is skipped without a decision (`NothingSkippedWithoutReason`) |
| `executor` | 4 agents in 3 tiers, two side by side, one of them not critical | refinement of DependencySchedule; no coroutine outlives the call; siblings do not see each other's output; one report per agent; what a row says of an agent's work is true, also when the agent is cancelled after the commit (`RowsAreTrue`), and never goes back; a completed call has reported everything (`CompletedCallIsReported`); the call ends although agents, and the callbacks under its timeout, hang (`CallEnds`) |
| `run_lifecycle` | 2 cancels, 2 database faults, a session that may break without one, 1 crash, 1 deletion, 1 client that reads again and again, two endpoints that keep by different rules | completed means results, results mean a final status, `pipeline_completed` means both (`CompletedRunHasResults`, `NoResultsBeforeTheEnd`, `CompletionIsDurable`); a rolled back creation runs nothing; a deleted run stays deleted; an answer, kept or fresh, that says completed has the results (`AnswersAreWhole`); a running run ends unless its session broke (`RunningEnds`); a deleted run is not served for ever (`DeletedRunIsForgotten`) |
| `progress_hub` | 3 clients, 2 overlapping broadcasts that may be cut off, symmetric | no event twice, no live client dropped, nothing leaks, and while nobody leaves every event that is not cut off reaches everyone |
| `datasets` | 10 uploads (refused, unparsable, not writable, without rows, with headers that are no text, empty sheets, colliding names, several tables), 2 deletions, 1 reader, 1 run, 1 fault, 1 crash, 2 entries with a limit of 1 | a ready dataset can be read until a deletion removes its files (`ReadyDatasetIsReadable`); the profile names the tables there are and their relationships (`ProfileFitsDatabase`); without faults no file of a dataset is left without an owner, late charts and the files of an upload that could not be written or stored apart (`FilesHaveOwner`); a deleted dataset is not served for ever (`DeletedDatasetIsForgotten`); a run is told the newest corrections meant for it, and after a deletion also those that lost their dataset (`RunsAreToldTheirCorrections`) |
| `agents` | 3 sets of dispatched agents, 3 sets of keys, 4 selections, 2 retries, answers of every shape, findings that pass, warn, fail or break each layer | a run fails only for the listed reasons (`RunsFailForAReason`); a provider without a key is never called (`ConfiguredProvidersOnly`); what is stored was validated (`StoredFindingsWereValidated`); the run's confidence never exceeds the score of its validation (`ConfidenceNeverFlatters`); however often it is normalised, a finding is shown with the headline, detail, impact, confidence, order and (unless all empty) sources that are stored, its supporting data one level deeper from the rows and two from the cache (`FindingsKeepTheirMeaning`) |
| `analytics` | the empty table, all 3-row tables of 14 rows (NULLs, ties, a segment called "Other", one called "null"), weeks of 7 days; 1 failing query, a deletion | counts and sums of four agents agree, as far as their queries answered and nothing is capped away (`AgentsAgree`); less than a quarter of the points of a series are anomalies (`AnomaliesAreRare`) |

Why the bounds are enough. Four names hold a diamond, a chain of four tiers, a
cycle behind a chain; the theorems cover the rest. The gate's rules have no
threshold above the bounds of `Framing`. In the executor the graph has a
concurrent tier, a join and a successor, and a critical and a non-critical agent
next to each other; the theorems cover all graphs. Two faults let a lost row
update be followed by a second failure; two cancels let each overwrite the other's
view. Two broadcasts and three clients give a walk whose list loses an element
before, at and after its index, by the other broadcast or by a handler. One
reader that may ask any number of times is enough to fill a cache and find it
filled; a second one would only read at the same time. Two deletions let the
second find the directory or the row gone. Three rows and a cap of two segments
put one, none or two segments under "Other"; a top of two lets a segment be at the
top of one ranking and beyond the cap of the other; of seven days the
row limit leaves six, the fewest that can hold an anomaly. Reading from the
rows and then from the cache normalises a finding as often as the code can: the cache
is not filled from itself.

Fairness. `PipelineExecutor`: the timer of the pipeline fires, and the two events
that the code sends outside that timeout, `pipeline_started` before and
`pipeline_failed` after it, are sent: for these two the callback writes no row, it only
waits for clients, and the server closes a connection that does not answer its pings.
Nothing is assumed of agents, nor of the callbacks under the timeout, which may hang on
the database as well. `PipelineRun`: the event loop goes on with a task or a
request it has begun; nothing makes a client cancel or delete. The broadcasts of
a run end because the server closes a connection that does not answer.
`ResultsReader` adds that requests to read are answered and that Redis drops an
entry after its hour; `Knowledge` that readers of a dataset are answered and
that Redis drops the detail after five minutes. No client has to do anything.
`KahnTiers`, `GatedClosure`, `PlanDispatch`, `ProgressHub`, `AgentRun` and
`Analytics` are checked for safety only.

Violations, each a statement of the repository that the code does not keep:

| Run | The repository says | The code does |
|---|---|---|
| `lifecycle_order` | queued, running, completed, failed or cancelled (`pipelines.py:92`) | the task and the cancel request overwrite each other's final status |
| `created_run_starts` | "Create and start a new analysis pipeline" (`pipelines.py:46`) | the task may read before the row is committed; it dies, the run stays queued |
| `failure_is_recorded` | "Mark pipeline as failed, commit, and broadcast" (`pipelines.py:693`) | after a failed flush (agents that collide in the one session, results that JSONB refuses; no fault of the database is needed) the handler's commit fails too; the run stays running |

Also seen while modelling; where a property has an exception for one of these,
the comment of the property says so.

- Scheduling. The gate's cap to five agents comes after "Resolve DAG dependencies
  to ensure integrity" (`agent_gate.py:384`, `:397`) and drops dependencies: a deep
  dive of low complexity whose closure is larger fails in `resolve_tiers`.
  `validate_only` always fails, since `validation` depends on an agent outside the
  plan (`pipelines.py:74`, `:747`). `UnresolvableOnlyWhenCapped` says that these are
  the only two ways. In `quick_overview` three of the four agents run side by side,
  whatever they read of each other, so `ReadsAreReady` leaves that plan out.
- Runs. A cancelled run goes on to run its agents (`pipelines.py:382`). A call that
  fails stops at the first critical failure of a tier and leaves the others
  unreported (`executor.py:111`). A run that was queued or running when the server
  stopped stays so (`main.py:24`). A WebSocket handler lasts until its client goes;
  a broadcast that removes a dead connection may make another walk skip a live one
  (`pipelines.py:511`).
- Answers of models. A code fence that is not closed raises although the
  docstring promises raw text (`agents/base.py:89`, `:104`). A brief, story or chart
  that is a list, or holds an item that is not an object, fails the whole run. An
  error inside the validation stack is caught and leaves a confidence of 1.0.
  `complete_json` with its nested retries is never called. "auto" is accepted with
  nothing configured and fails in the task.
- Results. Charts are drawn at `storage/<dataset>/charts/<run>` and looked for
  elsewhere, so none is served. `results.py:345` documents the supporting data of a
  finding as the agent gave it; it is stored one level down under the same key
  (`result_builder.py:131`), shown two levels down from the rows, and three from the
  cache. A source that is an empty string is stored as a list of it and shown as
  "unknown". Findings that an analyst lists under `results` or `analysis` are validated
  and not stored. A run shows two scores, the stack's `overall_score` and its own
  confidence.
- Datasets. A preview of an unknown table is a 500 and not the documented 404. A
  deletion whose commit fails leaves a ready dataset without files. Charts drawn
  after the deletion stay, and so does `storage/<run>/exports` always
  (`results.py:726`). A name that cannot be written raises outside the try that cleans
  up (`datasets.py:181`). A csv file without rows has null rates that are NaN
  (`file_processing.py:111`): JSONB refuses the profile at the commit, so that neither
  "ready" nor "error" (`datasets.py:125`) is recorded, and the files stay. The
  corrections of a deleted dataset reach every run (`knowledge.py:91` speaks of the
  same dataset). Of two files that become one table the profile keeps both
  entries, so the columns it lists for the name may be those of the table that was
  replaced; `ProfileFitsDatabase` looks at names and relationships.
- Analytics. Daily series are cut off at 10,000 rows without a word. The mean of
  "Other" is a mean of means. A time series of an empty table raises, and is
  reported as an error. Queries are synchronous inside coroutines: each may hold the
  event loop for its 30 seconds.

## 4. Proofs

For all values of the constants (any set of names or agents, any graph, any
tiering that respects it, any number of cancels, faults and crashes).

- `PipelineExecutor_proof`, first about KahnTiers, from `NameAssumption` (finitely
  many names). The inductive invariant `TiersInv` says that the in-degree of an unplaced agent is the number of its
  dependencies that are not placed, that what is queued for tier *k* has all its
  dependencies below *k* and one in *k-1*, and that an unplaced agent that is
  not queued has an unplaced dependency. The last part is what turns an empty
  queue into a real cycle. `ExecutorGetsSchedule` then says that what resolve_tiers
  returns is what the executor assumes of its tiers, and `EachTierIsAWave` that a tier
  is what PlanDispatch takes for the next one. Then the executor, from
  `TiersAssumption`. `IInv` describes closed tiers (all collected), the current tier
  (coroutines alive only while gather waits) and later tiers (not started), what
  has been reported and what the work came to given where the coroutine is, and
  that what the session says of an agent is true (`SessionIsTrue`) and never behind
  the rows (`SessionAhead`), so that a commit, whoever makes it and whatever becomes
  of its callback, writes what is true. From it: the safety properties of the `executor` run, and
  `Refinement`, where each step is a step of DependencySchedule or a stutter
  (`LaunchedCanStart` is the step that needs the tiers).
- `PlanDispatch_proof`. First GatedClosure, for any names and dependencies: what
  was visited and left the queue has its dependencies included; everything included
  is in each closed superset of the selection. Then the operator that stands for it in
  AgentGate: a pass that does not end in a closed set takes in another available
  agent, so there are never more passes than agents (`PassGrows`, `GateClosure`), and
  on the graph of the registry the search returns the same set (`SearchIsTheGate`).
  From this what a decision of the gate is worth (`DecisionIsSound`) and the invariants
  of PlanDispatch. `ReadsAreReady` is about reads that no dependency declares; what
  makes it inductive is the third conjunct of `Tiers`: with an agent that has been run,
  every agent that needs no more than it has been run too.
- `ResultsReader_proof`, from `BoundsAssumption` and, for any set of readers and
  endpoints, `EndpointAssumption`. The properties of the run are not inductive: a
  task that holds flushed results must not have a row that is already gone, a
  task that has passed its first commit must belong to a committed request, and a
  finalising task with extracted results must hold them. Those are the named
  conjuncts of `IInv`. A step of the run preserves `IInv`; `ReaderInv` adds that a
  run is gone only with its dataset, and what a request knows at each of its
  places: that having seen results, or "completed", it has seen them of a run that
  is over, and that a run that is over stays so unless it is deleted.
  `AnswersAreWhole` follows.
- `Lists_proof`. The library's induction theorems take a predicate as a parameter,
  which the provers cannot instantiate. Here induction is over a set: the set of the
  numbers up to *n* for which something fails would have a least element (`Least`, from
  well-foundedness), and `Recursion` gives the function that a recursive definition
  over `0 .. n` speaks of. For each loop there is one lemma on its passes
  (`ThoseLoop`, `FlatLoop`, `SumLoop`) and one theorem on what it returns. Sums add up,
  grow with their numbers, and are the sum of the sums of the parts they are cut into
  (`SumOverParts`, by the same induction over the size of the set of parts).
- `ProgressHub_proof`, for any set of clients and broadcasts. `IInv` says of the
  list in the dict that it has each open connection once and none whose handler has
  ended (`Listed`), of the lists that only walks still have that they were made of
  such connections (`OldListed`), and of each walk that what lies ahead of its index
  has not got the event (`Walks`). Removal in place moves items to the left, so that
  a walk may skip a client but never meets one twice: that is `Shortened` of
  `Lists_proof`. While nobody leaves nothing is removed, the walk is over the dict's
  own list, and those behind its index have the event (`Served`).
- `Knowledge_proof`, from `StoreAssumption`, for any uploads, deletions, readers,
  faults and crashes, and any `Limit`. `UploadInv` says at each place of the upload
  what is in the directory and the database, `CommittedInv` ties the committed row to
  both: a deletion is the only thing that takes files from a ready row. What a run
  is told needs only that a correction has lost its dataset in no other way than by
  the deletion. `ProfilesFit` rests on `OffersAssumption` too (an upload is a list of
  files, a file a list of sheets, a column has finitely many values): of the tables
  with one name the database has the last (`Greatest`), the profile lists the name
  once, and each two tables that overlap are compared in the order of the list, so
  that one of the two directions is found (`ProfileOfDatabase`).
- `AgentRun_proof`, from `RetriesAssumption`, `KeysAssumption`, `AnswersAssumption` and
  `DispatchedAssumption`, for any answers. `Inv`: an agent that failed has a reason;
  agents leave `waiting` only after the selection was accepted and resolved among the
  keys of now; outputs are the answers of completed agents. `TierInv`: an agent that
  has begun has the outputs of those it depends on. `ValidatedInv`: what the validation
  agent was given is what would be collected now, because the agents whose findings it
  collects have ended before it begins (`AnalystsHaveEnded`). From these
  `StoredFindingsWereValidated`; with the lemma that the confidence of the run takes
  away for a failed check at least what the score does (`ConfidenceAndScore`, layer by
  layer), `ConfidenceNeverFlatters`. `ShownInv` says that what is stored is canonical
  (`NormalizedIsCanonical`, `RawIsCanonical`, and `RowsAreCanonical` for lists of any
  length); a normalisation of a canonical finding does no more than take its supporting
  data down a level and name sources that are blank (`CanonicalGoesDeeper`), and leaves
  it canonical. That is `FindingsKeepTheirMeaning`.

- `Analytics_proof`, from `TablesAssumption` and `BoundsAssumption`, for any tables and
  limits. The invariant is short: what is in a report was computed of the table
  (`ReportInv`). The rest is about the operators. A segmentation and a series put each
  row into one group, by its segment and by the position of its period
  (`EveryPositionHasAPeriod`: the order of the periods has no gaps), so that
  `GroupsAddUp` applies; for a capped segmentation this is where the ranking must have
  every segment once. `TiedSegment` is a pigeonhole: a segment that is among the top of
  one ranking and beyond the cap of the other leaves a place to one that comes after it
  in the first and before it in the second. `FewAreLarge` is Chebyshev's inequality:
  too many points far from the mean would have more than the squared deviation.

Assumptions on constants, each checked by TLC on the instance of its run.
`AnswersAssumption`: an answer is any value whose findings, when it has some, are a
list of records with the fields the code looks up (`IsAnswer`); that a field is
missing or has the wrong type is a value of the field. `DispatchedAssumption`: the
agents of a run are those of the quick overview, whose missing dependencies the code
takes as satisfied, or closed under the dependencies of the registry, question framing
apart, which has run before; `resolve_tiers` raises on any other set.

Only model-checked: liveness (`CallEnds`, `RunningEnds`, `DeletedRunIsForgotten`,
`DeletedDatasetIsForgotten`), which rests on fairness and ENABLED. Every safety
property that a passing run checks is stated by a theorem. The theorems on AgentRegistry,
AgentGate and PlanDispatch are about the deployed registry and relevance map, which
are definitions and not constants.

## 5. Not modelled

- Correlation, hypothesis tests and their corrections, z-scores beyond what
  `AnomaliesAreRare` needs: floating-point numerics. Scores and confidences are taken
  as exact, in ten-thousandths, and so are the sums of Analytics: where the code adds
  doubles in different orders, its agents agree up to rounding. A stack that raises
  counts as having been given what was collected. A finding without `supporting_data`
  is taken as one where it is empty.
- Validation and parsing of SQL, reading numbers and words out of text, prompts:
  functions on text. What the validation stack reads out of a finding is a field of
  the finding.
- Rendering and conversion of charts, layout of exports, list endpoints that read
  one statement, cost estimates: no state, or one statement.
- Authentication: tokens are stateless, and registration is a check and an insert
  that the unique constraint on the email decides; a model would restate it. Rate
  limits and the check of the token before `accept` do not touch the modelled state.
- Configuration, logging and migrations: what `main.py` does at startup, which is
  nothing about unfinished runs, is in `Crash` of PipelineRun. The keys of the
  providers are read once, when the server starts, and do not change during a run.
- Time: a timeout may fire whenever its scope is open, an entry of a cache may
  expire whenever it is there. That a synchronous query delays all timeouts is
  therefore not visible.
- Several runs or datasets: runs share no row, no connection list and no key;
  what they share of a dataset is the run of DatasetStore, and what they share of
  the knowledge base is the other place of Knowledge.
