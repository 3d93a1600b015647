-------------------------- MODULE PipelineExecutor --------------------------
(***************************************************************************)
(* One call of execute_pipeline (app/orchestration/executor.py) with the   *)
(* callback that _run_pipeline gives it (_handle_progress_event in         *)
(* app/api/pipelines.py): the tiers one after the other, the agents of a   *)
(* tier as concurrent coroutines under asyncio.gather, a timeout for each  *)
(* agent and one for the whole call, and the agent_executions rows that    *)
(* the progress events write.                                              *)
(*                                                                         *)
(* A step is what happens between two awaits.  The work of an agent (the   *)
(* LLM call, the helpers) is a step that may return, raise, or never come. *)
(* A progress event is awaited: the pc of its agent says that the callback *)
(* is in flight until the step that ends it, and while it is the agent's   *)
(* row is looked up and changed in the session, committed, or neither, in  *)
(* steps of their own.  The results of a tier are taken in any order: the  *)
(* code takes them in the order of the tier's list.                        *)
(***************************************************************************)
EXTENDS Naturals, FiniteSets

CONSTANTS
  Agent,         \* the agents of the call
  DependsOn,     \* AgentNode.depends_on
  Critical,      \* agents with is_critical
  TierOf,        \* AgentNode.tier, as resolve_tiers set it
  NumTiers       \* len(tiers)

(* The tiers t, so many of them, are a schedule of the agents A with the    *)
(* dependencies deps: every dependency is in an earlier tier.               *)
IsSchedule(A, deps, t, tiers) ==
  /\ deps \in [A -> SUBSET A]
  /\ tiers \in Nat
  /\ t \in [A -> Nat]
  /\ \A a \in A : t[a] < tiers
  /\ \A a \in A : \A d \in deps[a] : t[d] < t[a]

(* What resolve_tiers returns (KahnTiers) is such a schedule.               *)
ASSUME TiersAssumption ==
  Critical \subseteq Agent /\ IsSchedule(Agent, DependsOn, TierOf, NumTiers)

VARIABLES
  phase,      \* where execute_pipeline is
  tier,       \* tier_idx
  pc,         \* where the coroutine of each agent is
  collected,  \* agents whose result the loop over results has passed
  outputs,    \* keys of context.agent_outputs
  session,    \* status of each agent's row as the AsyncSession has it
  broken,     \* the session refuses every statement until a rollback
  rows,       \* status of each agent's row in the database
  result,     \* what the work of each agent came to (history)
  lost,       \* agents whose last callback raised (history)
  reports     \* per agent, how many ends were given to the callback (history)

scheduleVars == <<tier, collected, outputs>>
rowVars == <<session, broken, rows>>
vars == <<phase, pc, scheduleVars, rowVars, result, lost, reports>>

Phases ==
  {"starting", "launching", "tier", "collecting", "timing_out", "completed", "failed"}

(* "error" is a PipelineError raised by the coroutine, "raised" any other  *)
(* exception, "empty" the {} of a non-critical agent that timed out;       *)
(* "reporting_exception" is of the loop over the results.                  *)
AgentStates ==
  {"waiting", "announcing", "working", "reporting", "reporting_timeout", "returned",
   "empty", "raised", "error", "cancelled", "reporting_exception"}

(* The coroutine is alive; a callback about the agent is.                  *)
Active   == {"announcing", "working", "reporting", "reporting_timeout"}
InFlight == {"announcing", "reporting", "reporting_timeout", "reporting_exception"}

RowStatus == {"queued", "running", "completed", "failed"}

TypeOK ==
  /\ phase \in Phases
  /\ tier \in 0 .. NumTiers
  /\ pc \in [Agent -> AgentStates]
  /\ collected \subseteq Agent
  /\ outputs \subseteq Agent
  /\ session \in [Agent -> RowStatus]
  /\ broken \in BOOLEAN
  /\ rows \in [Agent -> RowStatus]
  /\ result \in [Agent -> {"none", "returned", "raised", "timed_out"}]
  /\ lost \subseteq Agent
  /\ reports \in [Agent -> Nat]

Tier(k) == {a \in Agent : TierOf[a] = k}

(* A run makes two calls with one session: the first may have broken it. *)
Init ==
  /\ phase = "starting"
  /\ tier = 0
  /\ pc = [a \in Agent |-> "waiting"]
  /\ collected = {}
  /\ outputs = {}
  /\ session = [a \in Agent |-> "queued"]
  /\ broken \in BOOLEAN
  /\ rows = [a \in Agent |-> "queued"]
  /\ result = [a \in Agent |-> "none"]
  /\ lost = {}
  /\ reports = [a \in Agent |-> 0]

Ended == phase \in {"completed", "failed"}

-----------------------------------------------------------------------------
(* The callback: it broadcasts the event, then looks the row up, sets its  *)
(* status and commits.  All callbacks of a run use one AsyncSession.       *)

(* The status that the callback in flight for an agent is about. *)
Told(a) ==
  IF pc[a] = "announcing" THEN "running"
  ELSE IF pc[a] = "reporting" THEN "completed" ELSE "failed"

(* Mutant: the query forgets the name of the agent.                        *)
SetTierStatus(a) ==
  /\ pc[a] \in InFlight
  /\ ~ broken
  /\ session' = [b \in Agent |-> IF TierOf[b] = TierOf[a] THEN Told(a) ELSE session[b]]
  /\ UNCHANGED <<phase, pc, scheduleVars, broken, rows, result, lost, reports>>

(* ae.status = status, on the one object that the session has for the row. *)
SetStatus(a) ==
  /\ pc[a] \in InFlight
  /\ ~ broken
  /\ session' = [session EXCEPT ![a] = Told(a)]
  /\ UNCHANGED <<phase, pc, scheduleVars, broken, rows, result, lost, reports>>

(***************************************************************************)
(* The database takes a commit, which writes all that has changed in the   *)
(* session, whoever changed it.  The commit is that of a callback that has *)
(* set its status (db.commit() may still be awaited, and be cancelled, or  *)
(* fail, after this step), or a later one: one that was cut off when the   *)
(* call timed out, or of what _run_pipeline does after the call.           *)
(***************************************************************************)
CommitRows ==
  /\ \/ \E a \in Agent : pc[a] \in InFlight /\ session[a] = Told(a)
     \/ phase = "timing_out" \/ Ended
  /\ ~ broken
  /\ rows' = session
  /\ UNCHANGED <<phase, pc, scheduleVars, session, broken, result, lost, reports>>

(***************************************************************************)
(* A flush or a commit fails (two agents at once in the session or on its  *)
(* connection, an error of the database, a callback cancelled in the       *)
(* middle of it): the session gives up what it has not committed, and may  *)
(* refuse all that follows, since nobody rolls it back.                    *)
(***************************************************************************)
LoseChanges ==
  /\ \/ \E a \in Agent : pc[a] \in InFlight
     \/ phase = "timing_out" \/ Ended
  /\ session' = rows
  /\ broken' \in {broken, TRUE}
  /\ UNCHANGED <<phase, pc, scheduleVars, rows, result, lost, reports>>

(***************************************************************************)
(* The callback of an agent is over: it returns after its commit, or it    *)
(* raises at any point (a broadcast that fails, a session that is in use   *)
(* or broken, a commit that the database took or did not take), and _emit  *)
(* swallows the exception.                                                 *)
(***************************************************************************)
CallbackEnds(a) ==
  \/ rows[a] = Told(a) /\ lost' = lost \ {a}
  \/ lost' = lost \cup {a}

Report(a) == reports' = [reports EXCEPT ![a] = @ + 1]

-----------------------------------------------------------------------------

(* pipeline_started, outside the pipeline timeout *)
StartPipeline ==
  /\ phase = "starting"
  /\ phase' = IF NumTiers = 0 THEN "completed" ELSE "launching"
  /\ UNCHANGED <<pc, scheduleVars, rowVars, result, lost, reports>>

(* tier_started, then gather starts a coroutine for every agent. *)
LaunchTier ==
  /\ phase = "launching"
  /\ phase' = "tier"
  /\ pc' = [a \in Agent |-> IF a \in Tier(tier) THEN "announcing" ELSE pc[a]]
  /\ UNCHANGED <<scheduleVars, rowVars, result, lost, reports>>

(* _run_single_agent, one step per await *)
Announced(a) ==
  /\ pc[a] = "announcing"
  /\ pc' = [pc EXCEPT ![a] = "working"]
  /\ CallbackEnds(a)
  /\ UNCHANGED <<phase, scheduleVars, rowVars, result, reports>>

WorkReturns(a) ==
  /\ pc[a] = "working"
  /\ pc' = [pc EXCEPT ![a] = "reporting"]
  /\ result' = [result EXCEPT ![a] = "returned"]
  /\ Report(a)
  /\ UNCHANGED <<phase, scheduleVars, rowVars, lost>>

WorkRaises(a) ==
  /\ pc[a] = "working"
  /\ pc' = [pc EXCEPT ![a] = "raised"]
  /\ result' = [result EXCEPT ![a] = "raised"]
  /\ UNCHANGED <<phase, scheduleVars, rowVars, lost, reports>>

AgentTimeout(a) ==
  /\ pc[a] = "working"
  /\ pc' = [pc EXCEPT ![a] = "reporting_timeout"]
  /\ result' = [result EXCEPT ![a] = "timed_out"]
  /\ Report(a)
  /\ UNCHANGED <<phase, scheduleVars, rowVars, lost>>

(* Mutant: the coroutine itself stores its output in the context.          *)
ReportedAndStored(a) ==
  /\ pc[a] = "reporting"
  /\ pc' = [pc EXCEPT ![a] = "returned"]
  /\ outputs' = outputs \cup {a}
  /\ CallbackEnds(a)
  /\ UNCHANGED <<phase, tier, collected, rowVars, result, reports>>

ReportedCompleted(a) ==
  /\ pc[a] = "reporting"
  /\ pc' = [pc EXCEPT ![a] = "returned"]
  /\ CallbackEnds(a)
  /\ UNCHANGED <<phase, scheduleVars, rowVars, result, reports>>

ReportedTimeout(a) ==
  /\ pc[a] = "reporting_timeout"
  /\ pc' = [pc EXCEPT ![a] = IF a \in Critical THEN "error" ELSE "empty"]
  /\ CallbackEnds(a)
  /\ UNCHANGED <<phase, scheduleVars, rowVars, result, reports>>

(* Mutant: gather without return_exceptions.                               *)
GatherRaises ==
  /\ phase = "tier"
  /\ \/ \A a \in Tier(tier) : pc[a] \notin Active
     \/ \E a \in Tier(tier) : pc[a] \in {"raised", "error"}
  /\ phase' = "collecting"
  /\ UNCHANGED <<pc, scheduleVars, rowVars, result, lost, reports>>

(* gather(return_exceptions=True) returns when no coroutine is left. *)
GatherReturns ==
  /\ phase = "tier"
  /\ \A a \in Tier(tier) : pc[a] \notin Active
  /\ phase' = "collecting"
  /\ UNCHANGED <<pc, scheduleVars, rowVars, result, lost, reports>>

-----------------------------------------------------------------------------
(* The loop over the results of a tier. *)

Uncollected == Tier(tier) \ collected

(* The loop is at the result of this agent; it is not while it awaits the  *)
(* callback for the exception of another.                                  *)
AtResult(a) ==
  /\ phase = "collecting"
  /\ a \in Uncollected
  /\ \A b \in Agent : pc[b] # "reporting_exception"

TakeOutput(a) ==
  /\ AtResult(a)
  /\ pc[a] \in {"returned", "empty"}
  /\ outputs' = outputs \cup {a}
  /\ collected' = collected \cup {a}
  /\ UNCHANGED <<phase, tier, pc, rowVars, result, lost, reports>>

(* Mutant: a PipelineError is reported again before it is raised.          *)
ReportAndRaise(a) ==
  /\ AtResult(a)
  /\ pc[a] = "error"
  /\ phase' = "failed"
  /\ Report(a)
  /\ UNCHANGED <<pc, scheduleVars, rowVars, result, lost>>

(* if isinstance(result, PipelineError): raise result *)
RaisePipelineError(a) ==
  /\ AtResult(a)
  /\ pc[a] = "error"
  /\ phase' = "failed"
  /\ UNCHANGED <<pc, scheduleVars, rowVars, result, lost, reports>>

(* Mutant: only the exceptions that end the run are reported.              *)
ReportCriticalException(a) ==
  /\ AtResult(a)
  /\ pc[a] = "raised"
  /\ \/ /\ a \in Critical
        /\ pc' = [pc EXCEPT ![a] = "reporting_exception"]
        /\ Report(a)
        /\ UNCHANGED collected
     \/ /\ a \notin Critical
        /\ collected' = collected \cup {a}
        /\ UNCHANGED <<pc, reports>>
  /\ UNCHANGED <<phase, tier, outputs, rowVars, result, lost>>

(* Any other exception is reported here, not by the agent's coroutine. *)
ReportException(a) ==
  /\ AtResult(a)
  /\ pc[a] = "raised"
  /\ pc' = [pc EXCEPT ![a] = "reporting_exception"]
  /\ Report(a)
  /\ UNCHANGED <<phase, scheduleVars, rowVars, result, lost>>

(* Mutant: the failure of a critical agent does not end the run.           *)
ReportedAndGoesOn(a) ==
  /\ pc[a] = "reporting_exception"
  /\ pc' = [pc EXCEPT ![a] = "raised"]
  /\ CallbackEnds(a)
  /\ collected' = collected \cup {a}
  /\ UNCHANGED <<phase, tier, outputs, rowVars, result, reports>>

ReportedException(a) ==
  /\ pc[a] = "reporting_exception"
  /\ pc' = [pc EXCEPT ![a] = "raised"]
  /\ CallbackEnds(a)
  /\ \/ /\ a \in Critical
        /\ phase' = "failed"
        /\ UNCHANGED collected
     \/ /\ a \notin Critical
        /\ collected' = collected \cup {a}
        /\ UNCHANGED phase
  /\ UNCHANGED <<tier, outputs, rowVars, result, reports>>

CloseTier ==
  /\ phase = "collecting"
  /\ Uncollected = {}
  /\ tier' = tier + 1
  /\ phase' = IF tier + 1 = NumTiers THEN "completed" ELSE "launching"
  /\ UNCHANGED <<pc, collected, outputs, rowVars, result, lost, reports>>

-----------------------------------------------------------------------------

InTimeout == phase \in {"launching", "tier", "collecting"}

(* A coroutine that is cancelled ends; a result stays what it is when the  *)
(* loop that reports it is cancelled.                                      *)
Cancelled(a) ==
  IF pc[a] \in Active THEN "cancelled"
  ELSE IF pc[a] = "reporting_exception" THEN "raised" ELSE pc[a]

(* Mutants: a timeout marks every row of the tier failed; the timeout is   *)
(* around gather alone.                                                    *)
PipelineTimeoutFailsRows ==
  /\ InTimeout
  /\ phase' = "timing_out"
  /\ pc' = [a \in Agent |-> Cancelled(a)]
  /\ rows' = [a \in Agent |-> IF a \in Tier(tier) THEN "failed" ELSE rows[a]]
  /\ UNCHANGED <<scheduleVars, session, broken, result, lost, reports>>

GatherTimeout ==
  /\ phase = "tier"
  /\ phase' = "timing_out"
  /\ pc' = [a \in Agent |-> Cancelled(a)]
  /\ UNCHANGED <<scheduleVars, rowVars, result, lost, reports>>

(* asyncio.timeout around _execute_tiers cancels it, and with it every     *)
(* coroutine of the gather and every callback in flight.  Then             *)
(* pipeline_failed is sent, through the same callback.                     *)
PipelineTimeout ==
  /\ InTimeout
  /\ phase' = "timing_out"
  /\ pc' = [a \in Agent |-> Cancelled(a)]
  /\ UNCHANGED <<scheduleVars, rowVars, result, lost, reports>>

(* The callback for pipeline_failed, outside the timeout, is over; then    *)
(* the PipelineError is raised.                                            *)
TimeoutReported ==
  /\ phase = "timing_out"
  /\ phase' = "failed"
  /\ UNCHANGED <<pc, scheduleVars, rowVars, result, lost, reports>>

Database == CommitRows \/ LoseChanges \/ \E a \in Agent : SetStatus(a)

AgentStep(a) ==
  \/ Announced(a) \/ WorkReturns(a) \/ WorkRaises(a) \/ AgentTimeout(a)
  \/ ReportedCompleted(a) \/ ReportedTimeout(a)

Collect(a) ==
  \/ TakeOutput(a) \/ RaisePipelineError(a)
  \/ ReportException(a) \/ ReportedException(a)

Next ==
  \/ StartPipeline \/ LaunchTier \/ GatherReturns \/ CloseTier
  \/ PipelineTimeout \/ TimeoutReported \/ Database
  \/ \E a \in Agent : AgentStep(a) \/ Collect(a)

(***************************************************************************)
(* Fairness: the timer of the pipeline fires, and the two events that are  *)
(* sent outside its scope, pipeline_started and pipeline_failed, are sent. *)
(* The callback writes no row for these two, it only waits for clients,    *)
(* and the server closes a connection that does not answer its pings.      *)
(* Nothing is assumed of the work of an agent (an LLM call may hang), nor  *)
(* of the callbacks under the pipeline timeout (a client or the database   *)
(* may not answer), nor of the timers of the agents.                       *)
(***************************************************************************)
Fairness ==
  WF_vars(StartPipeline) /\ WF_vars(PipelineTimeout) /\ WF_vars(TimeoutReported)

Spec == Init /\ [][Next]_vars /\ Fairness

-----------------------------------------------------------------------------

(***************************************************************************)
(* The executor implements DependencySchedule: no agent starts before all  *)
(* it depends on is settled, the critical ones with an output, whatever    *)
(* the timeouts and failures do.                                           *)
(***************************************************************************)
Schedule == INSTANCE DependencySchedule WITH
  started <- {a \in Agent : pc[a] # "waiting"},
  settled <- collected,
  outputs <- outputs,
  verdict <- IF Ended THEN phase ELSE "none"

ImplementsSchedule == Schedule!Spec

(***************************************************************************)
(* No coroutine outlives the call: when execute_pipeline returns or raises *)
(* (and already when it says that it timed out) every agent it started has *)
(* returned, raised or been cancelled, and no callback about an agent is   *)
(* in flight, so that nothing writes to the context, the rows or the       *)
(* shared session while _run_pipeline goes on to the next call or to the   *)
(* failure handler.                                                        *)
(***************************************************************************)
NothingOutlivesTheCall ==
  Ended \/ phase = "timing_out" => \A a \in Agent : pc[a] \notin Active \cup InFlight

(***************************************************************************)
(* An agent never sees the output of an agent of its own tier: outputs     *)
(* appear only when no coroutine of the tier is left, so what an agent     *)
(* reads does not depend on which of its siblings was faster.              *)
(***************************************************************************)
SiblingsAreIsolated ==
  \A a, b \in Agent :
    pc[a] \in Active /\ TierOf[a] = TierOf[b] => b \notin outputs

(***************************************************************************)
(* A client that counts events gets at most one end of each agent: the     *)
(* timeout is reported by the coroutine, any other exception by the loop   *)
(* over the results, and no failure by both.                               *)
(***************************************************************************)
OneReportPerAgent == \A a \in Agent : reports[a] <= 1

(***************************************************************************)
(* A row may lag behind (its update was lost, the agent was cancelled or   *)
(* its exception was never looked at), but what it says of an agent's work *)
(* is true: a completed row is of an agent whose work returned a result    *)
(* (also when the agent is cancelled while that is reported), a failed row *)
(* of one whose work raised or timed out, and a row is running only if its *)
(* agent was started.                                                      *)
(***************************************************************************)
RowsAreTrue ==
  \A a \in Agent :
    /\ rows[a] = "completed" => result[a] = "returned"
    /\ rows[a] = "failed" => result[a] \in {"raised", "timed_out"}
    /\ rows[a] = "running" => pc[a] # "waiting"

(***************************************************************************)
(* A call that completes has reported the end of every agent once, the     *)
(* exceptions and timeouts of agents that are not critical included, and   *)
(* an agent's row tells how it ended, unless the callback for that very    *)
(* event raised.                                                           *)
(* (A call that fails promises less: it stops at the first critical        *)
(* failure of a tier, and the other failures of that tier stay unreported.)*)
(***************************************************************************)
CompletedCallIsReported ==
  phase = "completed" =>
    \A a \in Agent :
      /\ reports[a] = 1
      /\ a \notin lost => rows[a] = IF result[a] = "returned" THEN "completed" ELSE "failed"

(* A row never goes back: a late event does not undo a later one.          *)
RowsMoveForward ==
  [][\A a \in Agent :
       rows'[a] # rows[a] =>
         \/ rows[a] = "queued"
         \/ rows[a] = "running" /\ rows'[a] \in {"completed", "failed"}]_vars

(***************************************************************************)
(* The call ends, although the work of an agent or a progress callback     *)
(* under the pipeline timeout may never return, provided that the timer    *)
(* fires and that the events sent outside its scope are sent (Fairness).   *)
(***************************************************************************)
CallEnds == <>Ended

=============================================================================
