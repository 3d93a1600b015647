----------------------------- MODULE PipelineRun -----------------------------
(***************************************************************************)
(* The life of one run (app/api/pipelines.py): the request that creates    *)
(* it, the background task that executes it, requests to cancel it, the    *)
(* deletion of its dataset, and a crash of the server, all of which meet   *)
(* in the pipeline_runs row.                                               *)
(*                                                                         *)
(* row and results are what is committed, so what every other session      *)
(* reads.  A step is what happens between two awaits that other sessions   *)
(* can come between: a statement that reads the row, a flush that takes a  *)
(* lock, a commit.  The calls of execute_pipeline are one step here; their *)
(* inside is PipelineExecutor, and that they end is CallEnds there.        *)
(***************************************************************************)
EXTENDS Naturals

CONSTANTS
  Canceller,  \* requests to cancel the run
  MaxFaults,  \* bound: how many statements, flushes or commits fail
  MaxCrashes  \* bound: how often the server dies and comes back

ASSUME BoundsAssumption == MaxFaults \in Nat /\ MaxCrashes \in Nat

VARIABLES
  dataset,        \* the datasets row: "ready" or "deleted"
  request,        \* where create_pipeline and its session are
  row,            \* committed pipeline_runs.status, or "absent" or "deleted"
  results,        \* whether the run has committed analysis_results
  task,           \* where _run_pipeline is
  session,        \* the session of the task
  extracted,      \* whether build_and_store_results found anything to store
  cancel,         \* where each request to cancel is
  completedSent,  \* whether pipeline_completed was broadcast
  failedSent,     \* whether pipeline_failed was broadcast
  faults,         \* how many database operations have failed
  crashes         \* how often the server has died

vars == <<dataset, request, row, results, task, session, extracted, cancel,
          completedSent, failedSent, faults, crashes>>

Finished == {"completed", "failed", "cancelled"}
Statuses == {"absent", "queued", "running", "deleted"} \cup Finished

(* "holding": results flushed and not committed, so the row of the run is  *)
(* locked against deletion.  "broken": a flush failed and the session must *)
(* be rolled back, which no code of the task does.                         *)
Sessions == {"clean", "holding", "broken"}

TaskStates ==
  {"none", "created", "loaded", "preparing", "framing", "gating", "executing",
   "storing", "finalizing", "announcing", "failing", "announcing_failure",
   "ended", "dead"}

TypeOK ==
  /\ dataset \in {"ready", "deleted"}
  /\ request \in {"idle", "checked", "flushed", "committed", "failed"}
  /\ row \in Statuses
  /\ results \in BOOLEAN
  /\ task \in TaskStates
  /\ session \in Sessions
  /\ extracted \in BOOLEAN
  /\ cancel \in [Canceller -> {"idle", "read", "done", "refused", "error"}]
  /\ completedSent \in BOOLEAN
  /\ failedSent \in BOOLEAN
  /\ faults \in Nat
  /\ crashes \in Nat

Init ==
  /\ dataset = "ready"
  /\ request = "idle"
  /\ row = "absent"
  /\ results = FALSE
  /\ task = "none"
  /\ session = "clean"
  /\ extracted = FALSE
  /\ cancel = [c \in Canceller |-> "idle"]
  /\ completedSent = FALSE
  /\ failedSent = FALSE
  /\ faults = 0
  /\ crashes = 0

Exists == row \notin {"absent", "deleted"}

rest == <<dataset, cancel, crashes>>
sent == <<completedSent, failedSent>>

(* A statement, flush or commit fails although nothing is wrong with it.   *)
Fault == faults < MaxFaults /\ faults' = faults + 1

(* The ways in which writing to the row, or to a row that refers to it,    *)
(* fails: it is gone, the session must be rolled back first, or a fault.   *)
WriteFails ==
  \/ (~ Exists \/ session = "broken") /\ UNCHANGED faults
  \/ Fault

-----------------------------------------------------------------------------
(* create_pipeline *)

CheckDataset ==
  /\ request = "idle"
  /\ dataset = "ready"
  /\ request' = "checked"
  /\ UNCHANGED <<faults, row, results, task, session, extracted, sent, rest>>

(* db.flush() and, in the same step, asyncio.create_task: the row is not   *)
(* committed when the task starts.                                         *)
FlushRun ==
  /\ request = "checked"
  /\ \/ /\ dataset = "ready"
        /\ request' = "flushed"
        /\ task' = "created"
        /\ UNCHANGED faults
     \/ /\ (dataset = "deleted" /\ UNCHANGED faults) \/ Fault
        /\ request' = "failed"
        /\ UNCHANGED task
  /\ UNCHANGED <<row, results, session, extracted, sent, rest>>

(* get_db commits when the handler has returned. *)
CommitRequest ==
  /\ request = "flushed"
  /\ \/ /\ request' = "committed"
        /\ row' = "queued"
        /\ UNCHANGED faults
     \/ /\ Fault
        /\ request' = "failed"
        /\ UNCHANGED row
  /\ UNCHANGED <<results, task, session, extracted, sent, rest>>

-----------------------------------------------------------------------------
(* _run_pipeline *)

(* Mutant: the task is given the row instead of reading it.                *)
LoadGivenRun ==
  /\ task = "created"
  /\ task' = "loaded"
  /\ UNCHANGED <<request, row, results, session, extracted, sent, faults, rest>>

(* When the select finds no row, or fails, the handler itself fails: it is *)
(* given "pipeline", which was never assigned.                             *)
LoadRun ==
  /\ task = "created"
  /\ \/ Exists /\ task' = "loaded" /\ UNCHANGED faults
     \/ WriteFails /\ task' = "dead"
  /\ UNCHANGED <<request, row, results, session, extracted, sent, rest>>

(* Mutant: the row is merged, so inserted when it is not there.            *)
CommitMerged(status, next, otherwise) ==
  \/ /\ session # "broken"
     /\ row' = status
     /\ results' = (results \/ session = "holding")
     /\ session' = "clean"
     /\ task' = next
     /\ UNCHANGED faults
  \/ /\ WriteFails
     /\ session' = "broken"
     /\ task' = otherwise
     /\ UNCHANGED <<row, results>>

(* A commit of the task that gives the row a status.  The UPDATE names the *)
(* row by its id alone, whatever its status is by now; it fails when the   *)
(* row is gone, and always on a session that is broken.                    *)
Commit(status, next, otherwise) ==
  \/ /\ Exists
     /\ session # "broken"
     /\ row' = status
     /\ results' = (results \/ session = "holding")
     /\ session' = "clean"
     /\ task' = next
     /\ UNCHANGED faults
  \/ /\ WriteFails
     /\ session' = "broken"
     /\ task' = otherwise
     /\ UNCHANGED <<row, results>>

CommitRunning ==
  /\ task = "loaded"
  /\ Commit("running", "preparing", "failing")
  /\ UNCHANGED <<request, extracted, sent, rest>>

(* bootstrap_context, load_registry, the agent_executions rows and their   *)
(* commit, which violates a foreign key when the run is gone *)
PrepareAgents ==
  /\ task = "preparing"
  /\ \/ Exists /\ task' = "framing" /\ UNCHANGED <<session, faults>>
     \/ task' = "failing" /\ UNCHANGED <<session, faults>>
     \/ WriteFails /\ task' = "failing" /\ session' = "broken"
  /\ UNCHANGED <<request, row, results, extracted, sent, rest>>

(* _update_agent_status fails inside a progress event: _emit swallows it,  *)
(* the agents go on, the session stays broken.  Where agents run side by   *)
(* side they use the one session of the task at once, and it may break     *)
(* although the database works.                                            *)
LoseRowUpdate ==
  /\ \/ task \in {"framing", "executing"} /\ Fault
     \/ task = "executing" /\ UNCHANGED faults
  /\ session = "clean"
  /\ session' = "broken"
  /\ UNCHANGED <<request, row, results, task, extracted, sent, rest>>

(* execute_pipeline returns or raises; when it times out it broadcasts     *)
(* pipeline_failed itself.                                                 *)
ExecutePipeline(at, next) ==
  /\ task = at
  /\ \/ task' = next /\ UNCHANGED failedSent
     \/ task' = "failing" /\ failedSent' \in {failedSent, TRUE}
  /\ UNCHANGED <<request, row, results, session, extracted, completedSent, faults, rest>>

RunFraming == ExecutePipeline("framing", "gating")
RunAgents  == ExecutePipeline("executing", "storing")

(* Gating is bypassed, falls back, or broadcasts its decision and marks    *)
(* rows gated_out; a broadcast or an update that raises fails the run.     *)
ApplyGate ==
  /\ task = "gating"
  /\ \/ task' = "executing" /\ UNCHANGED <<session, faults>>
     \/ task' = "failing" /\ UNCHANGED <<session, faults>>
     \/ Fault /\ task' = "failing" /\ session' = "broken"
  /\ UNCHANGED <<request, row, results, extracted, sent, rest>>

(* Mutants: the results are committed and not flushed; a flush that fails  *)
(* is rolled back and forgotten.                                           *)
StoreAndCommit ==
  /\ task = "storing"
  /\ extracted' = TRUE
  /\ Exists
  /\ results' = TRUE
  /\ task' = "finalizing"
  /\ UNCHANGED <<request, row, session, sent, faults, rest>>

StoreIfPossible ==
  /\ task = "storing"
  /\ extracted' = TRUE
  /\ \/ Exists /\ session = "clean" /\ session' = "holding" /\ UNCHANGED faults
     \/ WriteFails /\ session' = "clean"
  /\ task' = "finalizing"
  /\ UNCHANGED <<request, row, results, sent, rest>>

(* build_and_store_results: everything is extracted before the first       *)
(* db.add, so an exception leaves nothing in the session.  The flush fails *)
(* also when the results hold what JSONB refuses, such as a NaN.           *)
StoreResults ==
  /\ task = "storing"
  /\ \/ /\ task' \in {"failing", "finalizing"}
        /\ UNCHANGED <<session, extracted, faults>>
     \/ /\ extracted' = TRUE
        /\ \/ /\ Exists /\ session = "clean"
              /\ session' = "holding"
              /\ task' = "finalizing"
              /\ UNCHANGED faults
           \/ /\ Fault \/ UNCHANGED faults
              /\ session' = "broken"
              /\ task' = "failing"
  /\ UNCHANGED <<request, row, results, sent, rest>>

(* Mutant: completion is broadcast before the commit.                      *)
FinalizeAnnouncedFirst ==
  /\ task = "finalizing"
  /\ completedSent' = TRUE
  /\ Commit("completed", "announcing", "failing")
  /\ UNCHANGED <<request, extracted, failedSent, rest>>

(* _finalize_pipeline up to its commit; the metrics and the confidence may *)
(* raise before it.                                                        *)
Finalize ==
  /\ task = "finalizing"
  /\ \/ Commit("completed", "announcing", "failing")
     \/ task' = "failing" /\ UNCHANGED <<row, results, session, faults>>
  /\ UNCHANGED <<request, extracted, sent, rest>>

(* broadcast_progress may raise when it has sent the event. *)
AnnounceCompletion ==
  /\ task = "announcing"
  /\ completedSent' = TRUE
  /\ task' \in {"ended", "failing"}
  /\ UNCHANGED <<request, row, results, session, extracted, failedSent, faults, rest>>

(* Mutant: only a PipelineError is handled.                                *)
HandlePipelineError ==
  /\ task = "failing"
  /\ \/ Commit("failed", "announcing_failure", "dead")
     \/ task' = "dead" /\ UNCHANGED <<row, results, session, faults>>
  /\ UNCHANGED <<request, extracted, sent, rest>>

(* _handle_pipeline_failure: no rollback before its commit, which also     *)
(* commits what was flushed before the failure.                            *)
HandleFailure ==
  /\ task = "failing"
  /\ Commit("failed", "announcing_failure", "dead")
  /\ UNCHANGED <<request, extracted, sent, rest>>

AnnounceFailure ==
  /\ task = "announcing_failure"
  /\ failedSent' = TRUE
  /\ task' \in {"ended", "dead"}
  /\ UNCHANGED <<request, row, results, session, extracted, completedSent, faults, rest>>

-----------------------------------------------------------------------------
(* cancel_pipeline: the status is read, then written by the commit of      *)
(* get_db; the task is not told.                                           *)

ReadForCancel(c) ==
  /\ cancel[c] = "idle"
  /\ row # "absent"
  /\ cancel' = [cancel EXCEPT ![c] =
       IF row = "deleted" THEN "error" ELSE IF row \in Finished THEN "refused" ELSE "read"]
  /\ UNCHANGED <<dataset, request, row, results, task, session, extracted, sent, faults, crashes>>

CommitCancel(c) ==
  /\ cancel[c] = "read"
  /\ \/ /\ Exists
        /\ row' = "cancelled"
        /\ cancel' = [cancel EXCEPT ![c] = "done"]
     \/ /\ ~ Exists
        /\ cancel' = [cancel EXCEPT ![c] = "error"]
        /\ UNCHANGED row
  /\ UNCHANGED <<dataset, request, results, task, session, extracted, sent, faults, crashes>>

(* delete_dataset: the foreign keys cascade to the run and its results.    *)
(* The delete waits for a transaction that has inserted a row that refers  *)
(* to what it deletes.                                                     *)
DeleteDataset ==
  /\ dataset = "ready"
  /\ request # "flushed"
  /\ session # "holding"
  /\ dataset' = "deleted"
  /\ row' = IF row = "absent" THEN row ELSE "deleted"
  /\ results' = FALSE
  /\ UNCHANGED <<request, task, session, extracted, cancel, sent, faults, crashes>>

(* The process dies: transactions that are open are rolled back, and       *)
(* nothing takes the run up again when the server restarts.                *)
Crash ==
  /\ crashes < MaxCrashes
  /\ crashes' = crashes + 1
  /\ request' = IF request \in {"idle", "committed"} THEN request ELSE "failed"
  /\ task' = IF task = "none" THEN task ELSE "dead"
  /\ session' = "clean"
  /\ cancel' = [c \in Canceller |-> IF cancel[c] = "read" THEN "error" ELSE cancel[c]]
  /\ UNCHANGED <<dataset, row, results, extracted, sent, faults>>

-----------------------------------------------------------------------------

CreateRequest == CheckDataset \/ FlushRun \/ CommitRequest

RunTask ==
  \/ LoadRun \/ CommitRunning \/ PrepareAgents \/ RunFraming \/ ApplyGate \/ RunAgents
  \/ StoreResults \/ Finalize \/ AnnounceCompletion \/ HandleFailure \/ AnnounceFailure

Next ==
  \/ CreateRequest
  \/ RunTask
  \/ LoseRowUpdate
  \/ \E c \in Canceller : ReadForCancel(c) \/ CommitCancel(c)
  \/ DeleteDataset
  \/ Crash

(***************************************************************************)
(* The event loop goes on with a task or a request that it has begun; no   *)
(* client has to send anything.                                            *)
(***************************************************************************)
Fairness ==
  /\ WF_vars(FlushRun)
  /\ WF_vars(CommitRequest)
  /\ WF_vars(RunTask)
  /\ \A c \in Canceller : WF_vars(CommitCancel(c))

Spec == Init /\ [][Next]_vars /\ Fairness

-----------------------------------------------------------------------------

(***************************************************************************)
(* A run that reads as completed has its results: the flush of the results *)
(* and the status are one transaction, whatever cancels and failures come  *)
(* between.  A client that sees "completed" may fetch them.                *)
(***************************************************************************)
CompletedRunHasResults == row = "completed" /\ extracted => results

(***************************************************************************)
(* Results can be read only when the run is over: a client that polls      *)
(* never gets half an analysis from a run that is queued or running.       *)
(***************************************************************************)
NoResultsBeforeTheEnd == results => row \in Finished

(***************************************************************************)
(* pipeline_completed, on which a client fetches the results, is sent only *)
(* when they can be read; from then on only the deletion of the dataset    *)
(* takes them away.                                                        *)
(***************************************************************************)
CompletionIsDurable ==
  completedSent => row \in Finished \cup {"deleted"} /\ (extracted /\ row # "deleted" => results)

(***************************************************************************)
(* A run whose dataset was deleted does not come back, and the task, which *)
(* goes on, leaves nothing in the database for it.                         *)
(***************************************************************************)
DeletionIsFinal == [][row = "deleted" => row' = "deleted" /\ ~ results']_vars

(***************************************************************************)
(* A run whose creation was rolled back does no agent work, although its   *)
(* task starts before the commit.                                          *)
(***************************************************************************)
UncommittedRunDoesNothing ==
  request # "committed" => task \in {"none", "created", "dead"} /\ ~ failedSent

(***************************************************************************)
(* As long as the database works, the session of the task is not broken by *)
(* its agents or by results that JSONB refuses, and the server lives, a    *)
(* run that is running reaches a final status, whatever raises in between: *)
(* the agents, the gate, a broadcast, the extraction of the results.       *)
(***************************************************************************)
RunningEnds ==
  row = "running" ~>
    row \in Finished \cup {"deleted"} \/ session = "broken" \/ faults + crashes > 0

-----------------------------------------------------------------------------
(* What the documentation says and the code does not do. *)

(***************************************************************************)
(* pipelines.py:92, "queued -> running -> completed | failed | cancelled": *)
(* a status only moves forward along this line.                            *)
(***************************************************************************)
LifecycleOrder ==
  [][row' # row /\ row' # "deleted" =>
       <<row, row'>> \in ({"absent"} \X {"queued"})
                   \cup ({"queued"} \X {"running", "failed", "cancelled"})
                   \cup ({"running"} \X Finished)]_vars

(***************************************************************************)
(* pipelines.py:46, "Create and start a new analysis pipeline": a run that *)
(* was created and is not cancelled or deleted does not stay queued.       *)
(***************************************************************************)
CreatedRunStarts == row = "queued" ~> row # "queued"

(***************************************************************************)
(* pipelines.py:693, "Mark pipeline as failed, commit, and broadcast       *)
(* failure event": a task that died did not leave its run "running".       *)
(***************************************************************************)
FailureIsRecorded == task = "dead" => row # "running"

=============================================================================
