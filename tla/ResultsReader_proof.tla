------------------------- MODULE ResultsReader_proof -------------------------
(***************************************************************************)
(* Proofs about PipelineRun and ResultsReader, for any number of clients,  *)
(* endpoints, cancels, faults and crashes.                                 *)
(*                                                                         *)
(* The invariants of PipelineRun that the runs check are not inductive:    *)
(* what a commit of the task may write depends on how far the task is, so  *)
(* the strengthening IInv relates the phases of the task to the row, to    *)
(* what its session holds, and to what was extracted.                      *)
(*                                                                         *)
(* For ResultsReader: that a run is over, with its results in place, is    *)
(* stable; what a request has read, and what Redis keeps, is of such a run *)
(* as soon as it says "completed" or holds results.                        *)
(***************************************************************************)
EXTENDS ResultsReader, TLAPS

(* The run itself. *)

(* The task has not reached the end of the agents' work. *)
Early == {"none", "created", "loaded", "preparing", "framing", "gating", "executing", "storing"}

(* The row becomes visible when the request commits, and not before. *)
RowIsCommitted == row = "absent" <=> request # "committed"

(* There is no task before the flush. *)
NoTaskYet == request \in {"idle", "checked"} => task = "none"

(* Before the end nothing is extracted, held or stored, and no status that *)
(* the task writes at its end has been written.                            *)
EarlyTask ==
  task \in Early =>
    ~ extracted /\ session # "holding" /\ ~ results /\ ~ completedSent /\ row # "completed"

(* Until it commits, a task that has extracted results holds them in its   *)
(* transaction or can commit nothing at all.                               *)
FinalizingTask ==
  task = "finalizing" =>
    /\ ~ results /\ ~ completedSent /\ row # "completed"
    /\ extracted => session \in {"holding", "broken"}

HoldingTask == session = "holding" => task \in {"finalizing", "failing"}

Stored == row \in Finished \cup {"deleted"} /\ (extracted /\ row # "deleted" => results)

CommittedTask == task = "announcing" \/ completedSent => Stored

IInv ==
  /\ TypeOK
  /\ RowIsCommitted
  /\ NoTaskYet
  /\ EarlyTask
  /\ FinalizingTask
  /\ HoldingTask
  /\ CommittedTask
  /\ CompletedRunHasResults
  /\ NoResultsBeforeTheEnd
  /\ UncommittedRunDoesNothing

LEMMA InitIInv == Init => IInv
<1> SUFFICES ASSUME Init PROVE IInv
  OBVIOUS
<1> USE DEF Init, Early, Finished, Stored, Statuses, Sessions, TaskStates
<1>1. TypeOK
  BY DEF TypeOK
<1>2. RowIsCommitted
  BY DEF RowIsCommitted
<1>3. EarlyTask
  BY DEF EarlyTask
<1>4. FinalizingTask
  BY DEF FinalizingTask
<1>5. HoldingTask
  BY DEF HoldingTask
<1>6. CommittedTask
  BY DEF CommittedTask
<1>7. CompletedRunHasResults
  BY DEF CompletedRunHasResults
<1>8. NoResultsBeforeTheEnd
  BY DEF NoResultsBeforeTheEnd
<1>9. UncommittedRunDoesNothing
  BY DEF UncommittedRunDoesNothing
<1>10. NoTaskYet
  BY DEF NoTaskYet
<1>11. QED
  BY <1>10, <1>1, <1>2, <1>3, <1>4, <1>5, <1>6, <1>7, <1>8, <1>9 DEF IInv

LEMMA StepIInv == IInv /\ [Next]_vars => IInv'
<1> SUFFICES ASSUME IInv, [Next]_vars PROVE IInv'
  OBVIOUS
<1> USE DEF IInv, TypeOK, RowIsCommitted, NoTaskYet, EarlyTask, FinalizingTask, HoldingTask,
            CommittedTask, CompletedRunHasResults, NoResultsBeforeTheEnd,
            UncommittedRunDoesNothing, Early, Finished, Statuses, Sessions, TaskStates,
            Stored, Exists, rest, sent, Fault, WriteFails
<1>1. CASE CreateRequest
  <2>1. CASE CheckDataset
    BY <2>1 DEF CheckDataset
  <2>2. CASE FlushRun
    <3> USE <2>2 DEF FlushRun
    <3>1. CASE request' = "flushed"
      BY <3>1
    <3>2. CASE request' = "failed" /\ task' = task
      BY <3>2
    <3>3. QED
      BY <3>1, <3>2
  <2>3. CASE CommitRequest
    BY <2>3 DEF CommitRequest
  <2>4. QED
    BY <1>1, <2>1, <2>2, <2>3 DEF CreateRequest
<1>2. CASE LoadRun
  BY <1>2 DEF LoadRun
<1>3. CASE CommitRunning
  BY <1>3 DEF CommitRunning, Commit
<1>4. CASE PrepareAgents
  BY <1>4 DEF PrepareAgents
<1>5. CASE RunFraming \/ RunAgents
  <2> USE <1>5 DEF RunFraming, RunAgents, ExecutePipeline
  <2>1. TypeOK'
    OBVIOUS
  <2>2. RowIsCommitted'
    OBVIOUS
  <2>3. EarlyTask'
    OBVIOUS
  <2>4. FinalizingTask'
    OBVIOUS
  <2>5. HoldingTask'
    OBVIOUS
  <2>6. CommittedTask'
    OBVIOUS
  <2>7. CompletedRunHasResults'
    OBVIOUS
  <2>8. NoResultsBeforeTheEnd'
    OBVIOUS
  <2>9. UncommittedRunDoesNothing'
    OBVIOUS
  <2>10. NoTaskYet'
    OBVIOUS
  <2>11. QED
    BY ONLY <2>10, <2>1, <2>2, <2>3, <2>4, <2>5, <2>6, <2>7, <2>8, <2>9 DEF IInv
<1>6. CASE ApplyGate
  BY <1>6 DEF ApplyGate
<1>7. CASE StoreResults
  <2> USE <1>7 DEF StoreResults
  <2>1. TypeOK'
    <3>1. extracted' \in BOOLEAN
      OBVIOUS
    <3>2. QED
      BY <3>1
  <2>2. RowIsCommitted'
    OBVIOUS
  <2>3. EarlyTask'
    OBVIOUS
  <2>4. FinalizingTask'
    OBVIOUS
  <2>5. HoldingTask'
    OBVIOUS
  <2>6. CommittedTask'
    OBVIOUS
  <2>7. CompletedRunHasResults'
    OBVIOUS
  <2>8. NoResultsBeforeTheEnd'
    OBVIOUS
  <2>9. UncommittedRunDoesNothing'
    OBVIOUS
  <2>10. NoTaskYet'
    OBVIOUS
  <2>11. QED
    BY ONLY <2>10, <2>1, <2>2, <2>3, <2>4, <2>5, <2>6, <2>7, <2>8, <2>9 DEF IInv
<1>8. CASE Finalize
  <2> USE <1>8 DEF Finalize, Commit
  <2>1. TypeOK'
    <3>1. results' \in BOOLEAN
      OBVIOUS
    <3>2. QED
      BY <3>1
  <2>2. RowIsCommitted'
    OBVIOUS
  <2>3. EarlyTask'
    OBVIOUS
  <2>4. FinalizingTask'
    OBVIOUS
  <2>5. HoldingTask'
    OBVIOUS
  <2>6. CommittedTask'
    OBVIOUS
  <2>7. CompletedRunHasResults'
    OBVIOUS
  <2>8. NoResultsBeforeTheEnd'
    OBVIOUS
  <2>9. UncommittedRunDoesNothing'
    OBVIOUS
  <2>10. NoTaskYet'
    OBVIOUS
  <2>11. QED
    BY ONLY <2>10, <2>1, <2>2, <2>3, <2>4, <2>5, <2>6, <2>7, <2>8, <2>9 DEF IInv
<1>9. CASE AnnounceCompletion
  <2> USE <1>9 DEF AnnounceCompletion
  <2>1. TypeOK'
    OBVIOUS
  <2>2. RowIsCommitted'
    OBVIOUS
  <2>3. EarlyTask'
    OBVIOUS
  <2>4. FinalizingTask'
    OBVIOUS
  <2>5. HoldingTask'
    OBVIOUS
  <2>6. CommittedTask'
    OBVIOUS
  <2>7. CompletedRunHasResults'
    OBVIOUS
  <2>8. NoResultsBeforeTheEnd'
    OBVIOUS
  <2>9. UncommittedRunDoesNothing'
    OBVIOUS
  <2>10. NoTaskYet'
    OBVIOUS
  <2>11. QED
    BY ONLY <2>10, <2>1, <2>2, <2>3, <2>4, <2>5, <2>6, <2>7, <2>8, <2>9 DEF IInv
<1>10. CASE HandleFailure
  <2> USE <1>10 DEF HandleFailure, Commit
  <2>1. TypeOK'
    <3>1. results' \in BOOLEAN
      OBVIOUS
    <3>2. QED
      BY <3>1
  <2>2. RowIsCommitted'
    OBVIOUS
  <2>3. EarlyTask'
    OBVIOUS
  <2>4. FinalizingTask'
    OBVIOUS
  <2>5. HoldingTask'
    OBVIOUS
  <2>6. CommittedTask'
    OBVIOUS
  <2>7. CompletedRunHasResults'
    OBVIOUS
  <2>8. NoResultsBeforeTheEnd'
    OBVIOUS
  <2>9. UncommittedRunDoesNothing'
    OBVIOUS
  <2>10. NoTaskYet'
    OBVIOUS
  <2>11. QED
    BY ONLY <2>10, <2>1, <2>2, <2>3, <2>4, <2>5, <2>6, <2>7, <2>8, <2>9 DEF IInv
<1>11. CASE AnnounceFailure
  <2> USE <1>11 DEF AnnounceFailure
  <2>1. TypeOK'
    OBVIOUS
  <2>2. RowIsCommitted'
    OBVIOUS
  <2>3. EarlyTask'
    OBVIOUS
  <2>4. FinalizingTask'
    OBVIOUS
  <2>5. HoldingTask'
    OBVIOUS
  <2>6. CommittedTask'
    OBVIOUS
  <2>7. CompletedRunHasResults'
    OBVIOUS
  <2>8. NoResultsBeforeTheEnd'
    OBVIOUS
  <2>9. UncommittedRunDoesNothing'
    OBVIOUS
  <2>10. NoTaskYet'
    OBVIOUS
  <2>11. QED
    BY ONLY <2>10, <2>1, <2>2, <2>3, <2>4, <2>5, <2>6, <2>7, <2>8, <2>9 DEF IInv
<1>12. CASE LoseRowUpdate
  BY <1>12 DEF LoseRowUpdate
<1>13. ASSUME NEW c \in Canceller, ReadForCancel(c) PROVE IInv'
  BY <1>13 DEF ReadForCancel
<1>14. ASSUME NEW c \in Canceller, CommitCancel(c) PROVE IInv'
  BY <1>14 DEF CommitCancel
<1>15. CASE DeleteDataset
  BY <1>15 DEF DeleteDataset
<1>16. CASE Crash
  BY <1>16 DEF Crash
<1>17. CASE UNCHANGED vars
  BY <1>17 DEF vars
<1>18. QED
  BY <1>1, <1>2, <1>3, <1>4, <1>5, <1>6, <1>7, <1>8, <1>9, <1>10, <1>11, <1>12, <1>13,
     <1>14, <1>15, <1>16, <1>17 DEF Next, RunTask

THEOREM Inductive == Spec => []IInv
  BY InitIInv, StepIInv, PTL DEF Spec

-----------------------------------------------------------------------------

(* The variables of PipelineRun keep to their types.                       *)
THEOREM TypeCorrect == Spec => []TypeOK
<1>1. IInv => TypeOK
  BY DEF IInv
<1>2. QED
  BY <1>1, Inductive, PTL

(* A run that reads as completed has its results.                          *)
THEOREM CompletedHasResults == Spec => []CompletedRunHasResults
<1>1. IInv => CompletedRunHasResults
  BY DEF IInv
<1>2. QED
  BY <1>1, Inductive, PTL

(* No results can be read while the run is queued or running.              *)
THEOREM ResultsComeLast == Spec => []NoResultsBeforeTheEnd
<1>1. IInv => NoResultsBeforeTheEnd
  BY DEF IInv
<1>2. QED
  BY <1>1, Inductive, PTL

(* When pipeline_completed is sent the results can be read.                *)
THEOREM CompletionDurable == Spec => []CompletionIsDurable
<1>1. IInv => CompletionIsDurable
  BY DEF IInv, CommittedTask, Stored, CompletionIsDurable
<1>2. QED
  BY <1>1, Inductive, PTL

(* A run whose creation was rolled back does no agent work.                *)
THEOREM UncommittedIdle == Spec => []UncommittedRunDoesNothing
<1>1. IInv => UncommittedRunDoesNothing
  BY DEF IInv
<1>2. QED
  BY <1>1, Inductive, PTL

(* A step of the system does not bring a deleted run back, nor store       *)
(* anything for it.                                                        *)
LEMMA DeletedStep ==
  IInv /\ [Next]_vars => [row = "deleted" => row' = "deleted" /\ ~ results']_vars
<1> SUFFICES ASSUME IInv, [Next]_vars, row = "deleted"
             PROVE  row' = "deleted" /\ ~ results'
  OBVIOUS
<1>1. IInv'
  BY StepIInv
<1>2. row' = "deleted"
  BY DEF IInv, TypeOK, RowIsCommitted, Exists, Next, vars, CreateRequest, CheckDataset, FlushRun, CommitRequest,
         RunTask, LoadRun, CommitRunning, Commit, PrepareAgents, RunFraming, RunAgents,
         ExecutePipeline, ApplyGate, StoreResults, Finalize, AnnounceCompletion,
         HandleFailure, AnnounceFailure, LoseRowUpdate, ReadForCancel, CommitCancel,
         DeleteDataset, Crash
<1>3. QED
  BY <1>1, <1>2 DEF IInv, NoResultsBeforeTheEnd, Finished

(* Deletion is final, whatever the task still does.                        *)
THEOREM DeletedForGood == Spec => DeletionIsFinal
  BY Inductive, DeletedStep, PTL DEF Spec, DeletionIsFinal

-----------------------------------------------------------------------------
(* The results and their cache. *)

(* The task has written all it will write of the results, and they are     *)
(* committed as long as the dataset exists.                                *)
Over ==
  /\ row \in Finished \cup {"deleted"}
  /\ task \notin Early \cup {"finalizing"}
  /\ extracted /\ dataset = "ready" => results

(* A deleted row is one whose dataset was deleted. *)
DeletedWithDataset == row = "deleted" => dataset = "deleted"

Says(answer) == answer.status = "completed" \/ answer.whole

ReaderKnows(r) ==
  /\ reader[r].at = "half" => ~ reader[r].answer.whole
  /\ reader[r].at = "missed" => reader[r].answer = NoAnswer
  /\ Says(reader[r].answer) => Over
  /\ reader[r].at \in {"loaded", "answered"} => IsWhole(reader[r].answer)

EntryKnows(e) == kept[e] # Nothing => Over /\ IsWhole(kept[e])

ReaderInv ==
  /\ IInv
  /\ DeletedWithDataset
  /\ ReaderTypeOK
  /\ \A r \in Reader : ReaderKnows(r)
  /\ \A e \in CachedEndpoints : EntryKnows(e)

(* A step of the run preserves that a deleted row has no dataset.          *)
LEMMA DeletedWithDatasetStep ==
  IInv /\ DeletedWithDataset /\ [Next]_vars => DeletedWithDataset'
<1> SUFFICES ASSUME IInv, DeletedWithDataset, [Next]_vars PROVE DeletedWithDataset'
  OBVIOUS
<1> QED
  BY DEF IInv, TypeOK, DeletedWithDataset, Next, vars, rest, CreateRequest, CheckDataset,
         FlushRun, CommitRequest, RunTask, LoadRun, CommitRunning, Commit, PrepareAgents,
         RunFraming, RunAgents, ExecutePipeline, ApplyGate, StoreResults, Finalize,
         AnnounceCompletion, HandleFailure, AnnounceFailure, LoseRowUpdate, ReadForCancel,
         CommitCancel, DeleteDataset, Crash

(* A run that is over stays over, whatever the task, the cancels and the   *)
(* deletion still do, and nothing is extracted any more.                   *)
LEMMA OverIsStable ==
  ASSUME IInv, [Next]_vars, Over
  PROVE  Over' /\ extracted' = extracted /\ (dataset' = "ready" => dataset = "ready")
<1> USE DEF IInv, TypeOK, Over, Early, Finished, TaskStates, Statuses
<1>1. CASE UNCHANGED vars
  BY <1>1 DEF vars
<1>2. CASE CreateRequest
  BY <1>2 DEF CreateRequest, CheckDataset, FlushRun, CommitRequest, rest, sent, RowIsCommitted, NoTaskYet,
              UncommittedRunDoesNothing
<1>3. CASE RunTask
  <2>1. CASE AnnounceCompletion \/ AnnounceFailure
    BY <2>1 DEF AnnounceCompletion, AnnounceFailure, rest
  <2>2. CASE HandleFailure
    BY <2>2 DEF HandleFailure, Commit, rest
  <2>3. CASE LoadRun \/ CommitRunning \/ PrepareAgents \/ ApplyGate \/ StoreResults \/ Finalize
    BY <2>3 DEF LoadRun, CommitRunning, PrepareAgents, ApplyGate, StoreResults, Finalize
  <2>4. CASE RunFraming \/ RunAgents
    BY <2>4 DEF RunFraming, RunAgents, ExecutePipeline
  <2>5. QED
    BY <1>3, <2>1, <2>2, <2>3, <2>4 DEF RunTask
<1>4. CASE LoseRowUpdate
  BY <1>4 DEF LoseRowUpdate
<1>5. CASE \E c \in Canceller : ReadForCancel(c) \/ CommitCancel(c)
  BY <1>5 DEF ReadForCancel, CommitCancel
<1>6. CASE DeleteDataset \/ Crash
  BY <1>6 DEF DeleteDataset, Crash
<1>7. QED
  BY <1>1, <1>2, <1>3, <1>4, <1>5, <1>6 DEF Next

(* What is committed is of a run that is over: results and "completed" are *)
(* written last.                                                           *)
LEMMA CommittedIsOver ==
  ASSUME IInv, DeletedWithDataset, row = "completed" \/ results
  PROVE  Over
BY DEF IInv, TypeOK, TaskStates, EarlyTask, FinalizingTask, CompletedRunHasResults,
       NoResultsBeforeTheEnd, Over, Finished, DeletedWithDataset

LEMMA InitReaderInv == ReaderInit => ReaderInv
<1> SUFFICES ASSUME ReaderInit PROVE ReaderInv
  OBVIOUS
<1>1. IInv /\ DeletedWithDataset
  BY InitIInv DEF ReaderInit, Init, DeletedWithDataset
<1>2. IdleRequest \in Requests /\ IdleRequest.answer = NoAnswer /\ IdleRequest.at = "idle"
  BY EndpointAssumption DEF IdleRequest, Requests, Answers, NoAnswer, Statuses
<1>3. ReaderTypeOK
  BY <1>2 DEF ReaderInit, ReaderTypeOK
<1>4. ASSUME NEW r \in Reader PROVE ReaderKnows(r)
  BY <1>2 DEF ReaderInit, ReaderKnows, Says, NoAnswer
<1>5. ASSUME NEW e \in CachedEndpoints PROVE EntryKnows(e)
  BY DEF ReaderInit, EntryKnows
<1>6. QED
  BY <1>1, <1>3, <1>4, <1>5 DEF ReaderInv

(* What a request or an entry knows survives a step of the run.            *)
LEMMA RunStepReaderInv == ReaderInv /\ RunStep => ReaderInv'
<1> SUFFICES ASSUME ReaderInv, RunStep PROVE ReaderInv'
  OBVIOUS
<1>1. IInv' /\ DeletedWithDataset'
  BY StepIInv, DeletedWithDatasetStep DEF ReaderInv, RunStep
<1>2. IdleRequest \in Requests /\ IdleRequest.answer = NoAnswer /\ IdleRequest.at = "idle"
  BY EndpointAssumption DEF IdleRequest, Requests, Answers, NoAnswer, Statuses
<1>3. ReaderTypeOK'
  BY <1>2 DEF ReaderInv, ReaderTypeOK, RunStep
<1>4. Over => Over' /\ extracted' = extracted /\ (dataset' = "ready" => dataset = "ready")
  BY OverIsStable DEF ReaderInv, RunStep
<1>5. ASSUME NEW r \in Reader PROVE ReaderKnows(r)'
  <2>1. CASE reader'[r] = reader[r]
    BY <2>1, <1>4 DEF ReaderInv, ReaderKnows, Says, IsWhole
  <2>2. CASE reader'[r] = IdleRequest
    BY <2>2, <1>2 DEF ReaderKnows, Says, NoAnswer
  <2>3. QED
    BY <2>1, <2>2 DEF RunStep
<1>6. ASSUME NEW e \in CachedEndpoints PROVE EntryKnows(e)'
  BY <1>4 DEF ReaderInv, RunStep, EntryKnows, IsWhole
<1>7. QED
  BY <1>1, <1>3, <1>5, <1>6 DEF ReaderInv

(* The steps of the requests and of Redis, which leave the run alone.      *)
LEMMA RequestStepReaderInv ==
  ASSUME ReaderInv, UNCHANGED vars,
         \/ \E r \in Reader : (\E e \in Endpoint : Ask(r, e)) \/ Load(r) \/ Reply(r) \/ Receive(r)
         \/ \E e \in CachedEndpoints : Expire(e)
         \/ UNCHANGED <<reader, kept>>
  PROVE  ReaderInv'
<1>1. IInv' /\ DeletedWithDataset' /\ (Over <=> Over')
  <2>1. IInv'
    BY StepIInv DEF ReaderInv
  <2>2. QED
    BY <2>1, DeletedWithDatasetStep DEF ReaderInv, Over, vars
<1>2. IdleRequest \in Requests /\ IdleRequest.answer = NoAnswer /\ IdleRequest.at = "idle"
  BY EndpointAssumption DEF IdleRequest, Requests, Answers, NoAnswer, Statuses
<1>3. row \in Statuses /\ results \in BOOLEAN /\ row = row' /\ extracted = extracted' /\ dataset = dataset'
  BY DEF ReaderInv, IInv, TypeOK, vars
<1>4. row = "completed" \/ results => Over
  BY CommittedIsOver DEF ReaderInv
<1>5. ReaderTypeOK'
  <2>1. Requests' = Requests /\ Answers' = Answers
    BY DEF Requests, Answers
  <2>2. ASSUME NEW r \in Reader, NEW e \in Endpoint, Ask(r, e) PROVE ReaderTypeOK'
    <3>1. [at |-> "missed", endpoint |-> e, answer |-> NoAnswer] \in Requests
      BY DEF Requests, Answers, NoAnswer, Statuses
    <3>2. e \in CachedEndpoints /\ kept[e] # Nothing
            => [at |-> "answered", endpoint |-> e, answer |-> kept[e]] \in Requests
      BY DEF ReaderInv, ReaderTypeOK, Requests
    <3>3. QED
      BY <2>2, <3>1, <3>2 DEF ReaderInv, ReaderTypeOK, Ask
  <2>3. ASSUME NEW r \in Reader, Load(r) PROVE ReaderTypeOK'
    <3>1. reader[r] \in Requests /\ reader[r].answer \in Answers /\ reader[r].endpoint \in Endpoint
      BY DEF ReaderInv, ReaderTypeOK, Requests
    <3>2. /\ [status |-> row, whole |-> reader[r].answer.whole] \in Answers
          /\ [status |-> reader[r].answer.status, whole |-> results] \in Answers
      BY <3>1, <1>3 DEF Answers
    <3>3. ASSUME NEW a \in Answers, NEW to \in {"half", "loaded"}
          PROVE  [at |-> to, endpoint |-> reader[r].endpoint, answer |-> a] \in Requests
      BY <3>1 DEF Requests
    <3>4. QED
      BY <2>3, <3>2, <3>3, <1>2 DEF ReaderInv, ReaderTypeOK, Load, ReadRow, ReadResults, Go
  <2>4. ASSUME NEW r \in Reader, Reply(r) PROVE ReaderTypeOK'
    <3>1. reader[r] \in Requests /\ reader[r].answer \in Answers /\ reader[r].endpoint \in Endpoint
      BY DEF ReaderInv, ReaderTypeOK, Requests
    <3>2. [at |-> "answered", endpoint |-> reader[r].endpoint, answer |-> reader[r].answer] \in Requests
      BY <3>1 DEF Requests
    <3>3. QED
      BY <2>4, <3>1, <3>2 DEF ReaderInv, ReaderTypeOK, Reply, Go
  <2>5. ASSUME NEW r \in Reader, Receive(r) PROVE ReaderTypeOK'
    BY <2>5, <1>2 DEF ReaderInv, ReaderTypeOK, Receive
  <2>6. ASSUME NEW e \in CachedEndpoints, Expire(e) PROVE ReaderTypeOK'
    BY <2>6 DEF ReaderInv, ReaderTypeOK, Expire
  <2>7. QED
    BY <2>2, <2>3, <2>4, <2>5, <2>6 DEF ReaderInv, ReaderTypeOK
<1>6. ASSUME NEW r \in Reader PROVE ReaderKnows(r)'
  <2>1. CASE reader'[r] = reader[r]
    BY <2>1, <1>1, <1>3 DEF ReaderInv, ReaderKnows, Says, IsWhole
  <2>2. CASE reader'[r] = IdleRequest
    BY <2>2, <1>2 DEF ReaderKnows, Says, NoAnswer
  <2>3. ASSUME NEW e \in Endpoint, Ask(r, e) PROVE ReaderKnows(r)'
    <3>1. CASE reader'[r] = [at |-> "missed", endpoint |-> e, answer |-> NoAnswer]
      BY <3>1 DEF ReaderKnows, Says, NoAnswer
    <3>2. CASE /\ e \in CachedEndpoints /\ kept[e] # Nothing
               /\ reader'[r] = [at |-> "answered", endpoint |-> e, answer |-> kept[e]]
      BY <3>2, <1>1, <1>3 DEF ReaderInv, ReaderKnows, EntryKnows, IsWhole
    <3>3. QED
      BY <2>3, <3>1, <3>2 DEF ReaderInv, ReaderTypeOK, Ask
  <2>4. CASE ReadRow(r, "missed", "half") /\ Exists
    BY <2>4, <1>1, <1>3, <1>4 DEF ReaderInv, ReaderTypeOK, Requests, Answers, ReaderKnows, Says, IsWhole, ReadRow, Go, NoAnswer
  <2>5. CASE ReadResults(r, "half", "loaded")
    BY <2>5, <1>1, <1>3, <1>4 DEF ReaderInv, ReaderTypeOK, Requests, Answers, ReaderKnows, Says, IsWhole, ReadResults, Go,
       Over
  <2>6. CASE Reply(r)
    BY <2>6, <1>1, <1>3 DEF ReaderInv, ReaderTypeOK, Requests, ReaderKnows, Says, IsWhole, Reply, Go
  <2>7. reader'[r] = reader[r] \/ reader'[r] = IdleRequest \/ (\E e \in Endpoint : Ask(r, e))
        \/ (ReadRow(r, "missed", "half") /\ Exists) \/ ReadResults(r, "half", "loaded") \/ Reply(r)
    BY DEF ReaderInv, ReaderTypeOK, Ask, Load, ReadRow, ReadResults, Reply, Receive, Expire, Go
  <2>8. QED
    BY <2>1, <2>2, <2>3, <2>4, <2>5, <2>6, <2>7
<1>7. ASSUME NEW e \in CachedEndpoints PROVE EntryKnows(e)'
  <2>1. CASE kept'[e] = kept[e]
    BY <2>1, <1>1, <1>3 DEF ReaderInv, EntryKnows, IsWhole
  <2>2. CASE kept'[e] = Nothing
    BY <2>2 DEF EntryKnows
  <2>3. CASE \E r \in Reader : Reply(r) /\ reader[r].endpoint = e /\ Keepable(e, reader[r].answer)
                               /\ kept'[e] = reader[r].answer
    BY <2>3, <1>1, <1>3 DEF ReaderInv, ReaderKnows, EntryKnows, Says, IsWhole, Reply, Keepable
  <2>4. kept'[e] = kept[e] \/ kept'[e] = Nothing
        \/ \E r \in Reader : Reply(r) /\ reader[r].endpoint = e /\ Keepable(e, reader[r].answer)
                             /\ kept'[e] = reader[r].answer
    BY DEF ReaderInv, ReaderTypeOK, Ask, Load, ReadRow, ReadResults, Reply, Receive, Expire, Go
  <2>5. QED
    BY <2>1, <2>2, <2>3, <2>4
<1>8. QED
  BY <1>1, <1>5, <1>6, <1>7 DEF ReaderInv

(* The invariant of the readers, inductive with that of the run.           *)
THEOREM ReaderInductive == ReaderSpec => []ReaderInv
<1>1. ReaderInv /\ [ReaderNext]_readVars => ReaderInv'
  <2> SUFFICES ASSUME ReaderInv, [ReaderNext]_readVars PROVE ReaderInv'
    OBVIOUS
  <2>1. CASE RunStep
    BY <2>1, RunStepReaderInv
  <2>2. CASE \E r \in Reader : (\E e \in Endpoint : Ask(r, e)) \/ Load(r) \/ Reply(r) \/ Receive(r)
    <3>1. UNCHANGED vars
      BY <2>2 DEF Ask, Load, ReadRow, ReadResults, Reply, Receive
    <3>2. QED
      BY <2>2, <3>1, RequestStepReaderInv
  <2>3. CASE \E e \in CachedEndpoints : Expire(e)
    <3>1. UNCHANGED vars
      BY <2>3 DEF Expire
    <3>2. QED
      BY <2>3, <3>1, RequestStepReaderInv
  <2>4. CASE UNCHANGED readVars
    BY <2>4, RequestStepReaderInv DEF readVars
  <2>5. QED
    BY <2>1, <2>2, <2>3, <2>4 DEF ReaderNext
<1>2. QED
  BY <1>1, InitReaderInv, PTL DEF ReaderSpec

(* What a client gets or Redis keeps is of a run that is over, and whole   *)
(* when it says "completed" unless the dataset was deleted.                *)
THEOREM WholeAnswers == ReaderSpec => []AnswersAreWhole
<1>1. ReaderInv => AnswersAreWhole
  BY DEF ReaderInv, ReaderKnows, EntryKnows, Says, Over, AnswersAreWhole
<1>2. QED
  BY <1>1, ReaderInductive, PTL

=============================================================================
