---------------------------- MODULE ResultsReader ----------------------------
(***************************************************************************)
(* Clients that read a run (app/api/results.py) while it is alive: each    *)
(* request looks into Redis, reads the run and then its results in         *)
(* statements of their own, and keeps the answer for an hour.  Nothing     *)
(* takes a kept answer back when the run changes.                          *)
(***************************************************************************)
EXTENDS PipelineRun

CONSTANTS
  Reader,   \* requests to the results endpoints
  Endpoint, \* the endpoints they ask
  Nothing   \* no entry in the cache

VARIABLES
  reader,  \* where each request is and what it has read
  kept     \* the answers in Redis, by endpoint

readVars == <<vars, reader, kept>>

ASSUME EndpointAssumption ==
  Endpoint # {} /\ Endpoint \subseteq {"results", "findings", "narrative", "export"}

CachedEndpoints == Endpoint \ {"export"}

(* What an answer says: the status that was read, and whether the results  *)
(* of the run were there.                                                  *)
Answers == [status : Statuses, whole : BOOLEAN]
NoAnswer == [status |-> "absent", whole |-> FALSE]

Requests ==
  [at : {"idle", "missed", "half", "loaded", "answered"},
   endpoint : Endpoint, answer : Answers]

IdleRequest == [at |-> "idle", endpoint |-> CHOOSE e \in Endpoint : TRUE, answer |-> NoAnswer]

ReaderTypeOK ==
  /\ reader \in [Reader -> Requests]
  /\ kept \in [CachedEndpoints -> Answers \cup {Nothing}]

ReaderInit ==
  /\ Init
  /\ reader = [r \in Reader |-> IdleRequest]
  /\ kept = [e \in CachedEndpoints |-> Nothing]

Go(r, at, answer) ==
  reader' = [reader EXCEPT ![r] =
    [at |-> at, endpoint |-> reader[r].endpoint, answer |-> answer]]

-----------------------------------------------------------------------------

(* cache_get: a hit answers at once; an error of Redis counts as a miss.   *)
Ask(r, e) ==
  /\ reader[r].at = "idle"
  /\ \/ /\ e \in CachedEndpoints
        /\ kept[e] # Nothing
        /\ reader' = [reader EXCEPT ![r] =
             [at |-> "answered", endpoint |-> e, answer |-> kept[e]]]
     \/ reader' = [reader EXCEPT ![r] =
          [at |-> "missed", endpoint |-> e, answer |-> NoAnswer]]
  /\ UNCHANGED <<vars, kept>>

(* The select of the run; 404 when it is not there. *)
ReadRow(r, from, to) ==
  /\ reader[r].at = from
  /\ IF Exists
       THEN Go(r, to, [status |-> row, whole |-> reader[r].answer.whole])
       ELSE reader' = [reader EXCEPT ![r] = IdleRequest]
  /\ UNCHANGED <<vars, kept>>

(* The select of the results, and of the name of the dataset. *)
ReadResults(r, from, to) ==
  /\ reader[r].at = from
  /\ Go(r, to, [status |-> reader[r].answer.status, whole |-> results])
  /\ UNCHANGED <<vars, kept>>

(* Mutant: the results are read before the run.                            *)
LoadResultsFirst(r) == ReadResults(r, "missed", "half") \/ ReadRow(r, "half", "loaded")

(* _get_pipeline_with_results *)
Load(r) == ReadRow(r, "missed", "half") \/ ReadResults(r, "half", "loaded")

(* What an endpoint keeps: the full answer of a completed run, findings or *)
(* a narrative that are not empty whatever the status is.                  *)
Keepable(e, answer) ==
  \/ e = "results" /\ answer.status = "completed"
  \/ e \in {"findings", "narrative"} /\ answer.whole

(* The answer is built, kept (cache_set fails silently) and sent. *)
Reply(r) ==
  LET e == reader[r].endpoint
      a == reader[r].answer
  IN /\ reader[r].at = "loaded"
     /\ Go(r, "answered", a)
     /\ \/ Keepable(e, a) /\ kept' = [kept EXCEPT ![e] = a]
        \/ UNCHANGED kept
     /\ UNCHANGED vars

(* The client has its answer and may ask again. *)
Receive(r) ==
  /\ reader[r].at = "answered"
  /\ reader' = [reader EXCEPT ![r] = IdleRequest]
  /\ UNCHANGED <<vars, kept>>

(* Mutant: the entries are set without a time to live.                     *)
KeepForever(e) == FALSE /\ UNCHANGED <<readVars, e>>

(* The hour is over. *)
Expire(e) ==
  /\ kept[e] # Nothing
  /\ kept' = [kept EXCEPT ![e] = Nothing]
  /\ UNCHANGED <<vars, reader>>

(* A step of the run.  A crash ends the requests, Redis lives on. *)
RunStep ==
  /\ Next
  /\ reader' = IF crashes' # crashes THEN [r \in Reader |-> IdleRequest] ELSE reader
  /\ UNCHANGED kept

ReaderNext ==
  \/ RunStep
  \/ \E r \in Reader : (\E e \in Endpoint : Ask(r, e)) \/ Load(r) \/ Reply(r) \/ Receive(r)
  \/ \E e \in CachedEndpoints : Expire(e)

(***************************************************************************)
(* Requests that were made are answered, and Redis drops what is an hour   *)
(* old; no client has to read.                                             *)
(***************************************************************************)
ReaderFairness ==
  /\ Fairness
  /\ \A r \in Reader : WF_readVars(Load(r) \/ Reply(r) \/ Receive(r))
  /\ \A e \in CachedEndpoints : WF_readVars(Expire(e))

ReaderSpec == ReaderInit /\ [][ReaderNext]_readVars /\ ReaderFairness

-----------------------------------------------------------------------------

(* An answer that says "completed" has the results, if there ever were any *)
(* and the dataset still exists.                                           *)
IsWhole(answer) ==
  answer.status = "completed" /\ extracted /\ dataset = "ready" => answer.whole

(***************************************************************************)
(* Whatever a client gets or Redis keeps for an hour is of a run that is   *)
(* over when it has results, and has them when it says "completed",        *)
(* although run and results are read in two statements between which the   *)
(* task commits, cancels come in and the row is overwritten.  Only the     *)
(* deletion of the dataset between the statements leaves a completed run   *)
(* without results, and this answer is then kept.                          *)
(***************************************************************************)
AnswersAreWhole ==
  /\ \A r \in Reader :
       reader[r].at = "answered" =>
         IsWhole(reader[r].answer) /\ (reader[r].answer.whole => row \in Finished \cup {"deleted"})
  /\ \A e \in CachedEndpoints :
       kept[e] # Nothing => IsWhole(kept[e]) /\ row \in Finished \cup {"deleted"}

(***************************************************************************)
(* In the end a run that was deleted with its dataset is not served any    *)
(* more, although delete_dataset does not touch the keys of its runs and a *)
(* request that began before may fill them once more.                      *)
(***************************************************************************)
DeletedRunIsForgotten ==
  <>[](row = "deleted" => \A e \in CachedEndpoints : kept[e] = Nothing)

=============================================================================
