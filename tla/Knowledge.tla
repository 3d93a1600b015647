------------------------------ MODULE Knowledge ------------------------------
(***************************************************************************)
(* What users teach the system (app/api/knowledge.py) and what a run is    *)
(* told of it (app/services/knowledge_bootstrap.py).  A correction is      *)
(* about the dataset of DatasetStore or about all datasets; the foreign    *)
(* key of corrections sets the reference to NULL when the dataset is       *)
(* deleted, which is also how a correction about all datasets looks.       *)
(***************************************************************************)
EXTENDS DatasetStore

CONSTANTS
  Limit,      \* how many of the newest a run is given, 50 in the code
  MaxEntries  \* bound: corrections and learnings that are made

VARIABLES
  entries,  \* corrections and learnings in the order of created_at
  told      \* where the last run began, and what it was told

knowledgeVars == <<storeVars, entries, told>>

(* dataset_id as the row has it, and as the user gave it (history).        *)
Entry == [kind : {"correction", "learning"}, about : {"dataset", "all"},
          meant : {"dataset", "all"}]

Places == {"here", "elsewhere"}

KnowledgeTypeOK ==
  /\ StoreTypeOK
  /\ entries \in Seq(Entry)
  /\ told \in [place : Places \cup {"nowhere"}, entries : SUBSET (1 .. MaxEntries)]

KnowledgeInit ==
  /\ StoreInit
  /\ entries = <<>>
  /\ told = [place |-> "nowhere", entries |-> {}]

(* The newest Limit positions of a set of entries. *)
Newest(S) == {i \in S : Cardinality({j \in S : j > i}) < Limit}

(* create_correction and create_learning: one insert.  That the dataset    *)
(* exists is left to the foreign key, so a correction about one that does  *)
(* not exist ends in an error of the database.                             *)
Teach ==
  /\ Len(entries) < MaxEntries
  /\ \E kind \in {"correction", "learning"}, about \in {"dataset", "all"} :
       /\ about = "dataset" => kind = "correction" /\ row \in Visible
       /\ entries' = Append(entries, [kind |-> kind, about |-> about, meant |-> about])
  /\ UNCHANGED <<storeVars, told>>

(* Mutant: the corrections are taken in the order they were made.          *)
CorrectionsOldest(place) ==
  LET S == {i \in DOMAIN entries : /\ entries[i].kind = "correction"
                                   /\ entries[i].about = "all" \/ place = "here"}
  IN {i \in S : Cardinality({j \in S : j < i}) < Limit}

(* The corrections that bootstrap_context selects for a run on this        *)
(* dataset or on another one.                                              *)
Corrections(place) ==
  Newest({i \in DOMAIN entries : /\ entries[i].kind = "correction"
                                 /\ entries[i].about = "all" \/ place = "here"})

Learnings == Newest({i \in DOMAIN entries : entries[i].kind = "learning"})

(* bootstrap_context of a run that starts on a dataset. *)
Bootstrap(place) ==
  /\ place = "here" => run = "started"
  /\ told' = [place |-> place, entries |-> Corrections(place) \cup Learnings]
  /\ UNCHANGED <<storeVars, entries>>

(* ondelete="SET NULL" of corrections.dataset_id *)
Detach(e) == IF e.about = "dataset" THEN [e EXCEPT !.about = "all"] ELSE e

StoreStep ==
  /\ StoreNext
  /\ entries' = IF row' = "deleted" /\ row # "deleted"
                THEN [i \in DOMAIN entries |-> Detach(entries[i])] ELSE entries
  /\ UNCHANGED told

KnowledgeNext == StoreStep \/ Teach \/ \E place \in Places : Bootstrap(place)

(***************************************************************************)
(* Requests that have begun go on and Redis drops what is five minutes     *)
(* old; nobody has to upload, read or delete.                              *)
(***************************************************************************)
KnowledgeFairness ==
  /\ WF_knowledgeVars(ExpireDetail /\ UNCHANGED <<entries, told>>)
  /\ \A r \in Reader :
       WF_knowledgeVars((KeepDetail(r) \/ OpenPreview(r) \/ Receive(r))
                        /\ UNCHANGED <<entries, told>>)

KnowledgeSpec == KnowledgeInit /\ [][KnowledgeNext]_knowledgeVars /\ KnowledgeFairness

-----------------------------------------------------------------------------

(***************************************************************************)
(* A preview of a table that the profile names has its rows, and a ready   *)
(* dataset its files, unless a deletion has come to the removal of them:   *)
(* one that fails after that leaves a ready dataset nobody can read.       *)
(***************************************************************************)
ReadyDatasetIsReadable ==
  (\A d \in Deleter : deleter[d] \notin Emptied) =>
    /\ row = "ready" => {"raw", "duckdb"} \subseteq dir
    /\ \A r \in Reader : reader[r] # "error"

(***************************************************************************)
(* The relationships that agents are told of hold between the tables they  *)
(* query, and none is missing, also when files or sheets had one name and  *)
(* replaced each other.                                                    *)
(***************************************************************************)
ProfileFitsDatabase ==
  row = "ready" =>
    /\ TableNames([i \in DOMAIN profile.tables |-> [name |-> profile.tables[i]]]) = DOMAIN database
    /\ \A s \in profile.relationships :
         /\ Overlaps(database[s.from], database[s.to])
         /\ Cardinality(database[s.from]) >= Cardinality(database[s.to])
    /\ \A n, m \in DOMAIN database : n # m /\ Overlaps(database[n], database[m]) =>
         \E s \in profile.relationships : {s.from, s.to} = {n, m}

(***************************************************************************)
(* Unless a statement, a removal or the server fails, what is in           *)
(* storage/<dataset_id> belongs to an upload that goes on or to a dataset  *)
(* that can be read or deleted, or it is one of two things that stay for   *)
(* good: charts that a run drew after the deletion, and the files of an    *)
(* upload that was accepted and then raised, because a name cannot be      *)
(* written or JSONB does not take the profile.  (Files that do not parse   *)
(* are removed.  Exports are in the directory of their run, from which     *)
(* nothing is ever removed.)                                               *)
(***************************************************************************)
FilesHaveOwner ==
  faults + crashes = 0 /\ dir # {} =>
    \/ upload.at \in {"flushed", "saved", "processing", "processed"}
    \/ row = "ready"
    \/ row = "deleted" /\ run = "drew" /\ dir = {"charts"}
    \/ upload.at = "failed" /\ ~ (Writable(upload.files) /\ Storable(upload.files))

(***************************************************************************)
(* In the end the detail of a deleted dataset is not served any more,      *)
(* although a request that read the row before the deletion was committed  *)
(* fills the cache after it was invalidated.                               *)
(***************************************************************************)
DeletedDatasetIsForgotten == <>[](row = "deleted" => ~ cached)

(***************************************************************************)
(* A run is told the newest corrections that were made about its dataset   *)
(* or about all, and no others as long as the other dataset exists; the    *)
(* deletion turns those about it into corrections of every run.            *)
(***************************************************************************)
RunsAreToldTheirCorrections ==
  [][told' # told =>
       LET meant == {i \in DOMAIN entries :
                       /\ entries[i].kind = "correction"
                       /\ entries[i].meant = "all" \/ told'.place = "here" \/ row = "deleted"}
       IN {i \in told'.entries : entries[i].kind = "correction"} = Newest(meant)]_knowledgeVars

=============================================================================
