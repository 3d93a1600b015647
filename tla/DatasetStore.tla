---------------------------- MODULE DatasetStore ----------------------------
(***************************************************************************)
(* One dataset in its three stores (app/api/datasets.py): the row in       *)
(* PostgreSQL, the directory storage/<dataset_id>, and the cached detail   *)
(* in Redis.  Upload, requests for detail and preview, deletions, a run    *)
(* that draws charts into the directory, and a crash meet in them.         *)
(*                                                                         *)
(* A step is what happens between two awaits; a transaction is visible to  *)
(* the others when get_db commits it, after the handler has returned.      *)
(***************************************************************************)
EXTENDS DatasetProfile

CONSTANTS
  Offers,     \* the lists of files that clients may upload
  Deleter,    \* requests to delete the dataset
  Reader,     \* requests for its detail or a preview
  MaxFaults,  \* bound: how many statements, commits or removals fail
  MaxCrashes  \* bound: how often the server dies and comes back

ASSUME StoreAssumption == MaxFaults \in Nat /\ MaxCrashes \in Nat

(* Files, and the sheets of a file, come in lists; a column has finitely   *)
(* many values.                                                            *)
ASSUME OffersAssumption ==
  \A files \in Offers :
    /\ IsList(files)
    /\ \A i \in DOMAIN files :
         /\ IsList(files[i].sheets)
         /\ \A j \in DOMAIN files[i].sheets : IsFiniteSet(files[i].sheets[j].frame)

VARIABLES
  upload,   \* where create_dataset is, the files and the status it will commit
  row,      \* committed status, or "absent" or "deleted"
  dir,      \* what is in the directory: "raw", "duckdb", "charts"
  database, \* the tables of the DuckDB file
  profile,  \* the schema profile of the committed row
  cached,   \* whether Redis has the detail
  deleter,  \* where each deletion is
  reader,   \* where each request is
  run,      \* a run on the dataset: "none", "started", "drew", "died"
  faults,
  crashes

storeVars == <<upload, row, dir, database, profile, cached, deleter, reader, run, faults,
               crashes>>
limits == <<faults, crashes>>

Visible == {"ready", "error"}
Emptied == {"emptied", "purged", "done", "failed"}

StoreTypeOK ==
  /\ upload \in [at : {"idle", "refused", "flushed", "saved", "processing", "processed",
                       "committed", "failed"},
                 files : Offers, status : {"uploading"} \cup Visible]
  /\ row \in {"absent", "deleted"} \cup Visible
  /\ dir \subseteq {"raw", "duckdb", "charts"}
  /\ cached \in BOOLEAN
  /\ deleter \in [Deleter -> {"idle", "selected"} \cup Emptied]
  /\ reader \in [Reader -> {"idle", "detail", "preview", "rows", "error"}]
  /\ run \in {"none", "started", "drew", "died"}
  /\ faults \in Nat /\ crashes \in Nat

NoProfile == [tables |-> <<>>, relationships |-> {}]

StoreInit ==
  /\ \E files \in Offers : upload = [at |-> "idle", files |-> files, status |-> "uploading"]
  /\ row = "absent"
  /\ dir = {}
  /\ database = <<>>
  /\ profile = NoProfile
  /\ cached = FALSE
  /\ deleter = [d \in Deleter |-> "idle"]
  /\ reader = [r \in Reader |-> "idle"]
  /\ run = "none"
  /\ faults = 0
  /\ crashes = 0

Fault == faults < MaxFaults /\ faults' = faults + 1 /\ UNCHANGED crashes

Upload(from, to, status) ==
  upload.at = from /\ upload' = [upload EXCEPT !.at = to, !.status = status]

-----------------------------------------------------------------------------
(* create_dataset: one transaction from the first flush to the commit.     *)

Begin ==
  /\ IF Refused(upload.files)
       THEN Upload("idle", "refused", "uploading") /\ UNCHANGED limits
       ELSE \/ Upload("idle", "flushed", "uploading") /\ UNCHANGED limits
            \/ Upload("idle", "failed", "uploading") /\ Fault
  /\ UNCHANGED <<row, dir, database, profile, cached, deleter, reader, run>>

(* The files are written one after the other, into the directory that is   *)
(* made first; a read or a write may fail, by itself or because of a name. *)
SaveFiles ==
  /\ \/ Writable(upload.files) /\ Upload("flushed", "saved", "uploading") /\ UNCHANGED limits
     \/ /\ Upload("flushed", "failed", "uploading")
        /\ (~ Writable(upload.files) /\ UNCHANGED limits) \/ Fault
  /\ dir' = dir \cup {"raw"}
  /\ UNCHANGED <<row, database, profile, cached, deleter, reader, run>>

FlushProfiling ==
  /\ \/ Upload("saved", "processing", "uploading") /\ UNCHANGED limits
     \/ Upload("saved", "failed", "uploading") /\ Fault
  /\ UNCHANGED <<row, dir, database, profile, cached, deleter, reader, run>>

(* Mutants: the status is set before the files are processed; the          *)
(* directory is not removed on failure.                                    *)
ProcessReadyFirst ==
  /\ Upload("processing", "processed", "ready") /\ UNCHANGED limits
  /\ IF Parses(upload.files)
       THEN dir' = dir \cup {"duckdb"} /\ database' = Database(Tables(upload.files))
       ELSE dir' = {} /\ UNCHANGED database
  /\ UNCHANGED <<row, profile, cached, deleter, reader, run>>

ProcessKeepsFiles ==
  /\ \/ /\ Parses(upload.files)
        /\ Upload("processing", "processed", "ready") /\ UNCHANGED limits
        /\ dir' = dir \cup {"duckdb"}
        /\ database' = Database(Tables(upload.files))
     \/ /\ Upload("processing", "processed", "error")
        /\ (~ Parses(upload.files) /\ UNCHANGED limits) \/ Fault
        /\ UNCHANGED <<dir, database>>
  /\ UNCHANGED <<row, profile, cached, deleter, reader, run>>

(* process_dataset_files in a thread; when it raises, whatever it raises,  *)
(* the directory is removed and the row becomes "error".                   *)
Process ==
  /\ \/ /\ Parses(upload.files)
        /\ Upload("processing", "processed", "ready") /\ UNCHANGED limits
        /\ dir' = dir \cup {"duckdb"}
        /\ database' = Database(Tables(upload.files))
     \/ /\ Upload("processing", "processed", "error")
        /\ (~ Parses(upload.files) /\ UNCHANGED limits) \/ Fault
        /\ dir' = {}
        /\ UNCHANGED database
  /\ UNCHANGED <<row, profile, cached, deleter, reader, run>>

(* The commit of get_db, which sends the row with its profile.  One that   *)
(* fails is rolled back; nobody looks after the directory any more.        *)
CommitUpload ==
  /\ \/ /\ upload.status = "ready" => Storable(upload.files)
        /\ Upload("processed", "committed", upload.status)
        /\ row' = upload.status
        /\ profile' = IF upload.status = "ready" THEN Profile(Tables(upload.files)) ELSE profile
        /\ UNCHANGED limits
     \/ /\ Upload("processed", "failed", upload.status)
        /\ (upload.status = "ready" /\ ~ Storable(upload.files) /\ UNCHANGED limits) \/ Fault
        /\ UNCHANGED <<row, profile>>
  /\ UNCHANGED <<dir, database, cached, deleter, reader, run>>

-----------------------------------------------------------------------------
(* get_dataset and preview_table *)

GoReader(r, from, to) == reader[r] = from /\ reader' = [reader EXCEPT ![r] = to]

(* A hit answers at once and changes nothing; a miss, or an error of       *)
(* Redis, selects the row, whatever its status.                            *)
SelectDetail(r) ==
  /\ GoReader(r, "idle", "detail")
  /\ row \in Visible
  /\ UNCHANGED <<upload, row, dir, database, profile, cached, deleter, run, limits>>

(* The detail is kept for five minutes; cache_set fails silently. *)
KeepDetail(r) ==
  /\ GoReader(r, "detail", "idle")
  /\ cached' \in {cached, TRUE}
  /\ UNCHANGED <<upload, row, dir, database, profile, deleter, run, limits>>

(* Mutant: the detail is kept without a time to live.                      *)
NeverExpire == FALSE /\ UNCHANGED storeVars

ExpireDetail ==
  /\ cached
  /\ cached' = FALSE
  /\ UNCHANGED <<upload, row, dir, database, profile, deleter, reader, run, limits>>

(* A row without duckdb_path, which is one in error, is a 404. *)
SelectForPreview(r) ==
  /\ GoReader(r, "idle", "preview")
  /\ row = "ready" /\ profile.tables # <<>>
  /\ UNCHANGED <<upload, row, dir, database, profile, cached, deleter, run, limits>>

(* A table that the profile names is opened; duckdb.connect raises when    *)
(* the file is gone, the count when the table is.                          *)
OpenPreview(r) ==
  /\ \E i \in DOMAIN profile.tables :
       GoReader(r, "preview", IF "duckdb" \in dir /\ profile.tables[i] \in DOMAIN database
                              THEN "rows" ELSE "error")
  /\ UNCHANGED <<upload, row, dir, database, profile, cached, deleter, run, limits>>

Receive(r) ==
  /\ reader[r] \in {"rows", "error"}
  /\ reader' = [reader EXCEPT ![r] = "idle"]
  /\ UNCHANGED <<upload, row, dir, database, profile, cached, deleter, run, limits>>

-----------------------------------------------------------------------------
(* delete_dataset *)

GoDeleter(d, from, to) == deleter[d] = from /\ deleter' = [deleter EXCEPT ![d] = to]

SelectForDeletion(d) ==
  /\ row \in Visible
  /\ GoDeleter(d, "idle", "selected")
  /\ UNCHANGED <<upload, row, dir, database, profile, cached, reader, run, limits>>

(* shutil.rmtree, which may fail half way; a directory that another        *)
(* deletion has removed is left alone.                                     *)
RemoveFiles(d) ==
  /\ \/ GoDeleter(d, "selected", "emptied") /\ dir' = {} /\ UNCHANGED limits
     \/ GoDeleter(d, "selected", "failed") /\ dir' \in SUBSET dir /\ dir # {} /\ Fault
  /\ UNCHANGED <<upload, row, database, profile, cached, reader, run>>

(* The keys of the dataset are deleted, unless Redis fails. *)
Invalidate(d) ==
  /\ GoDeleter(d, "emptied", "purged")
  /\ cached' \in {cached, FALSE}
  /\ UNCHANGED <<upload, row, dir, database, profile, reader, run, limits>>

(* The DELETE is sent by the commit of get_db; one that finds no row is    *)
(* no error.                                                               *)
CommitDeletion(d) ==
  /\ \/ GoDeleter(d, "purged", "done") /\ row' = "deleted" /\ UNCHANGED limits
     \/ GoDeleter(d, "purged", "failed") /\ Fault /\ UNCHANGED row
  /\ UNCHANGED <<upload, dir, database, profile, cached, reader, run>>

-----------------------------------------------------------------------------

(* A run is created while the dataset is ready ... *)
StartRun ==
  /\ run = "none" /\ row = "ready"
  /\ run' = "started"
  /\ UNCHANGED <<upload, row, dir, database, profile, cached, deleter, reader, limits>>

(* ... and makes the directory of its charts, with all its parents, when   *)
(* the chart maker has answered.                                           *)
DrawCharts ==
  /\ run = "started"
  /\ run' = "drew"
  /\ dir' = dir \cup {"charts"}
  /\ UNCHANGED <<upload, row, database, profile, cached, deleter, reader, limits>>

(* Open transactions are rolled back; directory and Redis stay. *)
StoreCrash ==
  /\ crashes < MaxCrashes
  /\ crashes' = crashes + 1
  /\ upload' = IF upload.at \in {"idle", "refused", "committed"} THEN upload
               ELSE [upload EXCEPT !.at = "failed"]
  /\ deleter' = [d \in Deleter |-> IF deleter[d] \in {"selected", "emptied", "purged"}
                                   THEN "failed" ELSE deleter[d]]
  /\ reader' = [r \in Reader |-> "idle"]
  /\ run' = IF run = "started" THEN "died" ELSE run
  /\ UNCHANGED <<row, dir, database, profile, cached, faults>>

CreateDataset == Begin \/ SaveFiles \/ FlushProfiling \/ Process \/ CommitUpload
Read(r) ==
  \/ SelectDetail(r) \/ KeepDetail(r)
  \/ SelectForPreview(r) \/ OpenPreview(r) \/ Receive(r)
Delete(d) == SelectForDeletion(d) \/ RemoveFiles(d) \/ Invalidate(d) \/ CommitDeletion(d)

StoreNext ==
  \/ CreateDataset
  \/ \E r \in Reader : Read(r)
  \/ \E d \in Deleter : Delete(d)
  \/ ExpireDetail \/ StartRun \/ DrawCharts \/ StoreCrash

=============================================================================
