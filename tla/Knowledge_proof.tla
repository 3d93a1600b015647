--------------------------- MODULE Knowledge_proof ---------------------------
(***************************************************************************)
(* Proofs about the stores of a dataset, for any uploads, any requests,    *)
(* deletions and corrections, and any number of faults and crashes.  The   *)
(* upload decides what the directory holds until it is committed; after    *)
(* that only deletions and the charts of a run change it.                  *)
(***************************************************************************)
EXTENDS Knowledge, Lists_proof, FiniteSetTheorems

(* What has been loaded of the upload.                                     *)
Loaded ==
  /\ database = Database(Tables(upload.files))
  /\ upload.at = "committed" => profile = Profile(Tables(upload.files))

(* Before the commit nobody knows of the dataset, and the directory is     *)
(* what the upload has made of it.                                         *)
UploadInv ==
  /\ row = "absent" =>
       /\ upload.at # "committed"
       /\ \A d \in Deleter : deleter[d] = "idle"
       /\ \A r \in Reader : reader[r] = "idle"
       /\ run = "none"
  /\ row # "absent" => upload.at = "committed" /\ upload.status \in Visible
  /\ upload.at \in {"idle", "refused", "flushed"} => dir = {}
  /\ upload.at \in {"saved", "processing"} => dir = {"raw"}
  /\ upload.at = "processed" =>
       \/ upload.status = "error" /\ dir = {}
       \/ upload.status = "ready" /\ dir = {"raw", "duckdb"} /\ Loaded
  /\ upload.at = "failed" =>
       faults + crashes > 0 \/ ~ (Writable(upload.files) /\ Storable(upload.files))

(* After the commit.                                                       *)
CommittedInv ==
  upload.at = "committed" =>
    /\ row \in {upload.status, "deleted"}
    /\ upload.status = "ready" => Loaded
    /\ upload.status = "error" => dir = {} /\ run = "none" /\ \A r \in Reader : reader[r] \in {"idle", "detail"}
    /\ upload.status = "ready" /\ (\A d \in Deleter : deleter[d] \notin Emptied) =>
         {"raw", "duckdb"} \subseteq dir /\ \A r \in Reader : reader[r] # "error"
    /\ (\E d \in Deleter : deleter[d] \in {"emptied", "purged", "done"}) =>
         dir \subseteq {"charts"} /\ (dir # {} => run = "drew")
    /\ row = "deleted" => \E d \in Deleter : deleter[d] = "done"

(* The type of the upload is kept apart: no step but its own touches it.   *)
UploadStates == {"idle", "refused", "flushed", "saved", "processing", "processed", "committed",
                 "failed"}
UploadType == upload \in [at : UploadStates, files : Offers, status : {"uploading"} \cup Visible]

RestType ==
  /\ row \in {"absent", "deleted"} \cup Visible
  /\ dir \subseteq {"raw", "duckdb", "charts"}
  /\ deleter \in [Deleter -> {"idle", "selected"} \cup Emptied]
  /\ reader \in [Reader -> {"idle", "detail", "preview", "rows", "error"}]
  /\ run \in {"none", "started", "drew", "died"}
  /\ faults \in Nat /\ crashes \in Nat

Inv == UploadType /\ RestType /\ UploadInv /\ CommittedInv

(* A table of the profile is in the database.                              *)
LEMMA ProfileNamesTables ==
  ASSUME NEW tables, NEW i \in DOMAIN Profile(tables).tables
  PROVE  Profile(tables).tables[i] \in DOMAIN Database(tables)
BY DEF Profile, Database, TableNames

LEMMA InitInv == KnowledgeInit => Inv
<1> SUFFICES ASSUME KnowledgeInit PROVE Inv
  OBVIOUS
<1>1. upload.at = "idle" /\ UploadType
  <2>1. PICK files \in Offers :
          upload = [at |-> "idle", files |-> files, status |-> "uploading"]
    BY DEF KnowledgeInit, StoreInit
  <2> QED
    BY <2>1 DEF UploadType, UploadStates
<1>2. /\ row = "absent" /\ dir = {} /\ run = "none" /\ faults = 0 /\ crashes = 0
      /\ deleter = [d \in Deleter |-> "idle"]
      /\ reader = [r \in Reader |-> "idle"]
  BY DEF KnowledgeInit, StoreInit
<1>3. RestType
  BY <1>2 DEF RestType
<1>4. UploadInv /\ CommittedInv
  BY <1>1, <1>2 DEF UploadInv, CommittedInv
<1> QED
  BY <1>1, <1>3, <1>4 DEF Inv

-----------------------------------------------------------------------------

LEMMA UploadGoes ==
  ASSUME UploadType, NEW from, NEW to \in UploadStates,
         NEW status \in {"uploading"} \cup Visible, Upload(from, to, status)
  PROVE  /\ upload.at = from /\ upload'.at = to
         /\ upload'.status = status /\ upload'.files = upload.files
         /\ UploadType'
BY DEF UploadType, Upload

LEMMA UploadStep ==
  ASSUME Inv, CreateDataset
  PROVE  Inv'
<1> USE StoreAssumption
    DEF Inv, RestType, UploadInv, CommittedInv, limits, Fault, Visible
<1>1. CASE Begin
  <2>1. /\ upload.at = "idle" /\ upload'.at \in {"refused", "flushed", "failed"} /\ UploadType'
        /\ upload'.at = "failed" => Fault
        /\ UNCHANGED limits \/ Fault
    BY <1>1, UploadGoes DEF Begin, UploadStates
  <2> QED
    BY <1>1, <2>1 DEF Begin
<1>2. CASE SaveFiles
  <2>1. /\ upload.at = "flushed" /\ upload'.at \in {"saved", "failed"} /\ UploadType'
        /\ upload'.files = upload.files
        /\ upload'.at = "failed" => ~ Writable(upload.files) \/ Fault
        /\ UNCHANGED limits \/ Fault
    BY <1>2, UploadGoes DEF SaveFiles, UploadStates
  <2>2. dir' = {"raw"}
    BY <1>2, <2>1 DEF SaveFiles
  <2> QED
    BY <1>2, <2>1, <2>2 DEF SaveFiles
<1>3. CASE FlushProfiling
  <2>1. /\ upload.at = "saved" /\ upload'.at \in {"processing", "failed"} /\ UploadType'
        /\ upload'.at = "failed" => Fault
        /\ UNCHANGED limits \/ Fault
    BY <1>3, UploadGoes DEF FlushProfiling, UploadStates
  <2> QED
    BY <1>3, <2>1 DEF FlushProfiling
<1>4. CASE Process
  <2>1. /\ upload.at = "processing" /\ upload'.at = "processed" /\ UploadType'
        /\ upload'.files = upload.files
        /\ \/ upload'.status = "error" /\ dir' = {}
           \/ /\ upload'.status = "ready" /\ dir' = dir \cup {"duckdb"}
              /\ database' = Database(Tables(upload.files))
        /\ UNCHANGED limits \/ Fault
    BY <1>4, UploadGoes DEF Process, UploadStates
  <2> QED
    BY <1>4, <2>1 DEF Process, Loaded
<1>5. CASE CommitUpload
  <2>1. CASE /\ Upload("processed", "failed", upload.status)
             /\ (~ Storable(upload.files) /\ UNCHANGED limits) \/ Fault
             /\ UNCHANGED <<row, profile>>
    <3>1. /\ upload.at = "processed" /\ upload'.at = "failed" /\ UploadType'
          /\ upload'.files = upload.files
      BY <2>1, UploadGoes DEF UploadStates, UploadType
    <3> QED
      BY <1>5, <2>1, <3>1 DEF CommitUpload
  <2>2. CASE Upload("processed", "committed", upload.status) /\ UNCHANGED limits
             /\ row' = upload.status
             /\ profile' = IF upload.status = "ready" THEN Profile(Tables(upload.files)) ELSE profile
    <3>1. /\ upload.at = "processed" /\ upload'.at = "committed" /\ UploadType'
          /\ upload'.status = upload.status /\ upload'.files = upload.files
      BY <2>2, UploadGoes DEF UploadStates, UploadType
    <3>2. row = "absent" /\ row' # "absent"
      BY <2>2, <3>1
    <3> QED
      BY <1>5, <2>2, <3>1, <3>2 DEF CommitUpload, Loaded, Emptied
  <2> QED
    BY <1>5, <2>1, <2>2 DEF CommitUpload
<1> QED
  BY <1>1, <1>2, <1>3, <1>4, <1>5 DEF CreateDataset

LEMMA ReadStep ==
  ASSUME Inv, NEW r \in Reader, Read(r)
  PROVE  Inv'
<1> USE DEF Inv, UploadType, RestType, UploadInv, CommittedInv, Visible, Emptied, limits, GoReader, Loaded
<1>1. CASE SelectDetail(r)
  BY <1>1 DEF SelectDetail
<1>2. CASE KeepDetail(r)
  BY <1>2 DEF KeepDetail
<1>3. CASE SelectForPreview(r)
  BY <1>3 DEF SelectForPreview
<1>4. CASE OpenPreview(r)
  <2>1. upload.at = "committed" /\ upload.status = "ready"
    BY <1>4 DEF OpenPreview
  <2>2. \A i \in DOMAIN profile.tables : profile.tables[i] \in DOMAIN database
    BY <2>1, ProfileNamesTables
  <2> QED
    BY <1>4, <2>1, <2>2 DEF OpenPreview
<1>5. CASE Receive(r)
  BY <1>5 DEF Receive
<1> QED
  BY <1>1, <1>2, <1>3, <1>4, <1>5 DEF Read

LEMMA DeleteStep ==
  ASSUME Inv, NEW d \in Deleter, Delete(d)
  PROVE  Inv'
<1> USE StoreAssumption
    DEF Inv, UploadType, RestType, UploadInv, CommittedInv, Visible, Emptied, limits, Fault, GoDeleter, Loaded
<1>1. CASE SelectForDeletion(d)
  BY <1>1 DEF SelectForDeletion
<1>2. CASE RemoveFiles(d)
  <2>1. /\ deleter[d] = "selected" /\ dir' \subseteq dir
        /\ UNCHANGED <<upload, row, database, profile, reader, run>>
        /\ faults' \in Nat /\ crashes' \in Nat /\ faults + crashes <= faults' + crashes'
        /\ \/ deleter' = [deleter EXCEPT ![d] = "emptied"] /\ dir' = {}
           \/ deleter' = [deleter EXCEPT ![d] = "failed"]
    BY <1>2 DEF RemoveFiles
  <2>2. upload.at = "committed" /\ row # "absent"
    BY <2>1
  <2>3. RestType' /\ UploadType'
    BY <2>1
  <2>4. UploadInv'
    BY <2>1, <2>2
  <2>5. deleter'[d] \in Emptied /\ \A e \in Deleter \ {d} : deleter'[e] = deleter[e]
    BY <2>1
  <2>6. CommittedInv'
    <3>1. CASE deleter' = [deleter EXCEPT ![d] = "emptied"] /\ dir' = {}
      BY <2>1, <2>2, <2>5, <3>1
    <3>2. CASE deleter' = [deleter EXCEPT ![d] = "failed"]
      <4>1. \A e \in Deleter : deleter'[e] \in {"emptied", "purged", "done"} => e # d /\ deleter'[e] = deleter[e]
        BY <2>1, <3>2
      <4>2. \A e \in Deleter : deleter[e] = "done" => e # d /\ deleter'[e] = "done"
        BY <2>1, <2>5
      <4> QED
        BY <2>1, <2>2, <2>5, <4>1, <4>2
    <3> QED
      BY <2>1, <3>1, <3>2
  <2> QED
    BY <2>3, <2>4, <2>6
<1>3. CASE Invalidate(d)
  BY <1>3 DEF Invalidate
<1>4. CASE CommitDeletion(d)
  BY <1>4 DEF CommitDeletion
<1> QED
  BY <1>1, <1>2, <1>3, <1>4 DEF Delete

LEMMA OtherStep ==
  ASSUME Inv, ExpireDetail \/ StartRun \/ DrawCharts \/ StoreCrash \/ UNCHANGED storeVars
  PROVE  Inv'
<1> USE StoreAssumption
    DEF Inv, UploadType, RestType, UploadInv, CommittedInv, Visible, Emptied, limits, Loaded
<1>1. CASE ExpireDetail
  BY <1>1 DEF ExpireDetail
<1>2. CASE StartRun
  BY <1>2 DEF StartRun
<1>3. CASE DrawCharts
  BY <1>3 DEF DrawCharts
<1>4. CASE StoreCrash
  <2>1. /\ UNCHANGED <<row, dir, database, profile, faults>>
        /\ crashes' = crashes + 1 /\ faults + crashes' > 0
        /\ reader' = [r \in Reader |-> "idle"]
        /\ run' = run \/ (run = "started" /\ run' = "died")
        /\ \A d \in Deleter : \/ deleter'[d] = deleter[d]
                              \/ deleter[d] \notin {"idle", "done"} /\ deleter'[d] = "failed"
        /\ deleter' \in [Deleter -> {"idle", "selected"} \cup Emptied]
    BY <1>4 DEF StoreCrash
  <2>2. /\ UploadType'
        /\ \/ upload' = upload /\ upload.at \in {"idle", "refused", "committed"}
           \/ upload.at # "committed" /\ upload'.at = "failed"
    BY <1>4 DEF StoreCrash, UploadStates
  <2>3. RestType'
    BY <2>1
  <2>4. UploadInv'
    BY <2>1, <2>2
  <2>5. CommittedInv'
    BY <2>1, <2>2
  <2> QED
    BY <2>2, <2>3, <2>4, <2>5
<1>5. CASE UNCHANGED storeVars
  BY <1>5 DEF storeVars
<1> QED
  BY <1>1, <1>2, <1>3, <1>4, <1>5

(* Inv holds throughout; what users teach does not touch the stores.       *)
THEOREM StoreInductive == KnowledgeSpec => []Inv
<1>1. Inv /\ [KnowledgeNext]_knowledgeVars => Inv'
  BY UploadStep, ReadStep, DeleteStep, OtherStep
  DEF KnowledgeNext, StoreStep, StoreNext, Teach, Bootstrap, knowledgeVars
<1> QED
  BY InitInv, <1>1, PTL DEF KnowledgeSpec

(* A ready dataset has its files and its previews their tables, until a    *)
(* deletion has begun to remove them (create_dataset, preview_table,       *)
(* delete_dataset of app/api/datasets.py).                                 *)
THEOREM ReadyIsReadable == KnowledgeSpec => []ReadyDatasetIsReadable
<1>1. Inv => ReadyDatasetIsReadable
  BY DEF Inv, UploadInv, CommittedInv, ReadyDatasetIsReadable, Visible, UploadType, UploadStates, RestType
<1> QED
  BY StoreInductive, <1>1, PTL

(* Without a fault or a crash what is in the directory of a dataset has an *)
(* owner, or is the charts of a run that outlived the dataset or the files *)
(* of an upload that could not be written or stored as it was.             *)
THEOREM NoOrphans == KnowledgeSpec => []FilesHaveOwner
<1>1. Inv => FilesHaveOwner
  <2> SUFFICES ASSUME Inv, faults + crashes = 0, dir # {}
               PROVE  \/ upload.at \in {"flushed", "saved", "processing", "processed"}
                      \/ row = "ready"
                      \/ row = "deleted" /\ run = "drew" /\ dir = {"charts"}
                      \/ /\ upload.at = "failed"
                         /\ ~ (Writable(upload.files) /\ Storable(upload.files))
    BY DEF FilesHaveOwner
  <2>1. CASE upload.at = "committed" /\ row = "deleted"
    BY <2>1 DEF Inv, CommittedInv
  <2>2. CASE upload.at = "committed" /\ row # "deleted"
    BY <2>2 DEF Inv, UploadInv, CommittedInv, Visible
  <2>3. CASE upload.at # "committed"
    <3>1. upload.at \in UploadStates
      BY DEF Inv, UploadType
    <3>2. upload.at = "failed" => ~ (Writable(upload.files) /\ Storable(upload.files))
      BY DEF Inv, UploadInv, RestType
    <3> QED
      BY <2>3, <3>1, <3>2 DEF Inv, UploadInv, UploadStates
  <2> QED
    BY <2>1, <2>2, <2>3
<1> QED
  BY StoreInductive, <1>1, PTL

-----------------------------------------------------------------------------
(* The corrections. *)

(* What a correction is about is what it was meant to be about, until the  *)
(* dataset is deleted and all are about all.                               *)
EntriesInv ==
  /\ entries \in Seq(Entry)
  /\ \A i \in DOMAIN entries :
       entries[i].about = IF row = "deleted" THEN "all" ELSE entries[i].meant

(* A deleted row does not come back.                                       *)
LEMMA DeletedStays ==
  ASSUME Inv, StoreNext, row = "deleted"
  PROVE  row' = "deleted"
<1>1. upload.at = "committed"
  BY DEF Inv, UploadInv
<1>2. ~ CommitUpload
  BY <1>1 DEF CommitUpload, Upload
<1>3. CASE CreateDataset
  BY <1>2, <1>3 DEF CreateDataset, Begin, SaveFiles, FlushProfiling, Process
<1>4. ASSUME NEW r \in Reader, Read(r) PROVE row' = "deleted"
  BY <1>4 DEF Read, SelectDetail, KeepDetail, SelectForPreview, OpenPreview, Receive
<1>5. ASSUME NEW d \in Deleter, Delete(d) PROVE row' = "deleted"
  BY <1>5 DEF Delete, SelectForDeletion, RemoveFiles, Invalidate, CommitDeletion
<1>6. CASE ExpireDetail \/ StartRun \/ DrawCharts \/ StoreCrash
  BY <1>6 DEF ExpireDetail, StartRun, DrawCharts, StoreCrash
<1> QED
  BY <1>3, <1>4, <1>5, <1>6 DEF StoreNext

LEMMA TeachStep ==
  ASSUME EntriesInv, Teach
  PROVE  EntriesInv'
<1>1. PICK kind \in {"correction", "learning"}, about \in {"dataset", "all"} :
        /\ about = "dataset" => row \in Visible
        /\ entries' = Append(entries, [kind |-> kind, about |-> about, meant |-> about])
  BY DEF Teach
<1> DEFINE e == [kind |-> kind, about |-> about, meant |-> about]
<1>2. e \in Entry /\ e.about = about /\ e.meant = about /\ (about = "dataset" => row # "deleted")
  BY <1>1 DEF Entry, Visible
<1>3. row' = row
  BY DEF Teach, storeVars
<1> HIDE DEF e
<1>4. entries' = Append(entries, e)
  BY <1>1 DEF e
<1> QED
  BY <1>2, <1>3, <1>4 DEF EntriesInv

LEMMA StoreStepKeepsEntries ==
  ASSUME Inv, EntriesInv, StoreStep
  PROVE  EntriesInv'
<1>1. \A e \in Entry : Detach(e) \in Entry /\ Detach(e).about = "all"
  BY DEF Detach, Entry
<1>2. CASE row' = "deleted" /\ row # "deleted"
  <2>1. entries' = [i \in DOMAIN entries |-> Detach(entries[i])]
    BY <1>2 DEF StoreStep
  <2>2. entries' \in Seq(Entry) /\ DOMAIN entries' = DOMAIN entries
    BY <1>1, <2>1 DEF EntriesInv
  <2> QED
    BY <1>1, <1>2, <2>1, <2>2 DEF EntriesInv
<1>3. CASE ~ (row' = "deleted" /\ row # "deleted")
  <2>1. entries' = entries
    BY <1>3 DEF StoreStep
  <2>2. row' = "deleted" <=> row = "deleted"
    BY <1>3, DeletedStays DEF StoreStep
  <2> QED
    BY <2>1, <2>2 DEF EntriesInv
<1> QED
  BY <1>2, <1>3

(* bootstrap_context gives a run on this dataset, or another, the newest   *)
(* corrections that are meant for it.                                      *)
LEMMA BootstrapTells ==
  ASSUME EntriesInv, NEW place \in Places, Bootstrap(place)
  PROVE  LET meant == {i \in DOMAIN entries :
                         /\ entries[i].kind = "correction"
                         /\ entries[i].meant = "all" \/ told'.place = "here" \/ row = "deleted"}
         IN {i \in told'.entries : entries[i].kind = "correction"} = Newest(meant)
<1> DEFINE meant == {i \in DOMAIN entries :
                       /\ entries[i].kind = "correction"
                       /\ entries[i].meant = "all" \/ told'.place = "here" \/ row = "deleted"}
           learned == {i \in DOMAIN entries : entries[i].kind = "learning"}
<1>1. told'.place = place /\ told'.entries = Corrections(place) \cup Learnings
  BY DEF Bootstrap
<1>2. meant = {i \in DOMAIN entries : /\ entries[i].kind = "correction"
                                      /\ entries[i].about = "all" \/ place = "here"}
  BY <1>1 DEF EntriesInv
<1>3. Corrections(place) = Newest(meant) /\ Learnings = Newest(learned)
  BY <1>2 DEF Corrections, Learnings
<1>4. Newest(meant) \subseteq meant /\ Newest(learned) \subseteq learned
  BY DEF Newest
<1> QED
  BY <1>1, <1>3, <1>4

(* A run is told the newest corrections about its dataset or about all,    *)
(* which after a deletion includes those about the deleted one             *)
(* (knowledge_bootstrap.py, models/knowledge.py).                          *)
THEOREM RunsAreTold == KnowledgeSpec => RunsAreToldTheirCorrections
<1>1. KnowledgeInit => EntriesInv
  BY DEF KnowledgeInit, EntriesInv
<1>2. Inv /\ EntriesInv /\ [KnowledgeNext]_knowledgeVars => EntriesInv'
  <2>1. ASSUME EntriesInv, UNCHANGED <<storeVars, entries>> PROVE EntriesInv'
    BY <2>1 DEF EntriesInv, storeVars
  <2> QED
    BY <2>1, TeachStep, StoreStepKeepsEntries DEF KnowledgeNext, Bootstrap, knowledgeVars
<1>3. EntriesInv /\ [KnowledgeNext]_knowledgeVars =>
        [told' # told =>
           LET meant == {i \in DOMAIN entries :
                           /\ entries[i].kind = "correction"
                           /\ entries[i].meant = "all" \/ told'.place = "here" \/ row = "deleted"}
           IN {i \in told'.entries : entries[i].kind = "correction"} = Newest(meant)]_knowledgeVars
  BY BootstrapTells DEF KnowledgeNext, StoreStep, Teach, knowledgeVars
<1> QED
  BY StoreInductive, <1>1, <1>2, <1>3, PTL DEF KnowledgeSpec, RunsAreToldTheirCorrections

-----------------------------------------------------------------------------
(* The profile and the database. *)

(* A list of some items is a list of more items. *)
LEMMA WiderList ==
  ASSUME NEW A, NEW B, A \subseteq B, NEW list \in Seq(A)
  PROVE  list \in Seq(B)
OBVIOUS

TableOfSheet(s) == [name |-> Sanitize[s.stem], frame |-> s.frame]
SheetsOf(files) == UNION {ToSet(files[i].sheets) : i \in DOMAIN files}
TableSet(files) == {TableOfSheet(s) : s \in SheetsOf(files)}

LEMMA OnDiskIsAFile ==
  ASSUME NEW A, NEW files \in Seq(A), NEW i \in DOMAIN files
  PROVE  \E j \in DOMAIN files : OnDisk(files, i) = files[j]
<1> DEFINE S == {j \in DOMAIN files : files[j].name = files[i].name}
<1>1. DOMAIN files = 1 .. Len(files) /\ Len(files) \in Nat
  OBVIOUS
<1>2. \E m \in S : \A k \in S : k <= m
  <2>1. S \in SUBSET (1 .. Len(files)) /\ S # {}
    BY <1>1
  <2> HIDE DEF S
  <2> QED
    BY <1>1, <2>1, Greatest
<1>3. \E j \in DOMAIN files :
        /\ files[j].name = files[i].name
        /\ \A k \in DOMAIN files : files[k].name = files[i].name => k <= j
  BY <1>2
<1> QED
  BY <1>3 DEF OnDisk

LEMMA TablesOfAFile ==
  ASSUME NEW file, IsList(file.sheets)
  PROVE  TablesOf(file) \in Seq({TableOfSheet(s) : s \in ToSet(file.sheets)})
<1> DEFINE B == ToSet(file.sheets)
           full == Those(file.sheets, {s \in B : s.frame # {}})
           sheets == IF file.kind = "csv" THEN file.sheets ELSE full
<1>1. file.sheets \in Seq(B)
  BY DEF IsList, ToSet
<1> HIDE DEF B
<1>2. full \in Seq(B)
  BY <1>1, ThoseProperties
<1> HIDE DEF full
<1>3. sheets \in Seq(B)
  BY <1>1, <1>2
<1>4. TablesOf(file) = [i \in DOMAIN sheets |-> TableOfSheet(sheets[i])]
  BY DEF TablesOf, TableOfSheet, full, B
<1> HIDE DEF sheets
<1>5. [i \in DOMAIN sheets |-> TableOfSheet(sheets[i])] \in Seq({TableOfSheet(s) : s \in B})
  BY <1>3
<1> QED
  BY <1>4, <1>5 DEF B

(* process_dataset_files loads a list of tables with finitely many values. *)
LEMMA TablesAreListed ==
  ASSUME NEW files \in Offers
  PROVE  /\ Tables(files) \in Seq(TableSet(files))
         /\ \A t \in TableSet(files) : IsFiniteSet(t.frame)
<1> DEFINE A == {files[i] : i \in DOMAIN files}
           lists == [i \in DOMAIN files |-> TablesOf(OnDisk(files, i))]
<1>1. files \in Seq(A)
  BY OffersAssumption DEF IsList
<1>2. ASSUME NEW i \in DOMAIN files PROVE lists[i] \in Seq(TableSet(files))
  <2>1. PICK j \in DOMAIN files : OnDisk(files, i) = files[j]
    BY <1>1, OnDiskIsAFile
  <2>2. TablesOf(files[j]) \in Seq({TableOfSheet(s) : s \in ToSet(files[j].sheets)})
    BY OffersAssumption, TablesOfAFile
  <2>3. {TableOfSheet(s) : s \in ToSet(files[j].sheets)} \subseteq TableSet(files)
    BY DEF TableSet, SheetsOf
  <2>4. TablesOf(files[j]) \in Seq(TableSet(files))
    BY <2>2, <2>3, WiderList
  <2> QED
    BY <2>1, <2>4
<1>3. lists \in Seq(Seq(TableSet(files)))
  <2>1. DOMAIN files = 1 .. Len(files) /\ Len(files) \in Nat
    BY <1>1
  <2>2. lists = [i \in 1 .. Len(files) |-> lists[i]]
    BY <2>1
  <2> HIDE DEF lists
  <2> QED
    BY <1>2, <2>1, <2>2
<1>4. Tables(files) = Flat(lists)
  BY DEF Tables
<1> HIDE DEF lists
<1>5. Tables(files) \in Seq(TableSet(files))
  BY <1>3, <1>4, FlatProperties
<1>6. ASSUME NEW t \in TableSet(files) PROVE IsFiniteSet(t.frame)
  <2>1. PICK s \in SheetsOf(files) : t = TableOfSheet(s)
    BY DEF TableSet
  <2>2. PICK i \in DOMAIN files : \E j \in DOMAIN files[i].sheets : s = files[i].sheets[j]
    BY DEF SheetsOf, ToSet
  <2>3. IsFiniteSet(s.frame)
    BY <2>2, OffersAssumption
  <2> QED
    BY <2>1, <2>3 DEF TableOfSheet
<1> QED
  BY <1>5, <1>6

(* A name has a first and a last table. *)
LEMMA FirstAndLast ==
  ASSUME NEW A, NEW tables \in Seq(A), NEW n \in TableNames(tables)
  PROVE  /\ FirstOf(tables, n) \in DOMAIN tables /\ tables[FirstOf(tables, n)].name = n
         /\ LastOf(tables, n) \in DOMAIN tables /\ tables[LastOf(tables, n)].name = n
<1> DEFINE S == {i \in DOMAIN tables : tables[i].name = n}
<1>1. DOMAIN tables = 1 .. Len(tables) /\ Len(tables) \in Nat
  OBVIOUS
<1>2. S \in SUBSET Nat /\ S \in SUBSET (1 .. Len(tables)) /\ S # {}
  BY <1>1 DEF TableNames
<1>3. (\E m \in S : \A k \in S : m <= k) /\ (\E m \in S : \A k \in S : k <= m)
  <2> HIDE DEF S
  <2> QED
    BY <1>1, <1>2, Least, Greatest
<1>4. \E i \in DOMAIN tables : tables[i].name = n /\ \A j \in 1 .. (i - 1) : tables[j].name # n
  <2>1. PICK m \in S : \A k \in S : m <= k
    BY <1>3
  <2>2. \A j \in 1 .. (m - 1) : j \in DOMAIN tables /\ ~ (m <= j)
    BY <1>1
  <2> QED
    BY <2>1, <2>2
<1>5. \E i \in DOMAIN tables :
        tables[i].name = n /\ \A j \in (i + 1) .. Len(tables) : tables[j].name # n
  <2>1. PICK m \in S : \A k \in S : k <= m
    BY <1>3
  <2>2. \A j \in (m + 1) .. Len(tables) : j \in DOMAIN tables /\ ~ (j <= m)
    BY <1>1
  <2> QED
    BY <2>1, <2>2
<1>6. FirstOf(tables, n) \in DOMAIN tables /\ tables[FirstOf(tables, n)].name = n
  BY <1>4 DEF FirstOf
<1>7. LastOf(tables, n) \in DOMAIN tables /\ tables[LastOf(tables, n)].name = n
  BY <1>5 DEF LastOf
<1> QED
  BY <1>6, <1>7

LEMMA OverlapsIsSymmetric ==
  ASSUME NEW f, NEW g, IsFiniteSet(f), IsFiniteSet(g), Overlaps(f, g)
  PROVE  Overlaps(g, f)
<1>1. Cardinality(f) \in Nat /\ Cardinality(g) \in Nat /\ f \cap g = g \cap f
  BY FS_CardinalityType
<1> QED
  BY <1>1 DEF Overlaps

(* What ProfileFitsDatabase says of a profile and a database. *)
Fits(p, db) ==
  /\ {p.tables[i] : i \in DOMAIN p.tables} = DOMAIN db
  /\ \A s \in p.relationships :
       /\ Overlaps(db[s.from], db[s.to])
       /\ Cardinality(db[s.from]) >= Cardinality(db[s.to])
  /\ \A n, m \in DOMAIN db : n # m /\ Overlaps(db[n], db[m]) =>
       \E s \in p.relationships : {s.from, s.to} = {n, m}

(* The profile and the database that are made of one list of tables agree. *)
LEMMA ProfileOfDatabase ==
  ASSUME NEW A, NEW tables \in Seq(A), \A t \in A : IsFiniteSet(t.frame)
  PROVE  Fits(Profile(tables), Database(tables))
<1> DEFINE names == TableNames(tables)
           frame(n) == tables[LastOf(tables, n)].frame
           db == Database(tables)
           first(n) == FirstOf(tables, n)
<1>1. DOMAIN db = names /\ \A n \in names : db[n] = frame(n)
  BY DEF Database
<1>2. {Profile(tables).tables[i] : i \in DOMAIN Profile(tables).tables} = names
  BY DEF Profile, TableNames
<1>3. Profile(tables).relationships =
        {Relationship(p[1], frame(p[1]), p[2], frame(p[2])) :
           p \in {q \in {r \in names \X names : first(r[1]) < first(r[2])} :
                    Overlaps(frame(q[1]), frame(q[2]))}}
  BY DEF Profile, Relationships
<1>4. \A n \in names : IsFiniteSet(frame(n)) /\ Cardinality(frame(n)) \in Nat
  <2> SUFFICES ASSUME NEW n \in names PROVE IsFiniteSet(frame(n))
    BY FS_CardinalityType
  <2>1. LastOf(tables, n) \in DOMAIN tables
    BY FirstAndLast
  <2> QED
    BY <2>1
<1>5. \A n, m \in names : n # m => first(n) < first(m) \/ first(m) < first(n)
  <2> SUFFICES ASSUME NEW n \in names, NEW m \in names, n # m
               PROVE  first(n) < first(m) \/ first(m) < first(n)
    OBVIOUS
  <2>1. /\ first(n) \in DOMAIN tables /\ tables[first(n)].name = n
        /\ first(m) \in DOMAIN tables /\ tables[first(m)].name = m
    BY FirstAndLast
  <2> HIDE DEF first
  <2> QED
    BY <2>1
<1> HIDE DEF names, frame, db, first
<1>6. ASSUME NEW s \in Profile(tables).relationships
      PROVE  /\ Overlaps(db[s.from], db[s.to])
             /\ Cardinality(db[s.from]) >= Cardinality(db[s.to])
  <2>1. PICK n \in names, m \in names :
          s = Relationship(n, frame(n), m, frame(m)) /\ Overlaps(frame(n), frame(m))
    BY <1>3
  <2>2. Overlaps(frame(m), frame(n))
    BY <1>4, <2>1, OverlapsIsSymmetric
  <2>3. CASE Cardinality(frame(n)) >= Cardinality(frame(m))
    <3>1. s.from = n /\ s.to = m
      BY <2>1, <2>3 DEF Relationship
    <3> QED
      BY <1>1, <2>1, <2>3, <3>1
  <2>4. CASE ~ (Cardinality(frame(n)) >= Cardinality(frame(m)))
    <3>1. s.from = m /\ s.to = n
      BY <2>1, <2>4 DEF Relationship
    <3>2. Cardinality(frame(m)) >= Cardinality(frame(n))
      BY <1>4, <2>4
    <3> QED
      BY <1>1, <2>2, <3>1, <3>2
  <2> QED
    BY <2>3, <2>4
<1>7. ASSUME NEW n \in names, NEW m \in names, first(n) < first(m), Overlaps(frame(n), frame(m))
      PROVE  \E s \in Profile(tables).relationships : {s.from, s.to} = {n, m}
  <2> DEFINE s == Relationship(n, frame(n), m, frame(m))
  <2>1. s \in Profile(tables).relationships
    <3>1. <<n, m>> \in {q \in {r \in names \X names : first(r[1]) < first(r[2])} :
                          Overlaps(frame(q[1]), frame(q[2]))}
      BY <1>7
    <3> QED
      BY <1>3, <3>1
  <2>2. {s.from, s.to} = {n, m}
    BY DEF Relationship
  <2> QED
    BY <2>1, <2>2
<1>8. ASSUME NEW n \in names, NEW m \in names, n # m, Overlaps(db[n], db[m])
      PROVE  \E s \in Profile(tables).relationships : {s.from, s.to} = {n, m}
  <2>1. Overlaps(frame(n), frame(m)) /\ Overlaps(frame(m), frame(n))
    BY <1>1, <1>4, <1>8, OverlapsIsSymmetric
  <2>2. CASE first(n) < first(m)
    BY <1>7, <2>1, <2>2
  <2>3. CASE first(m) < first(n)
    <3>1. \E s \in Profile(tables).relationships : {s.from, s.to} = {m, n}
      BY <1>7, <2>1, <2>3
    <3>2. {m, n} = {n, m}
      OBVIOUS
    <3> QED
      BY <3>1, <3>2
  <2> QED
    BY <1>5, <1>8, <2>2, <2>3
<1> QED
  BY <1>1, <1>2, <1>6, <1>8 DEF db, Fits

(* What the profile of a ready dataset says of its tables and their        *)
(* relationships holds in the database, and nothing is missing             *)
(* (process_dataset_files, _detect_relationships), for any list of files.  *)
THEOREM ProfilesFit == KnowledgeSpec => []ProfileFitsDatabase
<1>1. ASSUME Inv PROVE ProfileFitsDatabase
  <2> SUFFICES ASSUME row = "ready" PROVE ProfileFitsDatabase
    BY DEF ProfileFitsDatabase
  <2> DEFINE tables == Tables(upload.files)
  <2>1. upload.at = "committed" /\ upload.status = "ready"
    BY <1>1 DEF Inv, UploadInv, CommittedInv
  <2>2. database = Database(tables) /\ profile = Profile(tables)
    BY <1>1, <2>1 DEF Inv, CommittedInv, Loaded
  <2>3. upload.files \in Offers
    BY <1>1 DEF Inv, UploadType
  <2>4. /\ tables \in Seq(TableSet(upload.files))
        /\ \A t \in TableSet(upload.files) : IsFiniteSet(t.frame)
    BY <2>3, TablesAreListed
  <2>5. Fits(profile, database)
    <3> HIDE DEF tables
    <3> QED
      BY <2>2, <2>4, ProfileOfDatabase
  <2>6. TableNames([i \in DOMAIN profile.tables |-> [name |-> profile.tables[i]]])
          = {profile.tables[i] : i \in DOMAIN profile.tables}
    BY DEF TableNames
  <2> QED
    BY <2>5, <2>6 DEF ProfileFitsDatabase, Fits
<1> QED
  BY StoreInductive, <1>1, PTL

=============================================================================
