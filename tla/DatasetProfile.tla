--------------------------- MODULE DatasetProfile ---------------------------
(***************************************************************************)
(* What an upload becomes (app/services/file_processing.py): the tables of *)
(* the DuckDB file and the profile that describes them.  A frame is the    *)
(* set of values of one column that all tables share; the other columns,   *)
(* types and statistics are left out.                                      *)
(***************************************************************************)
EXTENDS Lists, SequencesExt, FiniteSets

CONSTANTS
  Sanitize,      \* _sanitize_table_name: from file or sheet name to table name
  MaxFiles,      \* settings.max_files_per_upload
  MaxFileSize,   \* settings.max_file_size_bytes
  MaxTotalSize   \* settings.max_total_upload_bytes

(* A file: its name, whether a file of that name can be written, its kind  *)
(* by extension, its size (0 when the client does not say), whether it     *)
(* parses, and its sheets, one for a csv file.  A sheet: its name, whether *)
(* its headers are all text, and the frame, empty if there are no rows.    *)

(* _validate_upload_files *)
Refused(files) ==
  \/ Len(files) > MaxFiles
  \/ \E i \in DOMAIN files : files[i].kind = "other" \/ files[i].size > MaxFileSize
  \/ FoldLeft(LAMBDA total, f : total + f.size, 0, files) > MaxTotalSize

(* The file that is on the disk under the name of the i-th one: a later    *)
(* file of the same name has overwritten it.                               *)
OnDisk(files, i) ==
  files[CHOOSE j \in DOMAIN files :
          /\ files[j].name = files[i].name
          /\ \A k \in DOMAIN files : files[k].name = files[i].name => k <= j]

(* A csv file is a table under its own name; of a workbook the sheets that *)
(* are not empty are tables under theirs.                                  *)
TablesOf(file) ==
  LET sheets == IF file.kind = "csv" THEN file.sheets
                ELSE Those(file.sheets, {s \in ToSet(file.sheets) : s.frame # {}})
  IN [i \in DOMAIN sheets |-> [name |-> Sanitize[sheets[i].stem], frame |-> sheets[i].frame]]

Writable(files) == \A i \in DOMAIN files : files[i].writable

Parses(files) == \A i \in DOMAIN files : OnDisk(files, i).parses

(***************************************************************************)
(* JSONB takes the profile: it has no NaN, which is the null rate of a csv *)
(* file without rows, and no name of a column that is not text, as a       *)
(* workbook may have one that is a date.                                   *)
(***************************************************************************)
Storable(files) ==
  \A i \in DOMAIN files :
    LET file == OnDisk(files, i)
    IN \A j \in DOMAIN file.sheets :
         IF file.kind = "csv" THEN file.sheets[j].frame # {}
         ELSE file.sheets[j].frame # {} => file.sheets[j].textHeaders

(* process_dataset_files: one entry for each table that was loaded. *)
Tables(files) == Flat([i \in DOMAIN files |-> TablesOf(OnDisk(files, i))])

TableNames(tables) == {tables[i].name : i \in DOMAIN tables}

FirstOf(tables, n) ==
  CHOOSE i \in DOMAIN tables : tables[i].name = n /\ \A j \in 1 .. (i - 1) : tables[j].name # n

LastOf(tables, n) ==
  CHOOSE i \in DOMAIN tables :
    tables[i].name = n /\ \A j \in (i + 1) .. Len(tables) : tables[j].name # n

(* Mutant: a table that exists is not dropped.                             *)
DatabaseKeepsFirst(tables) ==
  [n \in TableNames(tables) |-> tables[FirstOf(tables, n)].frame]

(* _load_dataframe drops the table of the same name. *)
Database(tables) == [n \in TableNames(tables) |-> tables[LastOf(tables, n)].frame]

(* _check_column_overlap: at least four fifths of the smaller set of       *)
(* values are in the other one.                                            *)
Overlaps(f1, f2) ==
  LET smaller == IF Cardinality(f1) <= Cardinality(f2) THEN f1 ELSE f2
  IN f1 # {} /\ f2 # {} /\ 5 * Cardinality(f1 \cap f2) >= 4 * Cardinality(smaller)

(* The table with more values refers to the one with fewer, the first one  *)
(* to the second when they have as many.                                   *)
Relationship(t1, f1, t2, f2) ==
  IF Cardinality(f1) >= Cardinality(f2)
    THEN [from |-> t1, to |-> t2, oneToOne |-> Cardinality(f1) = Cardinality(f2)]
    ELSE [from |-> t2, to |-> t1, oneToOne |-> FALSE]

(* _detect_relationships: pairs of names in the order in which they came   *)
(* up; both dictionaries hold the last table of a name.                    *)
Relationships(tables) ==
  LET frame(n) == tables[LastOf(tables, n)].frame
      pairs == {p \in TableNames(tables) \X TableNames(tables) :
                  FirstOf(tables, p[1]) < FirstOf(tables, p[2])}
  IN {Relationship(p[1], frame(p[1]), p[2], frame(p[2])) :
        p \in {q \in pairs : Overlaps(frame(q[1]), frame(q[2]))}}

(* The schema profile that is stored with the row: a table for each entry, *)
(* so one that was loaded twice is described twice.                        *)
Profile(tables) ==
  [tables |-> [i \in DOMAIN tables |-> tables[i].name],
   relationships |-> Relationships(tables)]

=============================================================================
