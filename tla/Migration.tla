------------------------------ MODULE Migration ------------------------------
(***************************************************************************)
(* Opening a redb store (vls-persist/src/kvv/redb.rs and the server's      *)
(* lssd/src/database/redb.rs).  A file of the old format is copied to a    *)
(* temporary file in one transaction, which then replaces it.  A crash may *)
(* come between any two steps.                                             *)
(*                                                                         *)
(* A file is its format, its signer id and its table, abstracted to the    *)
(* version of the last put.  The file system's rename is atomic.           *)
(***************************************************************************)
EXTENDS Integers

CONSTANT MaxPuts   \* bound: puts and new signer ids

VARIABLES
  file,   \* the store's file
  temp,   \* the file with DB2_EXTENSION
  step,   \* where the opening stands
  known,  \* history: the id and the version that callers have seen
  fresh   \* ids made so far

migrationVars == <<file, temp, step, known, fresh>>

NoFile == [format |-> 0, id |-> 0, version |-> 0]
NewFile == [format |-> 2, id |-> 0, version |-> 0]

\* A new directory, a store of the old release, with or without an id, or one
\* of this release.
MigrationInit ==
  /\ file \in {NoFile, [format |-> 1, id |-> 0, version |-> 1],
               [format |-> 1, id |-> 1, version |-> 1], [format |-> 2, id |-> 1, version |-> 1]}
  /\ temp = NoFile
  /\ step = "closed"
  /\ known = [id |-> file.id, version |-> file.version]
  /\ fresh = 1

\* Database::create: an old format has to be migrated, a missing file is made.
OpenStore ==
  /\ step = "closed"
  /\ step' = IF file.format = 1 THEN "remove" ELSE "id"
  /\ file' = IF file.format = 0 THEN NewFile ELSE file
  /\ UNCHANGED <<temp, known, fresh>>

\* A temporary file that an interrupted migration left behind is removed.
RemoveTemp ==
  /\ step = "remove"
  /\ temp' = NoFile /\ step' = "create"
  /\ UNCHANGED <<file, known, fresh>>

CreateTemp ==
  /\ step = "create"
  /\ temp' = NewFile /\ step' = "copy"
  /\ UNCHANGED <<file, known, fresh>>

\* Mutant: the meta table is not copied.
CopyKvOnly == [temp EXCEPT !.version = file.version]

\* migrate_kv_table and migrate_meta_table, in one transaction
Copied == [temp EXCEPT !.version = file.version, !.id = file.id]

MigrateData ==
  /\ step = "copy"
  /\ temp' = Copied /\ step' = "rename"
  /\ UNCHANGED <<file, known, fresh>>

\* std::fs::rename
Rename ==
  /\ step = "rename"
  /\ file' = temp /\ temp' = NoFile /\ step' = "id"
  /\ UNCHANGED <<known, fresh>>

\* The signer id is made once, in a transaction; the versions are loaded.
EnsureId ==
  /\ step = "id"
  /\ fresh' = IF file.id = 0 THEN fresh + 1 ELSE fresh
  /\ file' = IF file.id = 0 THEN [file EXCEPT !.id = fresh + 1] ELSE file
  /\ known' = [known EXCEPT !.id = file'.id]
  /\ step' = "open"
  /\ UNCHANGED temp

\* put, committed before it returns
PutOpen ==
  /\ step = "open" /\ file.version < MaxPuts
  /\ file' = [file EXCEPT !.version = @ + 1]
  /\ known' = [known EXCEPT !.version = @ + 1]
  /\ UNCHANGED <<temp, step, fresh>>

CrashStore ==
  /\ step # "closed"
  /\ step' = "closed"
  /\ UNCHANGED <<file, temp, known, fresh>>

MigrationNext ==
  \/ OpenStore \/ RemoveTemp \/ CreateTemp \/ MigrateData \/ Rename \/ EnsureId \/ PutOpen
  \/ CrashStore

MigrationSpec == MigrationInit /\ [][MigrationNext]_migrationVars

\* Whatever is interrupted, the file holds every put that returned and the
\* signer id that was seen (migrate_v1_to_v2 and new_store).
NothingLost == file.version = known.version /\ (known.id # 0 => file.id = known.id)
=============================================================================
