----------------------------- MODULE StoreProofs -----------------------------
(***************************************************************************)
(* Proofs about the stores on disk: that a migration that is interrupted   *)
(* loses nothing and that the main and the backup persister between them   *)
(* hold every write that returned.                                         *)
(***************************************************************************)
EXTENDS Migration, BackupStore, TLAPS

-----------------------------------------------------------------------------
(* The migration of a store's file.                                        *)

StoreFiles == [format : 0..2, id : Nat, version : Nat]

\* The copy is complete before it takes the file's place, a missing file holds
\* nothing, and only a file of the new format is written to.
MigrationInv ==
  /\ file \in StoreFiles /\ temp \in StoreFiles
  /\ known \in [id : Nat, version : Nat]
  /\ fresh \in Nat
  /\ file.format = 0 => file = NoFile
  /\ step \in {"id", "open"} => file.format = 2
  /\ step = "copy" => temp.format = 2
  /\ step = "rename" => /\ temp.format = 2
                        /\ temp.id = file.id /\ temp.version = file.version
  /\ NothingLost

\* An interrupted migration of redb.rs loses no put that returned and no signer id
\* that was seen, whatever number of puts, migrations and crashes.
THEOREM MigrationLosesNothing == MigrationSpec => []NothingLost
<1>1. MigrationInit => MigrationInv
  BY DEF MigrationInit, MigrationInv, NoFile, StoreFiles, NothingLost
<1>2. MigrationInv /\ [MigrationNext]_migrationVars => MigrationInv'
  <2> SUFFICES ASSUME MigrationInv, [MigrationNext]_migrationVars
               PROVE  MigrationInv'
    OBVIOUS
  <2> USE DEF MigrationInv, StoreFiles, NothingLost, NoFile
  <2>1. CASE OpenStore
    BY <2>1 DEF OpenStore, NewFile
  <2>2. CASE RemoveTemp
    BY <2>2 DEF RemoveTemp
  <2>3. CASE CreateTemp
    BY <2>3 DEF CreateTemp, NewFile
  <2>4. CASE MigrateData
    BY <2>4, Zenon DEF MigrateData, Copied
  <2>5. CASE Rename
    BY <2>5 DEF Rename
  <2>6. CASE EnsureId
    BY <2>6 DEF EnsureId
  <2>7. CASE PutOpen
    BY <2>7 DEF PutOpen
  <2>8. CASE CrashStore
    BY <2>8, Zenon DEF CrashStore
  <2>9. CASE UNCHANGED migrationVars
    BY <2>9, Zenon DEF migrationVars
  <2> QED
    BY <2>1, <2>2, <2>3, <2>4, <2>5, <2>6, <2>7, <2>8, <2>9, Zenon DEF MigrationNext
<1>3. MigrationInv => NothingLost
  BY Zenon DEF MigrationInv
<1> QED
  BY <1>1, <1>2, <1>3, PTL DEF MigrationSpec

-----------------------------------------------------------------------------
(* The main and the backup persister.                                      *)

\* The backup holds the last write that returned and the main persister, unless
\* it was lost, at least that; a write under way is in the main persister.
BackupInv ==
  /\ main \in Int /\ backup \in Int /\ live \in Int /\ replied \in Int
  /\ backup = replied /\ replied >= 0
  /\ ~lost => main >= replied
  /\ restored /\ live # Down => main >= replied
  /\ live = Down => ~restored /\ ~half
  /\ half => restored /\ main = live
  /\ BackupHolds

\* What the composite persister restores holds every write that returned, and
\* after the startup sync both stores are what the node holds.
THEOREM BackupIsComplete == BackupSpec => []BackupHolds
<1>1. BackupInit => BackupInv
  BY DEF BackupInit, BackupInv, BackupHolds, RestoresReplied, BackupCurrent, Down
<1>2. BackupInv /\ [BackupNext]_backupVars => BackupInv'
  <2> SUFFICES ASSUME BackupInv, [BackupNext]_backupVars
               PROVE  BackupInv'
    OBVIOUS
  <2> USE DEF BackupInv, BackupHolds, RestoresReplied, BackupCurrent, Down
  <2>1. CASE RestoreFrom
    BY <2>1 DEF RestoreFrom, main_is_ready
  <2>2. CASE SyncMain
    BY <2>2, Zenon DEF SyncMain
  <2>3. CASE WriteMain
    BY <2>3 DEF WriteMain
  <2>4. CASE WriteBackup
    BY <2>4 DEF WriteBackup
  <2>5. CASE CrashBackup
    BY <2>5 DEF CrashBackup
  <2>6. CASE LoseMain
    BY <2>6 DEF LoseMain
  <2>7. CASE UNCHANGED backupVars
    BY <2>7, Zenon DEF backupVars
  <2> QED
    BY <2>1, <2>2, <2>3, <2>4, <2>5, <2>6, <2>7, Zenon DEF BackupNext
<1>3. BackupInv => BackupHolds
  BY Zenon DEF BackupInv
<1> QED
  BY <1>1, <1>2, <1>3, PTL DEF BackupSpec
=============================================================================
