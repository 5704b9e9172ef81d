----------------------------- MODULE BackupStore -----------------------------
(***************************************************************************)
(* The composite persister (vls-persist/src/backup_persister.rs): a write  *)
(* goes to the main persister and then to the backup, and a start of the   *)
(* node writes everything again (Node::maybe_sync_persister).  When the    *)
(* main persister has lost its contents the backup is used until then.     *)
(*                                                                         *)
(* The state of the node is its last version.                              *)
(***************************************************************************)
EXTENDS Integers

CONSTANTS
  MaxWrites,  \* bound: writes
  MaxLosses   \* bound: losses of the main store

VARIABLES
  main,      \* version in the main persister
  backup,    \* version in the backup persister
  lost,      \* main.recovery_required()
  restored,  \* initial_restore_complete
  live,       \* version in the node, or Down
  half,      \* a write has reached the main persister only
  replied,   \* history: the last version whose write returned
  losses

backupVars == <<main, backup, lost, restored, live, half, replied, losses>>

Down == -1

BackupInit ==
  /\ main = 0 /\ backup = 0 /\ lost = FALSE /\ restored = FALSE
  /\ live = Down /\ half = FALSE /\ replied = 0 /\ losses = 0

\* Mutant: a main persister that lost its contents is used.
ready_when_open == TRUE

main_is_ready == ~lost \/ restored

\* get_nodes, get_channel, get_tracker...: from the persister that is ready
RestoreFrom ==
  /\ live = Down
  /\ live' = IF main_is_ready THEN main ELSE backup
  /\ half' = FALSE
  /\ UNCHANGED <<main, backup, lost, restored, replied, losses>>

\* on_initial_restore sets the flag, and maybe_sync_persister writes what was
\* restored, the main persister first.
SyncMain ==
  /\ live # Down /\ ~restored
  /\ restored' = TRUE
  /\ main' = live /\ half' = TRUE
  /\ UNCHANGED <<backup, lost, live, replied, losses>>

\* An update of the node, a channel, the tracker or the allowlist
WriteMain ==
  /\ live # Down /\ restored /\ ~half /\ live < MaxWrites
  /\ live' = live + 1 /\ half' = TRUE
  /\ main' = live + 1
  /\ UNCHANGED <<backup, lost, restored, replied, losses>>

WriteBackup ==
  /\ half
  /\ backup' = live /\ half' = FALSE
  /\ replied' = live
  /\ lost' = FALSE
  /\ UNCHANGED <<main, restored, live, losses>>

CrashBackup ==
  /\ live # Down
  /\ live' = Down /\ restored' = FALSE /\ half' = FALSE
  /\ UNCHANGED <<main, backup, lost, replied, losses>>

\* The main store is found empty at a start.
LoseMain ==
  /\ live = Down /\ losses < MaxLosses
  /\ lost' = TRUE /\ main' = 0 /\ losses' = losses + 1
  /\ UNCHANGED <<backup, restored, live, half, replied>>

BackupNext ==
  \/ RestoreFrom \/ SyncMain \/ WriteMain \/ WriteBackup \/ CrashBackup \/ LoseMain

BackupSpec == BackupInit /\ [][BackupNext]_backupVars

\* A node that has been restored holds every write that returned, through
\* crashes between the two writes and through losses of the main store
\* ("to ensure that the backup is up to date", backup_persister.rs).
RestoresReplied == live # Down => live >= replied

\* Once the startup sync is complete the backup lags at most by the write under
\* way.
BackupCurrent == live # Down /\ restored /\ ~half => backup = live /\ main = live

\* Between them, main and backup hold every write that returned, and the backup
\* is up to date once the startup sync is complete.
BackupHolds == RestoresReplied /\ BackupCurrent
=============================================================================
