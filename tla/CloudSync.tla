------------------------------ MODULE CloudSync ------------------------------
(***************************************************************************)
(* Signers that keep their state in a local store and, with --lss, in a    *)
(* storage server as well (vlsd/src/grpc/signer.rs, the cloud and the      *)
(* transactional store of vls-persist/src/kvv, lightning-storage-server).  *)
(* A request enters a transaction, its writes go to the commit log, the    *)
(* log is stored in the server and then committed to the local store, and  *)
(* only then does the reply leave.                                         *)
(*                                                                         *)
(* Several signers with one seed may run, each with its own local store.   *)
(* A signer may crash between any two steps; every failed store, refused   *)
(* batch and failed commit is a panic and main() aborts on a panic, so     *)
(* they are crashes too.  A put that is under way when its signer crashes  *)
(* may still reach the server, at any later time, or never.                *)
(***************************************************************************)
EXTENDS KvvStore, Sequences

CONSTANTS
  Signers,      \* signer processes with one seed
  Primary,      \* the signer whose state starts the server's
  Allowlist,    \* the allowlist's key
  LssWriters,   \* paths around the request loop that occur with --lss:
                \* "rpc" (an RPC during a store), "peer" (a bad peer id)
  MaxValues     \* bound on writes

ASSUME CloudSyncAssumption ==
  /\ Primary \in Signers
  /\ Allowlist \in DataKeys
  /\ LAST_WRITER \notin DataKeys
  /\ MaxValues \in Nat
  /\ 0..MaxValues \cup Signers \subseteq Values
  /\ -1 \notin Values

VARIABLES
  lss,     \* signers the operator starts with --lss
  phase,   \* where a signer's process is
  serving, \* the node is built: requests and RPCs are taken
  local,   \* the local store of a signer
  log,     \* the commit log of a signer
  base,    \* the local store a transaction was entered on
  call,    \* the batch a signer has put and waits for
  answer,  \* what the server answered to it
  net,     \* puts under way to the server
  hist,    \* the server's contents, oldest first; the last one is current
  bases,   \* for each later element of hist, the store its request read
  acked,   \* entries whose request was answered
  used     \* values written so far

syncVars ==
  <<lss, phase, serving, local, log, base, call, answer, net, hist, bases,
    acked, used>>

cloud == hist[Len(hist)]

Phases == {"down", "idle", "handling", "storing", "replicating"}

Fresh == used + 1

SyncInit ==
  /\ lss \in {[s \in Signers |-> s # Primary], [s \in Signers |-> TRUE]}
  /\ phase = [s \in Signers |-> "down"]
  /\ serving = [s \in Signers |-> FALSE]
  /\ local = [s \in Signers |-> Empty]
  /\ log = [s \in Signers |-> NoEntries]
  /\ base = [s \in Signers |-> Empty]
  /\ call = [s \in Signers |-> NoEntries]
  /\ answer = [s \in Signers |-> "none"]
  /\ net = {}
  /\ hist = <<Empty>>
  /\ bases = << >>
  /\ acked = {}
  /\ used = 0

Put(s, store, lg, k, v) ==
  IF lss[s] THEN CloudPut(store, lg, k, v)
            ELSE TransactionalPut(store, lg, k, v)

\* Mutant: the writer record is written when the writer changes.
EnterOnce(s, store) ==
  IF lss[s] /\ store[LAST_WRITER].ver >= 1 THEN NoEntries
  ELSE IF lss[s]
    THEN LogEntry(NoEntries, LAST_WRITER, [ver |-> store[LAST_WRITER].ver + 1, val |-> s])
    ELSE NoEntries

\* CloudKVVStore::enter logs the writer record first, so that every stored
\* transaction advances it; TransactionalKVVStore::enter starts empty.
EnterLog(s, store) ==
  IF lss[s]
    THEN LogEntry(NoEntries, LAST_WRITER,
                  [ver |-> store[LAST_WRITER].ver + 1, val |-> s])
    ELSE NoEntries

Halt(s) ==
  /\ phase' = [phase EXCEPT ![s] = "down"]
  /\ serving' = [serving EXCEPT ![s] = FALSE]
  /\ log' = [log EXCEPT ![s] = NoEntries]
  /\ call' = [call EXCEPT ![s] = NoEntries]
  /\ answer' = [answer EXCEPT ![s] = "none"]

\* What the handler build writes: every record of a new node; with --lss
\* the allowlist is then replaced by the file's.
BuildKeys(s, store) ==
  IF \E k \in DataKeys : store[k] # Absent
    THEN IF lss[s] THEN {Allowlist} ELSE {}
    ELSE DataKeys

\* A batch of puts of one value; the keys are different, so each takes its
\* version from the store.
BuildLog(s, store) ==
  LET lg == EnterLog(s, store)
      ks == BuildKeys(s, store)
  IN  [k \in DOMAIN lg \cup ks |->
         IF k \in ks THEN [ver |-> store[k].ver + 1, val |-> Fresh] ELSE lg[k]]

\* connect: the server's contents are applied to the local store, then a
\* transaction is entered and the node is built inside it.  An unlogged
\* batch that the local store refuses leaves the signer down.  Another
\* signer is only started on a server that has been given its contents.
Start(s) ==
  /\ phase[s] = "down"
  /\ used < MaxValues
  /\ lss[s] /\ s # Primary => cloud # Empty
  /\ lss[s] => BatchOk(local[s], Contents(cloud))
  /\ LET store == IF lss[s] THEN PutBatch(local[s], Contents(cloud))
                            ELSE local[s]
     IN  /\ local' = [local EXCEPT ![s] = store]
         /\ log' = [log EXCEPT ![s] = BuildLog(s, store)]
         /\ base' = [base EXCEPT ![s] = store]
         /\ used' = IF BuildKeys(s, store) = {} THEN used ELSE Fresh
  /\ phase' = [phase EXCEPT ![s] = "handling"]
  /\ UNCHANGED <<lss, serving, call, answer, net, hist, bases, acked>>

\* do_handle up to the handler's first write.
Enter(s) ==
  /\ phase[s] = "idle"
  /\ phase' = [phase EXCEPT ![s] = "handling"]
  /\ log' = [log EXCEPT ![s] = EnterLog(s, local[s])]
  /\ base' = [base EXCEPT ![s] = local[s]]
  /\ UNCHANGED <<lss, serving, local, call, answer, net, hist, bases, acked, used>>

\* The handler persists a record (update_node, update_channel, ...).
Write(s, k) ==
  /\ phase[s] = "handling"
  /\ used < MaxValues
  /\ log' = [log EXCEPT ![s] = Put(s, local[s], @, k, Fresh)]
  /\ used' = Fresh
  /\ UNCHANGED <<lss, phase, serving, local, base, call, answer, net, hist, bases,
                 acked>>

\* prepare and store_with_client.  A log with the writer record alone is
\* cleared and nothing is stored, so that commit leaves the store alone.
Prepare(s) ==
  /\ phase[s] = "handling"
  /\ lss[s]
  /\ \/ /\ DOMAIN log[s] = {LAST_WRITER}
        /\ log' = [log EXCEPT ![s] = NoEntries]
        /\ phase' = [phase EXCEPT ![s] = "idle"]
        /\ serving' = [serving EXCEPT ![s] = TRUE]
        /\ UNCHANGED <<call, net>>
     \/ /\ DOMAIN log[s] # {LAST_WRITER}
        /\ phase' = [phase EXCEPT ![s] = "storing"]
        /\ net' = net \cup {[from |-> s, batch |-> log[s], base |-> base[s]]}
        /\ call' = [call EXCEPT ![s] = log[s]]
        /\ UNCHANGED <<serving, log>>
  /\ UNCHANGED <<lss, local, base, answer, hist, bases, acked, used>>

Waits(s, m) ==
  /\ phase[s] \in {"storing", "replicating"}
  /\ answer[s] = "none"
  /\ m.from = s
  /\ m.batch = call[s]

\* StorageServer::put: all versions must be next, else nothing is written.
ServerPut(m) ==
  /\ m \in net
  /\ net' = net \ {m}
  /\ LET ok == RedbAccepts(cloud, m.batch)
     IN  /\ hist' = IF ok THEN Append(hist, PutBatch(cloud, m.batch)) ELSE hist
         /\ bases' = IF ok THEN Append(bases, m.base) ELSE bases
         /\ answer' = [s \in Signers |->
                         IF Waits(s, m) THEN IF ok THEN "ok" ELSE "conflict"
                         ELSE answer[s]]
  /\ UNCHANGED <<lss, phase, serving, local, log, base, call, acked, used>>

\* Mutant: the local store is written before the server answers.
CommitEarly(s) ==
  /\ \/ lss[s] /\ phase[s] = "storing"
     \/ ~lss[s] /\ phase[s] = "handling"
  /\ BatchOk(local[s], log[s])
  /\ local' = [local EXCEPT ![s] = PutBatch(@, log[s])]
  /\ acked' = acked \cup {[key |-> k, entry |-> log[s][k]] : k \in DOMAIN log[s]}
  /\ phase' = [phase EXCEPT ![s] = "idle"]
  /\ serving' = [serving EXCEPT ![s] = TRUE]
  /\ log' = [log EXCEPT ![s] = NoEntries]
  /\ call' = [call EXCEPT ![s] = NoEntries]
  /\ answer' = [answer EXCEPT ![s] = "none"]
  /\ UNCHANGED <<lss, base, net, hist, bases, used>>

\* The store returned (with --lss) and the log goes to the local store; the
\* reply leaves.  `acked` keeps the entries a reply vouches for.
Commit(s) ==
  /\ \/ lss[s] /\ phase[s] = "storing" /\ answer[s] = "ok"
     \/ ~lss[s] /\ phase[s] = "handling"
  /\ BatchOk(local[s], log[s])
  /\ local' = [local EXCEPT ![s] = PutBatch(@, log[s])]
  /\ acked' = acked \cup {[key |-> k, entry |-> log[s][k]] : k \in DOMAIN log[s]}
  /\ phase' = [phase EXCEPT ![s] = "idle"]
  /\ serving' = [serving EXCEPT ![s] = TRUE]
  /\ log' = [log EXCEPT ![s] = NoEntries]
  /\ call' = [call EXCEPT ![s] = NoEntries]
  /\ answer' = [answer EXCEPT ![s] = "none"]
  /\ UNCHANGED <<lss, base, net, hist, bases, used>>

\* A conflict or a refused commit: expect() panics.
Rejected(s) ==
  /\ phase[s] \in {"storing", "replicating"}
  /\ answer[s] = "conflict"
  /\ Halt(s)
  /\ UNCHANGED <<lss, local, base, net, hist, bases, acked, used>>

\* A crash anywhere; a transport error, a lost answer and a shutdown in the
\* middle of a store end the process too.
Crash(s) ==
  /\ phase[s] # "down"
  /\ Halt(s)
  /\ UNCHANGED <<lss, local, base, net, hist, bases, acked, used>>

\* The operator restarts with --lss on a new data directory.
LoseDisk(s) ==
  /\ phase[s] = "down"
  /\ lss[s]
  /\ cloud # Empty
  /\ local' = [local EXCEPT ![s] = Empty]
  /\ UNCHANGED <<lss, phase, serving, log, base, call, answer, net, hist, bases,
                 acked, used>>

\* --init-lss on an empty server: begin_replication resets the versions and
\* the whole store is put.  From here on the operator starts with --lss.
InitLss(s) ==
  /\ phase[s] = "down"
  /\ s = Primary
  /\ cloud = Empty
  /\ local[s] # Empty
  /\ local[s][LAST_WRITER] = Absent
  /\ local' = [local EXCEPT ![s] = ResetVersions(@)]
  /\ net' = net \cup {[from |-> s, batch |-> Contents(ResetVersions(local[s])),
                       base |-> Empty]}
  /\ call' = [call EXCEPT ![s] = Contents(ResetVersions(local[s]))]
  /\ base' = [base EXCEPT ![s] = Empty]
  /\ lss' = [lss EXCEPT ![s] = TRUE]
  /\ phase' = [phase EXCEPT ![s] = "replicating"]
  /\ UNCHANGED <<serving, log, answer, hist, bases, acked, used>>

\* "LSS state initialized, exiting".
InitLssDone(s) ==
  /\ phase[s] = "replicating"
  /\ answer[s] = "ok"
  /\ Halt(s)
  /\ UNCHANGED <<lss, local, base, net, hist, bases, acked, used>>

\* allowlist_add or allowlist_remove of the RPC server, on its own task: it
\* writes through the same persister, without a transaction of its own.
\* Outside a transaction the transactional store writes through and the
\* cloud store panics.
RpcAllowlist(s) ==
  /\ serving[s]
  /\ used < MaxValues
  /\ lss[s] /\ phase[s] = "storing" => "rpc" \in LssWriters
  /\ used' = Fresh
  /\ \/ /\ phase[s] = "idle" /\ ~lss[s]
        /\ local' = [local EXCEPT ![s] =
                       PutBatch(@, TransactionalPut(@, NoEntries, Allowlist, Fresh))]
        /\ UNCHANGED <<phase, serving, log, call, answer>>
     \/ /\ phase[s] = "idle" /\ lss[s]
        /\ Halt(s)
        /\ UNCHANGED local
     \/ /\ phase[s] # "idle"
        /\ log' = [log EXCEPT ![s] = Put(s, local[s], @, Allowlist, Fresh)]
        /\ UNCHANGED <<phase, serving, local, call, answer>>
  /\ UNCHANGED <<lss, base, net, hist, bases, acked>>

\* do_handle with a peer id that does not parse commits before anything was
\* prepared, and handle_request commits again: the transactional store then
\* has nothing to commit, the cloud store panics after it wrote the writer
\* record.
BadPeer(s) ==
  /\ phase[s] = "idle"
  /\ lss[s] => "peer" \in LssWriters
  /\ local' = [local EXCEPT ![s] = PutBatch(@, EnterLog(s, @))]
  /\ IF lss[s] THEN Halt(s) ELSE UNCHANGED <<phase, serving, log, call, answer>>
  /\ UNCHANGED <<lss, base, net, hist, bases, acked, used>>

SyncNext ==
  \/ \E s \in Signers :
       \/ Start(s) \/ Enter(s) \/ Prepare(s) \/ Commit(s) \/ Rejected(s)
       \/ Crash(s) \/ LoseDisk(s) \/ InitLss(s) \/ InitLssDone(s)
       \/ RpcAllowlist(s) \/ BadPeer(s)
       \/ \E k \in DataKeys : Write(s, k)
  \/ \E m \in net : ServerPut(m)

SyncSpec == SyncInit /\ [][SyncNext]_syncVars
-----------------------------------------------------------------------------
(* Properties.                                                             *)

SyncTypeOK ==
  /\ lss \in [Signers -> BOOLEAN]
  /\ phase \in [Signers -> Phases]
  /\ serving \in [Signers -> BOOLEAN]
  /\ local \in [Signers -> Stores]
  /\ DOMAIN log = Signers /\ DOMAIN call = Signers
  /\ \A s \in Signers : IsBatch(log[s]) /\ IsBatch(call[s])
  /\ base \in [Signers -> Stores]
  /\ answer \in [Signers -> {"none", "ok", "conflict"}]
  /\ \A m \in net : m.from \in Signers /\ IsBatch(m.batch) /\ m.base \in Stores
  /\ hist \in Seq(Stores) /\ hist # << >>
  /\ bases \in Seq(Stores) /\ Len(hist) = Len(bases) + 1
  /\ \A a \in acked : a.key \in Keys /\ a.entry \in Entries
  /\ used \in 0..MaxValues

\* Once the server has contents, the local store of a signer that uses it is
\* exactly what the server held at some time: never ahead of it and never
\* part of one transaction and part of another, whatever crashes between
\* prepare, the server's put and commit.
LocalIsSnapshot ==
  Len(hist) > 1 =>
    \A s \in Signers : lss[s] => \E i \in 1..Len(hist) : local[s] = hist[i]

\* is_in_sync compares the last-writer records alone; when they agree the
\* whole stores agree.
InSyncMeansEqual ==
  \A s \in Signers :
    lss[s] /\ cloud[LAST_WRITER] # Absent
           /\ local[s][LAST_WRITER] = cloud[LAST_WRITER]
      => local[s] = cloud

\* Each transaction the server accepted was handled on the contents the one
\* before it left: a signer that another one has overtaken cannot store.
StoredInSeries ==
  \A i \in 1..Len(bases) : bases[i] = hist[i]

\* What a reply vouched for is never rolled back: not by a crash, another
\* signer, a lost disk, a late put or the move to a server.
AckedIsKept ==
  \A a \in acked :
    a.key \in DataKeys =>
      LET current == IF Len(hist) > 1 THEN cloud ELSE local[Primary]
      IN  current[a.key].val >= a.entry.val

\* The unlogged batch at the start of a signer is never refused: whatever
\* the crash left behind, the signer can be started again.
StartAccepted ==
  Len(hist) > 1 =>
    \A s \in Signers :
      lss[s] /\ phase[s] = "down" => BatchOk(local[s], Contents(cloud))

\* The three databases of the server decide alike on every put under way.
BackendsAgree ==
  \A m \in net :
    /\ EtcdAccepts(cloud, m.batch) <=> RedbAccepts(cloud, m.batch)
    /\ PostgresAccepts(cloud, m.batch) <=> RedbAccepts(cloud, m.batch)

\* The stores agree and keep what was acknowledged: the local one is a snapshot
\* of the server, is the server's contents when their last writers agree, and can
\* be started from; what the server accepted it accepted in series, whichever
\* database it uses.
StoresAgree ==
  /\ SyncTypeOK
  /\ AckedIsKept
  /\ LocalIsSnapshot
  /\ InSyncMeansEqual
  /\ StoredInSeries
  /\ StartAccepted
  /\ BackendsAgree
=============================================================================
