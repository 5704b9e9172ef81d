------------------------------ MODULE KvvStore ------------------------------
(***************************************************************************)
(* Versioned key-value stores (vls-persist/src/kvv): a store maps a key to *)
(* a version and a value, a put takes the version after the stored one,    *)
(* and a version never goes backwards.  The memory and redb stores have    *)
(* this meaning; the transactional and cloud stores put a log of pending   *)
(* entries in front of one of them.                                        *)
(*                                                                         *)
(* A missing key has version -1, so that the version of the next put is    *)
(* always the stored one plus one.  A deleted key is a put of the empty    *)
(* value and is not told apart from other values.                          *)
(***************************************************************************)
EXTENDS Integers

CONSTANTS
  DataKeys,     \* keys of node, tracker, allowlist and channel records
  LAST_WRITER,  \* the key of the last-writer record
  Values        \* serialized records

Keys == DataKeys \cup {LAST_WRITER}

Absent == [ver |-> -1, val |-> -1]

Entries == [ver : Nat, val : Values] \cup {Absent}

Empty == [k \in Keys |-> Absent]

Stores == [Keys -> Entries]

\* A batch of mutations is a function from some of the keys to entries.
IsBatch(b) ==
  DOMAIN b \subseteq Keys /\ b \in [DOMAIN b -> [ver : Nat, val : Values]]

NoEntries == [k \in {} |-> Absent]

\* put_with_version: a smaller version is refused, the same version only
\* passes with the same value.
Puttable(old, new) == new.ver > old.ver \/ new = old

\* put_batch checks every entry before it writes one.
BatchOk(store, batch) == \A k \in DOMAIN batch : Puttable(store[k], batch[k])

PutBatch(store, batch) ==
  [k \in Keys |-> IF k \in DOMAIN batch THEN batch[k] ELSE store[k]]

\* All stored entries, as get_prefix("") returns them.
Contents(store) ==
  [k \in {x \in Keys : store[x] # Absent} |-> store[k]]

\* reset_versions keeps the values and makes every version zero.
ResetVersions(store) ==
  [k \in Keys |-> IF store[k] = Absent THEN Absent
                  ELSE [store[k] EXCEPT !.ver = 0]]

LogEntry(log, k, e) ==
  [x \in DOMAIN log \cup {k} |-> IF x = k THEN e ELSE log[x]]

\* TransactionalKVVStore::put: the version after the one in the log, or
\* after the stored one.
TransactionalPut(store, log, k, v) ==
  LogEntry(log, k, [ver |-> PutBatch(store, log)[k].ver + 1, val |-> v])

\* CloudKVVStore::put: the version after the stored one, whatever the log
\* holds, so that a key advances once in a transaction.
CloudPut(store, log, k, v) ==
  LogEntry(log, k, [ver |-> store[k].ver + 1, val |-> v])

-----------------------------------------------------------------------------
(* The storage server accepts a batch when each version is the next one.   *)
(* Its three databases decide that in different ways.                      *)

RedbAccepts(store, batch) ==
  \A k \in DOMAIN batch : batch[k].ver = store[k].ver + 1

\* etcd counts the puts of a key from one and the put keeps no version: the
\* key must not exist for version zero, else its count must be the version.
EtcdAccepts(store, batch) ==
  \A k \in DOMAIN batch :
    LET count == store[k].ver + 1
    IN  IF batch[k].ver = 0 THEN count = 0 ELSE count = batch[k].ver

\* postgres inserts version zero of a key without a row, and updates the row
\* that has the version before.
PostgresAccepts(store, batch) ==
  \A k \in DOMAIN batch :
    IF batch[k].ver = 0 THEN store[k] = Absent
    ELSE store[k] # Absent /\ store[k].ver = batch[k].ver - 1
=============================================================================
