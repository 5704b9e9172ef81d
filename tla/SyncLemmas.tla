---------------------------- MODULE SyncLemmas ----------------------------
(***************************************************************************)
(* Lemmas about the operators of CloudSync: what a transaction puts in a   *)
(* store, how the server's contents follow each other, and which logs a    *)
(* build, an enter and a put produce; and the inductive invariant SyncInv  *)
(* of the signers' stores and the server's.                                *)
(***************************************************************************)
EXTENDS CloudSync, TLAPS

-----------------------------------------------------------------------------
(* The stores of the signers and the server's: operators.                  *)

\* A store that was built has every data key, and its records' values are among
\* those written so far.
Built(st, u) ==
  /\ st \in Stores
  /\ st # Empty => \A k \in DataKeys : st[k] # Absent
  /\ \A k \in DataKeys : st[k].val \in -1..u

\* What a transaction on the store st may log: each key once, as the next version,
\* every key of a new store and the writer record on any other.
Opens(b, st, u) ==
  /\ IsBatch(b)
  /\ \A k \in DOMAIN b : b[k].ver = st[k].ver + 1
  /\ \A k \in DataKeys \cap DOMAIN b : b[k].val \in 0..u /\ b[k].val > st[k].val
  /\ st = Empty => DataKeys \subseteq DOMAIN b
  /\ st # Empty => LAST_WRITER \in DOMAIN b

\* What is put in the server.
Transaction(b, st, u) == Opens(b, st, u) /\ \E k \in DataKeys : k \in DOMAIN b

\* The order in which the contents of a store follow each other.
Older(a, b) ==
  /\ \A k \in Keys : a[k] = b[k] \/ a[k].ver < b[k].ver
  /\ \A k \in DataKeys : a[k].val <= b[k].val

\* The server's contents: built stores after the first, in order, each with a
\* later writer record than those before it.
History(h, u) ==
  /\ h \in Seq(Stores) /\ Len(h) >= 1 /\ h[1] = Empty
  /\ \A i \in 1..Len(h) : Built(h[i], u) /\ (i > 1 => h[i] # Empty)
  /\ \A i, j \in 1..Len(h) :
       i <= j => /\ Older(h[i], h[j])
                 /\ i > 1 /\ i < j => h[i][LAST_WRITER].ver < h[j][LAST_WRITER].ver

\* The stored entries: a version of Nat, or Absent, whose version is -1.
LEMMA EntryVersions ==
  ASSUME NEW st \in Stores, NEW k \in Keys
  PROVE  /\ st[k] \in Entries
         /\ st[k].ver \in Int /\ st[k].ver >= -1
         /\ st[k] = Absent <=> st[k].ver = -1
         /\ st[k] # Absent => st[k].ver \in Nat /\ st[k].val \in Values
BY DEF Stores, Entries, Absent

\* A store that is not empty has the version of each data key.
LEMMA BuiltVersions ==
  ASSUME NEW u, NEW st, Built(st, u), NEW k \in DataKeys
  PROVE  /\ st = Empty => st[k].ver = -1 /\ st[k].val = -1
         /\ st # Empty => st[k].ver \in Nat
         /\ st[k].val \in Int
<1> k \in Keys
  BY Zenon DEF Keys
<1>1. CASE st = Empty
  BY <1>1 DEF Empty, Absent
<1>2. CASE st # Empty
  BY <1>2, EntryVersions DEF Built
<1> QED
  BY <1>1, <1>2, Zenon

\* The batch a server accepts was made on its contents: the writer record's version
\* tells every pair of later contents apart, and only an empty server accepts the
\* first version of a data record.
LEMMA AcceptedOnBase ==
  ASSUME NEW u \in Nat, NEW h, History(h, u),
         NEW st, Built(st, u), NEW b, Transaction(b, st, u),
         Len(h) = 1 \/ \E i \in 1..Len(h) : st = h[i],
         RedbAccepts(h[Len(h)], b)
  PROVE  st = h[Len(h)]
<1> DEFINE c == h[Len(h)]
<1>0. Len(h) \in Nat \ {0} /\ Built(c, u) /\ c \in Stores /\ st \in Stores
  BY DEF History, Built
<1>1. PICK k \in DataKeys : k \in DOMAIN b
  BY Zenon DEF Transaction
<1>2. c[k].ver = st[k].ver
  <2>1. k \in Keys /\ b[k].ver = st[k].ver + 1 /\ b[k].ver = c[k].ver + 1
    BY <1>1, Zenon DEF Transaction, Opens, RedbAccepts, Keys
  <2> QED
    BY <2>1, <1>0, EntryVersions
<1>3. c = Empty <=> st = Empty
  BY <1>0, <1>2, BuiltVersions
<1>4. CASE st = Empty
  BY <1>3, <1>4, Zenon
<1>5. CASE st # Empty
  <2>1. Len(h) > 1
    BY <1>0, <1>3, <1>5 DEF History
  <2>2. PICK i \in 1..Len(h) : st = h[i]
    BY <2>1
  <2>3. i > 1
    BY <2>2, <1>5 DEF History
  <2>4. LAST_WRITER \in Keys /\ LAST_WRITER \in DOMAIN b
    BY <1>5, Zenon DEF Keys, Transaction, Opens
  <2>5. b[LAST_WRITER].ver = st[LAST_WRITER].ver + 1 /\ b[LAST_WRITER].ver = c[LAST_WRITER].ver + 1
    BY <2>4, Zenon DEF Transaction, Opens, RedbAccepts
  <2>6. st[LAST_WRITER].ver = c[LAST_WRITER].ver /\ st[LAST_WRITER].ver \in Int
    BY <2>4, <2>5, <1>0, EntryVersions
  <2>7. i < Len(h) => st[LAST_WRITER].ver < c[LAST_WRITER].ver
    BY <2>2, <2>3, <1>0 DEF History
  <2> QED
    BY <2>2, <2>6, <2>7, <1>0
<1> QED
  BY <1>4, <1>5, Zenon

\* The order is transitive.
LEMMA OlderStill ==
  ASSUME NEW u, NEW x, NEW y, NEW z, Built(x, u), Built(y, u), Built(z, u),
         Older(x, y), Older(y, z)
  PROVE  Older(x, z)
<1>1. ASSUME NEW k \in Keys
      PROVE  x[k] = z[k] \/ x[k].ver < z[k].ver
  <2>1. x[k].ver \in Int /\ y[k].ver \in Int /\ z[k].ver \in Int
    BY EntryVersions, Zenon DEF Built
  <2> QED
    BY <2>1 DEF Older
<1>2. ASSUME NEW k \in DataKeys
      PROVE  x[k].val <= z[k].val
  <2>1. x[k].val \in Int /\ y[k].val \in Int /\ z[k].val \in Int
    BY BuiltVersions, Zenon
  <2> QED
    BY <2>1 DEF Older
<1> QED
  BY <1>1, <1>2, Zenon DEF Older

\* A store after a transaction on it.
LEMMA PutTransaction ==
  ASSUME NEW u \in Nat, NEW st, Built(st, u), NEW b, Transaction(b, st, u)
  PROVE  /\ Built(PutBatch(st, b), u)
         /\ Older(st, PutBatch(st, b))
         /\ PutBatch(st, b) # Empty
         /\ st # Empty => st[LAST_WRITER].ver < PutBatch(st, b)[LAST_WRITER].ver
<1> DEFINE n == PutBatch(st, b)
<1>0. /\ IsBatch(b) /\ Opens(b, st, u) /\ st \in Stores
      /\ \E k \in DataKeys : k \in DOMAIN b
  BY Zenon DEF Transaction, Opens, Built
<1>1. ASSUME NEW k \in Keys
      PROVE  /\ n[k] = IF k \in DOMAIN b THEN b[k] ELSE st[k]
             /\ n[k] \in Entries
             /\ k \in DOMAIN b => n[k].ver = st[k].ver + 1 /\ n[k] # Absent
             /\ n[k] = st[k] \/ st[k].ver < n[k].ver
  <2>1. n[k] = IF k \in DOMAIN b THEN b[k] ELSE st[k]
    BY Zenon DEF PutBatch
  <2>2. st[k] \in Entries /\ st[k].ver \in Int
    BY <1>0, EntryVersions, Zenon
  <2>3. CASE k \in DOMAIN b
    <3>1. b[k] \in [ver : Nat, val : Values] /\ b[k].ver = st[k].ver + 1
      BY <1>0, <2>3, Zenon DEF IsBatch, Opens
    <3>2. b[k] \in Entries /\ b[k] # Absent
      BY <3>1 DEF Entries, Absent
    <3> QED
      BY <2>1, <2>2, <2>3, <3>1, <3>2
  <2>4. CASE k \notin DOMAIN b
    BY <2>1, <2>2, <2>4, Zenon
  <2> QED
    BY <2>3, <2>4, <2>1, Zenon
<1>2. n \in Stores
  BY <1>1, Zenon DEF PutBatch, Stores
<1>3. n # Empty
  BY <1>0, <1>1, Zenon DEF Keys, Empty
<1>4. ASSUME NEW k \in DataKeys
      PROVE  n[k] # Absent /\ n[k].val \in -1..u /\ st[k].val <= n[k].val
  <2>0. k \in Keys /\ st[k].val \in -1..u
    BY Zenon DEF Keys, Built
  <2>1. CASE k \in DOMAIN b
    BY <2>0, <2>1, <1>1, <1>0 DEF Opens
  <2>2. CASE k \notin DOMAIN b
    <3>1. st # Empty
      BY <2>2, <1>0, Zenon DEF Opens
    <3> QED
      BY <2>0, <2>2, <1>1, <3>1 DEF Built
  <2> QED
    BY <2>1, <2>2, Zenon
<1>5. st # Empty => st[LAST_WRITER].ver < n[LAST_WRITER].ver
  <2>1. LAST_WRITER \in Keys /\ st[LAST_WRITER].ver \in Int
    BY <1>0, EntryVersions, Zenon DEF Keys
  <2> QED
    BY <2>1, <1>0, <1>1 DEF Opens
<1> HIDE DEF n
<1>6. Built(n, u) /\ Older(st, n)
  BY <1>1, <1>2, <1>4, Zenon DEF Built, Older
<1> QED
  BY <1>3, <1>5, <1>6, Zenon DEF n

\* The server's contents after one more transaction on the last of them.
LEMMA HistoryGrows ==
  ASSUME NEW u \in Nat, NEW h, History(h, u), NEW b, Transaction(b, h[Len(h)], u)
  PROVE  History(Append(h, PutBatch(h[Len(h)], b)), u)
<1> DEFINE c == h[Len(h)]
           n == PutBatch(c, b)
           g == Append(h, n)
<1>0. h \in Seq(Stores) /\ Len(h) \in Nat \ {0} /\ Built(c, u)
  BY DEF History
<1>1. /\ Built(n, u) /\ Older(c, n) /\ n # Empty /\ n \in Stores
      /\ c # Empty => c[LAST_WRITER].ver < n[LAST_WRITER].ver
  BY <1>0, PutTransaction, Zenon DEF Built
<1> HIDE DEF n, c
<1>2. /\ g \in Seq(Stores) /\ Len(g) = Len(h) + 1
      /\ g[Len(g)] = n /\ \A i \in 1..Len(h) : g[i] = h[i]
  BY <1>0, <1>1
<1> HIDE DEF g
<1>3. ASSUME NEW i \in 1..Len(g)
      PROVE  Built(g[i], u) /\ (i > 1 => g[i] # Empty)
  BY <1>0, <1>1, <1>2 DEF History
<1>4. ASSUME NEW i \in 1..Len(h)
      PROVE  Older(h[i], n) /\ (i > 1 => h[i][LAST_WRITER].ver < n[LAST_WRITER].ver)
  <2>1. Older(h[i], c) /\ Built(h[i], u)
    BY <1>0 DEF History, c
  <2>2. Older(h[i], n)
    BY <2>1, <1>0, <1>1, OlderStill, Zenon
  <2>3. ASSUME i > 1
        PROVE  h[i][LAST_WRITER].ver < n[LAST_WRITER].ver
    <3>1. /\ LAST_WRITER \in Keys /\ h[i] \in Stores /\ c \in Stores
          /\ c # Empty
      BY <1>0, <2>1, <2>3 DEF Keys, Built, History, c
    <3>2. /\ h[i][LAST_WRITER].ver \in Int /\ c[LAST_WRITER].ver \in Int
          /\ n[LAST_WRITER].ver \in Int
      BY <3>1, <1>1, EntryVersions, Zenon
    <3>3. i < Len(h) => h[i][LAST_WRITER].ver < c[LAST_WRITER].ver
      BY <2>3, <1>0 DEF History, c
    <3> QED
      BY <3>1, <3>2, <3>3, <1>0, <1>1 DEF c
  <2> QED
    BY <2>2, <2>3, Zenon
<1>5. Older(n, n)
  BY <1>1, BuiltVersions DEF Older
<1>6. ASSUME NEW i \in 1..Len(g), NEW j \in 1..Len(g), i <= j
      PROVE  /\ Older(g[i], g[j])
             /\ i > 1 /\ i < j => g[i][LAST_WRITER].ver < g[j][LAST_WRITER].ver
  <2>1. CASE j \in 1..Len(h)
    BY <2>1, <1>6, <1>2, <1>0 DEF History
  <2>2. CASE j = Len(g) /\ i \in 1..Len(h)
    BY <2>2, <1>2, <1>4, Zenon
  <2>3. CASE j = Len(g) /\ i = Len(g)
    BY <2>3, <1>2, <1>5
  <2> QED
    BY <2>1, <2>2, <2>3, <1>0, <1>2
<1>7. g[1] = Empty /\ Len(g) >= 1
  BY <1>0, <1>2 DEF History
<1>8. History(g, u)
  BY <1>2, <1>3, <1>6, <1>7, Zenon DEF History
<1> QED
  BY <1>8, Zenon DEF g, n, c

\* More values may be written later.
LEMMA Later ==
  ASSUME NEW u \in Nat, NEW v \in Nat, u <= v
  PROVE  /\ \A st : Built(st, u) => Built(st, v)
         /\ \A b, st : Opens(b, st, u) => Opens(b, st, v)
         /\ \A b, st : Transaction(b, st, u) => Transaction(b, st, v)
         /\ \A h : History(h, u) => History(h, v)
<1>1. \A st : Built(st, u) => Built(st, v)
  BY DEF Built
<1>2. \A b, st : Opens(b, st, u) => Opens(b, st, v)
  BY DEF Opens
<1>3. \A b, st : Transaction(b, st, u) => Transaction(b, st, v)
  BY <1>2, Zenon DEF Transaction
<1>4. \A h : History(h, u) => History(h, v)
  BY <1>1, Zenon DEF History
<1> QED
  BY <1>1, <1>2, <1>3, <1>4, Zenon

\* The entries of Contents, and a put of them.
LEMMA ContentsPut ==
  ASSUME NEW st \in Stores, NEW old \in Stores,
         \A k \in Keys : st[k] = Absent => old[k] = Absent
  PROVE  PutBatch(old, Contents(st)) = st
<1>1. ASSUME NEW k \in Keys
      PROVE  PutBatch(old, Contents(st))[k] = st[k]
  BY Zenon DEF PutBatch, Contents
<1>2. st = [k \in Keys |-> st[k]]
  BY Zenon DEF Stores
<1> QED
  BY <1>1, <1>2, Zenon DEF PutBatch

\* The empty server changes no store, and an empty store takes the contents.
LEMMA EmptyPut ==
  ASSUME NEW st \in Stores
  PROVE  /\ PutBatch(st, Contents(Empty)) = st
         /\ BatchOk(st, Contents(Empty))
         /\ PutBatch(Empty, Contents(st)) = st
         /\ Empty \in Stores
<1>1. Empty \in Stores /\ \A k \in Keys : Empty[k] = Absent
  BY Zenon DEF Empty, Stores, Entries
<1>2. DOMAIN Contents(Empty) = {}
  BY <1>1, Zenon DEF Contents
<1>3. PutBatch(st, Contents(Empty)) = st
  <2>1. PutBatch(st, Contents(Empty)) = [k \in Keys |-> st[k]]
    BY <1>2, Zenon DEF PutBatch
  <2> QED
    BY <2>1, Zenon DEF Stores
<1> QED
  BY <1>1, <1>2, <1>3, ContentsPut, Zenon DEF BatchOk

\* A signer that holds earlier contents takes the server's.
LEMMA RestoreLatest ==
  ASSUME NEW u \in Nat, NEW h, History(h, u), NEW i \in 1..Len(h)
  PROVE  /\ BatchOk(h[i], Contents(h[Len(h)]))
         /\ PutBatch(h[i], Contents(h[Len(h)])) = h[Len(h)]
<1> DEFINE c == h[Len(h)]
<1>1. c \in Stores /\ h[i] \in Stores /\ Older(h[i], c)
  BY DEF History, Built
<1> HIDE DEF c
<1>2. BatchOk(h[i], Contents(c))
  BY <1>1, Zenon DEF BatchOk, Contents, Older, Puttable
<1>3. ASSUME NEW k \in Keys, c[k] = Absent
      PROVE  h[i][k] = Absent
  BY <1>1, <1>3, EntryVersions DEF Older
<1>4. PutBatch(h[i], Contents(c)) = c
  BY <1>1, <1>3, ContentsPut, Zenon
<1> QED
  BY <1>2, <1>4, Zenon DEF c

\* Contents that hold the writer record of the last are the last.
LEMMA SameWriter ==
  ASSUME NEW u \in Nat, NEW h, History(h, u), NEW i \in 1..Len(h),
         h[Len(h)][LAST_WRITER] # Absent,
         h[i][LAST_WRITER] = h[Len(h)][LAST_WRITER]
  PROVE  h[i] = h[Len(h)]
<1>1. LAST_WRITER \in Keys /\ h[i] \in Stores
  BY Zenon DEF Keys, History, Built
<1>2. h[i] # Empty
  BY <1>1, Zenon DEF Empty
<1>3. i > 1 /\ h[i][LAST_WRITER].ver \in Int
  BY <1>1, <1>2, EntryVersions DEF History
<1>4. i < Len(h) => h[i][LAST_WRITER].ver < h[Len(h)][LAST_WRITER].ver
  BY <1>3 DEF History
<1> QED
  BY <1>3, <1>4 DEF History

\* The three databases of the server decide alike.
LEMMA DatabasesAgree ==
  ASSUME NEW st \in Stores, NEW b, IsBatch(b)
  PROVE  /\ EtcdAccepts(st, b) <=> RedbAccepts(st, b)
         /\ PostgresAccepts(st, b) <=> RedbAccepts(st, b)
<1>1. ASSUME NEW k \in DOMAIN b
      PROVE  /\ k \in Keys /\ b[k].ver \in Nat
             /\ st[k].ver \in Int /\ st[k].ver >= -1
             /\ st[k] = Absent <=> st[k].ver = -1
  BY EntryVersions, Zenon DEF IsBatch
<1> QED
  BY <1>1 DEF EtcdAccepts, PostgresAccepts, RedbAccepts

\* begin_replication: the versions start again, the values stay, and the whole
\* store is a transaction on the empty one.
LEMMA ResetStore ==
  ASSUME NEW u \in Nat, NEW st, Built(st, u), st # Empty
  PROVE  /\ Built(ResetVersions(st), u) /\ ResetVersions(st) # Empty
         /\ \A k \in DataKeys : ResetVersions(st)[k].val = st[k].val
         /\ ResetVersions(ResetVersions(st)) = ResetVersions(st)
         /\ Transaction(Contents(ResetVersions(st)), Empty, u)
<1> DEFINE r == ResetVersions(st)
<1>0. st \in Stores /\ \A k \in DataKeys : st[k] # Absent /\ st[k].val \in -1..u
  BY Zenon DEF Built
<1>1. ASSUME NEW k \in Keys
      PROVE  /\ r[k] \in Entries
             /\ r[k] = Absent <=> st[k] = Absent
             /\ r[k] # Absent => r[k].ver = 0 /\ r[k] \in [ver : Nat, val : Values]
             /\ r[k].val = st[k].val
  <2>1. st[k] \in Entries
    BY <1>0, EntryVersions, Zenon
  <2>2. CASE st[k] = Absent
    BY <2>1, <2>2, Zenon DEF ResetVersions, Entries
  <2>3. CASE st[k] # Absent
    <3>1. st[k] \in [ver : Nat, val : Values]
      BY <2>1, <2>3, Zenon DEF Entries
    <3>2. r[k] = [st[k] EXCEPT !.ver = 0]
      BY <2>3, Zenon DEF ResetVersions
    <3> QED
      BY <3>1, <3>2, <2>3 DEF Entries, Absent
  <2> QED
    BY <2>2, <2>3, Zenon
<1>2. r \in Stores
  BY <1>1, Zenon DEF ResetVersions, Stores
<1>3. \A k \in DataKeys : k \in Keys /\ r[k] # Absent /\ r[k].val = st[k].val
  BY <1>0, <1>1, Zenon DEF Keys
<1>4. ResetVersions(r) = r
  <2>1. ASSUME NEW k \in Keys
        PROVE  (IF r[k] = Absent THEN Absent ELSE [r[k] EXCEPT !.ver = 0]) = r[k]
    BY <1>1, Zenon
  <2>2. r = [k \in Keys |-> r[k]]
    BY <1>2, Zenon DEF Stores
  <2> HIDE DEF r
  <2>3. ResetVersions(r) = [k \in Keys |-> r[k]]
    BY <2>1, Zenon DEF ResetVersions
  <2> QED
    BY <2>2, <2>3, Zenon
<1> HIDE DEF r
<1>5. r # Empty
  BY <1>3, CloudSyncAssumption, Zenon DEF Empty
<1>6. Built(r, u)
  BY <1>0, <1>2, <1>3, Zenon DEF Built
<1>7. Transaction(Contents(r), Empty, u)
  <2> DEFINE b == Contents(r)
  <2>1. DOMAIN b = {k \in Keys : r[k] # Absent} /\ \A k \in DOMAIN b : b[k] = r[k]
    BY Zenon DEF Contents
  <2>2. IsBatch(b)
    BY <1>1, Zenon DEF IsBatch, Contents
  <2>3. \A k \in DOMAIN b : b[k].ver = Empty[k].ver + 1
    BY <2>1, <1>1 DEF Empty, Absent
  <2>4. DataKeys \subseteq DOMAIN b
    BY <2>1, <1>3, Zenon
  <2>5. ASSUME NEW k \in DataKeys
        PROVE  b[k].val \in 0..u /\ b[k].val > Empty[k].val
    <3>1. b[k].val = st[k].val /\ k \in Keys
      BY <2>1, <2>4, <1>3, Zenon
    <3>2. st[k].val \in Values
      BY <3>1, <1>0, EntryVersions, Zenon
    <3> QED
      BY <3>1, <3>2, <1>0, CloudSyncAssumption DEF Empty, Absent
  <2> QED
    BY <2>2, <2>3, <2>4, <2>5, CloudSyncAssumption, Zenon DEF Transaction, Opens
<1> QED
  BY <1>3, <1>4, <1>5, <1>6, <1>7, Zenon DEF r

\* CloudKVVStore::put
LEMMA PutOpens ==
  ASSUME NEW u \in Nat, u + 1 <= MaxValues, NEW st, Built(st, u), NEW b, Opens(b, st, u),
         NEW k \in DataKeys
  PROVE  Opens(CloudPut(st, b, k, u + 1), st, u + 1)
<1> DEFINE e == [ver |-> st[k].ver + 1, val |-> u + 1]
           n == CloudPut(st, b, k, u + 1)
<1>1. k \in Keys /\ st[k].ver \in Int /\ st[k].ver >= -1 /\ st[k].val \in -1..u
  BY EntryVersions, Zenon DEF Keys, Built
<1>2. e \in [ver : Nat, val : Values] /\ e.ver = st[k].ver + 1 /\ e.val = u + 1
  BY <1>1, CloudSyncAssumption
<1>3. DOMAIN n = DOMAIN b \cup {k} /\ \A x \in DOMAIN n : n[x] = IF x = k THEN e ELSE b[x]
  BY Zenon DEF CloudPut, LogEntry
<1>4. IsBatch(n)
  <2>1. n \in [DOMAIN n -> [ver : Nat, val : Values]]
    BY <1>2, Zenon DEF Opens, IsBatch, CloudPut, LogEntry
  <2> QED
    BY <2>1, <1>1, <1>3, Zenon DEF IsBatch, Opens
<1> HIDE DEF n, e
<1>5. \A x \in DOMAIN n : n[x].ver = st[x].ver + 1
  BY <1>2, <1>3, Zenon DEF Opens
<1>6. ASSUME NEW x \in DataKeys \cap DOMAIN n
      PROVE  n[x].val \in 0..(u + 1) /\ n[x].val > st[x].val
  <2>1. st[x].val \in -1..u
    BY Zenon DEF Built
  <2>2. CASE x = k
    BY <2>1, <2>2, <1>2, <1>3
  <2>3. CASE x # k
    BY <2>1, <2>3, <1>3 DEF Opens
  <2> QED
    BY <2>2, <2>3, Zenon
<1>7. Opens(n, st, u + 1)
  BY <1>3, <1>4, <1>5, <1>6, Zenon DEF Opens
<1> QED
  BY <1>7, Zenon DEF n

\* CloudKVVStore::enter on a store that was built
LEMMA EnterOpens ==
  ASSUME NEW u \in Nat, NEW s \in Signers, lss[s], NEW st, Built(st, u), st # Empty
  PROVE  Opens(EnterLog(s, st), st, u)
<1> DEFINE e == [ver |-> st[LAST_WRITER].ver + 1, val |-> s]
           n == EnterLog(s, st)
<1>1. LAST_WRITER \in Keys /\ LAST_WRITER \notin DataKeys
  BY CloudSyncAssumption, Zenon DEF Keys
<1>2. e \in [ver : Nat, val : Values]
  BY <1>1, EntryVersions, CloudSyncAssumption DEF Built
<1>3. n = [x \in {LAST_WRITER} |-> e]
  BY Zenon DEF EnterLog, LogEntry, NoEntries
<1> QED
  BY <1>1, <1>2, <1>3 DEF Opens, IsBatch

\* The handler's build: every key of an empty store, or the allowlist's.
LEMMA BuildOpens ==
  ASSUME NEW s \in Signers, lss[s], used \in Nat, used + 1 <= MaxValues,
         NEW st, Built(st, used)
  PROVE  Transaction(BuildLog(s, st), st, used + 1) /\ BuildKeys(s, st) # {}
<1> DEFINE ks == BuildKeys(s, st)
           lg == EnterLog(s, st)
           n == BuildLog(s, st)
           w == [ver |-> st[LAST_WRITER].ver + 1, val |-> s]
<1>0. /\ LAST_WRITER \in Keys /\ LAST_WRITER \notin DataKeys /\ Allowlist \in DataKeys
      /\ st \in Stores /\ \A k \in DataKeys : k \in Keys
  BY CloudSyncAssumption, Zenon DEF Keys, Built
<1>1. ks \subseteq DataKeys /\ Allowlist \in ks /\ (st = Empty => ks = DataKeys)
  BY <1>0, Zenon DEF BuildKeys, Empty
<1>2. w \in [ver : Nat, val : Values] /\ w.ver = st[LAST_WRITER].ver + 1
  BY <1>0, EntryVersions, CloudSyncAssumption
<1>3. lg = [x \in {LAST_WRITER} |-> w]
  BY Zenon DEF EnterLog, LogEntry, NoEntries
<1>4. n = [k \in {LAST_WRITER} \cup ks |->
             IF k \in ks THEN [ver |-> st[k].ver + 1, val |-> used + 1] ELSE w]
  <2>1. n = [k \in DOMAIN lg \cup ks |->
               IF k \in ks THEN [ver |-> st[k].ver + 1, val |-> used + 1] ELSE lg[k]]
    BY Zenon DEF BuildLog, Fresh
  <2> HIDE DEF n, ks, w, lg
  <2> QED
    BY <2>1, <1>3, Zenon
<1> HIDE DEF n, ks, w, lg
<1>5. ASSUME NEW k \in ks
      PROVE  /\ n[k].ver = st[k].ver + 1 /\ n[k].val = used + 1
             /\ n[k] \in [ver : Nat, val : Values]
             /\ n[k].val \in 0..(used + 1) /\ n[k].val > st[k].val
  <2>1. st[k].ver \in Int /\ st[k].ver >= -1 /\ st[k].val \in -1..used
    BY <1>0, <1>1, EntryVersions, Zenon DEF Built
  <2> QED
    BY <2>1, <1>4, CloudSyncAssumption
<1>6. n[LAST_WRITER] = w /\ DOMAIN n = {LAST_WRITER} \cup ks
  BY <1>0, <1>1, <1>4, Zenon
<1>7. IsBatch(n)
  <2>1. \A k \in DOMAIN n : n[k] \in [ver : Nat, val : Values]
    BY <1>2, <1>5, <1>6, Zenon
  <2>2. n = [k \in DOMAIN n |-> n[k]]
    BY <1>4, Zenon
  <2> QED
    BY <2>1, <2>2, <1>0, <1>1, <1>6, Zenon DEF IsBatch
<1>8. Opens(n, st, used + 1)
  BY <1>0, <1>1, <1>2, <1>5, <1>6, <1>7, Zenon DEF Opens
<1> QED
  BY <1>0, <1>1, <1>6, <1>8, Zenon DEF Transaction, n, ks

\* What a signer without the server may log.
Pending(b, st, u) ==
  /\ IsBatch(b)
  /\ \A k \in DataKeys \cap DOMAIN b : b[k].val \in 0..u /\ b[k].val > st[k].val
  /\ st = Empty => DataKeys \subseteq DOMAIN b

-----------------------------------------------------------------------------
(* The stores of the signers and the server's: the inductive invariant.    *)

\* The server has been given contents.
Started == Len(hist) > 1

Snapshot(st) == \E i \in 1..Len(hist) : st = hist[i]

\* A signer's transaction is one on its local store, and once the server has
\* answered that it stored it, its outcome is among the server's contents.
SignerInv(s) ==
  /\ Built(local[s], used)
  /\ s # Primary => lss[s]
  /\ phase[s] = "idle" => local[s] # Empty
  /\ phase[s] \in {"down", "idle", "handling"} => answer[s] = "none"
  /\ phase[s] = "handling" =>
       /\ base[s] = local[s]
       /\ lss[s] => Opens(log[s], local[s], used)
       /\ ~lss[s] => Pending(log[s], local[s], used)
  /\ phase[s] = "storing" =>
       /\ lss[s] /\ base[s] = local[s] /\ call[s] = log[s]
       /\ Transaction(log[s], local[s], used)
       /\ answer[s] = "ok" => Snapshot(PutBatch(local[s], log[s]))
  /\ Started /\ lss[s] => Snapshot(local[s])
  /\ ~Started /\ s # Primary => phase[s] = "down" /\ local[s] = Empty

\* A put under way is a transaction on contents of the server or, while that is
\* empty, on those the first signer starts it with.
MessageInv(m) ==
  /\ Built(m.base, used) /\ Transaction(m.batch, m.base, used)
  /\ Started => Snapshot(m.base)
  /\ ~Started =>
       /\ m.base \in {Empty, local[Primary]}
       /\ m.base = Empty /\ local[Primary] # Empty => m.batch = Contents(local[Primary])

ServerInv ==
  /\ History(hist, used)
  /\ StoredInSeries
  /\ ~lss[Primary] => ~Started /\ net = {}
  /\ ~Started /\ lss[Primary] => ResetVersions(local[Primary]) = local[Primary]
  /\ \A m \in net : MessageInv(m)

AckedInv == AckedIsKept /\ \A a \in acked : a.key \in DataKeys => a.entry.val \in Nat

SyncInv ==
  /\ SyncTypeOK
  /\ \A s \in Signers : SignerInv(s)
  /\ ServerInv
  /\ AckedInv

\* An empty log.
LEMMA NoEntriesBatch == IsBatch(NoEntries) /\ DOMAIN NoEntries = {}
BY Zenon DEF IsBatch, NoEntries

\* A local store after a commit.
LEMMA PutPending ==
  ASSUME NEW u \in Nat, NEW st, Built(st, u), NEW b, Pending(b, st, u)
  PROVE  /\ Built(PutBatch(st, b), u) /\ PutBatch(st, b) # Empty
         /\ \A k \in DataKeys : st[k].val <= PutBatch(st, b)[k].val
         /\ \A k \in DOMAIN b : PutBatch(st, b)[k] = b[k]
<1> DEFINE n == PutBatch(st, b)
<1>0. IsBatch(b) /\ st \in Stores
  BY Zenon DEF Pending, Built
<1>1. ASSUME NEW k \in Keys
      PROVE  /\ n[k] = IF k \in DOMAIN b THEN b[k] ELSE st[k]
             /\ n[k] \in Entries
             /\ k \in DOMAIN b => n[k] # Absent
  <2>1. n[k] = IF k \in DOMAIN b THEN b[k] ELSE st[k]
    BY Zenon DEF PutBatch
  <2>2. st[k] \in Entries
    BY <1>0, EntryVersions, Zenon
  <2>3. k \in DOMAIN b => b[k] \in [ver : Nat, val : Values]
    BY <1>0, Zenon DEF IsBatch
  <2>4. k \in DOMAIN b => b[k] \in Entries /\ b[k] # Absent
    BY <2>3 DEF Entries, Absent
  <2> QED
    BY <2>1, <2>2, <2>4, Zenon
<1>2. n \in Stores
  BY <1>1, Zenon DEF PutBatch, Stores
<1>3. ASSUME NEW k \in DataKeys
      PROVE  n[k] # Absent /\ n[k].val \in -1..u /\ st[k].val <= n[k].val
  <2>0. k \in Keys /\ st[k].val \in -1..u
    BY Zenon DEF Keys, Built
  <2>1. CASE k \in DOMAIN b
    BY <2>0, <2>1, <1>1 DEF Pending
  <2>2. CASE k \notin DOMAIN b
    BY <2>0, <2>2, <1>1 DEF Pending, Built
  <2> QED
    BY <2>1, <2>2, Zenon
<1>4. \A k \in DOMAIN b : n[k] = b[k]
  BY <1>0, <1>1, Zenon DEF IsBatch
<1> HIDE DEF n
<1>5. n # Empty
  BY <1>3, CloudSyncAssumption, Zenon DEF Empty, Keys
<1>6. Built(n, u)
  BY <1>2, <1>3, Zenon DEF Built
<1> QED
  BY <1>3, <1>4, <1>5, <1>6, Zenon DEF n

\* TransactionalKVVStore::put
LEMMA PutPends ==
  ASSUME NEW u \in Nat, u + 1 <= MaxValues, NEW st, Built(st, u), NEW b, Pending(b, st, u),
         NEW k \in DataKeys
  PROVE  Pending(TransactionalPut(st, b, k, u + 1), st, u + 1)
<1> DEFINE e == [ver |-> PutBatch(st, b)[k].ver + 1, val |-> u + 1]
           n == TransactionalPut(st, b, k, u + 1)
<1>1. k \in Keys /\ PutBatch(st, b) \in Stores
  BY PutPending, Zenon DEF Keys, Built
<1>2. e \in [ver : Nat, val : Values] /\ e.val = u + 1
  BY <1>1, EntryVersions, CloudSyncAssumption
<1>3. DOMAIN n = DOMAIN b \cup {k} /\ \A x \in DOMAIN n : n[x] = IF x = k THEN e ELSE b[x]
  BY Zenon DEF TransactionalPut, LogEntry
<1>4. IsBatch(n)
  <2>1. n = [x \in DOMAIN b \cup {k} |-> IF x = k THEN e ELSE b[x]]
    BY Zenon DEF TransactionalPut, LogEntry
  <2> HIDE DEF n, e
  <2>2. n \in [DOMAIN n -> [ver : Nat, val : Values]]
    BY <2>1, <1>2, Zenon DEF Pending, IsBatch
  <2> QED
    BY <2>2, <1>1, <1>3, Zenon DEF IsBatch, Pending
<1> HIDE DEF n, e
<1>5. ASSUME NEW x \in DataKeys \cap DOMAIN n
      PROVE  n[x].val \in 0..(u + 1) /\ n[x].val > st[x].val
  <2>1. st[x].val \in -1..u
    BY Zenon DEF Built
  <2>2. CASE x = k
    BY <2>1, <2>2, <1>2, <1>3
  <2>3. CASE x # k
    BY <2>1, <2>3, <1>3 DEF Pending
  <2> QED
    BY <2>2, <2>3, Zenon
<1>6. Pending(n, st, u + 1)
  BY <1>3, <1>4, <1>5, Zenon DEF Pending
<1> QED
  BY <1>6, Zenon DEF n

\* The handler's build without the server: every key of an empty store, or none.
LEMMA BuildPends ==
  ASSUME NEW s \in Signers, ~lss[s], used \in Nat, used + 1 <= MaxValues,
         NEW st, Built(st, used)
  PROVE  Pending(BuildLog(s, st), st, IF BuildKeys(s, st) = {} THEN used ELSE used + 1)
<1> DEFINE ks == BuildKeys(s, st)
           n == BuildLog(s, st)
           u == IF ks = {} THEN used ELSE used + 1
<1>0. st \in Stores /\ \A k \in DataKeys : k \in Keys
  BY Zenon DEF Keys, Built
<1>1. ks \in {{}, DataKeys} /\ (st = Empty => ks = DataKeys)
  BY <1>0, Zenon DEF BuildKeys, Empty
<1>2. n = [k \in ks |-> [ver |-> st[k].ver + 1, val |-> used + 1]]
  <2>1. EnterLog(s, st) = NoEntries /\ DOMAIN NoEntries = {}
    BY NoEntriesBatch, Zenon DEF EnterLog
  <2> QED
    BY <2>1, Zenon DEF BuildLog, Fresh
<1> HIDE DEF n, ks
<1>3. ASSUME NEW k \in ks
      PROVE  /\ n[k] \in [ver : Nat, val : Values]
             /\ n[k].val \in 0..u /\ n[k].val > st[k].val
  <2>1. st[k].ver \in Int /\ st[k].ver >= -1 /\ st[k].val \in -1..used
    BY <1>0, <1>1, EntryVersions, Zenon DEF Built
  <2>2. n[k] = [ver |-> st[k].ver + 1, val |-> used + 1] /\ u = used + 1
    BY <1>2, Zenon
  <2> QED
    BY <2>1, <2>2, CloudSyncAssumption
<1>4. DOMAIN n = ks /\ n = [k \in ks |-> n[k]]
  BY <1>2, Zenon
<1>5. IsBatch(n)
  BY <1>0, <1>1, <1>3, <1>4, Zenon DEF IsBatch
<1> HIDE DEF u
<1>6. Pending(n, st, u)
  BY <1>1, <1>3, <1>4, <1>5, Zenon DEF Pending
<1> QED
  BY <1>6, Zenon DEF n, u, ks

=============================================================================
