---------------------------- MODULE SyncProofs ----------------------------
(***************************************************************************)
(* Proof that SyncInv is an invariant of CloudSync when no writer bypasses  *)
(* the server, one lemma per step, and that the stores therefore agree.    *)
(***************************************************************************)
EXTENDS SyncLemmas

-----------------------------------------------------------------------------
(* The stores of the signers and the server's: the invariant is inductive. *)

\* The values a bounded counter may have.
LEMMA Used ==
  /\ MaxValues \in Nat
  /\ \A u \in Nat : u <= u /\ u + 1 \in Nat /\ u <= u + 1
  /\ \A u \in 0..MaxValues :
       u \in Nat /\ u <= MaxValues /\ (u < MaxValues => u + 1 \in 0..MaxValues)
BY CloudSyncAssumption, Used, Zenon

\* A signer that takes no step keeps its invariant while the server's contents
\* stay as they are.
LEMMA SignerKept ==
  ASSUME SyncTypeOK, NEW s \in Signers, SignerInv(s),
         used' \in Nat, used <= used', hist' = hist,
         local'[s] = local[s], base'[s] = base[s], log'[s] = log[s], call'[s] = call[s],
         phase'[s] = phase[s], answer'[s] = answer[s], lss'[s] = lss[s]
  PROVE  SignerInv(s)'
<1>1. used \in Nat
  BY CloudSyncAssumption, Used, Zenon DEF SyncTypeOK
<1>2. /\ \A st : Built(st, used) => Built(st, used')
      /\ \A b, st : Opens(b, st, used) => Opens(b, st, used')
      /\ \A b, st : Transaction(b, st, used) => Transaction(b, st, used')
  BY <1>1, Later, Zenon
<1>3. \A b, st : Pending(b, st, used) => Pending(b, st, used')
  BY <1>1 DEF Pending
<1>4. Snapshot(local[s]) => Snapshot(local[s])'
  BY Zenon DEF Snapshot
<1>5. Snapshot(PutBatch(local[s], log[s])) => Snapshot(PutBatch(local[s], log[s]))'
  BY Zenon DEF Snapshot
<1>6. Started' <=> Started
  BY Zenon DEF Started
<1> QED
  BY <1>2, <1>3, <1>4, <1>5, <1>6, Zenon DEF SignerInv

\* What a step of one signer that leaves the server and the puts alone has to keep.
LEMMA StepKeeps ==
  ASSUME SyncInv, SyncTypeOK', NEW s \in Signers, SignerInv(s)', used <= used',
         hist' = hist, bases' = bases, net' = net, lss' = lss,
         \A t \in Signers \ {s} :
           /\ local'[t] = local[t] /\ base'[t] = base[t] /\ log'[t] = log[t]
           /\ call'[t] = call[t] /\ phase'[t] = phase[t] /\ answer'[t] = answer[t],
         ~Started /\ lss[Primary] => local'[Primary] = local[Primary]
  PROVE  (\A t \in Signers : SignerInv(t)') /\ ServerInv'
<1>0. used \in Nat /\ used' \in Nat
  BY CloudSyncAssumption, Used, Zenon DEF SyncTypeOK, SyncInv
<1>1. ASSUME NEW t \in Signers
      PROVE  SignerInv(t)'
  <2>1. CASE t = s
    BY <2>1, Zenon
  <2>2. CASE t # s
    BY <2>2, <1>0, SignerKept, Zenon DEF SyncInv
  <2> QED
    BY <2>1, <2>2, Zenon
<1>2. /\ \A st : Built(st, used) => Built(st, used')
      /\ \A b, st : Transaction(b, st, used) => Transaction(b, st, used')
      /\ History(hist, used) => History(hist, used')
  BY <1>0, Later, Zenon
<1> Started' <=> Started
  BY Zenon DEF Started
<1>3. ASSUME NEW m \in net
      PROVE  MessageInv(m)'
  <2>1. MessageInv(m) /\ lss[Primary]
    BY Zenon DEF SyncInv, ServerInv
  <2>2. Snapshot(m.base) => Snapshot(m.base)'
    BY Zenon DEF Snapshot
  <2> QED
    BY <2>1, <2>2, <1>2, Zenon DEF MessageInv
<1>4. History(hist, used)' /\ StoredInSeries'
  BY <1>2, Zenon DEF SyncInv, ServerInv, StoredInSeries
<1>5. /\ ~lss'[Primary] => ~Started' /\ net' = {}
      /\ ~Started' /\ lss'[Primary] => ResetVersions(local'[Primary]) = local'[Primary]
  BY Zenon DEF SyncInv, ServerInv
<1>6. ServerInv'
  BY <1>3, <1>4, <1>5, Zenon DEF ServerInv
<1> QED
  BY <1>1, <1>6, Zenon

\* The server's contents are the empty ones until it has been given others.
LEMMA ServerContents ==
  ASSUME SyncInv
  PROVE  /\ Len(hist) \in 1..Len(hist) /\ Built(cloud, used)
         /\ ~Started => Len(hist) = 1 /\ cloud = Empty
         /\ Started => cloud # Empty
<1> DEFINE n == Len(hist)
<1>1. n \in Nat \ {0} /\ History(hist, used)
  BY DEF SyncInv, ServerInv, History
<1>2. /\ hist[1] = Empty /\ cloud = hist[n]
      /\ \A i \in 1..n : Built(hist[i], used) /\ (i > 1 => hist[i] # Empty)
  BY <1>1, Zenon DEF History, cloud
<1>3. Started <=> n > 1
  BY Zenon DEF Started
<1> HIDE DEF n
<1>4. n \in 1..n /\ (n = 1 \/ n > 1)
  BY <1>1
<1>5. Built(cloud, used) /\ (~Started => n = 1 /\ cloud = Empty) /\ (Started => cloud # Empty)
  BY <1>2, <1>3, <1>4, Zenon
<1> QED
  BY <1>4, <1>5, Zenon DEF n

\* What was acknowledged is kept while the server's contents stay as they are and
\* the first signer's store only moves on.
LEMMA AckedKept ==
  ASSUME SyncInv, acked' = acked, hist' = hist, Built(local'[Primary], used'),
         ~Started => \A k \in DataKeys : local[Primary][k].val <= local'[Primary][k].val
  PROVE  AckedInv'
<1>0. Primary \in Signers /\ Built(local[Primary], used)
  BY CloudSyncAssumption, Zenon DEF SyncInv, SignerInv
<1>1. ASSUME NEW a \in acked, a.key \in DataKeys
      PROVE  (IF Started THEN cloud ELSE local'[Primary])[a.key].val >= a.entry.val
  <2>1. a.entry.val \in Nat
    BY <1>1, Zenon DEF SyncInv, AckedInv
  <2>2. (IF Started THEN cloud ELSE local[Primary])[a.key].val >= a.entry.val
    BY <1>1, Zenon DEF SyncInv, AckedInv, AckedIsKept, Started
  <2>3. CASE Started
    BY <2>2, <2>3, Zenon
  <2>4. CASE ~Started
    <3>1. local[Primary][a.key].val \in Int /\ local'[Primary][a.key].val \in Int
      BY <1>0, <1>1, BuiltVersions, Zenon
    <3> QED
      BY <1>1, <2>1, <2>2, <2>4, <3>1
  <2> QED
    BY <2>3, <2>4, Zenon
<1>2. cloud' = cloud
  BY Zenon DEF cloud
<1>3. AckedIsKept'
  BY <1>1, <1>2, Zenon DEF AckedIsKept, Started
<1> QED
  BY <1>3, Zenon DEF SyncInv, AckedInv

\* connect: the signer holds the server's contents, or its own while the server is
\* empty, and logs its build on them.
LEMMA StartStep ==
  ASSUME SyncInv, NEW s \in Signers, Start(s)
  PROVE  SyncInv'
<1> DEFINE store == IF lss[s] THEN PutBatch(local[s], Contents(cloud)) ELSE local[s]
<1>0. /\ SyncTypeOK /\ SignerInv(s) /\ ServerInv /\ Built(local[s], used)
      /\ used \in Nat /\ used + 1 <= MaxValues /\ History(hist, used)
  BY CloudSyncAssumption, Used, Zenon DEF SyncInv, SyncTypeOK, Start, SignerInv, ServerInv
<1>1. ASSUME ~Started
      PROVE  store = local[s] /\ s = Primary
  <2>1. cloud = Empty
    BY <1>1, ServerContents, Zenon
  <2>2. store = local[s]
    BY <2>1, <1>0, EmptyPut, Zenon DEF Built
  <2>3. s = Primary
    BY <2>1, <1>0, Zenon DEF Start, SignerInv
  <2> QED
    BY <2>2, <2>3, Zenon
<1>2. ASSUME Started
      PROVE  lss[s] /\ store = cloud /\ Built(cloud, used)
  <2>1. lss[s]
    BY <1>0, <1>2, CloudSyncAssumption, Zenon DEF SignerInv, ServerInv
  <2>2. PICK i \in 1..Len(hist) : local[s] = hist[i]
    BY <2>1, <1>0, <1>2, Zenon DEF SignerInv, Snapshot
  <2>3. store = cloud
    BY <2>1, <2>2, <1>0, RestoreLatest, Zenon DEF cloud
  <2>4. Built(cloud, used)
    BY ServerContents, Zenon
  <2> QED
    BY <2>1, <2>3, <2>4, Zenon
<1>3. Built(store, used)
  BY <1>0, <1>1, <1>2, Zenon
<1>4. /\ local' = [local EXCEPT ![s] = store]
      /\ log' = [log EXCEPT ![s] = BuildLog(s, store)]
      /\ base' = [base EXCEPT ![s] = store]
      /\ used' = IF BuildKeys(s, store) = {} THEN used ELSE used + 1
      /\ phase' = [phase EXCEPT ![s] = "handling"]
      /\ UNCHANGED <<lss, serving, call, answer, net, hist, bases, acked>>
  BY Zenon DEF Start, Fresh
<1> HIDE DEF store
<1>5. /\ used' \in 0..MaxValues /\ used <= used'
      /\ lss[s] => Opens(BuildLog(s, store), store, used')
      /\ ~lss[s] => Pending(BuildLog(s, store), store, used')
  <2>1. used' \in 0..MaxValues /\ used <= used'
    BY <1>0, <1>4, CloudSyncAssumption
  <2>2. ASSUME lss[s]
        PROVE  Opens(BuildLog(s, store), store, used')
    BY <2>2, <1>0, <1>3, <1>4, BuildOpens, Zenon DEF Transaction
  <2>3. ASSUME ~lss[s]
        PROVE  Pending(BuildLog(s, store), store, used')
    BY <2>3, <1>0, <1>3, <1>4, BuildPends, Zenon
  <2> QED
    BY <2>1, <2>2, <2>3, Zenon
<1>6. IsBatch(BuildLog(s, store)) /\ store \in Stores /\ Built(store, used')
  BY <1>0, <1>3, <1>5, Later, Used, Zenon DEF Opens, Pending, Built
<1>7. SyncTypeOK'
  BY <1>0, <1>4, <1>5, <1>6, Zenon DEF SyncTypeOK, Phases
<1>8. /\ local'[s] = store /\ log'[s] = BuildLog(s, store) /\ base'[s] = store
      /\ phase'[s] = "handling"
      /\ \A t \in Signers \ {s} :
           /\ local'[t] = local[t] /\ base'[t] = base[t] /\ log'[t] = log[t]
           /\ call'[t] = call[t] /\ phase'[t] = phase[t] /\ answer'[t] = answer[t]
  BY <1>0, <1>4, Zenon DEF SyncTypeOK
<1>9. ~Started => local'[Primary] = local[Primary]
  BY <1>1, <1>8, Zenon
<1>10. SignerInv(s)'
  <2>1. Started => Snapshot(local[s])'
    BY <1>2, <1>4, <1>8, ServerContents, Zenon DEF Snapshot, cloud
  <2>2. (s # Primary => lss[s]) /\ answer[s] = "none"
    BY <1>0, Zenon DEF SignerInv, Start
  <2>3. Started' <=> Started
    BY <1>4, Zenon DEF Started
  <2> QED
    BY <2>1, <2>2, <2>3, <1>1, <1>4, <1>5, <1>6, <1>8, Zenon DEF SignerInv
<1>11. (\A t \in Signers : SignerInv(t)') /\ ServerInv'
  BY <1>4, <1>5, <1>7, <1>8, <1>9, <1>10, StepKeeps, Zenon
<1>12. AckedInv'
  <2>1. Primary \in Signers
    BY CloudSyncAssumption, Zenon
  <2>2. Built(local'[Primary], used') /\ Built(local[Primary], used)
    BY <1>11, <2>1, Zenon DEF SignerInv, SyncInv
  <2>3. \A k \in DataKeys : local[Primary][k].val \in Int
    BY <2>2, BuiltVersions, Zenon
  <2> QED
    BY <2>2, <2>3, <1>4, <1>9, AckedKept
<1> QED
  BY <1>7, <1>11, <1>12, Zenon DEF SyncInv

\* A step of one signer that leaves its store, the server and the puts alone.
LEMMA QuietStep ==
  ASSUME SyncInv, SyncTypeOK', NEW s \in Signers, SignerInv(s)', used <= used',
         UNCHANGED <<lss, local, net, hist, bases, acked>>,
         \A t \in Signers \ {s} :
           /\ base'[t] = base[t] /\ log'[t] = log[t] /\ call'[t] = call[t]
           /\ phase'[t] = phase[t] /\ answer'[t] = answer[t]
  PROVE  SyncInv'
<1>1. (\A t \in Signers : SignerInv(t)') /\ ServerInv'
  BY StepKeeps, Zenon
<1>2. Primary \in Signers
  BY CloudSyncAssumption, Zenon
<1>3. Built(local'[Primary], used') /\ Built(local[Primary], used)
  BY <1>1, <1>2, Zenon DEF SignerInv, SyncInv
<1>4. \A k \in DataKeys : local[Primary][k].val \in Int
  BY <1>3, BuiltVersions, Zenon
<1>5. AckedInv'
  BY <1>3, <1>4, AckedKept
<1> QED
  BY <1>1, <1>5, Zenon DEF SyncInv

\* do_handle up to the handler's first write
LEMMA EnterStep ==
  ASSUME SyncInv, NEW s \in Signers, Enter(s)
  PROVE  SyncInv'
<1>0. SyncTypeOK /\ SignerInv(s) /\ Built(local[s], used) /\ local[s] # Empty /\ used \in Nat
  BY CloudSyncAssumption, Used, Zenon DEF SyncInv, SyncTypeOK, SignerInv, Enter
<1>1. /\ lss[s] => Opens(EnterLog(s, local[s]), local[s], used)
      /\ ~lss[s] => Pending(EnterLog(s, local[s]), local[s], used)
  BY <1>0, EnterOpens, NoEntriesBatch, Zenon DEF EnterLog, Pending
<1>2. IsBatch(EnterLog(s, local[s])) /\ local[s] \in Stores
  BY <1>0, <1>1, Zenon DEF Opens, Pending, Built
<1>3. /\ phase' = [phase EXCEPT ![s] = "handling"]
      /\ log' = [log EXCEPT ![s] = EnterLog(s, local[s])]
      /\ base' = [base EXCEPT ![s] = local[s]]
      /\ UNCHANGED <<lss, serving, local, call, answer, net, hist, bases, acked, used>>
  BY Zenon DEF Enter
<1>4. SyncTypeOK'
  BY <1>0, <1>2, <1>3, Zenon DEF SyncTypeOK, Phases
<1>5. /\ log'[s] = EnterLog(s, local[s]) /\ base'[s] = local[s] /\ phase'[s] = "handling"
      /\ \A t \in Signers \ {s} :
           base'[t] = base[t] /\ log'[t] = log[t] /\ phase'[t] = phase[t]
  BY <1>0, <1>3, Zenon DEF SyncTypeOK
<1>6. SignerInv(s)'
  <2>1. (Started' <=> Started) /\ (Snapshot(local[s]) => Snapshot(local[s])')
    BY <1>3, Zenon DEF Started, Snapshot
  <2>2. (Started \/ s = Primary) /\ answer[s] = "none"
    BY <1>0, Zenon DEF SignerInv, Enter
  <2> QED
    BY <2>1, <2>2, <1>0, <1>1, <1>3, <1>5, Zenon DEF SignerInv
<1> QED
  BY <1>0, <1>3, <1>4, <1>5, <1>6, QuietStep, Used, Zenon

\* Put, on either store
LEMMA PutLogged ==
  ASSUME SyncInv, NEW s \in Signers, phase[s] = "handling", used < MaxValues,
         NEW k \in DataKeys
  PROVE  /\ lss[s] => Opens(Put(s, local[s], log[s], k, Fresh), local[s], used + 1)
         /\ ~lss[s] => Pending(Put(s, local[s], log[s], k, Fresh), local[s], used + 1)
         /\ IsBatch(Put(s, local[s], log[s], k, Fresh))
<1>0. SignerInv(s) /\ Built(local[s], used) /\ used \in Nat /\ used + 1 <= MaxValues
  BY CloudSyncAssumption, Used, Zenon DEF SyncInv, SyncTypeOK, SignerInv
<1>1. ASSUME lss[s]
      PROVE  Opens(Put(s, local[s], log[s], k, Fresh), local[s], used + 1)
  BY <1>0, <1>1, PutOpens, Zenon DEF SignerInv, Put, Fresh
<1>2. ASSUME ~lss[s]
      PROVE  Pending(Put(s, local[s], log[s], k, Fresh), local[s], used + 1)
  BY <1>0, <1>2, PutPends, Zenon DEF SignerInv, Put, Fresh
<1> QED
  BY <1>1, <1>2, Zenon DEF Opens, Pending

\* A handler that logs one more record, its own or that of an RPC.
LEMMA LogStep ==
  ASSUME SyncInv, NEW s \in Signers, NEW k \in DataKeys, used < MaxValues,
         phase[s] = "handling",
         log' = [log EXCEPT ![s] = Put(s, local[s], log[s], k, Fresh)], used' = Fresh,
         UNCHANGED <<lss, phase, serving, local, base, call, answer, net, hist, bases, acked>>
  PROVE  SyncInv'
<1>0. /\ SyncTypeOK /\ SignerInv(s) /\ Built(local[s], used) /\ used \in Nat
      /\ used' = used + 1 /\ used' \in 0..MaxValues
  BY CloudSyncAssumption, Used, Zenon DEF SyncInv, SyncTypeOK, SignerInv, Fresh
<1>1. /\ lss[s] => Opens(Put(s, local[s], log[s], k, Fresh), local[s], used')
      /\ ~lss[s] => Pending(Put(s, local[s], log[s], k, Fresh), local[s], used')
      /\ IsBatch(Put(s, local[s], log[s], k, Fresh))
  BY <1>0, PutLogged, Zenon
<1>2. SyncTypeOK'
  BY <1>0, <1>1, Zenon DEF SyncTypeOK
<1>3. /\ log'[s] = Put(s, local[s], log[s], k, Fresh)
      /\ \A t \in Signers \ {s} : log'[t] = log[t]
  BY <1>0, Zenon DEF SyncTypeOK
<1>4. SignerInv(s)'
  <2>1. (Started' <=> Started) /\ (Snapshot(local[s]) => Snapshot(local[s])')
    BY Zenon DEF Started, Snapshot
  <2>2. Built(local[s], used')
    BY <1>0, Later
  <2> QED
    BY <2>1, <2>2, <1>0, <1>1, <1>3, Zenon DEF SignerInv
<1> QED
  BY <1>0, <1>2, <1>3, <1>4, QuietStep, Used, Zenon

\* A panic, a crash or a shutdown.
LEMMA HaltStep ==
  ASSUME SyncInv, NEW s \in Signers, Halt(s), used \in Nat, used' \in 0..MaxValues,
         used <= used',
         UNCHANGED <<lss, local, base, net, hist, bases, acked>>
  PROVE  SyncInv'
<1>0. SyncTypeOK /\ SignerInv(s) /\ Built(local[s], used)
  BY Zenon DEF SyncInv, SignerInv
<1>1. SyncTypeOK'
  BY <1>0, NoEntriesBatch, Zenon DEF SyncTypeOK, Halt, Phases
<1>2. /\ phase'[s] = "down" /\ answer'[s] = "none"
      /\ \A t \in Signers \ {s} :
           /\ log'[t] = log[t] /\ call'[t] = call[t]
           /\ phase'[t] = phase[t] /\ answer'[t] = answer[t]
  BY <1>0, Zenon DEF SyncTypeOK, Halt
<1>3. SignerInv(s)'
  <2>1. (Started' <=> Started) /\ (Snapshot(local[s]) => Snapshot(local[s])')
    BY Zenon DEF Started, Snapshot
  <2>2. Built(local[s], used')
    BY <1>0, Later, Used, Zenon
  <2> QED
    BY <2>1, <2>2, <1>0, <1>2, Zenon DEF SignerInv
<1> QED
  BY <1>1, <1>2, <1>3, QuietStep, Zenon

\* prepare and store_with_client: a put on the contents the transaction read.
LEMMA PrepareStep ==
  ASSUME SyncInv, NEW s \in Signers, Prepare(s)
  PROVE  SyncInv'
<1>0. /\ SyncTypeOK /\ SignerInv(s) /\ ServerInv /\ Built(local[s], used) /\ used \in Nat
      /\ phase[s] = "handling" /\ lss[s] /\ base[s] = local[s]
      /\ Opens(log[s], local[s], used) /\ IsBatch(log[s])
  BY CloudSyncAssumption, Used, Zenon DEF SyncInv, SyncTypeOK, SignerInv, Prepare, Opens
<1>a. /\ UNCHANGED <<lss, local, base, answer, hist, bases, acked, used>>
      /\ Started' <=> Started
  BY Zenon DEF Prepare, Started
<1>b. Snapshot(local[s]) => Snapshot(local[s])'
  BY <1>a, Zenon DEF Snapshot
<1>1. CASE DOMAIN log[s] = {LAST_WRITER}
  <2>1. /\ log' = [log EXCEPT ![s] = NoEntries]
        /\ phase' = [phase EXCEPT ![s] = "idle"]
        /\ serving' = [serving EXCEPT ![s] = TRUE]
        /\ UNCHANGED <<call, net>>
    BY <1>1, Zenon DEF Prepare
  <2>2. local[s] # Empty
    BY <1>0, <1>1, CloudSyncAssumption, Zenon DEF Opens
  <2>3. SyncTypeOK'
    BY <2>1, <1>0, <1>a, NoEntriesBatch, Zenon DEF SyncTypeOK, Phases
  <2>4. /\ phase'[s] = "idle"
        /\ \A t \in Signers \ {s} : log'[t] = log[t] /\ phase'[t] = phase[t]
    BY <2>1, <1>0, Zenon DEF SyncTypeOK
  <2>5. SignerInv(s)'
    BY <2>2, <2>4, <1>0, <1>a, <1>b, Zenon DEF SignerInv
  <2> QED
    BY <2>1, <2>3, <2>4, <2>5, <1>0, <1>a, QuietStep, Used, Zenon
<1>2. CASE DOMAIN log[s] # {LAST_WRITER}
  <2> DEFINE m == [from |-> s, batch |-> log[s], base |-> base[s]]
  <2>1. /\ phase' = [phase EXCEPT ![s] = "storing"]
        /\ net' = net \cup {m}
        /\ call' = [call EXCEPT ![s] = log[s]]
        /\ UNCHANGED <<serving, log>>
    BY <1>2, Zenon DEF Prepare
  <2>2. Transaction(log[s], local[s], used)
    <3>1. \E k \in DataKeys : k \in DOMAIN log[s]
      BY <1>0, <1>2, CloudSyncAssumption, Zenon DEF Opens, IsBatch, Keys
    <3> QED
      BY <3>1, <1>0, Zenon DEF Transaction
  <2>3. m.from = s /\ m.batch = log[s] /\ m.base = local[s] /\ local[s] \in Stores
    BY <1>0, Zenon DEF Built
  <2> HIDE DEF m
  <2>4. SyncTypeOK'
    BY <2>1, <2>3, <1>0, <1>a, Zenon DEF SyncTypeOK, Phases
  <2>5. /\ phase'[s] = "storing" /\ call'[s] = log[s]
        /\ \A t \in Signers \ {s} : call'[t] = call[t] /\ phase'[t] = phase[t]
    BY <2>1, <1>0, Zenon DEF SyncTypeOK
  <2>6. ASSUME NEW t \in Signers
        PROVE  SignerInv(t)'
    <3>1. CASE t = s
      BY <3>1, <2>1, <2>2, <2>5, <1>0, <1>a, <1>b, Zenon DEF SignerInv
    <3>2. CASE t # s
      BY <3>2, <2>1, <2>5, <1>0, <1>a, SignerKept, Used, Zenon DEF SyncInv
    <3> QED
      BY <3>1, <3>2, Zenon
  <2>7. ASSUME NEW x \in net'
        PROVE  MessageInv(x)'
    <3>1. CASE x \in net
      <4>1. MessageInv(x)
        BY <3>1, <1>0, Zenon DEF ServerInv
      <4>2. Snapshot(x.base) => Snapshot(x.base)'
        BY <1>a, Zenon DEF Snapshot
      <4> QED
        BY <4>1, <4>2, <1>a, Zenon DEF MessageInv
    <3>2. CASE x = m
      <4>1. Started => Snapshot(local[s])'
        BY <1>0, <1>b, Zenon DEF SignerInv
      <4>2. Started => Snapshot(x.base)'
        BY <3>2, <2>3, <1>a, <4>1, Zenon DEF Snapshot
      <4>3. ~Started => s = Primary
        BY <1>0, Zenon DEF SignerInv
      <4> QED
        BY <3>2, <4>2, <4>3, <2>2, <2>3, <1>0, <1>a, Zenon DEF MessageInv
    <3> QED
      BY <3>1, <3>2, <2>1, Zenon
  <2>8. ServerInv'
    <3>1. s = Primary \/ Started
      BY <1>0, Zenon DEF SignerInv
    <3>2. lss[Primary]
      BY <3>1, <1>0, Zenon DEF ServerInv
    <3> QED
      BY <3>2, <2>7, <1>0, <1>a, Zenon DEF ServerInv, StoredInSeries
  <2>9. AckedInv'
    BY <1>a, Zenon DEF SyncInv, AckedInv, AckedIsKept, cloud
  <2> QED
    BY <2>4, <2>6, <2>8, <2>9, Zenon DEF SyncInv
<1> QED
  BY <1>1, <1>2, Zenon

\* StorageServer::put refuses a batch: only the answer is left of it.
LEMMA RefusedStep ==
  ASSUME SyncInv, NEW m \in net, ServerPut(m), ~RedbAccepts(cloud, m.batch)
  PROVE  SyncInv'
<1>0. SyncTypeOK /\ ServerInv /\ used \in Nat
  BY CloudSyncAssumption, Used, Zenon DEF SyncInv, SyncTypeOK
<1>1. /\ UNCHANGED <<lss, phase, serving, local, log, base, call, acked, used, hist, bases>>
      /\ net' \subseteq net
      /\ answer' = [s \in Signers |-> IF Waits(s, m) THEN "conflict" ELSE answer[s]]
  BY Zenon DEF ServerPut
<1>2. SyncTypeOK'
  BY <1>0, <1>1, Zenon DEF SyncTypeOK
<1>3. /\ Started' <=> Started
      /\ \A t \in Signers : /\ Snapshot(local[t]) => Snapshot(local[t])'
                            /\ Snapshot(PutBatch(local[t], log[t])) => Snapshot(PutBatch(local[t], log[t]))'
  BY <1>1, Zenon DEF Started, Snapshot
<1>4. ASSUME NEW t \in Signers
      PROVE  SignerInv(t)'
  <2>1. SignerInv(t) /\ answer'[t] \in {answer[t], "conflict"}
    BY <1>1, Zenon DEF SyncInv
  <2>2. phase[t] \in {"down", "idle", "handling"} => answer'[t] = answer[t]
    BY <1>1, Zenon DEF Waits
  <2> QED
    BY <2>1, <2>2, <1>1, <1>3, Zenon DEF SignerInv
<1>5. ASSUME NEW x \in net'
      PROVE  MessageInv(x)'
  <2>1. MessageInv(x)
    BY <1>0, <1>1, Zenon DEF ServerInv
  <2>2. Snapshot(x.base) => Snapshot(x.base)'
    BY <1>1, Zenon DEF Snapshot
  <2> QED
    BY <2>1, <2>2, <1>1, <1>3, Zenon DEF MessageInv
<1>6. ServerInv'
  <2>1. lss[Primary]
    BY <1>0, Zenon DEF ServerInv
  <2> QED
    BY <2>1, <1>0, <1>1, <1>3, <1>5, Zenon DEF ServerInv, StoredInSeries
<1>7. AckedInv'
  BY <1>1, Zenon DEF SyncInv, AckedInv, AckedIsKept, cloud
<1> QED
  BY <1>2, <1>4, <1>6, <1>7, Zenon DEF SyncInv

\* StorageServer::put accepts a batch: it was made on the contents the server has,
\* and it is the whole local store of the first signer if the server was empty.
LEMMA AcceptedStep ==
  ASSUME SyncInv, NEW m \in net, ServerPut(m), RedbAccepts(cloud, m.batch)
  PROVE  SyncInv'
<1> DEFINE n == Len(hist)
           new == PutBatch(cloud, m.batch)
           Held(st) == \E i \in 1..Len(hist') : st = hist'[i]
<1>0. /\ SyncTypeOK /\ ServerInv /\ used \in Nat /\ MessageInv(m) /\ lss[Primary]
      /\ History(hist, used) /\ Primary \in Signers /\ SignerInv(Primary)
      /\ cloud = hist[n] /\ n \in Nat \ {0} /\ n \in 1..n
  <2>1. SyncTypeOK /\ ServerInv /\ Primary \in Signers /\ SignerInv(Primary)
    BY CloudSyncAssumption, Zenon DEF SyncInv
  <2>2. MessageInv(m) /\ lss[Primary] /\ History(hist, used)
    BY <2>1, Zenon DEF ServerInv
  <2>3. n \in Nat \ {0} /\ n \in 1..n
    BY <2>2, ServerContents DEF History
  <2> QED
    BY <2>1, <2>2, <2>3, CloudSyncAssumption, Used, Zenon DEF SyncTypeOK, cloud
<1>1. /\ UNCHANGED <<lss, phase, serving, local, log, base, call, acked, used>>
      /\ net' = net \ {m}
      /\ hist' = Append(hist, new) /\ bases' = Append(bases, m.base)
      /\ answer' = [s \in Signers |-> IF Waits(s, m) THEN "ok" ELSE answer[s]]
  BY Zenon DEF ServerPut
<1>2. m.base = cloud /\ Transaction(m.batch, cloud, used)
  <2>1. n = 1 \/ \E i \in 1..n : m.base = hist[i]
    BY <1>0, ServerContents, Zenon DEF MessageInv, Snapshot
  <2>2. Built(m.base, used) /\ Transaction(m.batch, m.base, used)
    BY <1>0, Zenon DEF MessageInv
  <2>3. m.base = cloud
    BY <2>1, <2>2, <1>0, AcceptedOnBase, Zenon
  <2> QED
    BY <2>2, <2>3, Zenon
<1>3. Built(new, used) /\ Older(cloud, new) /\ new \in Stores
  BY <1>0, <1>2, ServerContents, PutTransaction, Zenon DEF Built
<1>4. History(hist', used)
  BY <1>0, <1>1, <1>2, HistoryGrows, Zenon
<1> HIDE DEF new
<1>5. /\ Len(hist') = n + 1 /\ hist'[n + 1] = new /\ hist'[1] = Empty
      /\ \A i \in 1..n : hist'[i] = hist[i]
  BY <1>0, <1>1, <1>3 DEF History
<1>6. /\ Started' /\ cloud' = new
      /\ Held(new) /\ Held(Empty) /\ \A st : Snapshot(st) => Held(st)
  <2>1. Started' <=> Len(hist') > 1
    BY Zenon DEF Started
  <2>2. cloud' = hist'[Len(hist')]
    BY Zenon DEF cloud
  <2>3. \A st : Snapshot(st) <=> \E i \in 1..n : st = hist[i]
    BY Zenon DEF Snapshot
  <2> DEFINE l == Len(hist')
  <2>4. l = n + 1
    BY <1>5, Zenon
  <2> HIDE DEF l, n
  <2>5. l > 1 /\ l \in 1..l /\ 1 \in 1..l /\ \A i \in 1..n : i \in 1..l
    BY <2>4, <1>0
  <2> QED
    BY <2>1, <2>2, <2>3, <2>4, <2>5, <1>5, Zenon DEF l
<1> HIDE DEF n
<1>7. ASSUME ~Started
      PROVE  cloud = Empty /\ (local[Primary] = Empty \/ local[Primary] = new)
  <2>1. cloud = Empty
    BY <1>7, ServerContents, Zenon
  <2>2. ASSUME local[Primary] # Empty
        PROVE  local[Primary] = new
    <3>1. m.batch = Contents(local[Primary])
      BY <2>1, <2>2, <1>0, <1>2, <1>7, Zenon DEF MessageInv
    <3>2. local[Primary] \in Stores
      BY <1>0, Zenon DEF SyncTypeOK
    <3> QED
      BY <2>1, <3>1, <3>2, EmptyPut, Zenon DEF new
  <2> QED
    BY <2>1, <2>2, Zenon
<1>8. SyncTypeOK'
  <2>1. m.base \in Stores /\ bases \in Seq(Stores) /\ hist \in Seq(Stores)
    BY <1>0, Zenon DEF SyncTypeOK
  <2>2. /\ hist' \in Seq(Stores) /\ hist' # << >> /\ bases' \in Seq(Stores)
        /\ Len(hist') = Len(bases') + 1
    BY <2>1, <1>0, <1>1, <1>3 DEF SyncTypeOK
  <2> QED
    BY <2>2, <1>0, <1>1, Zenon DEF SyncTypeOK
<1>9. ASSUME NEW t \in Signers
      PROVE  Held(local[t])
  <2>1. SignerInv(t)
    BY Zenon DEF SyncInv
  <2>2. CASE Started
    BY <2>1, <2>2, <1>0, <1>6, Zenon DEF SignerInv
  <2>3. CASE ~Started
    BY <2>1, <2>3, <1>6, <1>7, Zenon DEF SignerInv
  <2> QED
    BY <2>2, <2>3, Zenon
<1>10. ASSUME NEW t \in Signers, phase[t] = "storing", answer'[t] = "ok"
       PROVE  Held(PutBatch(local[t], log[t]))
  <2>1. SignerInv(t)
    BY Zenon DEF SyncInv
  <2>2. CASE answer[t] = "ok"
    BY <2>1, <2>2, <1>6, <1>10, Zenon DEF SignerInv
  <2>3. CASE answer[t] # "ok"
    <3>1. Waits(t, m)
      BY <2>3, <1>1, <1>10, Zenon
    <3>2. /\ m.batch = log[t] /\ Transaction(log[t], local[t], used)
          /\ Built(local[t], used) /\ lss[t]
      BY <2>1, <3>1, <1>10, Zenon DEF SignerInv, Waits
    <3>3. n = 1 \/ \E i \in 1..n : local[t] = hist[i]
      BY <2>1, <3>2, ServerContents, Zenon DEF SignerInv, Snapshot, n
    <3>4. local[t] = cloud
      BY <3>2, <3>3, <1>0, AcceptedOnBase, Zenon DEF n
    <3> QED
      BY <3>2, <3>4, <1>6, Zenon DEF new
  <2> QED
    BY <2>2, <2>3, Zenon
<1>11. ASSUME NEW t \in Signers
       PROVE  SignerInv(t)'
  <2>1. SignerInv(t) /\ lss[t]
    BY <1>0, Zenon DEF SyncInv, SignerInv
  <2>2. phase[t] \in {"down", "idle", "handling"} => answer'[t] = answer[t]
    BY <1>1, Zenon DEF Waits
  <2>3. /\ Snapshot(local[t])'
        /\ phase[t] = "storing" /\ answer'[t] = "ok" => Snapshot(PutBatch(local[t], log[t]))'
    BY <1>1, <1>9, <1>10, Zenon DEF Snapshot
  <2> QED
    BY <2>1, <2>2, <2>3, <1>1, <1>6, Zenon DEF SignerInv
<1>12. ASSUME NEW x \in net'
       PROVE  MessageInv(x)'
  <2>1. MessageInv(x)
    BY <1>0, <1>1, Zenon DEF ServerInv
  <2>2. Held(x.base)
    BY <2>1, <1>6, <1>7, Zenon DEF MessageInv
  <2>3. Snapshot(x.base)'
    BY <2>2, Zenon DEF Snapshot
  <2> QED
    BY <2>1, <2>3, <1>1, <1>6, Zenon DEF MessageInv
<1>13. StoredInSeries'
  <2> DEFINE l == Len(bases)
  <2>1. /\ bases \in Seq(Stores) /\ m.base \in Stores /\ n = l + 1 /\ l \in Nat
        /\ \A i \in 1..l : bases[i] = hist[i]
    BY <1>0 DEF SyncTypeOK, ServerInv, StoredInSeries, n
  <2>2. /\ Len(bases') = l + 1 /\ bases'[l + 1] = m.base
        /\ \A i \in 1..l : bases'[i] = bases[i]
    BY <2>1, <1>1
  <2> HIDE DEF l
  <2>3. ASSUME NEW i \in 1..(l + 1)
        PROVE  bases'[i] = hist'[i]
    <3>1. CASE i \in 1..l
      BY <3>1, <2>1, <2>2, <1>5, Zenon
    <3>2. CASE i = l + 1
      BY <3>2, <2>1, <2>2, <1>0, <1>2, <1>5, Zenon
    <3> QED
      BY <3>1, <3>2, <2>1
  <2> QED
    BY <2>2, <2>3, Zenon DEF StoredInSeries
<1>14. ServerInv'
  BY <1>0, <1>1, <1>4, <1>6, <1>12, <1>13, Zenon DEF ServerInv
<1>15. ASSUME NEW a \in acked, a.key \in DataKeys
       PROVE  new[a.key].val >= a.entry.val /\ a.entry.val \in Nat
  <2>1. a.entry.val \in Nat
    BY <1>15, Zenon DEF SyncInv, AckedInv
  <2>2. (IF Started THEN cloud ELSE local[Primary])[a.key].val >= a.entry.val
    BY <1>15, Zenon DEF SyncInv, AckedInv, AckedIsKept, Started
  <2>3. CASE Started
    <3>1. cloud[a.key].val \in Int /\ new[a.key].val \in Int
      BY <1>3, <1>15, ServerContents, BuiltVersions, Zenon
    <3>2. cloud[a.key].val <= new[a.key].val
      BY <1>3, <1>15, Zenon DEF Older
    <3> QED
      BY <2>1, <2>2, <2>3, <3>1, <3>2
  <2>4. CASE ~Started
    <3>1. Built(local[Primary], used)
      BY <1>0, Zenon DEF SignerInv
    <3>2. local[Primary] # Empty
      BY <2>1, <2>2, <2>4, <3>1, <1>15, BuiltVersions
    <3> QED
      BY <2>1, <2>2, <2>4, <3>2, <1>7, Zenon
  <2> QED
    BY <2>3, <2>4, Zenon
<1>16. AckedInv'
  BY <1>1, <1>6, <1>15, Zenon DEF AckedInv, AckedIsKept, Started
<1> QED
  BY <1>8, <1>11, <1>14, <1>16, Zenon DEF SyncInv

\* The empty store is built.
LEMMA EmptyBuilt ==
  ASSUME NEW u \in Nat
  PROVE  Built(Empty, u) /\ ResetVersions(Empty) = Empty
<1>1. \A k \in DataKeys : k \in Keys
  BY Zenon DEF Keys
<1>2. Empty \in Stores
  BY Zenon DEF Empty, Stores, Entries
<1>3. Built(Empty, u)
  BY <1>1, <1>2 DEF Built, Empty, Absent
<1> QED
  BY <1>3, Zenon DEF ResetVersions, Empty

\* commit: the log goes to the local store.  With a server its outcome is among
\* the server's contents, so that the reply vouches for what the server has.
LEMMA CommitStep ==
  ASSUME SyncInv, NEW s \in Signers, Commit(s)
  PROVE  SyncInv'
<1> DEFINE new == PutBatch(local[s], log[s])
<1>0. /\ SyncTypeOK /\ SignerInv(s) /\ ServerInv /\ Built(local[s], used) /\ used \in Nat
      /\ Primary \in Signers
  BY CloudSyncAssumption, Used, Zenon DEF SyncInv, SyncTypeOK, SignerInv
<1>1. /\ local' = [local EXCEPT ![s] = new]
      /\ acked' = acked \cup {[key |-> k, entry |-> log[s][k]] : k \in DOMAIN log[s]}
      /\ phase' = [phase EXCEPT ![s] = "idle"]
      /\ serving' = [serving EXCEPT ![s] = TRUE]
      /\ log' = [log EXCEPT ![s] = NoEntries]
      /\ call' = [call EXCEPT ![s] = NoEntries]
      /\ answer' = [answer EXCEPT ![s] = "none"]
      /\ UNCHANGED <<lss, base, net, hist, bases, used>>
  BY Zenon DEF Commit
<1>2. Pending(log[s], local[s], used)
  BY <1>0, Zenon DEF Commit, SignerInv, Transaction, Opens, Pending
<1>3. /\ Built(new, used) /\ new # Empty /\ new \in Stores
      /\ \A k \in DataKeys : local[s][k].val <= new[k].val
      /\ \A k \in DOMAIN log[s] : new[k] = log[s][k]
  BY <1>0, <1>2, PutPending DEF Built
<1>4. IsBatch(log[s])
  BY <1>2, Zenon DEF Pending
<1>5. ASSUME lss[s]
      PROVE  Snapshot(new) /\ Started
  <2>1. PICK i \in 1..Len(hist) : new = hist[i]
    BY <1>0, <1>5, Zenon DEF Commit, SignerInv, Snapshot
  <2>2. Started
    BY <2>1, <1>0, <1>3, ServerContents DEF ServerInv, History
  <2> QED
    BY <2>1, <2>2, Zenon DEF Snapshot
<1>6. ASSUME ~lss[s]
      PROVE  s = Primary /\ ~Started
  BY <1>0, <1>6, Zenon DEF SignerInv, ServerInv
<1> HIDE DEF new
<1>7. SyncTypeOK'
  <2>1. \A k \in DOMAIN log[s] : k \in Keys /\ log[s][k] \in Entries
    BY <1>4, Zenon DEF IsBatch, Entries
  <2>2. \A a \in acked' : a.key \in Keys /\ a.entry \in Entries
    BY <2>1, <1>0, <1>1 DEF SyncTypeOK
  <2> QED
    BY <2>2, <1>0, <1>1, <1>3, NoEntriesBatch, Zenon DEF SyncTypeOK, Phases
<1>8. /\ local'[s] = new /\ phase'[s] = "idle" /\ answer'[s] = "none"
      /\ \A t \in Signers \ {s} :
           /\ local'[t] = local[t] /\ base'[t] = base[t] /\ log'[t] = log[t]
           /\ call'[t] = call[t] /\ phase'[t] = phase[t] /\ answer'[t] = answer[t]
  BY <1>0, <1>1, Zenon DEF SyncTypeOK
<1>9. SignerInv(s)'
  <2>1. (Started' <=> Started) /\ (Snapshot(new) => Snapshot(local[s])')
    BY <1>1, <1>8, Zenon DEF Started, Snapshot
  <2>2. s # Primary => lss[s]
    BY <1>0, Zenon DEF SignerInv
  <2> QED
    BY <2>1, <2>2, <1>1, <1>3, <1>5, <1>6, <1>8, Zenon DEF SignerInv
<1>10. ~Started /\ lss[Primary] => local'[Primary] = local[Primary]
  BY <1>0, <1>5, <1>6, <1>8, Zenon
<1>11. (\A t \in Signers : SignerInv(t)') /\ ServerInv'
  BY <1>1, <1>7, <1>8, <1>9, <1>10, <1>0, StepKeeps, Used, Zenon
<1>12. ASSUME NEW a \in acked', a.key \in DataKeys
       PROVE  /\ a.entry.val \in Nat
              /\ (IF Started THEN cloud ELSE local'[Primary])[a.key].val >= a.entry.val
  <2>0. /\ Built(local[Primary], used) /\ Built(local'[Primary], used)
        /\ local[Primary][a.key].val \in Int /\ local'[Primary][a.key].val \in Int
    <3>1. Built(local[Primary], used) /\ Built(local'[Primary], used)
      BY <1>0, <1>1, <1>11, Zenon DEF SyncInv, SignerInv
    <3> QED
      BY <3>1, <1>12, BuiltVersions, Zenon
  <2>1. CASE a \in acked
    <3>1. /\ a.entry.val \in Nat
          /\ (IF Started THEN cloud ELSE local[Primary])[a.key].val >= a.entry.val
      BY <2>1, <1>12, Zenon DEF SyncInv, AckedInv, AckedIsKept, Started
    <3>2. local[Primary][a.key].val <= local'[Primary][a.key].val
      BY <2>0, <1>0, <1>3, <1>8, <1>12
    <3> QED
      BY <2>0, <3>1, <3>2
  <2>2. CASE a \notin acked
    <3>1. a.key \in DOMAIN log[s] /\ a.entry = log[s][a.key]
      BY <2>2, <1>1
    <3>2. a.entry.val \in Nat /\ new[a.key] = a.entry
      BY <3>1, <1>2, <1>3, <1>12 DEF Pending
    <3>3. CASE lss[s]
      <4>1. PICK i \in 1..Len(hist) : new = hist[i]
        BY <3>3, <1>5, Zenon DEF Snapshot
      <4>2. Older(new, cloud)
        BY <4>1, <1>0, ServerContents DEF ServerInv, History, cloud
      <4>3. new[a.key].val <= cloud[a.key].val /\ cloud[a.key].val \in Int
        BY <4>2, <1>12, ServerContents, BuiltVersions, Zenon DEF Older
      <4> QED
        BY <3>2, <3>3, <4>3, <1>5, Zenon
    <3>4. CASE ~lss[s]
      BY <3>2, <3>4, <1>6, <1>8, Used, Zenon
    <3> QED
      BY <3>3, <3>4, Zenon
  <2> QED
    BY <2>1, <2>2, Zenon
<1>13. AckedInv'
  <2>1. (Started' <=> Started) /\ cloud' = cloud
    BY <1>1, Zenon DEF Started, cloud
  <2>2. Started <=> Len(hist') > 1
    BY <1>1, Zenon DEF Started
  <2> QED
    BY <2>1, <2>2, <1>12, Zenon DEF AckedInv, AckedIsKept
<1> QED
  BY <1>7, <1>11, <1>13, Zenon DEF SyncInv

\* A new data directory: the signer is where the server was at the start.
LEMMA LoseDiskStep ==
  ASSUME SyncInv, NEW s \in Signers, LoseDisk(s)
  PROVE  SyncInv'
<1>0. /\ SyncTypeOK /\ SignerInv(s) /\ ServerInv /\ used \in Nat /\ Primary \in Signers
      /\ Started /\ Built(Empty, used) /\ Empty \in Stores
  BY CloudSyncAssumption, ServerContents, EmptyBuilt, Used, Zenon
     DEF SyncInv, SyncTypeOK, LoseDisk, Built
<1>1. /\ local' = [local EXCEPT ![s] = Empty]
      /\ UNCHANGED <<lss, phase, serving, log, base, call, answer, net, hist, bases, acked, used>>
  BY Zenon DEF LoseDisk
<1>2. SyncTypeOK'
  BY <1>0, <1>1, Zenon DEF SyncTypeOK
<1>3. local'[s] = Empty /\ \A t \in Signers \ {s} : local'[t] = local[t]
  BY <1>0, <1>1, Zenon DEF SyncTypeOK
<1>4. SignerInv(s)'
  <2>1. hist[1] = Empty /\ 1 \in 1..Len(hist)
    BY <1>0, ServerContents DEF ServerInv, History
  <2>2. Started' /\ Snapshot(local[s])'
    BY <2>1, <1>0, <1>1, <1>3, Zenon DEF Started, Snapshot
  <2> QED
    BY <2>2, <1>0, <1>1, <1>3, Zenon DEF SignerInv, LoseDisk
<1>5. (\A t \in Signers : SignerInv(t)') /\ ServerInv'
  BY <1>0, <1>1, <1>2, <1>3, <1>4, StepKeeps, Used, Zenon
<1>6. AckedInv'
  BY <1>0, <1>1, <1>5, AckedKept, Zenon DEF SignerInv
<1> QED
  BY <1>2, <1>5, <1>6, Zenon DEF SyncInv

\* --init-lss: the put of the whole store, which is the first signer's own.
LEMMA InitLssStep ==
  ASSUME SyncInv, NEW s \in Signers, InitLss(s)
  PROVE  SyncInv'
<1> DEFINE r == ResetVersions(local[s])
           m == [from |-> s, batch |-> Contents(r), base |-> Empty]
<1>0. /\ SyncTypeOK /\ SignerInv(s) /\ ServerInv /\ Built(local[s], used) /\ used \in Nat
      /\ s = Primary /\ ~Started /\ local[s] # Empty
  BY ServerContents, CloudSyncAssumption, Used, Zenon DEF SyncInv, SyncTypeOK, SignerInv, InitLss
<1>1. /\ local' = [local EXCEPT ![s] = r]
      /\ net' = net \cup {m}
      /\ call' = [call EXCEPT ![s] = Contents(r)]
      /\ base' = [base EXCEPT ![s] = Empty]
      /\ lss' = [lss EXCEPT ![s] = TRUE]
      /\ phase' = [phase EXCEPT ![s] = "replicating"]
      /\ UNCHANGED <<serving, log, answer, hist, bases, acked, used>>
  BY Zenon DEF InitLss
<1>2. /\ Built(r, used) /\ r \in Stores /\ ResetVersions(r) = r
      /\ \A k \in DataKeys : r[k].val = local[s][k].val
      /\ Transaction(Contents(r), Empty, used) /\ IsBatch(Contents(r))
  BY <1>0, ResetStore, Zenon DEF Built, Transaction, Opens
<1>3. lss[s] => r = local[s]
  BY <1>0, Zenon DEF ServerInv
<1>4. Built(Empty, used) /\ Empty \in Stores
  BY <1>0, EmptyBuilt, Zenon DEF Built
<1> HIDE DEF r
<1>5. m.from = s /\ m.batch = Contents(r) /\ m.base = Empty
  OBVIOUS
<1> HIDE DEF m
<1>6. SyncTypeOK'
  BY <1>0, <1>1, <1>2, <1>4, <1>5, Zenon DEF SyncTypeOK, Phases
<1>7. /\ local'[s] = r /\ phase'[s] = "replicating" /\ lss'[s]
      /\ \A t \in Signers \ {s} :
           /\ local'[t] = local[t] /\ base'[t] = base[t] /\ lss'[t] = lss[t]
           /\ call'[t] = call[t] /\ phase'[t] = phase[t]
      /\ Started' <=> Started
  BY <1>0, <1>1, Zenon DEF SyncTypeOK, Started
<1>8. ASSUME NEW t \in Signers
      PROVE  SignerInv(t)'
  <2>1. CASE t = s
    BY <2>1, <1>0, <1>1, <1>2, <1>7, Used, Zenon DEF SignerInv
  <2>2. CASE t # s
    <3>1. /\ local'[t] = local[t] /\ base'[t] = base[t] /\ log'[t] = log[t]
          /\ call'[t] = call[t] /\ phase'[t] = phase[t] /\ answer'[t] = answer[t]
          /\ lss'[t] = lss[t]
      BY <2>2, <1>1, <1>7, Zenon
    <3>2. SignerInv(t) /\ used' \in Nat /\ used <= used' /\ hist' = hist
      BY <1>0, <1>1, Used, Zenon DEF SyncInv
    <3> QED
      BY <3>1, <3>2, <1>0, SignerKept, Zenon
  <2> QED
    BY <2>1, <2>2, Zenon
<1>9. ASSUME NEW x \in net'
      PROVE  MessageInv(x)'
  <2>1. CASE x \in net
    <3>1. MessageInv(x) /\ local'[Primary] = local[Primary]
      BY <2>1, <1>0, <1>3, <1>7, Zenon DEF ServerInv
    <3> QED
      BY <3>1, <1>0, <1>1, <1>7, Zenon DEF MessageInv
  <2>2. CASE x = m
    BY <2>2, <1>0, <1>1, <1>2, <1>4, <1>5, <1>7, Zenon DEF MessageInv
  <2> QED
    BY <2>1, <2>2, <1>1, Zenon
<1>10. ServerInv'
  BY <1>0, <1>1, <1>2, <1>7, <1>9, Used, Zenon DEF ServerInv, StoredInSeries
<1>11. AckedInv'
  <2>1. \A k \in DataKeys : local[Primary][k].val \in Int
    BY <1>0, BuiltVersions, Zenon
  <2> QED
    BY <2>1, <1>0, <1>1, <1>2, <1>7, AckedKept
<1> QED
  BY <1>6, <1>8, <1>10, <1>11, Zenon DEF SyncInv

\* A put on either store gives a batch.
LEMMA PutIsBatch ==
  ASSUME NEW s, NEW st \in Stores, NEW b, IsBatch(b), NEW k \in DataKeys,
         used \in Nat, used < MaxValues
  PROVE  IsBatch(Put(s, st, b, k, Fresh))
<1>1. k \in Keys /\ Fresh \in Values
  BY CloudSyncAssumption DEF Keys, Fresh
<1>2. st[k].ver + 1 \in Nat
  BY <1>1, EntryVersions
<1>3. PutBatch(st, b)[k].ver + 1 \in Nat
  <2>1. CASE k \in DOMAIN b
    BY <2>1, <1>1, Used, Zenon DEF IsBatch, PutBatch
  <2>2. CASE k \notin DOMAIN b
    BY <2>2, <1>1, <1>2, Zenon DEF PutBatch
  <2> QED
    BY <2>1, <2>2, Zenon
<1>4. ASSUME NEW e \in [ver : Nat, val : Values]
      PROVE  IsBatch(LogEntry(b, k, e))
  BY <1>1, Zenon DEF IsBatch, LogEntry
<1> QED
  BY <1>1, <1>2, <1>3, <1>4, Zenon DEF Put, CloudPut, TransactionalPut

\* allowlist_add and allowlist_remove of the RPC server.
LEMMA RpcStep ==
  ASSUME SyncInv, NEW s \in Signers, RpcAllowlist(s), LssWriters = {}
  PROVE  SyncInv'
<1>0. /\ SyncTypeOK /\ SignerInv(s) /\ ServerInv /\ Built(local[s], used) /\ used \in Nat
      /\ used < MaxValues /\ used' = used + 1 /\ used' \in 0..MaxValues
      /\ Primary \in Signers /\ Allowlist \in DataKeys /\ local[s] \in Stores
      /\ phase[s] # "storing"
      /\ UNCHANGED <<lss, base, net, hist, bases, acked>>
  BY CloudSyncAssumption, Used, Zenon DEF SyncInv, SyncTypeOK, SignerInv, RpcAllowlist, Fresh
<1>1. CASE phase[s] = "idle" /\ ~lss[s]
  <2> DEFINE b == TransactionalPut(local[s], NoEntries, Allowlist, Fresh)
             new == PutBatch(local[s], b)
  <2>1. local' = [local EXCEPT ![s] = new] /\ UNCHANGED <<phase, serving, log, call, answer>>
    BY <1>1, Zenon DEF RpcAllowlist
  <2>2. Pending(NoEntries, local[s], used)
    BY <1>0, <1>1, NoEntriesBatch, Zenon DEF SignerInv, Pending
  <2>3. Pending(b, local[s], used')
    BY <2>2, <1>0, PutPends, Used, Zenon DEF Fresh
  <2>4. Built(local[s], used')
    BY <1>0, Later, Used, Zenon
  <2>5. /\ Built(new, used') /\ new # Empty /\ new \in Stores
        /\ \A k \in DataKeys : local[s][k].val <= new[k].val
    <3>1. used' \in Nat
      BY <1>0, Used, Zenon
    <3> QED
      BY <3>1, <2>3, <2>4, PutPending DEF Built
  <2> HIDE DEF new
  <2>6. s = Primary /\ ~Started
    BY <1>0, <1>1, Zenon DEF SignerInv, ServerInv
  <2>7. SyncTypeOK'
    BY <2>1, <2>5, <1>0, Zenon DEF SyncTypeOK
  <2>8. local'[s] = new /\ \A t \in Signers \ {s} : local'[t] = local[t]
    BY <2>1, <1>0, Zenon DEF SyncTypeOK
  <2>9. SignerInv(s)'
    <3>1. Started' <=> Started
      BY <1>0, Zenon DEF Started
    <3> QED
      BY <3>1, <2>1, <2>5, <2>6, <2>8, <1>0, <1>1, Zenon DEF SignerInv
  <2>10. (\A t \in Signers : SignerInv(t)') /\ ServerInv'
    BY <2>1, <2>6, <2>7, <2>8, <2>9, <1>0, <1>1, StepKeeps, Used, Zenon
  <2>11. AckedInv'
    BY <2>5, <2>6, <2>8, <1>0, AckedKept, Zenon
  <2> QED
    BY <2>7, <2>10, <2>11, Zenon DEF SyncInv
<1>2. CASE phase[s] = "idle" /\ lss[s]
  BY <1>0, <1>2, HaltStep, Used, Zenon DEF RpcAllowlist
<1>3. CASE phase[s] # "idle"
  <2>1. /\ log' = [log EXCEPT ![s] = Put(s, local[s], @, Allowlist, Fresh)]
        /\ UNCHANGED <<phase, serving, local, call, answer>>
    BY <1>3, Zenon DEF RpcAllowlist
  <2>2. CASE phase[s] = "handling"
    BY <2>1, <2>2, <1>0, LogStep, Zenon DEF Fresh
  <2>3. CASE phase[s] # "handling"
    <3>1. IsBatch(log[s])
      BY <1>0, Zenon DEF SyncTypeOK
    <3>2. IsBatch(Put(s, local[s], log[s], Allowlist, Fresh))
      BY <3>1, <1>0, PutIsBatch, Zenon
    <3>3. SyncTypeOK'
      BY <3>2, <2>1, <1>0, Zenon DEF SyncTypeOK
    <3>4. \A t \in Signers \ {s} : log'[t] = log[t]
      BY <2>1, <1>0, Zenon DEF SyncTypeOK
    <3>5. SignerInv(s)'
      <4>1. (Started' <=> Started) /\ (Snapshot(local[s]) => Snapshot(local[s])')
        BY <2>1, <1>0, Zenon DEF Started, Snapshot
      <4>2. Built(local[s], used')
        BY <1>0, Later, Used, Zenon
      <4> QED
        BY <4>1, <4>2, <2>1, <2>3, <1>0, <1>3, Zenon DEF SignerInv
    <3> QED
      BY <3>3, <3>4, <3>5, <2>1, <1>0, QuietStep, Used, Zenon
  <2> QED
    BY <2>2, <2>3, Zenon
<1> QED
  BY <1>1, <1>2, <1>3, Zenon

\* A peer id that does not parse.
LEMMA BadPeerStep ==
  ASSUME SyncInv, NEW s \in Signers, BadPeer(s), LssWriters = {}
  PROVE  SyncInv'
<1>0. SyncTypeOK /\ SignerInv(s) /\ ~lss[s] /\ local[s] \in Stores /\ used \in Nat
  BY CloudSyncAssumption, Used, Zenon DEF SyncInv, SyncTypeOK, BadPeer
<1>1. PutBatch(local[s], EnterLog(s, local[s])) = local[s]
  <2>1. PutBatch(local[s], NoEntries) = [k \in Keys |-> local[s][k]]
    BY NoEntriesBatch, Zenon DEF PutBatch
  <2>2. local[s] = [k \in Keys |-> local[s][k]]
    BY <1>0, Zenon DEF Stores
  <2> QED
    BY <2>1, <2>2, <1>0, Zenon DEF EnterLog
<1>2. /\ local' = local
      /\ UNCHANGED <<lss, phase, serving, log, call, answer, base, net, hist, bases, acked, used>>
  BY <1>0, <1>1, Zenon DEF BadPeer, SyncTypeOK
<1>3. SyncTypeOK'
  BY <1>0, <1>2, Zenon DEF SyncTypeOK
<1>4. SignerInv(s)'
  BY <1>0, <1>2, SignerKept, Used, Zenon
<1> QED
  BY <1>0, <1>2, <1>3, <1>4, QuietStep, Used, Zenon

\* The initial states.
LEMMA SyncStarts == SyncInit => SyncInv
<1> SUFFICES ASSUME SyncInit PROVE SyncInv
  OBVIOUS
<1>0. /\ Primary \in Signers /\ used = 0 /\ used \in Nat /\ MaxValues \in Nat
      /\ Built(Empty, used) /\ Empty \in Stores /\ ResetVersions(Empty) = Empty
  BY EmptyBuilt, CloudSyncAssumption, Zenon DEF SyncInit, Built
<1>1. /\ hist = <<Empty>> /\ Len(hist) = 1 /\ hist[1] = Empty /\ hist \in Seq(Stores)
      /\ bases = << >> /\ bases \in Seq(Stores) /\ Len(bases) = 0
  BY <1>0 DEF SyncInit
<1>2. ~Started
  BY <1>1 DEF Started
<1>3. SyncTypeOK
  <2>1. hist # << >> /\ Len(hist) = Len(bases) + 1
    BY <1>1
  <2>2. /\ lss \in [Signers -> BOOLEAN] /\ phase \in [Signers -> Phases]
        /\ serving \in [Signers -> BOOLEAN]
        /\ answer \in [Signers -> {"none", "ok", "conflict"}]
    BY Zenon DEF SyncInit, Phases
  <2>3. local \in [Signers -> Stores] /\ base \in [Signers -> Stores]
    BY <1>0, Zenon DEF SyncInit
  <2>4. /\ DOMAIN log = Signers /\ DOMAIN call = Signers
        /\ \A s \in Signers : IsBatch(log[s]) /\ IsBatch(call[s])
    BY NoEntriesBatch, Zenon DEF SyncInit
  <2>5. net = {} /\ acked = {} /\ used \in 0..MaxValues
    BY <1>0 DEF SyncInit
  <2> QED
    BY <2>1, <2>2, <2>3, <2>4, <2>5, <1>1, Zenon DEF SyncTypeOK
<1>4. ASSUME NEW s \in Signers
      PROVE  SignerInv(s)
  BY <1>0, <1>2, Zenon DEF SyncInit, SignerInv
<1>5. Older(Empty, Empty)
  <2>1. \A k \in DataKeys : Empty[k].val \in Int
    BY <1>0, BuiltVersions, Zenon
  <2> QED
    BY <2>1 DEF Older
<1>6. History(hist, used)
  <2> DEFINE n == Len(hist)
  <2>1. n = 1
    BY <1>1, Zenon
  <2> HIDE DEF n
  <2>2. \A i \in 1..n : i = 1
    BY <2>1
  <2>3. \A i \in 1..n : Built(hist[i], used) /\ ~(i > 1)
    BY <2>1, <2>2, <1>0, <1>1
  <2>4. \A i, j \in 1..n : Older(hist[i], hist[j]) /\ ~(i < j)
    BY <2>1, <2>2, <1>1, <1>5
  <2>5. n >= 1
    BY <2>1, Used, Zenon
  <2> QED
    BY <2>3, <2>4, <2>5, <1>1, Zenon DEF History, n
<1>7. ServerInv
  BY <1>0, <1>1, <1>2, <1>6 DEF SyncInit, ServerInv, StoredInSeries
<1>8. AckedInv
  BY Zenon DEF SyncInit, AckedInv, AckedIsKept
<1> QED
  BY <1>3, <1>4, <1>7, <1>8, Zenon DEF SyncInv

\* Every step of a signer, the operator and the server.
LEMMA SyncSteps ==
  ASSUME SyncInv, [SyncNext]_syncVars, LssWriters = {}
  PROVE  SyncInv'
<1>0. used \in Nat /\ used \in 0..MaxValues
  BY CloudSyncAssumption, Used, Zenon DEF SyncInv, SyncTypeOK
<1>1. ASSUME NEW s \in Signers, Start(s) PROVE SyncInv'
  BY <1>1, StartStep, Zenon
<1>2. ASSUME NEW s \in Signers, Enter(s) PROVE SyncInv'
  BY <1>2, EnterStep, Zenon
<1>3. ASSUME NEW s \in Signers, NEW k \in DataKeys, Write(s, k) PROVE SyncInv'
  BY <1>3, LogStep, Zenon DEF Write
<1>4. ASSUME NEW s \in Signers, Prepare(s) PROVE SyncInv'
  BY <1>4, PrepareStep, Zenon
<1>5. ASSUME NEW s \in Signers, Commit(s) PROVE SyncInv'
  BY <1>5, CommitStep, Zenon
<1>6. ASSUME NEW s \in Signers, Rejected(s) \/ Crash(s) \/ InitLssDone(s) PROVE SyncInv'
  BY <1>0, <1>6, HaltStep, Used, Zenon DEF Rejected, Crash, InitLssDone
<1>7. ASSUME NEW s \in Signers, LoseDisk(s) PROVE SyncInv'
  BY <1>7, LoseDiskStep, Zenon
<1>8. ASSUME NEW s \in Signers, InitLss(s) PROVE SyncInv'
  BY <1>8, InitLssStep, Zenon
<1>9. ASSUME NEW s \in Signers, RpcAllowlist(s) PROVE SyncInv'
  BY <1>9, RpcStep, Zenon
<1>10. ASSUME NEW s \in Signers, BadPeer(s) PROVE SyncInv'
  BY <1>10, BadPeerStep, Zenon
<1>11. ASSUME NEW m \in net, ServerPut(m) PROVE SyncInv'
  BY <1>11, RefusedStep, AcceptedStep, Zenon
<1>12. CASE UNCHANGED syncVars
  <2>0. UNCHANGED <<lss, phase, serving, local, log, base, call, answer, net, hist, bases,
                    acked, used>>
    BY <1>12, Zenon DEF syncVars
  <2>1. SyncTypeOK'
    BY <2>0, Zenon DEF SyncInv, SyncTypeOK
  <2>2. PICK s \in Signers : s = Primary
    BY CloudSyncAssumption, Zenon
  <2>3. SignerInv(s)'
    BY <2>0, <1>0, SignerKept, Used, Zenon DEF SyncInv
  <2> QED
    BY <2>0, <2>1, <2>3, <1>0, QuietStep, Used, Zenon
<1> QED
  BY <1>1, <1>2, <1>3, <1>4, <1>5, <1>6, <1>7, <1>8, <1>9, <1>10, <1>11, <1>12, Zenon DEF SyncNext

\* What the invariant says of the stores.
LEMMA SyncAgrees == SyncInv => StoresAgree
<1> SUFFICES ASSUME SyncInv PROVE StoresAgree
  OBVIOUS
<1>0. /\ SyncTypeOK /\ ServerInv /\ used \in Nat /\ History(hist, used)
      /\ Built(cloud, used) /\ cloud \in Stores
  BY ServerContents, CloudSyncAssumption, Used, Zenon DEF SyncInv, SyncTypeOK, ServerInv, Built
<1>1. LocalIsSnapshot
  BY Zenon DEF SyncInv, SignerInv, LocalIsSnapshot, Snapshot, Started
<1>2. InSyncMeansEqual
  <2>1. SUFFICES ASSUME NEW s \in Signers, lss[s], cloud[LAST_WRITER] # Absent,
                        local[s][LAST_WRITER] = cloud[LAST_WRITER]
                 PROVE  local[s] = cloud
    BY Zenon DEF InSyncMeansEqual
  <2>2. Started
    <3>1. LAST_WRITER \in Keys
      BY Zenon DEF Keys
    <3>2. cloud # Empty
      BY <2>1, <3>1, Zenon DEF Empty
    <3> QED
      BY <3>2, ServerContents, Zenon
  <2>3. PICK i \in 1..Len(hist) : local[s] = hist[i]
    BY <2>1, <2>2, Zenon DEF SyncInv, SignerInv, Snapshot
  <2> QED
    BY <2>1, <2>3, <1>0, SameWriter, Zenon DEF cloud
<1>3. StartAccepted
  <2>1. SUFFICES ASSUME Len(hist) > 1, NEW s \in Signers, lss[s]
                 PROVE  BatchOk(local[s], Contents(cloud))
    BY Zenon DEF StartAccepted
  <2>2. PICK i \in 1..Len(hist) : local[s] = hist[i]
    BY <2>1, Zenon DEF SyncInv, SignerInv, Snapshot, Started
  <2> QED
    BY <2>2, <1>0, RestoreLatest, Zenon DEF cloud
<1>4. BackendsAgree
  BY <1>0, DatabasesAgree, Zenon DEF BackendsAgree, SyncTypeOK
<1> QED
  BY <1>0, <1>1, <1>2, <1>3, <1>4, Zenon DEF StoresAgree, SyncInv, ServerInv, AckedInv

\* However many signers with one seed run, crash, lose their disks and race their
\* puts: what a reply vouched for is kept, a local store is always one the server
\* has held, the last-writer record alone tells whether they agree, what the server
\* stores is one series of transactions, and a signer can always start again.  The
\* two ways around the request loop that Write and Commit do not cover, an RPC
\* during a store and a bad peer id, are not taken with --lss.
THEOREM StoresAlwaysAgree ==
  ASSUME LssWriters = {}
  PROVE  SyncSpec => []StoresAgree
<1>1. SyncInv /\ [SyncNext]_syncVars => SyncInv'
  BY SyncSteps, Zenon
<1> QED
  BY <1>1, SyncStarts, SyncAgrees, PTL DEF SyncSpec
=============================================================================
