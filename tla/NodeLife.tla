------------------------------ MODULE NodeLife ------------------------------
(***************************************************************************)
(* The channels of a Node from creation to pruning, and what of them is on *)
(* disk.  A request changes the node in memory and issues writes; the      *)
(* persister applies them one by one, or all together when it is           *)
(* transactional, and the process may stop between two of them.  A restart *)
(* builds the node from what is on disk, and panics when the channels and  *)
(* the listeners of the chain tracker do not match.                        *)
(*                                                                         *)
(* Requests are handled one at a time (the request stream of the daemon),  *)
(* so the next request starts when the writes of the last one are applied. *)
(***************************************************************************)
EXTENDS Naturals, Sequences, SequencesExt, FiniteSets, FiniteSetsExt

CONSTANTS
    Dbids,          \* the ids of channels, naturals from 1
    AllowEntries,        \* allowlist entries that parse
    ShutdownEntry,  \* the entry that makes a late shutdown script acceptable
    MaxChannels,    \* policy.max_channels()
    StubPruneBlocks,\* CHANNEL_STUB_PRUNE_BLOCKS
    AtomicStores,         \* kinds of persister: TRUE when the writes of a request commit together
    MaxHeight,      \* bound: blocks
    MaxSplices,     \* bound: splices of one channel
    MaxCrashes      \* bound: restarts

ASSUME LifeAssumption ==
    /\ Dbids \subseteq Nat \ {0}
    /\ ShutdownEntry \in AllowEntries
    /\ AtomicStores \subseteq BOOLEAN
    /\ {MaxChannels, StubPruneBlocks, MaxHeight, MaxSplices, MaxCrashes} \subseteq Nat

VARIABLES
    memory,            \* the Node in memory
    disk,           \* what the persister holds
    writes,         \* writes of the request in progress that are not applied
    crashes,
    retired,        \* history: ids of channels that were ready and are gone
    partial,        \* history: kinds of failed requests whose changes stay in memory
    atomic          \* the kind of persister

lifeVars == <<memory, disk, writes, crashes, retired, partial, atomic>>

NoSlot == [kind |-> "none", at |-> 0, fund |-> 0]
Stub(h) == [kind |-> "stub", at |-> h, fund |-> 0]
Ready(k) == [kind |-> "ready", at |-> 0, fund |-> k]

Present(slots) == {d \in Dbids : slots[d].kind # "none"}
ReadyIds(slots) == {d \in Dbids : slots[d].kind = "ready"}

\* the funding outpoints of the ready channels
Fundings(slots) == {<<d, slots[d].fund>> : d \in ReadyIds(slots)}

FreshNode ==
    [slots |-> [d \in Dbids |-> NoSlot], hwm |-> 0, allow |-> {},
     listeners |-> {}, height |-> 0, deep |-> {}, forgot |-> {}]

EmptyDisk == [node |-> FALSE, tracker |-> FALSE] @@ FreshNode

-----------------------------------------------------------------------------
(* Writes.                                                                  *)

WriteNode == [what |-> "node", id |-> 0]
WriteAllow == [what |-> "allow", id |-> 0]
WriteTracker == [what |-> "tracker", id |-> 0]
WriteChannel(d) == [what |-> "channel", id |-> d]

\* update_node, update_node_allowlist, update_tracker (the tracker with the
\* state of every monitor), new_channel, update_channel and delete_channel
Applied(w, d) ==
    CASE w.what = "node" -> [d EXCEPT !.node = TRUE, !.hwm = memory.hwm]
      [] w.what = "allow" -> [d EXCEPT !.allow = memory.allow]
      [] w.what = "tracker" ->
           [d EXCEPT !.tracker = TRUE, !.listeners = memory.listeners, !.height = memory.height,
                     !.deep = memory.deep, !.forgot = memory.forgot]
      [] w.what = "channel" -> [d EXCEPT !.slots[w.id] = memory.slots[w.id]]

Persist ==
    /\ writes # <<>>
    /\ IF atomic
       THEN /\ disk' = FoldSeq(LAMBDA w, d : Applied(w, d), disk, writes)
            /\ writes' = <<>>
       ELSE /\ disk' = Applied(Head(writes), disk)
            /\ writes' = Tail(writes)
    /\ UNCHANGED <<memory, crashes, retired, partial, atomic>>

-----------------------------------------------------------------------------
(* Start and restart.                                                       *)

\* RootHandlerBuilder::build of a new node
NewNode(allow) ==
    /\ memory' = [FreshNode EXCEPT !.allow = allow]
    /\ writes' = <<WriteAllow, WriteNode, WriteTracker>>

\* every ready channel finds its listener, and no listener is left over
Restorable == disk.tracker /\ disk.listeners = Fundings(disk.slots)

\* Node::restore_node
RestoreNode ==
    /\ Restorable
    /\ memory' = [f \in DOMAIN FreshNode |-> disk[f]]
    /\ writes' = <<>>

RestartNode ==
    /\ crashes < MaxCrashes
    /\ crashes' = crashes + 1
    /\ IF disk.node THEN RestoreNode ELSE NewNode({})
    /\ partial' = {}
    /\ UNCHANGED <<disk, retired, atomic>>

LifeInit ==
    /\ memory = FreshNode
    /\ disk = EmptyDisk
    /\ writes = <<WriteAllow, WriteNode, WriteTracker>>
    /\ crashes = 0
    /\ retired = {}
    /\ partial = {}
    /\ atomic \in AtomicStores

-----------------------------------------------------------------------------
(* Requests.                                                                *)

Idle == writes = <<>>

\* a request that succeeds: its changes to memory and its writes
Request(m, ws) ==
    /\ Idle
    /\ memory' = m
    /\ writes' = ws
    /\ UNCHANGED <<disk, crashes, atomic>>

\* new_channel and find_or_create_channel: refused up to the high-water mark,
\* refused when the node is full (before the channel is looked up), otherwise
\* the existing slot or a new stub
NewChannel(d) ==
    /\ memory.hwm < d
    /\ Cardinality(Present(memory.slots)) < MaxChannels
    /\ memory.slots[d].kind = "none"
    /\ Request([memory EXCEPT !.slots[d] = Stub(memory.height)], <<WriteChannel(d)>>)
    /\ UNCHANGED <<retired, partial>>

\* setup_channel on a stub: the channel is ready, the tracker listens to its
\* funding, and the tracker is written before the channel
SetupChannel(d) ==
    /\ memory.slots[d].kind = "stub"
    /\ Request([memory EXCEPT !.slots[d] = Ready(1), !.listeners = @ \cup {<<d, 1>>}],
               <<WriteTracker, WriteChannel(d)>>)
    /\ UNCHANGED <<retired, partial>>

Spliced(d) == [memory EXCEPT !.slots[d].fund = @ + 1]

\* setup_channel on a ready channel with another funding: the slot is replaced,
\* then the setup is validated, then the tracker changes listeners
SpliceChannel(d) ==
    /\ memory.slots[d].kind = "ready"
    /\ memory.slots[d].fund <= MaxSplices
    /\ Request([Spliced(d) EXCEPT !.listeners = (@ \ {<<d, memory.slots[d].fund>>})
                                                  \cup {<<d, memory.slots[d].fund + 1>>}],
               <<WriteTracker, WriteChannel(d)>>)
    /\ UNCHANGED <<retired, partial>>

\* a splice whose new shutdown script is not in the allowlist: the request
\* fails, the slot keeps the new setup
SpliceRefused(d) ==
    /\ ShutdownEntry \notin memory.allow
    /\ memory.slots[d].kind = "ready"
    /\ memory.slots[d].fund <= MaxSplices
    /\ Request(Spliced(d), <<>>)
    /\ partial' = partial \cup {"splice"}
    /\ UNCHANGED retired

\* a signing request on a ready channel persists the channel
UpdateChannel(d) ==
    /\ memory.slots[d].kind = "ready"
    /\ Request(memory, <<WriteChannel(d)>>)
    /\ UNCHANGED <<retired, partial>>

Forgotten(d) ==
    CASE memory.slots[d].kind = "stub" -> [memory EXCEPT !.slots[d] = NoSlot]
      [] memory.slots[d].kind = "ready" -> [memory EXCEPT !.forgot = @ \cup {d}]

\* Mutant: the high-water mark is not raised.
ForgetKeepsMark(d) ==
    /\ memory.slots[d].kind # "none"
    /\ Request(Forgotten(d), <<WriteChannel(d)>>)
    /\ UNCHANGED <<retired, partial>>

\* forget_channel: a stub is removed, a ready channel is marked in its monitor
\* (and written without it); the high-water mark is written before the stub is
\* deleted
ForgetChannel(d) ==
    LET raised == d > memory.hwm
        node == IF raised THEN <<WriteNode>> ELSE <<>>
        chan == <<WriteChannel(d)>>
    IN
    /\ memory.slots[d].kind # "none"
    /\ Request([Forgotten(d) EXCEPT !.hwm = IF raised THEN d ELSE @],
               IF memory.slots[d].kind = "stub" THEN node \o chan ELSE chan \o node)
    /\ UNCHANGED <<retired, partial>>

\* add_block: the tracker is written after every block.  The block may bury the
\* close of some channels.
AddBlock(closed) ==
    /\ memory.height < MaxHeight
    /\ closed \subseteq ReadyIds(memory.slots)
    /\ Request([memory EXCEPT !.height = @ + 1, !.deep = @ \cup closed], <<WriteTracker>>)
    /\ UNCHANGED <<retired, partial>>

\* Monitor::is_done
Done(d) == d \in memory.deep \cap memory.forgot

Prunable(d) ==
    \/ memory.slots[d].kind = "ready" /\ Done(d)
    \/ memory.slots[d].kind = "stub" /\ memory.height - memory.slots[d].at > StubPruneBlocks

\* remove_listener drops the monitor with its state
Without(ds) ==
    [memory EXCEPT !.slots = [d \in Dbids |-> IF d \in ds THEN NoSlot ELSE @[d]],
                !.listeners = {l \in @ : l[1] \notin ds},
                !.deep = @ \ ds, !.forgot = @ \ ds]

\* Mutant: the tracker is not written.
PruneKeepsTracker ==
    LET pruned == {d \in Dbids : Prunable(d)}
    IN
    /\ pruned # {}
    /\ Request(Without(pruned), [i \in 1..Cardinality(pruned) |->
                                   WriteChannel(SetToSeq(pruned)[i])])
    /\ retired' = retired \cup (pruned \cap ReadyIds(memory.slots))
    /\ UNCHANGED partial

\* prune_channels, run by get_heartbeat: the channels are deleted one by one,
\* then the tracker is written if a listener went
PruneChannels ==
    LET pruned == {d \in Dbids : Prunable(d)}
        deletes == [i \in 1..Cardinality(pruned) |-> WriteChannel(SetToSeq(pruned)[i])]
        ready == pruned \cap ReadyIds(memory.slots)
    IN
    /\ pruned # {}
    /\ Request(Without(pruned), deletes \o IF ready # {} THEN <<WriteTracker>> ELSE <<>>)
    /\ retired' = retired \cup ready
    /\ UNCHANGED partial

\* an edit of the allowlist: entries are taken in order, and one that does not
\* parse ends the request with the entries before it applied in memory only
EditFails(m) ==
    /\ Request([memory EXCEPT !.allow = m], <<>>)
    /\ partial' = partial \cup {"allowlist"}
    /\ UNCHANGED retired

Edit(m) ==
    /\ Request([memory EXCEPT !.allow = m], <<WriteAllow>>)
    /\ UNCHANGED <<retired, partial>>

AddAllowlist(es, parses) ==
    LET m == memory.allow \cup es IN IF parses THEN Edit(m) ELSE EditFails(m)

SetAllowlist(es, parses) ==
    IF parses THEN Edit(es) ELSE EditFails(es)

RemoveAllowlist(es, parses) ==
    LET m == memory.allow \ es IN IF parses THEN Edit(m) ELSE EditFails(m)

LifeNext ==
    \/ Persist
    \/ RestartNode
    \/ \E d \in Dbids : NewChannel(d)
    \/ \E d \in Dbids : SetupChannel(d)
    \/ \E d \in Dbids : SpliceChannel(d)
    \/ \E d \in Dbids : SpliceRefused(d)
    \/ \E d \in Dbids : UpdateChannel(d)
    \/ \E d \in Dbids : ForgetChannel(d)
    \/ \E closed \in SUBSET Dbids : AddBlock(closed)
    \/ PruneChannels
    \/ \E es \in SUBSET AllowEntries, parses \in BOOLEAN : AddAllowlist(es, parses)
    \/ \E es \in SUBSET AllowEntries, parses \in BOOLEAN : SetAllowlist(es, parses)
    \/ \E es \in SUBSET AllowEntries, parses \in BOOLEAN : RemoveAllowlist(es, parses)

LifeSpec == LifeInit /\ [][LifeNext]_lifeVars

-----------------------------------------------------------------------------

\* What is on disk can be restored: the process may stop at any moment, and
\* the node starts again without the panics of new_from_persistence, because
\* every ready channel on disk has its listener in the tracker on disk and no
\* other listener is there.  Except between the writes of one request when the
\* persister applies them one by one, and after a splice that was refused with
\* the slot already replaced.
RestartSucceeds ==
    (disk.node /\ (atomic \/ Idle) /\ "splice" \notin partial) => Restorable

\* "Tracker is persisted with node, so this should not fail" (the comment of
\* new_from_persistence): whatever is on disk, its ready channels find their
\* listeners.
TrackerWithNode == (disk.node /\ atomic) => Restorable

\* The id of a channel that was ready, and so may have revealed revocation
\* secrets, is never used for a new stub once its channel is pruned, even
\* across a restart (new_channel refuses ids up to the high-water mark that
\* forget_channel raises, and a ready channel is pruned only when forgotten).
NoReuse == \A d \in retired : memory.slots[d].kind # "stub"

\* Between requests the disk holds what the node holds in memory, except the
\* forget marks (they are written with the next block) and what a request that
\* failed half-way left in memory: a restart changes nothing that a reply told.
MemoryIsDurable ==
    (Idle /\ partial = {}) =>
        \A f \in DOMAIN FreshNode \ {"forgot"} : disk[f] = memory[f]

\* A restart gives the node back as it was: it starts, and with what it held.
RestartRestores == RestartSucceeds /\ MemoryIsDurable

=============================================================================
