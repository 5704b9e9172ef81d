---------------------------- MODULE ChainTracker ----------------------------
(***************************************************************************)
(* The signer's view of the chain: the tracker of                          *)
(* vls-core/src/chain/tracker.rs with the monitor of one channel as its    *)
(* listener.  A follower on the host adds and removes one block at a time, *)
(* either with a compact proof that holds only the transactions the        *)
(* signer's watches match, or, when the filter reports a false positive,   *)
(* by streaming the whole block in chunks before the request.  Between two *)
(* requests of the follower the host sets up, splices and forgets the      *)
(* channel, and the signer may crash.  A panic stops the signer until it   *)
(* is restarted.                                                           *)
(***************************************************************************)
EXTENDS Monitor, FiniteSets

CONSTANTS
  FundingTx,   \* the transaction that funds the channel
  SpliceTx,    \* the one that splices it, or None
  MaxReorg,    \* MAX_REORG_SIZE: headers kept below the tip
  MaxHeight,   \* bound: blocks of a behaviour's chain
  MaxTxs,      \* bound: transactions in a block
  MaxOrphans   \* bound: streamed blocks refused as orphans

VARIABLES
  trk,      \* memory: chain of blocks, headers kept, monitor, listener slot
  disk,     \* the persisted tracker record
  decode,   \* the tracker's decode_state: the block being streamed, or None
  push,     \* the monitor's decode_state, or None
  released, \* history: fundings the host may broadcast
  asked,    \* history: the host asked for a splice
  forgot,   \* history: the host told us that it forgot the channel
  orphans,  \* history: streamed blocks refused
  pruned,   \* the channel was pruned
  panicked  \* None, or what stopped the signer

vars == <<trk, disk, decode, push, released, asked, forgot, orphans, pruned,
          panicked>>

NoSlot == [txids |-> {}, watches |-> {}, seen |-> {}]

Running == panicked = None

-----------------------------------------------------------------------------
(* The chain, outside the signer.                                          *)

Mined(chain) == ToSet(FlattenSeq(chain))

\* A transaction that may confirm after those of mined: its input exists (the
\* wallet's always does) and is unspent, and a funding was released.
Confirmable(mined, tx) ==
  /\ tx \notin mined
  /\ Spends[tx][1] \in mined \cup {"wallet"}
  /\ \A t \in mined : Spends[t] # Spends[tx]
  /\ tx \in {FundingTx, SpliceTx} => tx \in released

\* The blocks that may follow a chain: every transaction is confirmable after
\* the chain and those before it in the block.
Blocks(chain) ==
  LET mined == Mined(chain)
      upTo[n \in 0..MaxTxs] ==
        IF n = 0 THEN {<<>>}
        ELSE upTo[n - 1] \cup
               UNION {{Append(b, tx) : tx \in {t \in Txs : Confirmable(mined \cup ToSet(b), t)}} :
                        b \in upTo[n - 1]}
  IN  upTo[MaxTxs]

\* TxoProof: the transactions of a block that match a watched id or outpoint,
\* or spend an output of a match in the same block.
Proof(b, txids, outpoints) ==
  FoldLeft(LAMBDA acc, tx :
             IF \/ tx \in txids
                \/ Spends[tx] \in outpoints
                \/ Spends[tx][1] \in ToSet(acc)
             THEN Append(acc, tx) ELSE acc,
           <<>>, b)

-----------------------------------------------------------------------------
Init ==
  /\ trk = [chain |-> <<>>, headers |-> 0, mon |-> None, slot |-> NoSlot]
  /\ disk = trk
  /\ decode = None
  /\ push = None
  /\ released = {}
  /\ asked = FALSE
  /\ forgot = FALSE
  /\ orphans = 0
  /\ pruned = FALSE
  /\ panicked = None

Panic(why) ==
  /\ panicked' = why
  /\ UNCHANGED <<trk, disk, decode, push, released, asked, forgot, orphans, pruned>>

\* Mutant: the tracker is left for a later request to persist.
PersistLater(t) == trk' = t /\ UNCHANGED disk

\* A request that changes the tracker persists it before it replies.
Persist(t) == trk' = t /\ disk' = t

\* setup_channel makes the stub ready: a new monitor at the tracker's height,
\* registered with its funding id.
SetupChannel ==
  /\ Running /\ trk.mon = None /\ ~pruned
  /\ Persist([trk EXCEPT !.mon = NewState(FundingTx, Len(trk.chain)),
                         !.slot = [NoSlot EXCEPT !.txids = {FundingTx}]])
  /\ push' = None
  /\ released' = released \cup {FundingTx}
  /\ UNCHANGED <<decode, asked, forgot, orphans, pruned, panicked>>

\* Signing the funding transaction watches its inputs.
SignFunding ==
  /\ Running /\ trk.mon # None /\ ~asked
  /\ FundingTx \notin Mined(trk.chain)
  /\ Persist([trk EXCEPT !.mon.funding_inputs = @ \cup {Spends[FundingTx]},
                         !.slot.watches = @ \cup {Spends[FundingTx]}])
  /\ UNCHANGED <<decode, push, released, asked, forgot, orphans, pruned, panicked>>

\* replace_funding_outpoint
Spliced(s) ==
  [s EXCEPT !.funding_txid = SpliceTx, !.funding_height = None,
            !.funding_double_spent_height = None]

\* The host splices a channel whose funding is confirmed and unspent.
Spliceable ==
  /\ FundingTx \in Mined(trk.chain)
  /\ \A tx \in Mined(trk.chain) : Spends[tx] # FundingOut(FundingTx)

\* setup_channel for a splice: the monitor's state moves to the new funding,
\* and a new listener on it replaces the old one.
SpliceSetup ==
  /\ Running /\ trk.mon # None /\ SpliceTx # None
  /\ trk.mon.funding_txid = FundingTx
  /\ Spliceable
  /\ Persist([trk EXCEPT !.mon = Spliced(@),
                         !.slot = [NoSlot EXCEPT !.txids = {SpliceTx}]])
  /\ push' = None
  /\ released' = released \cup {SpliceTx}
  /\ asked' = TRUE
  /\ UNCHANGED <<decode, forgot, orphans, pruned, panicked>>

\* The policy refuses the splice after the monitor's state has moved.
RefusedSplice ==
  /\ Running /\ trk.mon # None /\ SpliceTx # None
  /\ trk.mon.funding_txid = FundingTx
  /\ Spliceable
  /\ trk' = [trk EXCEPT !.mon = Spliced(@)]
  /\ asked' = TRUE
  /\ UNCHANGED <<disk, decode, push, released, forgot, orphans, pruned, panicked>>

\* forget_channel: persists the channel, which does not hold the flag.
ForgetChannel ==
  /\ Running /\ trk.mon # None
  /\ trk' = [trk EXCEPT !.mon.saw_forget_channel = TRUE]
  /\ forgot' = TRUE
  /\ UNCHANGED <<disk, decode, push, released, asked, orphans, pruned, panicked>>

\* get_heartbeat prunes a channel that is done.  Its listener is not followed
\* further.
Heartbeat ==
  /\ Running /\ trk.mon # None /\ is_done(trk.mon)
  /\ Persist([trk EXCEPT !.mon = None, !.slot = NoSlot])
  /\ push' = None
  /\ pruned' = TRUE
  /\ UNCHANGED <<decode, released, asked, forgot, orphans, panicked>>

-----------------------------------------------------------------------------
(* Blocks.                                                                 *)

\* headers.truncate(MAX_REORG_SIZE - 1); push_front(tip)
HeadersAfterAdd(n) == (IF n < MaxReorg THEN n ELSE MaxReorg - 1) + 1

\* notify_listeners_add, for changes cs of block b, and the new tip
WithBlock(t, b, cs) ==
  [chain |-> Append(t.chain, b),
   headers |-> HeadersAfterAdd(t.headers),
   mon |-> on_add_block_end(t.mon, cs),
   slot |-> [t.slot EXCEPT !.watches = (@ \cup AddsOf(cs)) \ RemovesOf(cs),
                           !.seen = @ \cup RemovesOf(cs)]]

\* add_block that no listener takes notice of
WithUnseenBlock(t, b) ==
  [t EXCEPT !.chain = Append(@, b), !.headers = HeadersAfterAdd(@)]

\* notify_listeners_remove, and the tip removed
WithoutBlock(t, cs) ==
  LET adds == UNION {BackwardAdds(cs[i]) : i \in DOMAIN cs}
      removes == UNION {BackwardRemoves(cs[i]) : i \in DOMAIN cs}
  IN  [chain |-> Front(t.chain),
       headers |-> t.headers - 1,
       mon |-> on_remove_block_end(t.mon, cs),
       slot |-> [t.slot EXCEPT !.watches = (@ \cup removes) \ adds,
                               !.seen = @ \ removes]]

\* AddBlock with a compact proof built for the forward watches.
AddBlock(b) ==
  /\ Running /\ decode = None
  /\ IF trk.mon = None
     THEN Persist(WithUnseenBlock(trk, b))
     ELSE LET txs == Proof(b, trk.slot.txids, trk.slot.watches)
          IN  Persist(WithBlock(trk, b, BlockChanges(trk.mon, txs)))
  /\ UNCHANGED <<decode, push, released, asked, forgot, orphans, pruned, panicked>>

\* RemoveBlock with a compact proof built for the reverse watches.  The changes
\* are detected again, on the state that holds them.
RemoveBlock ==
  /\ Running /\ decode = None /\ trk.chain # <<>>
  /\ LET txs == Proof(Last(trk.chain), trk.slot.txids, trk.slot.watches \cup trk.slot.seen)
         cs == BlockChanges(trk.mon, txs)
     IN  \/ /\ trk.headers = 0
            /\ Panic("reorg_too_deep")
         \/ /\ trk.headers > 0 /\ trk.mon = None
            /\ Persist([trk EXCEPT !.chain = Front(@), !.headers = @ - 1])
            /\ UNCHANGED <<decode, push, released, asked, forgot, orphans, pruned, panicked>>
         \/ /\ trk.headers > 0 /\ trk.mon # None
            /\ on_remove_block_end(trk.mon, cs) = None
            /\ Panic("revert")
         \/ /\ trk.headers > 0 /\ trk.mon # None
            /\ on_remove_block_end(trk.mon, cs) # None
            /\ Persist(WithoutBlock(trk, cs))
            /\ UNCHANGED <<decode, push, released, asked, forgot, orphans, pruned, panicked>>

\* The first BlockChunk of a block to add, or of the tip to remove: the header.
StreamStart(b, remove) ==
  /\ Running /\ decode = None
  /\ \/ /\ trk.mon # None /\ push # None /\ push.started
        /\ Panic("push")
     \/ /\ trk.mon # None /\ (push # None => ~push.started)
        /\ decode' = [block |-> b, remove |-> remove, done |-> FALSE]
        /\ push' = [started |-> TRUE, changes |-> <<>>,
                    state |-> IF push = None THEN trk.mon ELSE push.state]
        /\ trk' = [trk EXCEPT !.mon.saw_block = TRUE]
        /\ UNCHANGED <<disk, released, asked, forgot, orphans, pruned, panicked>>
     \/ /\ trk.mon = None
        /\ decode' = [block |-> b, remove |-> remove, done |-> FALSE]
        /\ UNCHANGED <<trk, disk, push, released, asked, forgot, orphans, pruned, panicked>>

\* The remaining chunks: a monitor that has seen a block must have seen the
\* start of this one, a new one ignores the rest.
StreamRest ==
  /\ Running /\ decode # None /\ ~decode.done
  /\ LET p == IF push = None THEN [started |-> FALSE, state |-> trk.mon, changes |-> <<>>]
              ELSE push
     IN  \/ /\ trk.mon # None /\ p.started # trk.mon.saw_block
            /\ Panic("push")
         \/ /\ trk.mon # None => p.started = trk.mon.saw_block
            /\ decode' = [decode EXCEPT !.done = TRUE]
            /\ push' = IF trk.mon = None THEN push
                       ELSE IF p.started
                       THEN [p EXCEPT !.changes = BlockChanges(p.state, decode.block)]
                       ELSE p
            /\ UNCHANGED <<trk, disk, released, asked, forgot, orphans, pruned, panicked>>

\* AddBlock after the block was streamed.
AddStreamedBlock ==
  /\ Running /\ decode # None /\ decode.done /\ ~decode.remove
  /\ \/ /\ trk.mon # None /\ trk.mon.saw_block /\ push = None
        /\ Panic("push")
     \/ /\ trk.mon # None /\ trk.mon.saw_block /\ push # None
        /\ Persist(WithBlock(trk, decode.block, push.changes))
        /\ decode' = None /\ push' = None
        /\ UNCHANGED <<released, asked, forgot, orphans, pruned, panicked>>
     \/ /\ trk.mon # None => ~trk.mon.saw_block
        /\ Persist(WithUnseenBlock(trk, decode.block))
        /\ decode' = None /\ push' = None
        /\ UNCHANGED <<released, asked, forgot, orphans, pruned, panicked>>

\* AddBlock of a streamed block that does not extend the tip: refused, and the
\* tracker forgets the stream.
OrphanBlock ==
  /\ Running /\ decode # None /\ decode.done /\ ~decode.remove
  /\ orphans < MaxOrphans
  /\ decode' = None
  /\ orphans' = orphans + 1
  /\ UNCHANGED <<trk, disk, push, released, asked, forgot, pruned, panicked>>

\* RemoveBlock of the streamed tip: the hash streamed is compared with that of
\* the block before it, and the handler unwraps the error.
RemoveStreamedBlock ==
  /\ Running /\ decode # None /\ decode.done /\ decode.remove
  /\ Panic("streamed_removal")

\* The signer is restarted and restores the tracker.
Restart ==
  /\ trk' = disk
  /\ decode' = None
  /\ push' = None
  /\ panicked' = None
  /\ UNCHANGED <<disk, released, asked, forgot, orphans, pruned>>

\* The blocks the follower may come with next.
NextBlocks ==
  IF Running /\ decode = None /\ Len(trk.chain) < MaxHeight
  THEN Blocks(trk.chain) ELSE {}

Next ==
  \/ SetupChannel
  \/ SignFunding
  \/ SpliceSetup
  \/ RefusedSplice
  \/ ForgetChannel
  \/ Heartbeat
  \/ \E b \in NextBlocks : AddBlock(b) \/ StreamStart(b, FALSE)
  \/ RemoveBlock
  \/ trk.chain # <<>> /\ StreamStart(Last(trk.chain), TRUE)
  \/ StreamRest
  \/ AddStreamedBlock
  \/ OrphanBlock
  \/ RemoveStreamedBlock
  \/ Restart

Spec == Init /\ [][Next]_vars
-----------------------------------------------------------------------------
(* Properties.                                                             *)

\* Confirmations of a transaction on the chain, zero if it is not there.
DepthOn(chain, tx) ==
  IF tx \notin Mined(chain) THEN 0
  ELSE Len(chain) + 1 - (CHOOSE i \in DOMAIN chain : tx \in ToSet(chain[i]))

Depth(tx) == DepthOn(trk.chain, tx)

Live == Running /\ trk.mon # None

\* Transactions that end the channel: closes of either funding.
Closes == {tx \in Txs : /\ Spends[tx] \in {FundingOut(FundingTx), FundingOut(SpliceTx)}
                       /\ tx # SpliceTx}

\* The outputs of a confirmed commitment, HTLC transactions' outputs included,
\* that the channel must still sweep, and whether all of them were.
OutputsOf(mined, tx) ==
  {<<tx, role>> : role \in Outputs[tx]}
    \cup {SecondOut(t) : t \in {u \in mined : Spends[u] = <<tx, "htlc">>}}
Unspent(mined, o) == \A t \in mined : Spends[t] # o
Swept(chain, tx) ==
  /\ tx \in Mined(chain)
  /\ \A o \in OutputsOf(Mined(chain), tx) : ~Unspent(Mined(chain), o)

\* The tracker keeps at most MAX_REORG_SIZE headers and never more than there
\* are blocks (headers of tracker.rs), the slot holds outpoints of known
\* transactions, and at most one block is being streamed.
TypeOK ==
  /\ trk.headers \in 0..MaxReorg /\ trk.headers <= Len(trk.chain)
  /\ trk.slot.txids \subseteq {FundingTx, SpliceTx}
  /\ \A o \in trk.slot.watches \cup trk.slot.seen : o[1] \in Txs \cup {"wallet"}
  /\ decode # None => DOMAIN decode = {"block", "remove", "done"}
  /\ panicked \in {None, "reorg_too_deep", "revert", "push", "streamed_removal"}

\* What the policies read agrees with the chain (as_chain_state of monitor.rs),
\* whatever blocks were added, removed, streamed or refused in between: until a
\* splice is asked for, the confirmations of the funding and of its close are
\* those of the chain.  A streamed block that is refused leaves the monitor's
\* decode state behind, whose copy of the state a later stream may use.
DepthsAgree ==
  Live /\ ~asked /\ orphans = 0 =>
    /\ depth_of(trk.mon, trk.mon.funding_height) = Depth(FundingTx)
    /\ \A tx \in Closes \cap Mined(trk.chain) : closing_depth(trk.mon) = Depth(tx)
    /\ Closes \cap Mined(trk.chain) = {} => closing_depth(trk.mon) = 0

\* The monitor never believes in an end of the channel that is not on the
\* chain (on_add_block_end, on_remove_block_end of monitor.rs): not after a
\* reorganisation, a splice, a refused splice or a restart.
EndsAreReal ==
  Live =>
    /\ trk.mon.mutual_closing_height # None =>
         \E tx \in Closes \ Commitments :
            Depth(tx) > 0 /\ Depth(tx) = depth_of(trk.mon, trk.mon.mutual_closing_height)
    /\ trk.mon.unilateral_closing_height # None =>
         \E tx \in Closes \cap Commitments :
            Depth(tx) > 0 /\ Depth(tx) = depth_of(trk.mon, trk.mon.unilateral_closing_height)
    /\ trk.mon.closing_swept_height # None =>
         Swept(trk.chain, trk.mon.closing_outpoints.txid)

\* The monitor's view is true: its depths are those of the chain, and an end
\* of the channel that it believes in is on the chain.
ChainViewTrue == TypeOK /\ DepthsAgree /\ EndsAreReal

\* A channel is pruned (prune_channels of node.rs) only after the node forgot
\* it, and while its double-spend, mutual close or completed sweep has MIN_DEPTH
\* confirmations on the chain.  Once a splice was asked for the monitor no longer
\* knows the first funding, and takes one that confirms again for a double-spend.
PruneIsFinal ==
  [][~pruned /\ pruned' =>
       /\ forgot
       /\ LET buried == SubSeq(trk.chain, 1, Len(trk.chain) + 1 - MinDepth)
          IN  \/ \E tx \in Mined(buried) :
                    Spends[tx] = Spends[FundingTx] /\ (tx = FundingTx => asked)
              \/ (Closes \ Commitments) \cap Mined(buried) # {}
              \/ \E tx \in Closes \cap Commitments : Swept(buried, tx)]_vars

\* What is persisted is what is in memory, but for the two flags and a refused
\* splice (update_tracker after every request that moves the chain or the
\* watches): a restart loses no block and no watch.
TrackerDurable ==
  /\ disk.chain = trk.chain /\ disk.headers = trk.headers /\ disk.slot = trk.slot
  /\ (disk.mon = None) = (trk.mon = None)
  /\ trk.mon # None =>
       \E s \in {disk.mon, Spliced(disk.mon)} :
          trk.mon = [s EXCEPT !.saw_block = trk.mon.saw_block,
                              !.saw_forget_channel = trk.mon.saw_forget_channel]

\* The outpoint of every confirmed, unspent funding of the channel is watched
\* ("The pre-splice outpoint remains covered by the tracker's earlier listener
\* registration", replace_funding_outpoint of monitor.rs).
FundingsWatched ==
  Live => \A tx \in {FundingTx, SpliceTx} \cap Mined(trk.chain) :
            Unspent(Mined(trk.chain), FundingOut(tx)) => FundingOut(tx) \in trk.slot.watches

\* Every unspent output of the confirmed close is watched, also after blocks
\* were removed ("revert what we did to the watches in the forward direction",
\* notify_listeners_remove of tracker.rs).
OutputsWatched ==
  Live => \A tx \in Closes \cap Commitments \cap Mined(trk.chain) :
            \A o \in OutputsOf(Mined(trk.chain), tx) :
               Unspent(Mined(trk.chain), o) => o \in trk.slot.watches

\* The monitor's decode state is there when a streamed block is pushed or added
\* ("safe because `on_push` must have been called first", monitor.rs).
PushIsSafe == panicked # "push"
=============================================================================
