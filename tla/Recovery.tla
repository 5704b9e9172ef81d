------------------------------- MODULE Recovery -------------------------------
(***************************************************************************)
(* The recovery tool of the daemon (vlsd --recover-to): with the node's own *)
(* signer in the same process it closes every channel, claims the HTLCs of  *)
(* the closes and, in later runs, sweeps the delayed outputs once they are  *)
(* mature.  The operator runs it again and again, with other fee inputs or  *)
(* another block explorer, while the counterparty and the miners act        *)
(* between any two of its calls to the explorer.                            *)
(*                                                                         *)
(* A transaction is known by its kind, its channel and its inputs, so that  *)
(* an HTLC transaction with another fee input is another transaction.       *)
(* Values are kept only for fee inputs: `val` counts the HTLC transactions  *)
(* an input can pay for.                                                    *)
(***************************************************************************)
EXTENDS Naturals, FiniteSets, Sequences, SequencesExt

CONSTANTS
  Nodes,          \* the nodes considered: sets of channels that are ready
  Kind,           \* their commitment types: "static", "anchors", "other"
  Htlcs,          \* the HTLCs of their current holder commitments
  WalletOuts,     \* values of the outputs of the wallet, by name
  FeeInputs,      \* the lists of --input-utxo the operator may give
  Delay,          \* counterparty_selected_contest_delay
  SignerHeight,   \* the height the signer knew when it last followed the chain
  ChunkSize,      \* outputs swept by one transaction of an L1 recovery
  LastHeight,      \* bound: blocks
  MaxWork         \* bound: runs of the tool and channels of the node together

VARIABLES chain, pool, height, closed, run, runs

recoveryVars == <<chain, pool, height, closed, run, runs>>

ReadyChannels == DOMAIN closed

Explorers == {"none", "esplora", "bitcoind"}

-----------------------------------------------------------------------------
(* Transactions, and the chain as the explorer shows it. *)

Tx(kind, ch, ins) == [kind |-> kind, ch |-> ch, ins |-> ins]
TxOut(tx, n, val) == [tx |-> tx, n |-> n, val |-> val]

Funding(ch) == TxOut(Tx("funding", ch, {}), 0, 0)
Wallet(u) == TxOut(Tx("wallet", u, {}), 0, WalletOuts[u])
Close(ch) == Tx("close", ch, {Funding(ch)})
HtlcOut(ch, h) == TxOut(Close(ch), h.n, 0)

\* The outputs of a transaction that carry the holder's delayed script.
DelayedOuts(tx) ==
  CASE tx.kind = "close" -> {TxOut(tx, 0, 0)}
    [] tx.kind = "htlc" -> {TxOut(tx, o.n, 0) : o \in {i \in tx.ins : i.tx.kind = "close"}}
    [] OTHER -> {}

OnNetwork == DOMAIN chain \union pool
Spenders(o) == {t \in OnNetwork : o \in t.ins}
StillThere(o) == o.tx \in OnNetwork /\ Spenders(o) = {}

\* Explorer::get_utxo_confirmations: empty for an output that is spent or unknown.
Confirmations(o) ==
  IF ~StillThere(o) THEN {}
  ELSE {IF o.tx \in pool THEN 0 ELSE height - chain[o.tx] + 1}

Mature(o) == \E c \in Confirmations(o) : c >= Delay

\* What the network takes: every input exists and is unspent.  The HTLC outputs
\* of an anchors commitment can be spent one block after it.
Accepts(mempool, tx) ==
  /\ \A o \in tx.ins :
       o.tx \in DOMAIN chain \union mempool
       /\ \A t \in DOMAIN chain \union mempool : o \notin t.ins
  /\ tx.kind = "htlc" /\ Kind[tx.ch] = "anchors" => Close(tx.ch) \in DOMAIN chain

Broadcast(mempool, tx) == IF Accepts(mempool, tx) THEN mempool \union {tx} ELSE mempool

-----------------------------------------------------------------------------
(* The transactions of one channel. *)

\* The HTLCs the signer claims: not spent, and expired or with a known preimage.
Claimable(ch, spent, now) ==
  {h \in Htlcs[ch] : h.n \notin spent /\ IF h.offered THEN h.cltv <= now ELSE h.known}

\* sign_holder_htlc_txs_for_recovery: anchors channels batch the received HTLCs,
\* and the offered ones by expiry; the others spend each HTLC on its own.
HtlcBatches(ch, spent, now) ==
  LET claimed == Claimable(ch, spent, now)
      received == {h \in claimed : ~h.offered}
      offered == claimed \ received
  IN IF Kind[ch] = "anchors"
     THEN ({received} \union {{h \in offered : h.cltv = c} : c \in {g.cltv : g \in offered}})
            \ {{}}
     ELSE {{h} : h \in claimed}

\* add_fee_to_htlc_txs: each transaction takes the first input that can pay; its
\* change pays for the next one.  If one cannot be paid for, none is kept.
AddFees(ch, batches, fees) ==
  LET Fund(st, batch) ==
        LET usable == SelectSeq(st.left, LAMBDA o : o.val > 0)
            tx == Tx("htlc", ch, {HtlcOut(ch, h) : h \in batch} \union {Head(usable)})
            change == IF Head(usable).val > 1
                      THEN <<TxOut(tx, 0, Head(usable).val - 1)>> ELSE << >>
        IN IF ~st.ok \/ usable = << >> THEN [st EXCEPT !.ok = FALSE]
           ELSE [ok |-> TRUE, left |-> change \o Tail(usable), txs |-> Append(st.txs, tx)]
      end == FoldLeft(Fund, [ok |-> TRUE, left |-> fees, txs |-> << >>], SetToSeq(batches))
  IN IF end.ok THEN end.txs ELSE << >>

HtlcTxs(ch, spent, now, fees) ==
  LET batches == HtlcBatches(ch, spent, now)
  IN IF Kind[ch] = "anchors" THEN AddFees(ch, batches, fees)
     ELSE SetToSeq({Tx("htlc", ch, {HtlcOut(ch, h) : h \in b}) : b \in batches})

\* get_htlc_spend_status: HTLC outputs that are not there count as spent; the
\* transactions that spent them are collected once each.
SpentHtlcs(ch) == {h.n : h \in {g \in Htlcs[ch] : Confirmations(HtlcOut(ch, g)) = {}}}

SpenderTxs(ch, spent) ==
  SetToSeq(UNION {Spenders(HtlcOut(ch, h)) : h \in {g \in Htlcs[ch] : g.n \in spent}})

\* collect_delayed_sweep_outputs, over a list of transactions.
CollectDelayed(txs) ==
  FlattenSeq([i \in DOMAIN txs |-> SetToSeq({o \in DelayedOuts(txs[i]) : Mature(o)})])

\* create_spending_transaction fails if the output cannot pay for its sweep.
PaysForSweep(o) ==
  o.tx.kind = "htlc" => \A h \in Htlcs[o.tx.ch] : h.n = o.n => h.pays

-----------------------------------------------------------------------------
(* The tool. *)

NoRun == [pc |-> "idle", dry |-> FALSE, explorer |-> "none", fees |-> << >>, todo |-> {},
         ch |-> CHOOSE c \in UNION Nodes : TRUE, open |-> FALSE, rebuild |-> FALSE, txs |-> << >>,
         spenders |-> << >>, sweeps |-> << >>, still |-> TRUE, now |-> 0]

RecoveryInit ==
  /\ chain = [t \in {Funding(ch).tx : ch \in UNION Nodes}
                     \union {Wallet(u).tx : u \in DOMAIN WalletOuts} |-> 0]
  /\ pool = {}
  /\ height = SignerHeight
  /\ \E node \in Nodes : closed = [ch \in node |-> FALSE]
  /\ run = NoRun
  /\ runs = 0

\* recover_close: only bitcoind is asked for the height, at the start of the run, and
\* may not tell.
StartRecovery(dry, explorer, fees, now) ==
  /\ run.pc \in {"idle", "done", "aborted"}
  /\ runs + Cardinality(ReadyChannels) < MaxWork
  /\ now = SignerHeight \/ (explorer = "bitcoind" /\ now = height)
  /\ runs' = runs + 1
  /\ run' = [NoRun EXCEPT !.pc = "next", !.dry = dry, !.explorer = explorer, !.fees = fees,
                          !.todo = ReadyChannels, !.now = now]
  /\ UNCHANGED <<chain, pool, height, closed>>

\* A channel of an unsupported kind, or one that needs fee inputs and has none.
Unsupported(ch, fees) == Kind[ch] = "other" \/ (Kind[ch] = "anchors" /\ fees = << >>)

SkipChannel(ch) ==
  /\ run.pc = "next" /\ ch \in run.todo
  /\ Unsupported(ch, run.fees)
  /\ run' = [run EXCEPT !.todo = @ \ {ch}]
  /\ UNCHANGED <<chain, pool, height, closed, runs>>

\* The state of the funding and of the HTLC outputs is read, and the close and the
\* HTLC transactions are signed; unless this is a dry run the signer first marks
\* the channel closed and stores that.  HTLCs whose query fails (`failed`) count as
\* unspent; of others the spender is not found (`lost`).  A backend that cannot look
\* up spenders rebuilds all HTLC transactions.
PrepareChannel(ch, failed, lost) ==
  LET open == run.explorer # "none" /\ Confirmations(Funding(ch)) # {}
      rebuild == ~open /\ run.explorer # "esplora"
      probe == run.explorer = "esplora" /\ ~open
      spent == IF probe THEN SpentHtlcs(ch) \ failed ELSE {}
  IN /\ run.pc = "next" /\ ch \in run.todo
     /\ ~Unsupported(ch, run.fees)
     /\ failed \union lost # {} => probe /\ failed \intersect lost = {}
     /\ closed' = IF run.dry THEN closed ELSE [closed EXCEPT ![ch] = TRUE]
     /\ run' = [run EXCEPT !.pc = "send", !.ch = ch, !.open = open, !.rebuild = rebuild,
                           !.txs = HtlcTxs(ch, spent, run.now, run.fees),
                           !.spenders = SpenderTxs(ch, spent \ lost),
                           !.still = @ /\ failed \union lost = {}]
     /\ UNCHANGED <<chain, pool, height, runs>>

\* The block explorer cannot be reached: the tool stops.
ExplorerFails ==
  /\ run.pc = "next" /\ run.todo # {} /\ run.explorer # "none"
  /\ run' = [run EXCEPT !.pc = "aborted", !.still = FALSE]
  /\ UNCHANGED <<chain, pool, height, closed, runs>>

NextChannel(r) == [r EXCEPT !.pc = "next", !.todo = @ \ {r.ch}]

BroadcastHtlcTxs(mempool) ==
  IF run.dry THEN mempool ELSE FoldLeft(Broadcast, mempool, run.txs)

\* The funding was there: the close goes out, then its HTLC transactions, whose
\* refusal is only logged.  A refused close stops the tool.
SendClose ==
  LET refused == ~run.dry /\ ~Accepts(pool, Close(run.ch))
  IN /\ run.pc = "send" /\ run.open
     /\ pool' = IF refused \/ run.dry THEN pool
                ELSE BroadcastHtlcTxs(pool \union {Close(run.ch)})
     /\ run' = IF refused THEN [run EXCEPT !.pc = "aborted"] ELSE NextChannel(run)
     /\ UNCHANGED <<chain, height, closed, runs>>

\* Without a block explorer the transactions are only logged.
LogOnly ==
  /\ run.pc = "send" /\ run.explorer = "none"
  /\ run' = NextChannel(run)
  /\ UNCHANGED <<chain, pool, height, closed, runs>>

\* The funding was spent.  For an anchors channel whose spender can be looked up
\* only the holder's own close is recovered from.
NotOurClose(ch) ==
  Kind[ch] = "anchors" /\ run.explorer = "esplora" /\ Close(ch) \notin Spenders(Funding(ch))

SendClosed ==
  /\ run.pc = "send" /\ ~run.open /\ run.explorer # "none"
  /\ IF NotOurClose(run.ch)
     THEN pool' = pool /\ run' = NextChannel(run)
     ELSE pool' = BroadcastHtlcTxs(pool) /\ run' = [run EXCEPT !.pc = "collect"]
  /\ UNCHANGED <<chain, height, closed, runs>>

\* The spender of the funding cannot be looked up: the channel is skipped.
SpenderUnknown ==
  /\ run.pc = "send" /\ ~run.open /\ run.explorer = "esplora" /\ Kind[run.ch] = "anchors"
  /\ run' = [NextChannel(run) EXCEPT !.still = FALSE]
  /\ UNCHANGED <<chain, pool, height, closed, runs>>

\* Mutant: only the spenders of the HTLC outputs are searched for delayed outputs.
CollectSweepsOfHtlcs ==
  /\ run.pc = "collect"
  /\ run' = [NextChannel(run) EXCEPT !.sweeps = @ \o CollectDelayed(run.spenders)]
  /\ UNCHANGED <<chain, pool, height, closed, runs>>

CollectSweeps ==
  /\ run.pc = "collect"
  /\ run' = [NextChannel(run) EXCEPT
               !.sweeps = @ \o CollectDelayed(<<Close(run.ch)>>)
                            \o (IF run.rebuild THEN CollectDelayed(run.txs) ELSE << >>)
                            \o CollectDelayed(run.spenders)]
  /\ UNCHANGED <<chain, pool, height, closed, runs>>

FinishRun ==
  /\ run.pc = "next" /\ run.todo = {} /\ run.sweeps = << >>
  /\ run' = [run EXCEPT !.pc = "done"]
  /\ UNCHANGED <<chain, pool, height, closed, runs>>

\* Each output is swept by a transaction of its own; one that cannot pay, or that
\* the network refuses, stops the tool.
SweepOutput ==
  LET o == Head(run.sweeps)
      tx == Tx("sweep", o.tx.ch, {o})
      fails == ~PaysForSweep(o) \/ (~run.dry /\ ~Accepts(pool, tx))
  IN /\ run.pc = "next" /\ run.todo = {} /\ run.sweeps # << >>
     /\ pool' = IF run.dry \/ fails THEN pool ELSE pool \union {tx}
     /\ run' = IF fails THEN [run EXCEPT !.pc = "aborted"]
               ELSE [run EXCEPT !.sweeps = Tail(@)]
     /\ UNCHANGED <<chain, height, closed, runs>>

\* recover_l1: the outputs of the wallet that are unspent are swept in chunks; a
\* chunk that cannot pay is left.  The signer's channels are not involved.
WalletFound == SetToSeq({o \in {Wallet(u) : u \in DOMAIN WalletOuts} : Confirmations(o) # {}})

L1Chunks(found) ==
  LET chunk(i) == (i - 1) \div ChunkSize
  IN {{found[j] : j \in {j \in DOMAIN found : chunk(j) = chunk(i)}} : i \in DOMAIN found}

\* make_l1_sweep
L1Sweeps(chunks) ==
  {Tx("l1sweep", run.ch, c) : c \in {c \in chunks : \E o \in c : o.val > 0}}

RecoverL1(dry) ==
  /\ run.pc \in {"idle", "done", "aborted"} /\ runs + Cardinality(ReadyChannels) < MaxWork
  /\ runs' = runs + 1
  /\ pool' = IF dry THEN pool ELSE pool \union L1Sweeps(L1Chunks(WalletFound))
  /\ run' = NoRun
  /\ UNCHANGED <<chain, height, closed>>

\* The process is stopped; what the signer stored stays.
KillTool ==
  /\ run.pc \notin {"idle", "done", "aborted"}
  /\ run' = NoRun
  /\ UNCHANGED <<chain, pool, height, closed, runs>>

-----------------------------------------------------------------------------
(* Everyone else. *)

\* A run in progress goes on with what it has read; one that ended is over.  Bound:
\* a run is disturbed once.
Disturb ==
  /\ run.still
  /\ run' = IF run.pc \in {"idle", "done", "aborted"} THEN NoRun ELSE [run EXCEPT !.still = FALSE]

\* A block, with one of the transactions that wait or with none.
MineBlock(txs) ==
  /\ height < LastHeight
  /\ txs \subseteq {t \in pool : \A o \in t.ins : o.tx \in DOMAIN chain}
  /\ height' = height + 1
  /\ chain' = [t \in DOMAIN chain \union txs |-> IF t \in txs THEN height' ELSE chain[t]]
  /\ pool' = pool \ txs
  /\ Disturb
  /\ UNCHANGED <<closed, runs>>

\* A transaction of the counterparty is mined; what conflicts with it, and what
\* spends the outputs of that, leaves the memory pool.
MineTheirs(tx) ==
  LET out == {t \in pool : t.ins \intersect tx.ins # {}}
      gone == out \union {t \in pool : \E o \in t.ins : o.tx \in out}
  IN /\ height < LastHeight
     /\ \A o \in tx.ins : o.tx \in DOMAIN chain /\ \A t \in DOMAIN chain : o \notin t.ins
     /\ height' = height + 1
     /\ chain' = [t \in DOMAIN chain \union {tx} |-> IF t = tx THEN height' ELSE chain[t]]
     /\ pool' = pool \ gone
     /\ Disturb
     /\ UNCHANGED <<closed, runs>>

CounterpartyClose(ch) == MineTheirs(Tx("theirs", ch, {Funding(ch)}))
CounterpartyClaim(ch, h) == MineTheirs(Tx("claim", ch, {HtlcOut(ch, h)}))

RecoveryNext ==
  \/ \E dry \in BOOLEAN, e \in Explorers, fees \in FeeInputs :
       \E now \in {height, SignerHeight} : StartRecovery(dry, e, fees, now)
  \/ \E ch \in ReadyChannels : SkipChannel(ch)
  \/ \E ch \in ReadyChannels : \E failed \in SUBSET SpentHtlcs(ch) : \E lost \in SUBSET SpentHtlcs(ch) :
       PrepareChannel(ch, failed, lost)
  \/ ExplorerFails
  \/ SendClose
  \/ LogOnly
  \/ SendClosed
  \/ SpenderUnknown
  \/ CollectSweeps
  \/ FinishRun
  \/ SweepOutput
  \/ \E dry \in BOOLEAN : RecoverL1(dry)
  \/ KillTool
  \/ \E txs \in {{t} : t \in pool} \union {{}} : MineBlock(txs)
  \/ \E ch \in ReadyChannels : CounterpartyClose(ch)
  \/ \E ch \in ReadyChannels : \E h \in Htlcs[ch] : CounterpartyClaim(ch, h)

RecoverySpec == RecoveryInit /\ [][RecoveryNext]_recoveryVars

-----------------------------------------------------------------------------
(* Properties. *)

\* The delayed outputs of a channel that a run can find: all of them where the
\* spender of an output can be looked up, and otherwise those of transactions that
\* the signer builds again exactly as they are.
Findable(ch) ==
  UNION {DelayedOuts(t) : t \in {t \in DOMAIN chain :
           /\ t.ch = ch
           /\ t.kind = "close" \/ run.explorer = "esplora" \/ Kind[ch] = "static"}}

\* A close is never out before the signer has stored that the channel is closed
\* (sign_holder_commitment_tx_for_recovery persists before the tool broadcasts),
\* whatever is killed, refused or repeated.  And a run that nobody disturbs is
\* complete: every supported channel is closed, every mature delayed output that
\* can be found is being swept, and the run stops early only at an output that
\* cannot pay for its own sweep (recover_close_inner).
RecoveryComplete ==
  /\ \A ch \in ReadyChannels : Close(ch) \in OnNetwork => closed[ch]
  /\ run.still /\ run.pc = "aborted" =>
       run.sweeps # << >> /\ ~PaysForSweep(Head(run.sweeps))
  /\ run.still /\ run.pc = "done" /\ ~run.dry /\ run.explorer # "none" =>
       \A ch \in ReadyChannels : ~Unsupported(ch, run.fees) =>
         /\ Spenders(Funding(ch)) # {}
         /\ \A o \in Findable(ch) : ~Mature(o)
=============================================================================
