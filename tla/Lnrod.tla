-------------------------------- MODULE Lnrod --------------------------------
(***************************************************************************)
(* The example node that runs on the signer (lnrod): how it starts from    *)
(* its disk, how it handles the events of LDK, what it remembers of        *)
(* payments, how it hands transactions to bitcoind and keeps its peers     *)
(* (node/mod.rs, lib.rs, admin/driver.rs, bitcoind_client.rs, disk.rs).    *)
(*                                                                         *)
(* LDK's channel manager is external: `mgr` is its state, which a          *)
(* background thread writes to disk, its events and its payments included. *)
(* A channel's monitor is on disk before the channel is used.  An event    *)
(* that was handled after the last write is handled again after a crash.   *)
(***************************************************************************)
EXTENDS Naturals, Sequences, Functions

CONSTANTS
  LnChannels,   \* channels, one to a peer
  Invoices,     \* payment hashes of our invoices
  Outgoing,     \* payment hashes we pay
  MaxPays,      \* bound: calls of payment_send for a hash
  MaxFinal,     \* bound: blocks until every lock time has passed
  MaxLnCrashes, \* bound on crashes
  LnUses        \* bound: what the administrator uses the node for, in one behaviour

VARIABLES
  lnDisk,   \* [monitors, manager, peers]
  mgr,      \* LDK's manager: channels, events, invoices issued and claimed, payments
  lnMem,    \* the process: running, watched, inbound, outbound, calls, hold, connected
  btc,      \* broadcasts under way, the queue, what bitcoind has and what it refused
  lnBound   \* crashes and calls so far, and the use

lnVars == <<lnDisk, mgr, lnMem, btc, lnBound>>

NoEntry == "none"
NewManager ==
  [chans |-> {}, events |-> << >>, issued |-> {}, claimed |-> {},
   out |-> [h \in Outgoing |-> NoEntry]]
Down ==
  [up |-> FALSE, lost |-> FALSE, watched |-> {}, inbound |-> [h \in Invoices |-> NoEntry],
   outbound |-> [h \in Outgoing |-> NoEntry], calls |-> [h \in Outgoing |-> NoEntry],
   hold |-> FALSE, connected |-> {}]

LnInit ==
  /\ lnDisk = [monitors |-> {}, manager |-> {}, peers |-> {}]
  /\ mgr = NewManager /\ lnMem = Down
  /\ btc = [sending |-> {}, queue |-> {}, has |-> {}, refused |-> {}, asked |-> {}, height |-> 0]
  /\ \E use \in LnUses : lnBound = [crashes |-> 0, pays |-> [h \in Outgoing |-> 0], use |-> use]

Emit(m, event) == [m EXCEPT !.events = Append(@, event)]
Event(t, x) == <<t, x>>

-----------------------------------------------------------------------------
(* bitcoind: a broadcast is a task of its own. *)

broadcast_transactions(b, txs) ==
  [b EXCEPT !.sending = @ \union txs, !.asked = @ \union txs]

\* The task ends: a transaction whose lock time has not passed is queued, any other
\* refusal is only logged.
BroadcastDone(tx) ==
  /\ lnMem.up /\ tx \in btc.sending
  /\ \/ btc' = [btc EXCEPT !.sending = @ \ {tx}, !.has = @ \union {tx}]
     \/ /\ btc.height < MaxFinal /\ tx[1] = "sweep"
        /\ btc' = [btc EXCEPT !.sending = @ \ {tx}, !.queue = @ \union {tx}]
     \/ btc' = [btc EXCEPT !.sending = @ \ {tx}, !.refused = @ \union {tx}]
  /\ UNCHANGED <<lnDisk, mgr, lnMem, lnBound>>

\* Mutant: the queue is drained and its transactions are not sent.
on_new_block_drained(b) == [b EXCEPT !.queue = {}]

\* on_new_block: the queue is drained and every transaction tried again.
on_new_block(b) == [b EXCEPT !.queue = {}, !.sending = @ \union b.queue]

\* get_best_block sees a new tip.
PollTip ==
  /\ lnMem.up /\ "channels" \in lnBound.use /\ btc.height < MaxFinal
  /\ btc' = on_new_block([btc EXCEPT !.height = @ + 1])
  /\ UNCHANGED <<lnDisk, mgr, lnMem, lnBound>>

-----------------------------------------------------------------------------
(* build_with_signer *)

read_channelmonitors == lnDisk.monitors

\* The node restarts if there is a manager on disk, otherwise it is a new one.
RestartingNode == lnDisk.manager # {}
ReadManager == IF RestartingNode THEN CHOOSE m \in lnDisk.manager : TRUE ELSE NewManager

\* Only a node that restarts brings the monitors up to date and watches them.
WatchedAtStart == IF RestartingNode THEN read_channelmonitors ELSE {}

Build ==
  /\ ~lnMem.up
  /\ mgr' = ReadManager
  /\ lnMem' = [Down EXCEPT !.up = TRUE, !.watched = WatchedAtStart,
                           !.lost = ~RestartingNode /\ read_channelmonitors # {}]
  /\ UNCHANGED <<lnDisk, btc, lnBound>>

\* What the process had in memory is gone; bitcoind keeps what it has.
LnCrash ==
  /\ lnMem.up /\ lnBound.crashes < MaxLnCrashes
  /\ lnMem' = Down
  /\ btc' = [btc EXCEPT !.sending = {}, !.queue = {}, !.asked = {}, !.refused = {}]
  /\ lnBound' = [lnBound EXCEPT !.crashes = @ + 1]
  /\ UNCHANGED <<lnDisk, mgr>>

\* The background processor writes the manager.
PersistManager ==
  /\ lnMem.up /\ lnDisk' = [lnDisk EXCEPT !.manager = {mgr}]
  /\ UNCHANGED <<mgr, lnMem, btc, lnBound>>

-----------------------------------------------------------------------------
(* Peers *)

\* The connection counts once the handshake is done; before, it may be lost.
do_connect_peer(mem, c) == [mem EXCEPT !.connected = @ \union {c}]

persist_channel_peer(disk, c) == [disk EXCEPT !.peers = @ \union {c}]
read_channel_peer_data == lnDisk.peers

\* connect_peer_if_necessary: the address is kept once the handshake is done.
peer_connect(c) ==
  /\ lnMem.up /\ "channels" \in lnBound.use /\ c \notin lnMem.connected
  /\ lnMem' = do_connect_peer(lnMem, c)
  /\ lnDisk' = persist_channel_peer(lnDisk, c)
  /\ UNCHANGED <<mgr, btc, lnBound>>

\* The loop that looks every five seconds for channels whose peer is not connected.
Reconnect(c) ==
  /\ lnMem.up /\ c \in (mgr.chans \intersect read_channel_peer_data) \ lnMem.connected
  /\ lnMem' = do_connect_peer(lnMem, c)
  /\ UNCHANGED <<lnDisk, mgr, btc, lnBound>>

PeerLost(c) ==
  /\ c \in lnMem.connected
  /\ lnMem' = [lnMem EXCEPT !.connected = @ \ {c}]
  /\ UNCHANGED <<lnDisk, mgr, btc, lnBound>>

-----------------------------------------------------------------------------
(* Requests of the administrator *)

channel_new(c) ==
  /\ lnMem.up /\ c \in lnMem.connected /\ c \notin lnDisk.monitors
  /\ Event("funding", c) \notin Range(mgr.events)
  /\ mgr' = Emit(mgr, Event("funding", c))
  /\ UNCHANGED <<lnDisk, lnMem, btc, lnBound>>

\* By force; the monitor reports the output when it can be spent.
channel_close(c) ==
  /\ lnMem.up /\ c \in mgr.chans
  /\ mgr' = Emit([mgr EXCEPT !.chans = @ \ {c}], Event("spendable", c))
  /\ btc' = broadcast_transactions(btc, {<<"commitment", c>>})
  /\ UNCHANGED <<lnDisk, lnMem, lnBound>>

new_invoice(h) ==
  /\ lnMem.up /\ "invoices" \in lnBound.use /\ h \notin mgr.issued /\ lnMem.inbound[h] = NoEntry
  /\ mgr' = [mgr EXCEPT !.issued = @ \union {h}]
  /\ lnMem' = [lnMem EXCEPT !.inbound[h] = "pending"]
  /\ UNCHANGED <<lnDisk, btc, lnBound>>

\* send_payment: LDK refuses a payment id that it has; the entry is written after the
\* call returns, when events of the payment may have been handled already.
SendPayment(h) ==
  /\ lnMem.up /\ "payments" \in lnBound.use /\ lnMem.calls[h] = NoEntry /\ lnBound.pays[h] < MaxPays
  /\ LET accepted == mgr.out[h] \in {NoEntry, "failed"}
     IN /\ mgr' = IF accepted THEN [mgr EXCEPT !.out[h] = "pending"] ELSE mgr
        /\ lnMem' = [lnMem EXCEPT !.calls[h] = IF accepted THEN "pending" ELSE "failed"]
  /\ lnBound' = [lnBound EXCEPT !.pays[h] = @ + 1]
  /\ UNCHANGED <<lnDisk, btc>>

RecordPayment(h) ==
  /\ lnMem.calls[h] # NoEntry
  /\ lnMem' = [lnMem EXCEPT !.outbound[h] = lnMem.calls[h], !.calls[h] = NoEntry]
  /\ UNCHANGED <<lnDisk, mgr, btc, lnBound>>

payment_list == [inbound |-> lnMem.inbound, outbound |-> lnMem.outbound]

hold_payments(hold) ==
  /\ lnMem.up /\ "invoices" \in lnBound.use /\ lnMem.hold # hold
  /\ lnMem' = [lnMem EXCEPT !.hold = hold]
  /\ UNCHANGED <<lnDisk, mgr, btc, lnBound>>

-----------------------------------------------------------------------------
(* LDK: what makes events. *)

PaymentArrives(h) ==
  /\ lnMem.up /\ h \in mgr.issued \ mgr.claimed
  /\ Event("claimable", h) \notin Range(mgr.events)
  /\ mgr' = Emit(mgr, Event("claimable", h))
  /\ UNCHANGED <<lnDisk, lnMem, btc, lnBound>>

PaymentEnds(h, result) ==
  /\ lnMem.up /\ mgr.out[h] = "pending"
  /\ mgr' = Emit([mgr EXCEPT !.out[h] = result], Event(result, h))
  /\ UNCHANGED <<lnDisk, lnMem, btc, lnBound>>

-----------------------------------------------------------------------------
(* handle_ldk_events, for the first event of the queue *)

First == Head(mgr.events)
Pending(t) == lnMem.up /\ mgr.events # << >> /\ First[1] = t
Handled == [mgr EXCEPT !.events = Tail(@)]

\* The wallet funds and signs the transaction and LDK goes on: the monitor is written,
\* then the transaction is broadcast.  A replayed event finds the channel funded.
FundingGenerationReady ==
  /\ Pending("funding")
  /\ LET c == First[2]
         new == c \notin lnDisk.monitors
     IN /\ mgr' = IF new THEN [Handled EXCEPT !.chans = @ \union {c}] ELSE Handled
        /\ lnDisk' = [lnDisk EXCEPT !.monitors = @ \union {c}]
        /\ lnMem' = IF new THEN [lnMem EXCEPT !.watched = @ \union {c}] ELSE lnMem
        /\ btc' = IF new THEN broadcast_transactions(btc, {<<"funding", c>>}) ELSE btc
  /\ UNCHANGED lnBound

\* A payment that is held comes again, and the events behind it wait.
PaymentClaimable ==
  /\ Pending("claimable") /\ ~lnMem.hold
  /\ LET h == First[2]
     IN mgr' = IF h \in mgr.claimed THEN Handled
               ELSE Emit([Handled EXCEPT !.claimed = @ \union {h}], Event("claimed", h))
  /\ UNCHANGED <<lnDisk, lnMem, btc, lnBound>>

PaymentClaimed ==
  /\ Pending("claimed")
  /\ mgr' = Handled
  /\ lnMem' = [lnMem EXCEPT !.inbound[First[2]] = "succeeded"]
  /\ UNCHANGED <<lnDisk, btc, lnBound>>

\* Of a payment the process knows.
PaymentSent ==
  /\ Pending("sent")
  /\ mgr' = Handled
  /\ lnMem' = [lnMem EXCEPT !.outbound[First[2]] = IF @ = NoEntry THEN @ ELSE "succeeded"]
  /\ UNCHANGED <<lnDisk, btc, lnBound>>

PaymentPathFailed ==
  /\ Pending("failed")
  /\ mgr' = Handled
  /\ lnMem' = [lnMem EXCEPT !.outbound[First[2]] = IF @ = NoEntry THEN @ ELSE "failed"]
  /\ UNCHANGED <<lnDisk, btc, lnBound>>

SpendableOutputs ==
  /\ Pending("spendable")
  /\ mgr' = Handled
  /\ btc' = broadcast_transactions(btc, {<<"sweep", First[2]>>})
  /\ UNCHANGED <<lnDisk, lnMem, lnBound>>

-----------------------------------------------------------------------------

LnNext ==
  \/ Build \/ LnCrash \/ PersistManager \/ PollTip
  \/ \E tx \in btc.sending : BroadcastDone(tx)
  \/ \E c \in LnChannels : peer_connect(c) \/ Reconnect(c) \/ PeerLost(c)
  \/ \E c \in LnChannels : channel_new(c) \/ channel_close(c)
  \/ \E h \in Invoices : new_invoice(h) \/ PaymentArrives(h)
  \/ \E h \in Outgoing : SendPayment(h) \/ RecordPayment(h)
  \/ \E h \in Outgoing, result \in {"sent", "failed"} : PaymentEnds(h, result)
  \/ \E hold \in BOOLEAN : hold_payments(hold)
  \/ FundingGenerationReady \/ PaymentClaimable \/ PaymentClaimed
  \/ PaymentSent \/ PaymentPathFailed \/ SpendableOutputs

LnSpec == LnInit /\ [][LnNext]_lnVars

\* While the node runs, and after any crash: every channel it uses and every monitor on
\* its disk is watched, unless it found no manager beside the monitors; a transaction it
\* handed to bitcoind is under way, queued for the next block or answered for good; a
\* payment that was claimed, and whose event has been handled, is listed so, and none is
\* listed as sent that was not.
NodeKeeps ==
  /\ lnMem.up /\ ~lnMem.lost => mgr.chans \union lnDisk.monitors \subseteq lnMem.watched
  /\ btc.asked \subseteq btc.sending \union btc.queue \union btc.has \union btc.refused
  /\ \A h \in Invoices :
       payment_list.inbound[h] = "pending" /\ h \in mgr.claimed =>
         Event("claimed", h) \in Range(mgr.events)
  /\ \A h \in Outgoing :
       payment_list.outbound[h] = "succeeded" => mgr.out[h] = "sent"
=============================================================================
