------------------------------ MODULE MCSigner ------------------------------
(***************************************************************************)
(* The modules about what the signer keeps, for TLC: its stores, its       *)
(* payments, the life of its channels, the transactions it is asked to     *)
(* sign, the secrets it is given, the keys it derives and the card of a    *)
(* device.  They share no variable, so that they are one state space in    *)
(* which a behaviour is one of one `part` and the others stay as they were *)
(* at the start.                                                           *)
(***************************************************************************)
EXTENDS CloudSync, Migration, BackupStore, Payments, NodeLife, Spending, Secrets,
        Keys, Device

CONSTANTS Parts, p, q, writer, allow, payload, chanA, chanB, h1, h2, MaxNet, LedgerTime

VARIABLE part

-----------------------------------------------------------------------------
(* The stores: two signers with an allowlist and one more record.          *)

MCValues == 0..MaxValues \cup Signers

\* Puts that are still under way when their signer is gone.
LateBound == \E n \in 0..MaxNet : \E f \in [1..n -> net] : net = {f[i] : i \in 1..n}

-----------------------------------------------------------------------------
(* Payments: "approve" asks for approvals over time, "clock" sets it back, *)
(* and "ledger" moves one approved payment over two channels.              *)

MCChannels == {chanA, chanB}
MCHashes == {h1, h2}

Ask(h, i, amount, kind, created, until, listed) ==
  [hash |-> h, id |-> i, amount |-> amount, kind |-> kind, created |-> created,
   until |-> until, listed |-> listed]

MCRequests ==
  {Ask(h1, "i1", 1, "invoice", 0, 3, FALSE), Ask(h1, "h1", 1, "keysend", 0, 0, FALSE),
   Ask(h2, "i2", 2, "invoice", 1, 5, TRUE), Ask(h2, "h2", 1, "keysend", 0, 0, FALSE)}

MCInHtlcs == {[amt |-> 1, cltv |-> 4]}
MCOutHtlcs == {[amt |-> 1, cltv |-> 2], [amt |-> 1, cltv |-> 4]}

\* In the ledger only h1 is paid, by keysend, HTLCs come in over chanA, and each
\* channel offers its own HTLC, so that the commitments stay few: the one of chanB
\* expires too late for the HTLC that comes in.  An invoice is issued at the start.
Offers(c) == {x \in OutHtlcs : x.cltv = IF c = chanA THEN 2 ELSE 4}
LedgerInfos ==
  [c \in Channels |->
    {[in |-> [h \in Hashes |-> IF h = h1 THEN i ELSE {}],
      out |-> [h \in Hashes |-> IF h = h1 THEN o ELSE {}]] :
        i \in IF c = chanA THEN SUBSET InHtlcs ELSE {{}}, o \in SUBSET Offers(c)}]

ApproveNext ==
  \/ \E r \in Requests, user \in BOOLEAN : Preapprove(r, user)
  \/ \E r \in Requests : Memorize({r})
  \/ Heartbeat \/ Tick \/ PayRestart

\* The clock is set back while one request is repeated.
ClockNext ==
  \/ \E r \in {x \in Requests : x.hash = h1 /\ x.kind = "keysend"} : Preapprove(r, TRUE)
  \/ Heartbeat \/ Tick
  \/ \E t \in 0..MaxTime : SetBack(t)

LedgerNext ==
  \/ \E r \in {x \in Requests : x.hash = h1 /\ x.kind = "keysend"} : Preapprove(r, TRUE)
  \/ \E c \in Channels : \E i \in LedgerInfos[c] : SignCounterparty(c, i) \/ ValidateHolder(c, i)
  \/ \E c \in Channels : Revoke(c)
  \/ Fulfill(h1)
  \/ now = 0 /\ SignInvoice(h1, "issued")
  \/ Heartbeat \/ PayRestart
  \/ now < LedgerTime /\ Tick

-----------------------------------------------------------------------------
(* The transactions: a policy of small amounts.                            *)

MCPolicy ==
  [min_delay |-> 5, max_delay |-> 20, max_channel_size_sat |-> 20000,
   epsilon_sat |-> 100, max_htlcs |-> 2, max_htlc_value_sat |-> 4000,
   use_chain_state |-> FALSE, min_feerate_per_kw |-> 253,
   max_feerate_per_kw |-> 3000, disable_beneficial_balance_checks |-> FALSE,
   rules |-> <<>>]

\* HTLCs, one of them of the value of an anchor.
Htlc(h, sat, cltv) == [hash |-> h, value_sat |-> sat, cltv_expiry |-> cltv]
MCLists ==
  {<<>>, <<Htlc("p", 1000, 5)>>, <<Htlc("q", 1000, 6)>>,
   <<Htlc("p", 900, 6), Htlc("q", 500, 5)>>, <<Htlc("q", 330, 5)>>}

\* Channels that push 1000 sat, of the funding they began with or a splice.
Setup(type, outbound, outpoint) ==
  [commitment_type |-> type, is_outbound |-> outbound,
   channel_value_sat |-> 10000, push_value_msat |-> 1000000,
   funding_outpoint |-> outpoint]
MCSetups ==
  {Setup("StaticRemoteKey", TRUE, "f0"), Setup("AnchorsZeroFeeHtlc", TRUE, "f1"),
   Setup("AnchorsZeroFeeHtlc", FALSE, "f0"), Setup("AnchorsZeroFeeHtlc", TRUE, "f0")}
MCPrevs ==
  {NoDeal,
   [outpoint |-> "f0", counterparty |-> 2000, holder |-> -1, push_msat |-> 1000000]}

CloseSetup(type, outbound, script) ==
  [commitment_type |-> type, is_outbound |-> outbound,
   channel_value_sat |-> 10000, push_value_msat |-> 0, funding_outpoint |-> "f0",
   holder_shutdown_script |-> script, holder_selected_contest_delay |-> 6,
   counterparty_selected_contest_delay |-> 7]
MCClose ==
  {CloseSetup("StaticRemoteKey", TRUE, 0), CloseSetup("AnchorsZeroFeeHtlc", FALSE, 0),
   CloseSetup("Anchors", TRUE, 2)}

Out(sat, script) == [value_sat |-> sat, script |-> script]
MCOuts ==
  {<<Out(900, 1)>>, <<Out(400, 1), Out(500, 2)>>, <<Out(400, 2), Out(500, 3)>>}
MCSeqs == {<<1>>, <<0>>, <<7>>, <<-1, 7>>, <<1, 1>>}

Descriptor(outpoint, sat) == [outpoint |-> outpoint, value_sat |-> sat, weight |-> 110]
MCDescriptors ==
  {<<Descriptor("o1", 1300)>>, <<Descriptor("o1", 2000)>>, <<Descriptor("o1", 9000)>>,
   <<Descriptor("o1", 1000), Descriptor("o2", 700)>>,
   <<Descriptor("o1", 1000), Descriptor("o1", 1000)>>}

\* Script 1 is the wallet's under path 1, script 2 is on the allowlist.
MCWallet == {<<1, 1>>}
MCAllowed == {<<0, 2>>, <<1, 2>>}

-----------------------------------------------------------------------------
storeVars == <<syncVars, migrationVars, backupVars>>
txVars == <<deal, spend, secretVars>>
boardVars == <<keyVars, deviceVars>>
vars == <<part, storeVars, payVars, lifeVars, txVars, boardVars>>

MCInit ==
  /\ part \in Parts
  /\ SyncInit /\ MigrationInit /\ BackupInit /\ PayInit /\ LifeInit
  /\ CommitInit /\ SpendInit /\ SecretsInit
  /\ KeysInit /\ DeviceInit
  /\ part # "file" => file = NoFile
  /\ part # "cloud" => lss = [s \in Signers |-> TRUE]
  /\ part # "life" => atomic
  /\ part # "keys" => km = NewManager("native", 1)

MCNext ==
  /\ UNCHANGED part
  /\ \/ /\ part = "cloud" /\ SyncNext
        /\ UNCHANGED <<migrationVars, backupVars, payVars, lifeVars, txVars, boardVars>>
     \/ /\ part = "file" /\ MigrationNext
        /\ UNCHANGED <<syncVars, backupVars, payVars, lifeVars, txVars, boardVars>>
     \/ /\ part = "backup" /\ BackupNext
        /\ UNCHANGED <<syncVars, migrationVars, payVars, lifeVars, txVars, boardVars>>
     \/ /\ \/ part = "approve" /\ ApproveNext
           \/ part = "clock" /\ ClockNext
           \/ part = "ledger" /\ LedgerNext
        /\ UNCHANGED <<storeVars, lifeVars, txVars, boardVars>>
     \/ /\ part = "life" /\ LifeNext
        /\ UNCHANGED <<storeVars, payVars, txVars, boardVars>>
     \/ /\ part = "commit" /\ CommitNext
        /\ UNCHANGED <<storeVars, payVars, lifeVars, spend, secretVars, boardVars>>
     \/ /\ part = "spend" /\ SpendNext
        /\ UNCHANGED <<storeVars, payVars, lifeVars, deal, secretVars, boardVars>>
     \/ /\ part = "secrets" /\ SecretsNext
        /\ UNCHANGED <<storeVars, payVars, lifeVars, deal, spend, boardVars>>
     \/ /\ part = "keys" /\ KeysNext
        /\ UNCHANGED <<storeVars, payVars, lifeVars, txVars, deviceVars>>
     \/ /\ part = "device" /\ DeviceNext
        /\ UNCHANGED <<storeVars, payVars, lifeVars, txVars, keyVars>>

MCSpec == MCInit /\ [][MCNext]_vars
=============================================================================
