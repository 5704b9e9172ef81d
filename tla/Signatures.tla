------------------------------ MODULE Signatures ------------------------------
(***************************************************************************)
(* What the signatures of a channel commit to: the script and the value of *)
(* the output that is spent, the transaction and the sighash type.  A      *)
(* splice may give the funding another value and another key of the        *)
(* counterparty, and until it is locked transactions on up to three        *)
(* fundings are signed and checked (vls-core/src/channel.rs and            *)
(* signer/vls_channel_signer.rs, vls-protocol-signer/src/handler.rs).      *)
(*                                                                         *)
(* A key is a string or a pair; a signature is the record of what it       *)
(* commits to; `fundingOuts` is what is on the chain: the key and the value of    *)
(* each funding output, which is known by its number.                      *)
(***************************************************************************)
EXTENDS Naturals, Sequences

CONSTANTS
  EraValues,    \* channel_value_sat a funding may have
  EraKeys,      \* funding keys of the counterparty
  ChannelTypes, \* "static" or "anchors"
  HolderDelay, CounterpartyDelay,
  HtlcValue, MainValue,
  MaxEras       \* bound: fundings of the channel

VARIABLES
  signing,      \* [type, views]: setup, prev_setup and prev_prev_setup
  fundingOuts,         \* the funding outputs
  made          \* the last request and its result

signatureVars == <<signing, fundingOuts, made>>

CurrentView == signing.views[1]
Anchors == signing.type = "anchors"

-----------------------------------------------------------------------------
(* Outputs, and what spends them. *)

Signature(by, script, value, flag, tx) ==
  [by |-> by, script |-> script, value |-> value, flag |-> flag, tx |-> tx]

FundingScript(key) == [t |-> "funding", keys |-> {"holder", key}]
HtlcLock(tx) == [t |-> "htlc", keys |-> {"holder_htlc", "counterparty_htlc"}, of |-> tx]
ToLocalScript(delay, key) == [t |-> "to_local", keys |-> {key}, delay |-> delay]
ToRemoteScript(anchors) == [t |-> "to_remote", keys |-> {"payment"}, csv |-> anchors]

FundingOutput(n) == [script |-> FundingScript(fundingOuts[n].key), value |-> fundingOuts[n].value]
HtlcOutput(tx) == [script |-> HtlcLock(tx), value |-> HtlcValue]

\* The network takes the signature for the output in the transaction.
Unlocks(output, tx, sig) ==
  /\ sig.by \in output.script.keys
  /\ sig.script = output.script /\ sig.value = output.value /\ sig.tx = tx

CommitmentOn(who, n) == [t |-> "commitment", who |-> who, funding |-> n]

\* LDK's build_htlc_transaction.
HtlcTx(commitment, delay, fee) ==
  [t |-> "htlc", of |-> commitment, delay |-> delay, fee |-> fee]

\* The HTLC transaction of the broadcaster of a commitment, and the sighash type
\* of the other side's signature on it.
TrueHtlcTx(commitment) ==
  HtlcTx(commitment, IF commitment.who = "holder" THEN CounterpartyDelay ELSE HolderDelay,
         ~Anchors)
TrueFlag == IF Anchors THEN "single" ELSE "all"

-----------------------------------------------------------------------------
(* Signatures on fundings. *)

\* make_channel_parameters_with_setup
ChannelParameters(view) ==
  [funding |-> view.funding, key |-> view.key, value |-> view.value,
   holder_delay |-> HolderDelay, counterparty_delay |-> CounterpartyDelay, anchors |-> Anchors]

\* VlsChannelSigner::sign_counterparty_commitment: the signature on the commitment
\* and the one on each HTLC.
sign_counterparty_commitment(params, tx) ==
  [commit |-> Signature("holder", FundingScript(params.key), params.value, "all", tx),
   htlc |-> Signature("holder_htlc", HtlcLock(tx), HtlcValue,
                      IF params.anchors THEN "single" ELSE "all",
                      HtlcTx(tx, params.holder_delay, ~params.anchors))]

\* VlsChannelSigner::sign_holder_commitment, and sign_closing_transaction the same.
sign_holder_commitment(params, tx) ==
  Signature("holder", FundingScript(params.key), params.value, "all", tx)
sign_closing_transaction(params, tx) ==
  Signature("holder", FundingScript(params.key), params.value, "all", tx)

\* setup_for_outpoint: the view of a funding that is still live.
ViewsOf(n) == {signing.views[i] : i \in {i \in DOMAIN signing.views : signing.views[i].funding = n}}

\* The view of a transaction's input (setup_for_tx): the current one if none fits.
ViewOf(n) == IF ViewsOf(n) = {} THEN CurrentView ELSE CHOOSE v \in ViewsOf(n) : TRUE

\* check_holder_tx_signatures: the script and the value are those of the view, the
\* key is the one of the current setup.
check_holder_tx_signatures(view, tx, commit, htlc) ==
  /\ commit = Signature(CurrentView.key, FundingScript(view.key), view.value, "all", tx)
  /\ htlc = Signature("counterparty_htlc", HtlcLock(tx), HtlcValue,
                      IF Anchors THEN "single" ELSE "all",
                      HtlcTx(tx, CounterpartyDelay, ~Anchors))

\* Mutant: the key of an input on an earlier funding is compared with the current one.
sign_splice_tx_current(n, key, amount) ==
  LET value == IF amount = {} THEN {v.value : v \in ViewsOf(n)} ELSE amount
  IN {Signature("holder", FundingScript(key), v.value, "all", [t |-> "splice", funding |-> n]) :
        v \in {v \in ViewsOf(n) : key = CurrentView.key /\ value = {v.value}}}

\* sign_splice_tx_inner: the input spends a live funding, the key is the one of that
\* funding and the amount, where the request has one, its value.
sign_splice_tx(n, key, amount) ==
  LET value == IF amount = {} THEN {v.value : v \in ViewsOf(n)} ELSE amount
  IN {Signature("holder", FundingScript(key), v.value, "all", [t |-> "splice", funding |-> n]) :
        v \in {v \in ViewsOf(n) : key = v.key /\ value = {v.value}}}

-----------------------------------------------------------------------------
(* Signatures on the outputs of a commitment. *)

\* sign_holder_keyed_anchor_input: the anchor is locked to our funding key.
AnchorOutput == [script |-> [t |-> "anchor", keys |-> {"holder"}], value |-> 330]
sign_holder_anchor_input(tx) ==
  Signature("holder", AnchorOutput.script, AnchorOutput.value, "all", tx)

\* The transactions sign_holder_htlc_txs_for_recovery builds: a received HTLC has no
\* lock time, an offered one its expiry.  Only the signatures of an anchors channel
\* allow for other inputs.
BatchTx(htlcs, lock) == [t |-> "htlcs", htlcs |-> htlcs, lock |-> lock]
Batches(htlcs) ==
  IF Anchors
  THEN {BatchTx({h \in htlcs : h.lock = l}, l) : l \in {h.lock : h \in htlcs}}
  ELSE {BatchTx({h}, h.lock) : h \in htlcs}

\* The counterparty signed each HTLC transaction by itself.
CounterpartySig(h) == [flag |-> TrueFlag, tx |-> BatchTx({h}, h.lock)]

\* What SIGHASH_SINGLE|ANYONECANPAY leaves out is the other inputs and outputs.
SigCovers(sig, tx) ==
  IF sig.flag = "all" THEN sig.tx = tx
  ELSE sig.tx.htlcs \subseteq tx.htlcs /\ sig.tx.lock = tx.lock

\* VlsChannelSigner::sign_holder_htlc_transaction
sign_holder_htlc_transaction(commitment, tx) ==
  Signature("holder_htlc", HtlcLock(commitment), HtlcValue, "all", tx)

\* build_and_sign_batched_htlc_tx: the witness of each input of a batch.
build_and_sign_batched_htlc_tx(commitment, batch) ==
  {[holder |-> sign_holder_htlc_transaction(commitment, batch),
    counterparty |-> CounterpartySig(h)] : h \in batch.htlcs}

\* get_unilateral_close_key: the key and the script of our main output, from the point
\* and the revocation key of the request; empty for an error.
get_unilateral_close_key(point, revocation) ==
  CASE point # {} /\ revocation ->
         {[key |-> <<"delayed", p>>, script |-> ToLocalScript(CounterpartyDelay, <<"delayed", p>>)] :
            p \in point}
    [] point = {} /\ ~revocation ->
         {[key |-> "payment", script |-> ToRemoteScript(Anchors)]}
    [] OTHER -> {}

\* sign_dynamic_p2wsh_input: the input, its sequence and the script have to fit.
sign_dynamic_p2wsh_input(descriptor, tx) ==
  LET key == <<"delayed", descriptor.point>>
      script == ToLocalScript(descriptor.delay, key)
  IN IF /\ tx.spends = descriptor.outpoint /\ tx.sequence = descriptor.delay
        /\ descriptor.output.script = script
     THEN {Signature(key, script, descriptor.output.value, "all", tx)}
     ELSE {}

\* sign_counterparty_payment_input: so have the script of the channel type, which is
\* the static one where the descriptor does not say.
sign_counterparty_payment_input(descriptor, tx) ==
  IF /\ tx.spends = descriptor.outpoint
     /\ descriptor.output.script = ToRemoteScript(descriptor.anchors)
  THEN {Signature("payment", descriptor.output.script, descriptor.output.value, "all", tx)}
  ELSE {}

\* The keys of the sweeps: sign_delayed_sweep takes the point of the commitment number,
\* sign_counterparty_htlc_sweep the point of the request, sign_justice_sweep the secret
\* and sign_holder_htlc_tx, which has one input, the point of the commitment number.
SweepKey(kind, point) ==
  CASE kind = "delayed" -> <<"delayed", point>>
    [] kind = "htlc"    -> <<"htlc", point>>
    [] kind = "justice" -> <<"revocation", point>>
    [] kind = "local"   -> <<"holder_htlc", point>>

\* The sweep of an input: the amount is the one of the PSBT's input, and an input
\* without one ends the signer; the index is checked against the transaction.
Sweep(kind, point, script, utxos, tx, input) ==
  IF input \notin DOMAIN utxos \/ utxos[input] = {} THEN "panic"
  ELSE IF input \notin DOMAIN tx.spends THEN "refused"
  ELSE "signed"
SweepSignature(kind, point, script, utxos, tx, input) ==
  Signature(SweepKey(kind, point), script, CHOOSE v \in utxos[input] : TRUE, "all", tx)

-----------------------------------------------------------------------------
(* Requests.  A result is the set of [output, tx, sig] that left the signer or *)
(* that it accepted; `due` says that an honest request must be served.         *)

Made(op, due, results) == [op |-> op, due |-> due, results |-> results]
NothingMade == Made("none", FALSE, {})
Result(output, tx, sig) == [output |-> output, tx |-> tx, sig |-> sig]

\* One request at a time.
NotAsked == made = NothingMade
Replied == ~NotAsked /\ made' = NothingMade /\ UNCHANGED <<signing, fundingOuts>>

\* Phase 2 of the counterparty's commitment, on any live funding.
SignOnFunding(n) ==
  LET tx == CommitmentOn("counterparty", n)
      sigs(v) == sign_counterparty_commitment(ChannelParameters(v), tx)
  IN /\ NotAsked
     /\ made' = Made("sign", n \in {signing.views[i].funding : i \in DOMAIN signing.views},
          UNION {{Result(FundingOutput(n), tx, sigs(v).commit),
                  Result(HtlcOutput(tx), TrueHtlcTx(tx), sigs(v).htlc)} : v \in ViewsOf(n)})
     /\ UNCHANGED <<signing, fundingOuts>>

\* The holder's commitment on funding n with the counterparty's signatures on it.  A
\* transaction on a funding that is gone does not recompose from the current view.
ValidateOnFunding(n, by) ==
  LET tx == CommitmentOn("holder", n)
      commit == Signature(by, FundingScript(fundingOuts[n].key), fundingOuts[n].value, "all", tx)
      htlc == Signature("counterparty_htlc", HtlcLock(tx), HtlcValue, TrueFlag, TrueHtlcTx(tx))
      ok == /\ CommitmentOn("holder", ViewOf(n).funding) = tx
            /\ check_holder_tx_signatures(ViewOf(n), tx, commit, htlc)
  IN /\ NotAsked
     /\ made' = Made("validate",
          ViewsOf(n) # {} /\ by = fundingOuts[n].key /\ fundingOuts[n].key = CurrentView.key,
          IF ok THEN {Result(FundingOutput(n), tx, commit), Result(HtlcOutput(tx), TrueHtlcTx(tx), htlc)}
          ELSE {})
     /\ UNCHANGED <<signing, fundingOuts>>

\* The holder's commitment, or a close both agree on, on the current funding.
SignFundingSpend(what) ==
  LET tx == [t |-> what, who |-> "holder", funding |-> CurrentView.funding]
  IN /\ NotAsked
     /\ made' = Made("spend", TRUE,
          {Result(FundingOutput(CurrentView.funding), tx,
             IF what = "close" THEN sign_closing_transaction(ChannelParameters(CurrentView), tx)
             ELSE sign_holder_commitment(ChannelParameters(CurrentView), tx))})
     /\ UNCHANGED <<signing, fundingOuts>>

\* The holder's part of the input of a splice or of an interactive transaction.
SignSpliceInput(n, key, amount) ==
  /\ NotAsked
  /\ made' = Made("splice", ViewsOf(n) # {} /\ key = fundingOuts[n].key /\ amount \in {{}, {fundingOuts[n].value}},
       {Result(FundingOutput(n), [t |-> "splice", funding |-> n], s) : s \in sign_splice_tx(n, key, amount)})
  /\ UNCHANGED <<signing, fundingOuts>>

\* A child of the commitment that spends its anchor.
SpendAnchor ==
  /\ NotAsked
  /\ made' = Made("anchor", TRUE,
       {Result(AnchorOutput, [t |-> "child"], sign_holder_anchor_input([t |-> "child"]))})
  /\ UNCHANGED <<signing, fundingOuts>>

\* The recovery tool asks for the transactions of the HTLCs that can be claimed.
ClaimHtlcs(htlcs) ==
  LET commitment == CommitmentOn("holder", CurrentView.funding)
  IN /\ NotAsked
     /\ made' = Made("claim", htlcs # {},
          {[output |-> HtlcOutput(commitment), tx |-> b, sig |-> w.holder,
            counterparty |-> w.counterparty] :
             <<b, w>> \in UNION {{<<b, w>> : w \in build_and_sign_batched_htlc_tx(commitment, b)} :
                                 b \in Batches(htlcs)}})
     /\ UNCHANGED <<signing, fundingOuts>>

\* The main output of a commitment: ours with a delay, the counterparty's without.
MainOutput(who, point) ==
  [script |-> IF who = "holder" THEN ToLocalScript(CounterpartyDelay, <<"delayed", point>>)
              ELSE ToRemoteScript(Anchors),
   value |-> MainValue]

\* The wallet signs for it with the key the channel hands out.
CloseKey(who, point, revocation) ==
  LET keys == get_unilateral_close_key(point, revocation)
      output == MainOutput(who, 1)
      honest == IF who = "holder" THEN point = {1} /\ revocation ELSE point = {} /\ ~revocation
  IN /\ NotAsked
     /\ made' = Made("key", honest,
          IF honest THEN {Result(output, [t |-> "wallet"],
                            Signature(k.key, k.script, output.value, "all", [t |-> "wallet"])) :
                            k \in keys}
          ELSE {})
     /\ UNCHANGED <<signing, fundingOuts>>

\* The wallet spends it from a descriptor, which may be of another output.
SpendDescriptor(who, point, delay, anchors, sequence, same) ==
  LET output == MainOutput(who, 1)
      outpoint == IF same THEN "main" ELSE "other"
      tx == [t |-> "wallet", spends |-> "main", sequence |-> sequence]
      sigs == IF who = "holder"
              THEN sign_dynamic_p2wsh_input(
                     [point |-> point, delay |-> delay, output |-> output, outpoint |-> outpoint], tx)
              ELSE sign_counterparty_payment_input(
                     [anchors |-> anchors, output |-> output, outpoint |-> outpoint], tx)
  IN /\ NotAsked
     /\ made' = Made("wallet",
          same /\ (IF who = "holder" THEN point = 1 /\ delay = CounterpartyDelay /\ sequence = delay
                   ELSE anchors = Anchors),
          {Result(output, tx, g) : g \in sigs})
     /\ UNCHANGED <<signing, fundingOuts>>

\* A sweep with two inputs: the request may leave an amount out.
SweptOutput(kind, point, utxos, input) ==
  LET output(i) == [script |-> [t |-> kind, keys |-> {SweepKey(kind, point)}, n |-> i],
                    value |-> IF i = 1 THEN MainValue ELSE HtlcValue]
      tx == [t |-> "sweep", spends |-> IF kind = "local" THEN <<output(1)>> ELSE <<output(1), output(2)>>]
      got == Sweep(kind, point, output(input).script, utxos, tx, input)
  IN /\ NotAsked
     /\ made' = Made("sweep", input \in DOMAIN utxos /\ utxos[input] # {},
          IF got = "signed"
          THEN {Result(output(input), tx,
                  SweepSignature(kind, point, output(input).script, utxos, tx, input))}
          ELSE {})
     /\ UNCHANGED <<signing, fundingOuts>>

-----------------------------------------------------------------------------
(* The fundings. *)

\* setup_channel for a splice: the views move on and the oldest falls off.
SpliceTo(key, value) ==
  /\ NotAsked /\ Len(fundingOuts) < MaxEras
  /\ LET view == [funding |-> Len(fundingOuts) + 1, key |-> key, value |-> value]
     IN signing' = [signing EXCEPT !.views = SubSeq(<<view>> \o @, 1, IF Len(@) = 1 THEN 2 ELSE 3)]
  /\ fundingOuts' = Append(fundingOuts, [key |-> key, value |-> value])
  /\ UNCHANGED made

\* confirm_funding_locked retires the others.
LockFunding ==
  /\ NotAsked /\ Len(signing.views) > 1
  /\ signing' = [signing EXCEPT !.views = <<CurrentView>>]
  /\ UNCHANGED <<fundingOuts, made>>

SignaturesInit ==
  \E type \in ChannelTypes, key \in EraKeys, value \in EraValues :
    /\ signing = [type |-> type, views |-> <<[funding |-> 1, key |-> key, value |-> value]>>]
    /\ fundingOuts = <<[key |-> key, value |-> value]>>
    /\ made = NothingMade

OurHtlcs == {[n |-> 1, lock |-> 0], [n |-> 2, lock |-> 0], [n |-> 3, lock |-> 7], [n |-> 4, lock |-> 9]}

SignaturesNext ==
  \/ \E key \in EraKeys, value \in EraValues : SpliceTo(key, value)
  \/ LockFunding
  \/ Replied
  \/ \E n \in DOMAIN fundingOuts : SignOnFunding(n)
  \/ \E n \in DOMAIN fundingOuts, by \in EraKeys : ValidateOnFunding(n, by)
  \/ \E what \in {"commitment", "close"} : SignFundingSpend(what)
  \/ \E n \in DOMAIN fundingOuts, key \in EraKeys, amount \in {{}} \union {{v} : v \in EraValues} :
       SignSpliceInput(n, key, amount)
  \/ SpendAnchor
  \/ \E htlcs \in SUBSET OurHtlcs : ClaimHtlcs(htlcs)
  \/ \E who \in {"holder", "counterparty"}, point \in {{}, {1}}, revocation \in BOOLEAN :
       CloseKey(who, point, revocation)
  \/ \E who \in {"holder", "counterparty"}, point \in {1, 2}, delay \in {HolderDelay, CounterpartyDelay},
        anchors \in BOOLEAN, sequence \in {0, CounterpartyDelay}, same \in BOOLEAN :
       SpendDescriptor(who, point, delay, anchors, sequence, same)
  \/ \E kind \in {"delayed", "htlc", "justice", "local"}, point \in {1, 2}, input \in 1..2,
        utxos \in {<<{MainValue}, {HtlcValue}>>, <<{MainValue}, {}>>, <<{MainValue}>>} :
       /\ kind = "local" => Len(utxos) = 1
       /\ SweptOutput(kind, point, utxos, input)

-----------------------------------------------------------------------------
\* Every signature the signer makes, and every one of the counterparty that it accepts
\* and relies on, is one the network takes for the output it is meant for: on the
\* funding of its era while up to three are live and their keys and values differ, on
\* an HTLC alone or in a batch, on an anchor or a main output.  And no honest request
\* is refused.  Left out is an earlier funding whose key of the counterparty has been
\* replaced: check_holder_tx_signatures checks the commitment on it with the new key.
SignaturesSpend ==
  /\ \A r \in made.results :
       \/ Unlocks(r.output, r.tx, r.sig)
       \/ made.op = "validate" /\ r.output = FundingOutput(r.tx.funding)
            /\ fundingOuts[r.tx.funding].key # CurrentView.key
  /\ made.op = "claim" =>
       \A r \in made.results : r.sig.flag = "all" /\ SigCovers(r.counterparty, r.tx)
  /\ made.op = "sign" =>
       \A r \in made.results : r.tx.t = "htlc" => r.sig.flag = TrueFlag
  /\ made.due => made.results # {}
=============================================================================
