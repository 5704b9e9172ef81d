------------------------------ MODULE CommitTx ------------------------------
(***************************************************************************)
(* Commitment transactions: the policy a new one has to satisfy, how one   *)
(* is decoded output by output when the node sends a transaction (phase 1) *)
(* and rebuilt from values when it does not (phase 2), how the monitor     *)
(* reads one that confirmed, what of it is claimable, and the HTLC         *)
(* transactions a recovery signs (vls-core: policy/simple_validator.rs,    *)
(* tx/tx.rs, util/transaction_utils.rs, channel.rs).                       *)
(*                                                                         *)
(* An output is its value and the fields its script is made of; `by` and   *)
(* `num` stand for the keys of the broadcaster at a commitment number.     *)
(* The order of outputs is left out: every index is compared as a position *)
(* of the transaction that was built.                                      *)
(***************************************************************************)
EXTENDS Policy

CONSTANTS
  CommitSetups,    \* channel setups of an instance
  CommitPrevs,     \* what a splice remembers of the funding before it
  CommitAmounts,   \* values of the countersigner's output
  CommitFees,      \* what the outputs leave to the fee
  HtlcLists,       \* lists of HTLCs on one side
  CommitRates,     \* feerates a request may name
  TxHashes,        \* payment hashes
  TxHeights        \* block heights at which a recovery runs

VARIABLE deal      \* the commitment the signer looks at

LOCAL INSTANCE SequencesExt
LOCAL INSTANCE Folds

ANCHOR_SAT == 330
NoDeal == [stage |-> "none"]

Other(who) == IF who = "holder" THEN "counterparty" ELSE "holder"

-----------------------------------------------------------------------------
(* Contents *)

\* CommitmentInfo2; `who` is the broadcaster.
Info2(who, toc, tob, offered, received, rate) ==
  [who |-> who, to_countersigner_value_sat |-> toc,
   to_broadcaster_value_sat |-> tob, offered_htlcs |-> offered,
   received_htlcs |-> received, feerate_per_kw |-> rate]

\* value_to_parties: what goes to us, without HTLCs.
HolderValue(info) ==
  IF info.who = "holder" THEN info.to_broadcaster_value_sat
                         ELSE info.to_countersigner_value_sat

CounterpartyValue(info) ==
  IF info.who = "holder" THEN info.to_countersigner_value_sat
                         ELSE info.to_broadcaster_value_sat

total_value(info) ==
  info.to_broadcaster_value_sat + info.to_countersigner_value_sat
    + TotalSat(info.offered_htlcs) + TotalSat(info.received_htlcs)

\* HTLCs we offer and HTLCs offered to us.
WeOffer(info) ==
  IF info.who = "holder" THEN info.offered_htlcs ELSE info.received_htlcs

WeReceive(info) ==
  IF info.who = "holder" THEN info.received_htlcs ELSE info.offered_htlcs

\* claimable_balance: our output, the fee if we pay it, what we offered and may
\* still take back, what we were offered and can take.  -1 when the totals
\* exceed the funding.
claimable_balance(info, preimages, is_outbound, channel_value) ==
  IF is_outbound /\ channel_value < total_value(info) THEN -1
  ELSE HolderValue(info)
       + (IF is_outbound THEN channel_value - total_value(info) ELSE 0)
       + TotalSat(SelectSeq(WeOffer(info), LAMBDA h : h.hash \notin preimages))
       + TotalSat(SelectSeq(WeReceive(info), LAMBDA h : h.hash \in preimages))

-----------------------------------------------------------------------------
(* Policy of a commitment *)

htlc_timeout_tx_weight(setup) == IF is_anchors(setup) THEN 666 ELSE 663

htlc_success_tx_weight(setup) == IF is_anchors(setup) THEN 706 ELSE 703

expected_commitment_tx_weight(setup, htlcs) ==
  (IF is_anchors(setup) THEN 1124 ELSE 724) + htlcs * 172

htlc_dust_limit(setup, rate, weight) ==
  IF is_zero_fee_htlc(setup) THEN MIN_CHAN_DUST_LIMIT_SATOSHIS
  ELSE MIN_DUST_LIMIT_SATOSHIS + (rate * weight) \div 1000

\* Mutant: the prior balance is added for the old funding as well.
CarriedAlways(setup, prev) ==
  IF prev = NoDeal THEN 0
  ELSE IF prev.counterparty >= 0 THEN prev.counterparty
  ELSE IF prev.holder >= 0 THEN prev.holder
  ELSE prev.push_msat \div 1000

\* What the fundee brings along from the funding before a splice: the balance
\* of the last commitment, ours if theirs was never signed, and the push when
\* none was exchanged.  Nothing when the commitment is on that funding itself.
\* -1 stands for an absent info.
carried_fundee_sat(setup, prev) ==
  IF prev = NoDeal \/ prev.outpoint = setup.funding_outpoint THEN 0
  ELSE IF prev.counterparty >= 0 THEN prev.counterparty
  ELSE IF prev.holder >= 0 THEN prev.holder
  ELSE prev.push_msat \div 1000

\* SimpleValidator::validate_commitment_tx.
validate_commitment_tx(setup, prev, commit_num, current_height, info) ==
  LET trimmed == "policy-commitment-outputs-trimmed"
      htlcs   == Len(info.offered_htlcs) + Len(info.received_htlcs)
      inHtlcs == TotalSat(info.offered_htlcs) + TotalSat(info.received_htlcs)
      main(v) == v > 0 => v >= MIN_CHAN_DUST_LIMIT_SATOSHIS
      list(s, weight) ==
        \A i \in 1..Len(s) :
          /\ validate_expiry(s[i].cltv_expiry, current_height)
          /\ Requires(trimmed, s[i].value_sat >=
               htlc_dust_limit(setup, info.feerate_per_kw, weight))
  IN  /\ Requires(trimmed, main(info.to_broadcaster_value_sat))
      /\ Requires(trimmed, main(info.to_countersigner_value_sat))
      /\ Requires("policy-commitment-htlc-count-limit",
                  htlcs <= policy.max_htlcs)
      /\ list(info.offered_htlcs, htlc_timeout_tx_weight(setup))
      /\ list(info.received_htlcs, htlc_success_tx_weight(setup))
      /\ Requires("policy-commitment-htlc-inflight-limit",
                  inHtlcs <= policy.max_htlc_value_sat)
      /\ validate_fee("policy-commitment-fee-range", setup.channel_value_sat,
                      total_value(info),
                      expected_commitment_tx_weight(setup, htlcs))
      /\ commit_num = 0 =>
           /\ Requires("policy-commitment-first-no-htlcs", htlcs = 0)
           /\ setup.is_outbound =>
                Requires("policy-commitment-initial-funding-value",
                         CounterpartyValue(info) <=
                           setup.push_value_msat \div 1000
                             + carried_fundee_sat(setup, prev))

-----------------------------------------------------------------------------
(* Building *)

\* LDK's CommitmentTransaction: main outputs with value, an anchor for each
\* party with an output or an HTLC, and every HTLC.
MainOutputs(setup, num, info) ==
  (IF info.to_countersigner_value_sat = 0 THEN <<>>
   ELSE <<[value  |-> info.to_countersigner_value_sat,
           script |-> [t |-> IF is_anchors(setup) THEN "delayed_remote"
                                                  ELSE "p2wpkh",
                       key |-> Other(info.who)]]>>)
  \o
  (IF info.to_broadcaster_value_sat = 0 THEN <<>>
   ELSE <<[value  |-> info.to_broadcaster_value_sat,
           script |-> [t |-> "broadcaster", by |-> info.who, num |-> num]]>>)

AnchorOutputs(setup, info) ==
  LET htlcs == info.offered_htlcs \o info.received_htlcs # <<>>
      anchor(who, v) ==
        IF is_anchors(setup) /\ (v > 0 \/ htlcs)
        THEN <<[value |-> ANCHOR_SAT, script |-> [t |-> "anchor", key |-> who]]>>
        ELSE <<>>
  IN  anchor(info.who, info.to_broadcaster_value_sat)
        \o anchor(Other(info.who), info.to_countersigner_value_sat)

\* get_htlc_redeemscript: an offered HTLC's script has no expiry.
HtlcScript(setup, who, num, offered, h) ==
  [t |-> IF offered THEN "offered" ELSE "received", by |-> who, num |-> num,
   hash |-> h.hash, cltv |-> IF offered THEN 0 ELSE h.cltv_expiry,
   csv |-> is_anchors(setup)]

\* htlcs_info2_to_oic.
HtlcsOic(info) ==
  [i \in 1..Len(info.offered_htlcs) |->
     [offered |-> TRUE, h |-> info.offered_htlcs[i]]]
  \o
  [i \in 1..Len(info.received_htlcs) |->
     [offered |-> FALSE, h |-> info.received_htlcs[i]]]

HtlcOutputs(setup, num, info) ==
  LET oic == HtlcsOic(info)
  IN  [i \in 1..Len(oic) |->
         [value  |-> oic[i].h.value_sat,
          script |-> HtlcScript(setup, info.who, num, oic[i].offered, oic[i].h)]]

\* make_holder_commitment_tx / make_counterparty_commitment_tx.
MakeCommitmentTx(setup, num, info) ==
  MainOutputs(setup, num, info) \o AnchorOutputs(setup, info)
    \o HtlcOutputs(setup, num, info)

-----------------------------------------------------------------------------
(* Decoding *)

\* CommitmentInfo::new.
NoInfo(who) ==
  [who |-> who, remote |-> FALSE, local |-> FALSE, toc |-> 0, tob |-> 0,
   anchors |-> <<0, 0>>, offered |-> <<>>, received |-> <<>>, err |-> FALSE]

Bad(info) == [info EXCEPT !.err = TRUE]

\* The HTLC parsers accept the script of the channel's own type only.
ParsesHtlc(setup, script, t) ==
  script.t = t /\ script.csv = is_anchors(setup)

\* Mutant: the anchor of the broadcaster is taken for its main output.
HandleAnchorAsMain(setup, info, out) ==
  CASE out.script.t \in {"p2wpkh", "delayed_remote"} ->
         [info EXCEPT !.remote = TRUE, !.toc = out.value]
    [] out.script.t = "broadcaster" \/
       (out.script.t = "anchor" /\ out.script.key = info.who) ->
         [info EXCEPT !.local = TRUE, !.tob = out.value]
    [] OTHER -> info

\* At most one main output of each side.
TakeCountersigner(info, out) ==
  IF info.remote THEN Bad(info)
  ELSE [info EXCEPT !.remote = TRUE, !.toc = out.value]

TakeBroadcaster(info, out) ==
  IF info.local THEN Bad(info)
  ELSE [info EXCEPT !.local = TRUE, !.tob = out.value]

\* An anchor is worth 330 and belongs to one of the funding keys.
TakeAnchor(info, out) ==
  IF out.value # ANCHOR_SAT THEN Bad(info)
  ELSE [info EXCEPT !.anchors[IF out.script.key = info.who THEN 1 ELSE 2] = @ + 1]

TakeReceived(info, out) == [info EXCEPT !.received = Append(@, out.value)]

TakeOffered(info, out) == [info EXCEPT !.offered = Append(@, out.value)]

\* handle_output: the output is the first kind that fits, or refused.
handle_output(setup, info, out) ==
  LET s == out.script
  IN  CASE info.err -> info
        [] s.t = "p2wpkh" -> IF is_anchors(setup) THEN Bad(info)
                             ELSE TakeCountersigner(info, out)
        [] s.t = "broadcaster" -> TakeBroadcaster(info, out)
        [] ParsesHtlc(setup, s, "received") -> TakeReceived(info, out)
        [] ParsesHtlc(setup, s, "offered") -> TakeOffered(info, out)
        [] s.t = "anchor" -> TakeAnchor(info, out)
        [] s.t = "delayed_remote" /\ is_anchors(setup) ->
             TakeCountersigner(info, out)
        [] OTHER -> Bad(info)

\* SimpleValidator::decode_commitment_tx.
decode_commitment_tx(setup, who, tx) ==
  FoldLeft(LAMBDA info, out : handle_output(setup, info, out), NoInfo(who), tx)

\* sign_counterparty_commitment_tx and validate_holder_commitment_tx: the
\* transaction is decoded, its values are checked with the HTLCs of the request,
\* and the transaction rebuilt from them has to be the same.
PhaseOne(setup, prev, num, height, who, tx, offered, received, rate) ==
  LET info  == decode_commitment_tx(setup, who, tx)
      info2 == Info2(who, info.toc, info.tob, offered, received, rate)
  IN  /\ validate_channel_value(setup)
      /\ ~info.err
      /\ validate_commitment_tx(setup, prev, num, height, info2)
      /\ MakeCommitmentTx(setup, num, info2) = tx

\* The _phase2 calls: the values are checked and the transaction is built.
PhaseTwo(setup, prev, num, height, info) ==
  /\ validate_channel_value(setup)
  /\ validate_commitment_tx(setup, prev, num, height, info)

-----------------------------------------------------------------------------
(* A commitment that confirmed *)

\* Mutant: the main output of a channel with anchors is not recognised.
MainWithoutAnchors(setup, num, tx) ==
  LET ours == {i \in 1..Len(tx) :
                 \/ tx[i].script = [t |-> "p2wpkh", key |-> "holder"]
                 \/ tx[i].script = [t |-> "broadcaster", by |-> "holder",
                                    num |-> num]}
  IN  IF ours = {} THEN 0 ELSE CHOOSE i \in ours : \A j \in ours : j <= i

\* The position of our main output, 0 if none: decode_commitment_tx of
\* transaction_utils.rs.  The last match wins.
MainIndex(setup, num, tx) ==
  LET ours == {i \in 1..Len(tx) :
                 /\ tx[i].value # ANCHOR_SAT
                 /\ \/ tx[i].script.t \in {"p2wpkh", "delayed_remote"}
                       /\ tx[i].script.key = "holder"
                    \/ tx[i].script = [t |-> "broadcaster", by |-> "holder",
                                       num |-> num]}
  IN  IF ours = {} THEN 0 ELSE CHOOSE i \in ours : \A j \in ours : j <= i

\* The positions it takes for HTLCs: every other p2wsh output that is no anchor
\* and not the counterparty's own, which is known by its point.
HtlcIndices(setup, num, tx, pointKnown) ==
  {i \in 1..Len(tx) :
     /\ tx[i].value # ANCHOR_SAT
     /\ ~(pointKnown /\ tx[i].script = [t |-> "broadcaster",
                                        by |-> "counterparty", num |-> num])
     /\ ~(tx[i].script.t \in {"p2wpkh", "delayed_remote"}
            /\ tx[i].script.key = "holder")
     /\ tx[i].script # [t |-> "broadcaster", by |-> "holder", num |-> num]
     /\ tx[i].script.t # "p2wpkh"}

\* The scripts get_spendable_htlc_indices collects.
SpendableScripts(setup, num, info, preimages) ==
  LET oic == HtlcsOic(info)
      can(x) == (x.offered # (info.who = "holder")) => x.h.hash \in preimages
  IN  {HtlcScript(setup, info.who, num, oic[i].offered, oic[i].h) :
         i \in {j \in 1..Len(oic) : can(oic[j])}}

\* get_spendable_htlc_indices.
SpendableIndices(setup, num, info, preimages, tx) ==
  {i \in 1..Len(tx) :
     tx[i].script \in SpendableScripts(setup, num, info, preimages)}

-----------------------------------------------------------------------------
(* The HTLC transactions of a recovery *)

\* The HTLCs sign_holder_htlc_txs_for_recovery can claim at this height.
ClaimableNow(info, preimages, spent, height) ==
  LET oic == HtlcsOic(info)
  IN  {i \in 1..Len(oic) \ spent :
         IF oic[i].offered THEN oic[i].h.cltv_expiry <= height
                           ELSE oic[i].h.hash \in preimages}

\* sign_holder_htlc_txs_for_recovery and build_and_sign_batched_htlc_tx: with
\* zero-fee HTLCs one transaction for all the received ones and one for each
\* expiry of the offered ones, otherwise one for each HTLC.
sign_holder_htlc_txs_for_recovery(setup, info, preimages, spent, height) ==
  LET oic      == HtlcsOic(info)
      claim    == ClaimableNow(info, preimages, spent, height)
      offered  == {i \in claim : oic[i].offered}
      cltv(i)  == IF oic[i].offered THEN oic[i].h.cltv_expiry ELSE 0
      tx(is, lock) == [lock_time |-> lock, claims |-> is]
  IN  IF is_zero_fee_htlc(setup)
      THEN {tx(claim \ offered, 0) : i \in claim \ offered}
             \cup {tx({j \in offered : cltv(j) = cltv(i)}, cltv(i)) : i \in offered}
      ELSE {tx({i}, cltv(i)) : i \in claim}

\* What one claim pays after the fee of its transaction: LDK's
\* build_htlc_transaction.
ClaimPays(setup, info, i) ==
  LET x == HtlcsOic(info)[i]
  IN  x.h.value_sat -
        (IF is_zero_fee_htlc(setup) THEN 0
         ELSE (info.feerate_per_kw *
                 (IF x.offered THEN htlc_timeout_tx_weight(setup)
                               ELSE htlc_success_tx_weight(setup))) \div 1000)

-----------------------------------------------------------------------------
(* Steps *)

CommitInit == deal = NoDeal

\* A commitment of either side that both phases would be asked to accept.  The
\* broadcaster has what the other outputs and the fee leave.
ProposeCommit ==
  /\ deal = NoDeal
  /\ \E setup \in CommitSetups, prev \in CommitPrevs, num \in {0, 1},
       who \in {"holder", "counterparty"}, toc \in CommitAmounts,
       offered \in HtlcLists, received \in HtlcLists, fee \in CommitFees,
       rate \in CommitRates :
       LET tob  == setup.channel_value_sat - fee - toc - TotalSat(offered)
                     - TotalSat(received)
           info == Info2(who, toc, tob, offered, received, rate)
       IN  /\ tob >= 0
           /\ deal' = [stage |-> "asked", setup |-> setup, prev |-> prev,
                       num |-> num, info |-> info,
                       ok |-> PhaseTwo(setup, prev, num, 0, info)]

\* An accepted commitment confirmed, some of its HTLCs are spent, and the chain
\* went on.
ConfirmCommit ==
  /\ deal.stage = "asked" /\ deal.ok
  /\ \E preimages \in SUBSET TxHashes, height \in TxHeights,
       spent \in SUBSET (1..Len(HtlcsOic(deal.info))) :
       deal' = [stage |-> "confirmed", setup |-> deal.setup, num |-> deal.num,
                info |-> deal.info, preimages |-> preimages,
                height |-> height, spent |-> spent]

CommitNext == ProposeCommit \/ ConfirmCommit

CommitSpec == CommitInit /\ [][CommitNext]_deal

-----------------------------------------------------------------------------
(* Properties *)

TheTx == MakeCommitmentTx(deal.setup, deal.num, deal.info)

\* A request that sends the transaction and one that sends its values are
\* accepted alike: decoding the outputs gives the values back.
PhasesAgree ==
  deal.stage = "asked" =>
    (PhaseOne(deal.setup, deal.prev, deal.num, 0, deal.info.who, TheTx,
              deal.info.offered_htlcs, deal.info.received_htlcs,
              deal.info.feerate_per_kw) <=> deal.ok)

\* Remembering the funding before a splice lets nothing through on that old
\* funding that was refused before: a retransmitted first commitment pays the
\* fundee no more than the push.
SpliceWidensNothing ==
  (deal.stage = "asked" /\ deal.prev # NoDeal) =>
     (deal.prev.outpoint = deal.setup.funding_outpoint /\ deal.ok =>
        PhaseTwo(deal.setup, NoDeal, deal.num, 0, deal.info))

\* Whatever preimages are known, the parties' claims on a commitment share out
\* the whole channel, the fee with the funder.
ClaimsAddUp ==
  deal.stage = "confirmed" =>
    LET s == deal.setup
        mirror == [deal.info EXCEPT !.who = Other(@)]
    IN  claimable_balance(deal.info, deal.preimages, s.is_outbound,
                          s.channel_value_sat)
        + claimable_balance(mirror, deal.preimages, ~s.is_outbound,
                            s.channel_value_sat)
        = s.channel_value_sat

\* No value appears or disappears in a commitment: a splice lets no more through
\* on the funding before it, and the claims of both sides make up the channel.
ValueConserved == SpliceWidensNothing /\ ClaimsAddUp

\* The monitor finds in a confirmed commitment all that is ours: the main
\* output if we have one, and among the outputs it takes for HTLCs each one we
\* can spend.
WatchesCover ==
  deal.stage = "confirmed" =>
    LET main == MainIndex(deal.setup, deal.num, TheTx)
        htlc == HtlcIndices(deal.setup, deal.num, TheTx,
                            deal.info.who = "counterparty")
        spend == SpendableIndices(deal.setup, deal.num, deal.info,
                                  deal.preimages, TheTx)
    IN  /\ (main # 0) = (HolderValue(deal.info) > 0)
        /\ main # 0 => TheTx[main].value = HolderValue(deal.info)
        /\ spend \subseteq htlc

\* The recovery of our own commitment claims each HTLC at most once, in a
\* transaction whose lock time is the HTLC's and has passed, pays more than
\* dust, and once all have expired leaves none that the monitor waits for.
RecoveryClaims ==
  (deal.stage = "confirmed" /\ deal.info.who = "holder") =>
    LET oic == HtlcsOic(deal.info)
        txs == sign_holder_htlc_txs_for_recovery(deal.setup, deal.info,
                 deal.preimages, deal.spent, deal.height)
        all == UNION {t.claims : t \in txs}
        first == Len(TheTx) - Len(oic)
        waits == {i \in 1..Len(oic) : first + i \in
                    SpendableIndices(deal.setup, deal.num, deal.info,
                                     deal.preimages, TheTx)}
    IN  /\ \A t, u \in txs : t.claims \cap u.claims # {} => t = u
        /\ \A t \in txs : t.lock_time <= deal.height
        /\ \A t \in txs : \A i \in t.claims :
             oic[i].offered => t.lock_time = oic[i].h.cltv_expiry
        /\ \A i \in all : ClaimPays(deal.setup, deal.info, i)
                             >= MIN_DUST_LIMIT_SATOSHIS
        /\ all \subseteq waits \ deal.spent
        /\ (\A i \in 1..Len(oic) : oic[i].h.cltv_expiry <= deal.height) =>
             all = waits \ deal.spent

\* A confirmed commitment leaves nothing of ours behind: the monitor watches all
\* of it and a recovery claims all that is due.
ClosesCovered == WatchesCover /\ RecoveryClaims

\* A commitment is the same to everyone who reads it: the two phases that sign
\* it, the balances that are drawn from it, the monitor and the recovery.
CommitmentsAgree == PhasesAgree /\ ValueConserved /\ ClosesCovered
=============================================================================
