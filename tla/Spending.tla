------------------------------ MODULE Spending ------------------------------
(***************************************************************************)
(* The other transactions a channel signs (vls-core/src/channel.rs and     *)
(* policy/simple_validator.rs): mutual closes, given as a transaction      *)
(* whose outputs the signer has to attribute or as values; HTLC            *)
(* transactions, decoded and rebuilt; sweeps of what a close left; and the *)
(* change output that spend_spendable_outputs adds.                        *)
(*                                                                         *)
(* A transaction is [version, seqs, outputs, lock_time]: the sequence      *)
(* numbers of its inputs and its outputs [value_sat, script].  Scripts are *)
(* numbers, whose order is the order of their bytes.                       *)
(***************************************************************************)
EXTENDS CommitTx

CONSTANTS
  CloseSetups,    \* channels to close
  CloseValues,    \* values of the non-funder in commitments and closes
  CloseFees,      \* fees of commitments and closes
  Scripts,        \* output scripts
  Paths,          \* wallet paths
  SweepOutputs,   \* lists of outputs of a sweep
  SweepSeqs,      \* lists of input sequence numbers of a sweep
  SweepAmounts,   \* values of the input to sweep
  Descriptors,    \* lists of spendable outputs [outpoint, value_sat, weight]
  LockTimes,      \* lock times
  HtlcRates,      \* feerates of HTLC transactions
  HtlcSats        \* values of HTLCs

VARIABLE spend

LOCAL INSTANCE SequencesExt

\* The weight of an unsigned transaction with p2wpkh outputs.
TxWeight(ins, outs) == 40 + 164 * ins + 124 * outs

mutual_close_tx_weight(outs) == TxWeight(1, outs) + 222

estimated_sweep_tx_weight(tx) == TxWeight(Len(tx.seqs), Len(tx.outputs)) + 220

-----------------------------------------------------------------------------
(* Mutual close *)

\* The smaller of a value in two commitments; -1 (None) when they are too far
\* apart or one is missing.
Nearer(hval, cval) ==
  IF outside_epsilon_range(hval, cval) THEN -1
  ELSE IF hval > cval THEN cval ELSE hval

minimum_to_holder_value(es) ==
  IF es.holder = NoDeal \/ es.counterparty = NoDeal THEN -1
  ELSE Nearer(HolderValue(es.holder), HolderValue(es.counterparty))

minimum_to_counterparty_value(es) ==
  IF es.holder = NoDeal \/ es.counterparty = NoDeal THEN -1
  ELSE Nearer(CounterpartyValue(es.holder), CounterpartyValue(es.counterparty))

\* LDK's ClosingTransaction: outputs of value, in order of value and script.
ClosingOutputs(a) ==
  LET out(v, s) == IF v > 0 THEN <<[value_sat |-> v, script |-> s]>> ELSE <<>>
      h == out(a.to_holder, a.holder_script)
      c == out(a.to_counterparty, a.counterparty_script)
      before(x, y) == \/ x.value_sat < y.value_sat
                      \/ x.value_sat = y.value_sat /\ x.script <= y.script
  IN  IF h = <<>> \/ c = <<>> \/ before(h[1], c[1]) THEN h \o c ELSE c \o h

WithoutHtlcs(info) == info.offered_htlcs = <<>> /\ info.received_htlcs = <<>>

validate_mutual_close_tx(setup, es, a) ==
  LET dest   == "policy-mutual-destination-allowlisted"
      value  == "policy-mutual-value-matches-commitment"
      near(v, infos(_)) == \A i \in {es.holder, es.counterparty} :
                             Requires(value, ~outside_epsilon_range(v, infos(i)))
  IN  /\ es.holder # NoDeal /\ es.counterparty # NoDeal
      /\ a.to_holder > 0 => Requires(dest, a.holder_script # NoScript)
      /\ a.to_counterparty > 0 => Requires(dest, a.counterparty_script # NoScript)
      /\ (setup.holder_shutdown_script # NoScript /\ a.to_holder > 0) =>
           Requires(dest, a.holder_script = setup.holder_shutdown_script)
      /\ Requires("policy-mutual-no-pending-htlcs",
                  WithoutHtlcs(es.holder) /\ WithoutHtlcs(es.counterparty))
      /\ validate_fee("policy-mutual-fee-range", setup.channel_value_sat,
                      a.to_holder + a.to_counterparty,
                      mutual_close_tx_weight(Len(ClosingOutputs(a))))
      /\ IF setup.is_outbound THEN near(a.to_counterparty, CounterpartyValue)
                              ELSE near(a.to_holder, HolderValue)
      /\ a.holder_script # NoScript =>
           Requires(dest, Ours(a.path, a.holder_script))

\* The two ways to read the outputs, the likelier one first.
CloseReadings(es, outputs, paths) ==
  LET arg(th, tc, hs, cs, path) ==
        [to_holder |-> th, to_counterparty |-> tc, holder_script |-> hs,
         counterparty_script |-> cs, path |-> path]
      one == outputs[1]
      two == outputs[2]
      larger == minimum_to_holder_value(es) > minimum_to_counterparty_value(es)
      ours   == arg(one.value_sat, 0, one.script, NoScript, paths[1])
      theirs == arg(0, one.value_sat, NoScript, one.script, NoPath)
      first  == arg(one.value_sat, two.value_sat, one.script, two.script, paths[1])
      second == arg(two.value_sat, one.value_sat, two.script, one.script, paths[2])
  IN  IF Len(outputs) = 1
      THEN IF larger THEN <<ours, theirs>> ELSE <<theirs, ours>>
      ELSE IF larger THEN <<second, first>> ELSE <<first, second>>

\* decode_and_validate_mutual_close_tx: the first reading that passes has to
\* give the transaction back.
decode_and_validate_mutual_close_tx(setup, es, outputs, paths) ==
  /\ Len(outputs) \in 1..2
  /\ Requires("policy-mutual-other",
              es.holder # NoDeal /\ es.counterparty # NoDeal)
  /\ LET good == SelectSeq(CloseReadings(es, outputs, paths),
                   LAMBDA a : validate_mutual_close_tx(setup, es, a))
     IN  /\ good # <<>>
         /\ Requires("policy-onchain-format-standard",
                     ClosingOutputs(good[1]) = outputs)

-----------------------------------------------------------------------------
(* HTLC transactions *)

\* LDK's build_htlc_transaction for an HTLC of `sat`, as the fields the sighash
\* covers.
build_htlc_transaction(setup, rate, delay, offered, sat, cltv) ==
  [version |-> 2, lock_time |-> IF offered THEN cltv ELSE 0,
   sequence |-> IF is_anchors(setup) THEN 1 ELSE 0, delay |-> delay,
   value_sat |-> sat -
     (IF is_zero_fee_htlc(setup) THEN 0
      ELSE (rate * (IF offered THEN htlc_timeout_tx_weight(setup)
                               ELSE htlc_success_tx_weight(setup))) \div 1000)]

\* decode_and_validate_htlc_tx and validate_htlc_tx, as in sign_htlc_tx: the
\* feerate comes from the fee, and the transaction at that rate is the same.
sign_htlc_tx(setup, is_counterparty, tx, offered, sat) ==
  LET delay == IF is_counterparty THEN setup.holder_selected_contest_delay
               ELSE setup.counterparty_selected_contest_delay
      rate  == IF is_zero_fee_htlc(setup) THEN 0
               ELSE estimate_feerate_per_kw(sat - tx.value_sat,
                      IF offered THEN htlc_timeout_tx_weight(setup)
                                 ELSE htlc_success_tx_weight(setup))
  IN  /\ sat >= tx.value_sat
      /\ tx = build_htlc_transaction(setup, rate, delay, offered, sat,
                                     IF offered THEN tx.lock_time ELSE 0)
      /\ Requires("policy-htlc-locktime", offered => tx.lock_time # 0)
      /\ ~is_zero_fee_htlc(setup) =>
           Requires("policy-htlc-fee-range", rate >= policy.min_feerate_per_kw)
      /\ Requires("policy-htlc-fee-range", rate <= policy.max_feerate_per_kw)

-----------------------------------------------------------------------------
(* Sweeps *)

\* Mutant: only the first output has to come home.
SweepFirstOutput(tx, amount, path) ==
  /\ tx.version = 2
  /\ Ours(path, tx.outputs[1].script)

validate_sweep(tx, amount, path) ==
  /\ tx.version = 2
  /\ Len(tx.seqs) = 1 =>
       validate_fee("policy-sweep-fee-range", amount, TotalSat(tx.outputs),
                    estimated_sweep_tx_weight(tx))
  /\ \A i \in 1..Len(tx.outputs) :
       Requires("policy-sweep-destination-allowlisted",
                Ours(path, tx.outputs[i].script))

Matured(tx, height) == tx.lock_time <= height + MAX_CHAIN_LAG

validate_delayed_sweep(setup, tx, height, amount, path) ==
  /\ validate_sweep(tx, amount, path)
  /\ Matured(tx, height)
  /\ tx.seqs[1] = setup.counterparty_selected_contest_delay

\* An HTLC of the counterparty's commitment: `cltv` is its expiry if it is one
\* the counterparty received, 0 if it offered it.
validate_counterparty_htlc_sweep(setup, tx, height, cltv, amount, path) ==
  /\ validate_sweep(tx, amount, path)
  /\ IF cltv > 0 THEN tx.lock_time <= cltv ELSE Matured(tx, height)
  /\ tx.seqs[1] \in IF is_anchors(setup) THEN ANCHOR_SEQS ELSE NON_ANCHOR_SEQS

validate_justice_sweep(tx, height, amount, path) ==
  /\ validate_sweep(tx, amount, path)
  /\ Matured(tx, height)
  /\ tx.seqs[1] \in NON_ANCHOR_SEQS

-----------------------------------------------------------------------------
(* Change *)

CHANGE_DUST == 294
CHANGE_WEIGHT == 124

\* maybe_add_change_output: the value of the change output, 0 for none, -1 for
\* an error.  `weight` is the weight without change; divisions truncate.
maybe_add_change_output(input, outs, weight, rate) ==
  LET left   == input - TotalSat(outs)
      fee(w) == (w * rate) \div 1000
      change == left - fee(weight + CHANGE_WEIGHT)
  IN  IF Len(outs) > 0 /\ left <= 0 THEN -1
      ELSE IF change >= CHANGE_DUST THEN change
      ELSE IF left - fee(weight) < 0 THEN -1 ELSE 0

SpendWeight(descriptors, outs) ==
  TxWeight(Len(descriptors), Len(outs)) + 2
    + SumOf(LAMBDA d : d.weight, descriptors)

\* create_spending_transaction: no output is spent twice.
create_spending_transaction(descriptors, outs, rate) ==
  IF \E i, j \in 1..Len(descriptors) :
       i # j /\ descriptors[i].outpoint = descriptors[j].outpoint
  THEN -1
  ELSE maybe_add_change_output(TotalSat(descriptors), outs,
                               SpendWeight(descriptors, outs), rate)

-----------------------------------------------------------------------------
(* Steps *)

SpendInit == spend = NoDeal

\* Our and their commitment give the side that does not pay fees `v` and `w`.
CloseState(setup, v, w, fee, htlcs) ==
  LET rest == setup.channel_value_sat - fee
      info(who, x) ==
        LET h == IF setup.is_outbound THEN rest - x ELSE x
        IN  IF who = "holder" THEN Info2(who, rest - h, h, htlcs, <<>>, 0)
                              ELSE Info2(who, h, rest - h, <<>>, htlcs, 0)
  IN  [holder |-> info("holder", v), counterparty |-> info("counterparty", w)]

\* sign_mutual_close_tx.
CloseByTx ==
  /\ spend = NoDeal
  /\ \E setup \in CloseSetups, v \in CloseValues, w \in CloseValues,
       fee \in CloseFees, htlcs \in {<<>>, <<[value_sat |-> 0]>>},
       x \in CloseValues, left \in CloseFees, s \in Scripts, t \in Scripts,
       path \in Paths, one \in BOOLEAN, swap \in BOOLEAN :
       LET es  == CloseState(setup, v, w, fee, htlcs)
           y   == setup.channel_value_sat - left - x
           a   == [value_sat |-> x, script |-> s]
           b   == [value_sat |-> y, script |-> t]
           outs == IF one THEN <<b>> ELSE IF swap THEN <<b, a>> ELSE <<a, b>>
       IN  /\ spend' = [stage |-> "close", setup |-> setup, es |-> es,
                        outputs |-> outs, paths |-> [i \in 1..2 |-> path],
                        ok |-> decode_and_validate_mutual_close_tx(setup, es,
                                 outs, [i \in 1..2 |-> path])]

\* sign_mutual_close_tx_phase2.
CloseByValues ==
  /\ spend = NoDeal
  /\ \E setup \in CloseSetups, v \in CloseValues, w \in CloseValues,
       fee \in CloseFees, x \in CloseValues, left \in CloseFees,
       s \in Scripts \cup {NoScript}, t \in Scripts, path \in Paths :
       LET es  == CloseState(setup, v, w, fee, <<>>)
           y   == setup.channel_value_sat - left - x
           a   == [to_holder |-> IF setup.is_outbound THEN y ELSE x,
                   to_counterparty |-> IF setup.is_outbound THEN x ELSE y,
                   holder_script |-> s, counterparty_script |-> t, path |-> path]
       IN  spend' = [stage |-> "close", setup |-> setup, es |-> es,
                     outputs |-> ClosingOutputs(a), paths |-> [i \in 1..2 |-> path],
                     ok |-> validate_mutual_close_tx(setup, es, a)]

\* sign_delayed_sweep, sign_counterparty_htlc_sweep and sign_justice_sweep at
\* height 10.
SignSweep ==
  /\ spend = NoDeal
  /\ \E setup \in CloseSetups, kind \in {"delayed", "htlc", "justice"},
       outs \in SweepOutputs, seqs \in SweepSeqs, amount \in SweepAmounts,
       lock \in LockTimes, cltv \in LockTimes, path \in Paths :
       LET tx == [version |-> 2, seqs |-> seqs, outputs |-> outs,
                  lock_time |-> lock]
       IN  spend' =
             [stage |-> "sweep", setup |-> setup, tx |-> tx, amount |-> amount,
              cltv |-> cltv, path |-> path, kind |-> kind,
              ok |-> CASE kind = "delayed" ->
                            validate_delayed_sweep(setup, tx, 10, amount, path)
                       [] kind = "htlc" ->
                            validate_counterparty_htlc_sweep(setup, tx, 10, cltv,
                                                             amount, path)
                       [] OTHER -> validate_justice_sweep(tx, 10, amount, path)]

\* sign_holder_htlc_tx and sign_counterparty_htlc_tx for the transaction a node
\* builds at the feerate of the commitment, with either side's delay.
SignHtlc ==
  /\ spend = NoDeal
  /\ \E setup \in CloseSetups, cp \in BOOLEAN, offered \in BOOLEAN,
       rate \in HtlcRates, sat \in HtlcSats, mix \in BOOLEAN :
       LET delay == IF cp # mix THEN setup.holder_selected_contest_delay
                    ELSE setup.counterparty_selected_contest_delay
           tx == build_htlc_transaction(setup, rate, delay, offered, sat, 9)
       IN  /\ tx.value_sat > 0
           /\ spend' = [stage |-> "htlc", setup |-> setup, cp |-> cp,
                        offered |-> offered, sat |-> sat, rate |-> rate,
                        tx |-> tx, mix |-> mix,
                        ok |-> sign_htlc_tx(setup, cp, tx, offered, sat)]

\* spend_spendable_outputs.
SpendOutputs ==
  /\ spend = NoDeal
  /\ \E descriptors \in Descriptors, outs \in SweepOutputs \cup {<<>>},
       rate \in HtlcRates :
       spend' = [stage |-> "change", descriptors |-> descriptors,
                 outputs |-> outs, rate |-> rate,
                 change |-> create_spending_transaction(descriptors, outs, rate)]

SpendNext == CloseByTx \/ CloseByValues \/ SignSweep \/ SignHtlc \/ SpendOutputs

SpendSpec == SpendInit /\ [][SpendNext]_spend

-----------------------------------------------------------------------------
(* Properties *)

OursIn(outputs, paths) ==
  FoldLeft(LAMBDA n, i : n + (IF Ours(paths[i], outputs[i].script)
                              THEN outputs[i].value_sat ELSE 0),
           0, [i \in 1..Len(outputs) |-> i])

\* A mutual close that is signed gives us, under scripts of our own, what
\* either current commitment gives us but for epsilon and, if we are the
\* funder, the highest fee; no HTLC is pending in either.
CloseKeepsValue ==
  (spend.stage = "close" /\ spend.ok) =>
    \A info \in {spend.es.holder, spend.es.counterparty} :
      /\ WithoutHtlcs(info)
      /\ HolderValue(info) <=
           OursIn(spend.outputs, spend.paths) + policy.epsilon_sat
             + (IF spend.setup.is_outbound
                THEN MaxFeeFor(mutual_close_tx_weight(Len(spend.outputs))) + 1
                ELSE 0)

\* A sweep that is signed pays every output to our own scripts; with a single
\* input it also loses no more than the highest fee and can be mined at once.
SweepsComeHome ==
  (spend.stage = "sweep" /\ spend.ok) =>
    /\ \A i \in 1..Len(spend.tx.outputs) :
         Ours(spend.path, spend.tx.outputs[i].script)
    /\ Len(spend.tx.seqs) = 1 =>
         /\ spend.amount - TotalSat(spend.tx.outputs) <=
              MaxFeeFor(estimated_sweep_tx_weight(spend.tx)) + 1
         /\ spend.tx.lock_time <=
              IF spend.cltv > 0 /\ spend.kind = "htlc" THEN spend.cltv
              ELSE 10 + MAX_CHAIN_LAG

\* The HTLC transaction at any feerate the policy allows, but for two units of
\* rounding at the top, is recomposed and signed, and one with the delay of the
\* other side is not.
HtlcTxsSigned ==
  spend.stage = "htlc" =>
    LET own == \/ ~spend.mix
               \/ spend.setup.holder_selected_contest_delay =
                    spend.setup.counterparty_selected_contest_delay
    IN  /\ spend.ok => own
        /\ (own /\ spend.rate \in policy.min_feerate_per_kw..
                                  (policy.max_feerate_per_kw - 2)) => spend.ok

\* The transaction that spend_spendable_outputs finishes spends different
\* outputs, pays the feerate it was asked for, with or without change, and
\* gives no more than the price of a change output away.
ChangeKeepsRate ==
  (spend.stage = "change" /\ spend.change >= 0) =>
    LET fee == TotalSat(spend.descriptors) - TotalSat(spend.outputs) - spend.change
        extra == IF spend.change > 0 THEN CHANGE_WEIGHT ELSE 0
        due == ((SpendWeight(spend.descriptors, spend.outputs) + extra)
                  * spend.rate) \div 1000
        spent == {spend.descriptors[i].outpoint : i \in 1..Len(spend.descriptors)}
    IN  /\ Cardinality(spent) = Len(spend.descriptors)
        /\ fee \in due..(due + CHANGE_DUST + (CHANGE_WEIGHT * spend.rate) \div 1000 + 1)

\* No value is lost in what ends a channel: the mutual close, the sweeps of our
\* outputs, the HTLC transactions and the one that gathers what was swept.
SpendsKeepValue ==
  CloseKeepsValue /\ SweepsComeHome /\ HtlcTxsSigned /\ ChangeKeepsRate

\* From the commitment that is signed to the last output that is swept, everyone
\* who reads a transaction finds the same values in it, and ours come home.
TransactionsKeepValue == CommitmentsAgree /\ SpendsKeepValue
=============================================================================
