------------------------------- MODULE Policy -------------------------------
(***************************************************************************)
(* The transaction checks of SimpleValidator and OnchainValidator          *)
(* (vls-core/src/policy) as predicates of their arguments.  Amounts are    *)
(* satoshis with the limits of the code; a transaction is a record of the  *)
(* fields the checks read, a script is a number or the record its parser   *)
(* returns, and a key path decides with a script whether the wallet can    *)
(* spend it.                                                               *)
(*                                                                         *)
(* A refusal that goes through policy_err! can be turned into a warning by *)
(* the filter of the policy; the other refusals cannot.  Sums are checked  *)
(* for overflow in the code; the amounts of an instance are far below it.  *)
(***************************************************************************)
EXTENDS Integers, Sequences, FiniteSets

CONSTANTS
  policy,       \* the SimplePolicy or OnchainPolicy of the node
  WalletPairs,  \* pairs <<path, script>> the wallet can spend
  U32,          \* the number of u32 values: 2^32, less where TLC counts
  AllowedPairs  \* pairs <<path, script>> the allowlist contains

LOCAL INSTANCE SequencesExt
LOCAL INSTANCE Folds

NoScript == 0
NoPath == 0

MIN_DUST_LIMIT_SATOSHIS == 330
MIN_CHAN_DUST_LIMIT_SATOSHIS == 354
MAX_CLTV_EXPIRY == 500000000
MAX_CHAIN_LAG == 2
MAX_ONCHAIN_TX_SIZE == 32 * 1024
SAFE_COMMITMENT_TYPE == {"StaticRemoteKey", "AnchorsZeroFeeHtlc"}
ANCHOR_SEQS == {1}
NON_ANCHOR_SEQS == {0, -3, -1}    \* the last two as signed numbers

is_anchors(setup) == setup.commitment_type \in {"Anchors", "AnchorsZeroFeeHtlc"}

is_zero_fee_htlc(setup) == setup.commitment_type = "AnchorsZeroFeeHtlc"

SumOf(f(_), s) == FoldLeft(LAMBDA acc, x : acc + f(x), 0, s)

TotalSat(s) == SumOf(LAMBDA h : h.value_sat, s)

-----------------------------------------------------------------------------
(* Refusals *)

\* PolicyFilter::filter: the first rule that matches a tag decides, and no rule
\* is an error.  A rule's tags are the ones its text or prefix matches.
FilterError(tag) ==
  LET matching == SelectSeq(policy.rules, LAMBDA r : tag \in r.tags)
  IN  matching = <<>> \/ Head(matching).action = "Error"

\* policy_err!: the check of `tag` refuses unless the filter demotes it.
Requires(tag, ok) == ok \/ ~FilterError(tag)

-----------------------------------------------------------------------------
(* Ranges *)

\* The fee of a transaction at the highest feerate.
MaxFeeFor(weight) == (policy.max_feerate_per_kw * weight) \div 1000

validate_delay(tag, delay) ==
  Requires(tag, delay \in policy.min_delay..policy.max_delay)

validate_expiry(expiry, current_height) ==
  LET tag == "policy-commitment-htlc-cltv-range"
  IN  /\ Requires(tag, expiry < MAX_CLTV_EXPIRY)
      /\ policy.use_chain_state =>
           Requires(tag, expiry \in (current_height + policy.min_delay)..
                                    (current_height + policy.max_delay))

\* Mutant: the feerate is rounded down.
EstimateFloor(fee, weight) == ((fee * 1000) \div weight) % U32

\* estimate_feerate_per_kw: the highest feerate that gives this fee, cast to
\* u32.
estimate_feerate_per_kw(fee, weight) ==
  ((fee * 1000 + 999) \div weight) % U32

validate_fee(tag, sum_inputs, sum_outputs, weight) ==
  LET rate == estimate_feerate_per_kw(sum_inputs - sum_outputs, weight)
  IN  /\ sum_inputs >= sum_outputs
      /\ Requires(tag, rate >= policy.min_feerate_per_kw)
      /\ Requires(tag, rate <= policy.max_feerate_per_kw)

\* validate_beneficial_value: what does not come back to us is a fee.
validate_beneficial_value(sum_our_inputs, sum_our_outputs, weight) ==
  /\ sum_our_inputs >= sum_our_outputs
  /\ \/ estimate_feerate_per_kw(sum_our_inputs - sum_our_outputs, weight)
          <= policy.max_feerate_per_kw
     \/ policy.disable_beneficial_balance_checks
     \/ ~FilterError("policy-onchain-fee-range")

outside_epsilon_range(value0, value1) ==
  (IF value0 > value1 THEN value0 - value1 ELSE value1 - value0)
    > policy.epsilon_sat

\* can_spend or allowlist_contains.
Ours(path, script) == <<path, script>> \in WalletPairs \cup AllowedPairs

validate_setup_channel(setup, holder_shutdown_key_path) ==
  /\ Requires("policy-channel-safe-type",
              setup.commitment_type \in SAFE_COMMITMENT_TYPE)
  /\ validate_delay("policy-channel-contest-delay-range-holder",
                    setup.counterparty_selected_contest_delay)
  /\ validate_delay("policy-channel-contest-delay-range-counterparty",
                    setup.holder_selected_contest_delay)
  /\ setup.holder_shutdown_script # NoScript =>
       Requires("policy-mutual-destination-allowlisted",
                Ours(holder_shutdown_key_path, setup.holder_shutdown_script))

validate_channel_value(setup) ==
  Requires("policy-funding-max",
           setup.channel_value_sat <= policy.max_channel_size_sat)
=============================================================================
