-------------------------------- MODULE Onchain --------------------------------
(***************************************************************************)
(* On-chain transactions of the node's wallet: withdrawals, and the         *)
(* transactions that fund its channels.  A request to sign one is checked   *)
(* against the channels and the allowlist (Node::check_onchain_tx), may ask *)
(* the approver about outputs nobody knows (handle_proposed_onchain), and   *)
(* is then signed (unchecked_sign_onchain_tx), which looks the channels up  *)
(* again.  Requests of other connections run between these steps.  A        *)
(* channel may move past its initial commitment only when its funding is    *)
(* buried and unspent (OnchainValidator), which the blocks decide.          *)
(*                                                                         *)
(* An output names whom its script belongs to.  Values are in units of the  *)
(* largest fee the policy allows a transaction.                             *)
(***************************************************************************)
EXTENDS Integers, FiniteSets, Sequences, SequencesExt

CONSTANTS
  Withdrawals,    \* transactions: [id, ins, version, native, outs]
  Funded,         \* the channels, with the setups they may get: ch -> set of setups
  SplicedTo,        \* ch -> the setups a splice may give it
  OnchainEntries,   \* entries the operator may put on the allowlist
  FeeLimit,       \* limit of fee_velocity_control in one window
  MaxCommit,      \* bound: holder commitments of a channel
  MaxOnchain      \* bound: checks of transactions

VARIABLES
  slots,     \* ch -> [ready, setup, next_holder_commit_num, splice, seen, spent]
  allowlist,
  fees,      \* what fee_velocity_control holds
  request,   \* the request being handled
  watched,   \* ch -> inputs of funding transactions watched for it, as stored
  signed,    \* history: what was signed
  buried     \* history: channels whose funding was once buried

onchainVars == <<slots, allowlist, fees, request, watched, signed, buried>>

NoSetup == [tx |-> "none", vout |-> 0, value |-> 0, outbound |-> FALSE, push |-> 0]
NoRequest == [pc |-> "idle", tx |-> CHOOSE tx \in Withdrawals : TRUE, known |-> {},
              approved |-> FALSE]

OnchainInit ==
  /\ slots = [ch \in DOMAIN Funded |->
                [ready |-> FALSE, setup |-> NoSetup, next_holder_commit_num |-> 0,
                 splice |-> FALSE, seen |-> FALSE, spent |-> FALSE]]
  /\ allowlist = {}
  /\ fees = 0
  /\ request = NoRequest
  /\ watched = [ch \in DOMAIN Funded |-> {}]
  /\ signed = {}
  /\ buried = {}

-----------------------------------------------------------------------------
(* The check. *)

\* find_channel_with_funding_outpoint: stubs are passed over.
ChannelsAt(tx, vout) ==
  {ch \in DOMAIN slots : slots[ch].ready /\ slots[ch].setup.tx = tx.id /\ slots[ch].setup.vout = vout}

ChannelsOf(tx) == UNION {ChannelsAt(tx, n) : n \in DOMAIN tx.outs}

\* Wallet::can_spend: the script is one of the wallet's at the output's path.
can_spend(out) == out.path /\ out.to = "wallet"

\* Wallet::allowlist_contains: an address, or with a path a key below an xpub.
allowlist_contains(out) == <<"script", out.to>> \in allowlist \/ (out.path /\ <<"xpub", out.to>> \in allowlist)

\* Mutant: the initial holder commitment need not have been validated.
FundsUnsigned(ch, out) ==
  /\ out.value = slots[ch].setup.value
  /\ out.to = ch
  /\ slots[ch].setup.outbound
  /\ slots[ch].setup.push = 0

\* An output that funds a channel: value and script are the channel's, its initial
\* holder commitment was validated and nothing after it, the channel is ours to
\* fund and nothing is pushed.
FundsChannel(ch, out) ==
  /\ out.value = slots[ch].setup.value
  /\ out.to = ch
  /\ slots[ch].next_holder_commit_num = 1
  /\ slots[ch].setup.outbound
  /\ slots[ch].setup.push = 0

\* What validate_onchain_tx makes of an output, in its order.
Destination(tx, n) ==
  LET out == tx.outs[n]
  IN IF out.path THEN IF can_spend(out) \/ allowlist_contains(out) THEN "ours" ELSE "refused"
     ELSE IF allowlist_contains(out) THEN "ours"
     ELSE IF ChannelsAt(tx, n) # {}
     THEN IF \A ch \in ChannelsAt(tx, n) : FundsChannel(ch, out) THEN "ours" ELSE "refused"
     ELSE "unknown"

Destinations(tx) == {Destination(tx, n) : n \in DOMAIN tx.outs}

SumOf(values) == FoldFunction(+, 0, values)
InputSum(tx) == SumOf([i \in tx.ins |-> i.value])
Fee(tx) == InputSum(tx) - SumOf([n \in DOMAIN tx.outs |-> tx.outs[n].value])

\* The form of the transaction; one that funds a channel must not be malleable.
WellFormed(tx) == tx.version = 2 /\ (ChannelsOf(tx) # {} => tx.native)

\* handle_proposed_onchain: the check, and what it leaves to the approver.  Outputs
\* are looked at before the fee, so a transaction with an unknown output is neither
\* held to the fee range nor counted by the velocity control.
CheckOnchain(tx) ==
  /\ request.pc = "idle"
  /\ Cardinality(signed) < MaxOnchain
  /\ WellFormed(tx) /\ "refused" \notin Destinations(tx)
  /\ IF "unknown" \in Destinations(tx)
     THEN request' = [pc |-> "approve", tx |-> tx, known |-> ChannelsOf(tx), approved |-> FALSE]
          /\ fees' = fees
     ELSE /\ Fee(tx) \in 0..1
          /\ fees + Fee(tx) <= FeeLimit
          /\ fees' = fees + Fee(tx)
          /\ request' = [pc |-> "sign", tx |-> tx, known |-> ChannelsOf(tx), approved |-> FALSE]
  /\ UNCHANGED <<slots, allowlist, watched, signed, buried>>

Approve(yes) ==
  /\ request.pc = "approve"
  /\ request' = IF yes THEN [request EXCEPT !.pc = "sign", !.approved = TRUE] ELSE NoRequest
  /\ UNCHANGED <<slots, allowlist, fees, watched, signed, buried>>

-----------------------------------------------------------------------------
(* The signature. *)

\* An input is signed if its script is known and its key was named: by a path, or by
\* a channel's unilateral close key (sign_withdrawal).  A key that does not fit the
\* script stops the request (a taproot output) or the signer (the others).
Witness(in) ==
  IF in.script = "unknown" \/ ~in.key THEN "none"
  ELSE IF in.fits THEN "signed"
  ELSE IF in.script = "p2tr" THEN "error" ELSE "panic"

Witnesses(tx) == {Witness(i) : i \in tx.ins}

\* unchecked_sign_onchain_tx: the channels funded by the outputs are looked up again;
\* each gets watches on the inputs, and the channels and the tracker are stored
\* before the reply.
SignOnchain ==
  LET found == ChannelsOf(request.tx)
      ok == Witnesses(request.tx) \subseteq {"none", "signed"}
  IN /\ request.pc = "sign"
     /\ "panic" \notin Witnesses(request.tx)
     /\ request' = NoRequest
     /\ watched' = IF ok THEN [ch \in DOMAIN watched |->
                                 IF ch \in found THEN watched[ch] \union request.tx.ins ELSE watched[ch]]
                   ELSE watched
     /\ signed' = IF ok THEN signed \union {[tx |-> request.tx, known |-> request.known,
                                             approved |-> request.approved]}
                  ELSE signed
     /\ UNCHANGED <<slots, allowlist, fees, buried>>

\* The process stops and starts again.  The fee velocity was not stored by the check.
RestartOnchain ==
  /\ request.pc # "idle"
  /\ request' = NoRequest
  /\ fees' = 0
  /\ UNCHANGED <<slots, allowlist, watched, signed, buried>>

-----------------------------------------------------------------------------
(* Requests of the channels, and the chain. *)

SetupFunded(ch, setup) ==
  /\ ~slots[ch].ready
  /\ slots' = [slots EXCEPT ![ch].ready = TRUE, ![ch].setup = setup]
  /\ UNCHANGED <<allowlist, fees, request, watched, signed, buried>>

\* The monitor of a channel counts from the block in which it saw the funding.
FundingDepth(ch) == IF slots[ch].seen THEN 1 ELSE 0
ClosingDepth(ch) == IF slots[ch].spent THEN 1 ELSE 0

\* OnchainValidator::ensure_funding_buried_and_unspent
FundingActive(ch, commit_num) ==
  commit_num > 0 /\ ~slots[ch].splice => FundingDepth(ch) >= 1 /\ ClosingDepth(ch) = 0

\* The next holder commitment is validated, and the one before it revoked.
AdvanceHolder(ch) ==
  /\ slots[ch].ready
  /\ slots[ch].next_holder_commit_num < MaxCommit
  /\ FundingActive(ch, slots[ch].next_holder_commit_num)
  /\ slots' = [slots EXCEPT ![ch].next_holder_commit_num = @ + 1]
  /\ UNCHANGED <<allowlist, fees, request, watched, signed, buried>>

\* A splice moves the channel to an output of another transaction; until it is
\* locked the burial of the new funding is not asked for.
SpliceFunded(ch, setup) ==
  /\ slots[ch].ready /\ slots[ch].next_holder_commit_num > 1
  /\ ~slots[ch].splice /\ setup # slots[ch].setup
  /\ slots' = [slots EXCEPT ![ch].setup = setup, ![ch].splice = TRUE,
                            ![ch].seen = FALSE]
  /\ UNCHANGED <<allowlist, fees, request, watched, signed, buried>>

LockSplice(ch) ==
  /\ slots[ch].splice
  /\ slots' = [slots EXCEPT ![ch].splice = FALSE]
  /\ UNCHANGED <<allowlist, fees, request, watched, signed, buried>>

Allow(entries) ==
  /\ allowlist' = entries
  /\ UNCHANGED <<slots, fees, request, watched, signed, buried>>

\* A block confirms the funding of channels, or is taken back; only the channels
\* that exist by then see it.
Sees(ch, id) == slots[ch].ready /\ slots[ch].setup.tx = id

Confirm(id, there) ==
  /\ \E ch \in DOMAIN slots : Sees(ch, id) /\ slots[ch].seen # there
  /\ slots' = [ch \in DOMAIN slots |->
                 IF Sees(ch, id) THEN [slots[ch] EXCEPT !.seen = there] ELSE slots[ch]]
  /\ buried' = buried \union {ch \in DOMAIN slots : there /\ Sees(ch, id)}
  /\ UNCHANGED <<allowlist, fees, request, watched, signed>>

\* A block holds a transaction that closes the channel, or is taken back.
SpendFunding(ch, there) ==
  /\ slots[ch].seen /\ slots[ch].spent # there
  /\ slots' = [slots EXCEPT ![ch].spent = there]
  /\ UNCHANGED <<allowlist, fees, request, watched, signed, buried>>

OnchainNext ==
  \/ \E tx \in Withdrawals : CheckOnchain(tx)
  \/ \E yes \in BOOLEAN : Approve(yes)
  \/ SignOnchain
  \/ RestartOnchain
  \/ \E ch \in DOMAIN Funded : \E setup \in Funded[ch] : SetupFunded(ch, setup)
  \/ \E ch \in DOMAIN Funded : AdvanceHolder(ch)
  \/ \E ch \in DOMAIN Funded : \E setup \in SplicedTo[ch] : SpliceFunded(ch, setup)
  \/ \E ch \in DOMAIN Funded : LockSplice(ch)
  \/ \E entries \in {{}, OnchainEntries} : Allow(entries)
  \/ \E id \in {tx.id : tx \in Withdrawals}, there \in BOOLEAN : Confirm(id, there)
  \/ \E ch \in DOMAIN Funded, there \in BOOLEAN : SpendFunding(ch, there)

OnchainSpec == OnchainInit /\ [][OnchainNext]_onchainVars

-----------------------------------------------------------------------------
(* Properties. *)

\* Whatever runs between the check, the approval and the signature: every channel
\* the check saw behind an output of a signed transaction holds a countersigned
\* initial commitment over exactly the value paid into it, so the money can be taken
\* back, and the inputs are watched for it while this is its funding.  A transaction signed without approval
\* pays only the wallet, the channels and whom the operator once allowed.  And no
\* channel leaves its initial commitment before its funding was buried.
OnchainSafe ==
  /\ \A s \in signed :
       /\ \A ch \in s.known :
            /\ slots[ch].next_holder_commit_num >= 1
            /\ slots[ch].setup.tx = s.tx.id => s.tx.ins \subseteq watched[ch]
            /\ \E n \in DOMAIN s.tx.outs : s.tx.outs[n].to = ch
       /\ ~s.approved => \A n \in DOMAIN s.tx.outs :
            \/ s.tx.outs[n].to \in s.known \union {"wallet"}
            \/ \E e \in OnchainEntries : e[2] = s.tx.outs[n].to
  /\ \A ch \in DOMAIN slots : slots[ch].next_holder_commit_num > 1 => ch \in buried
=============================================================================
