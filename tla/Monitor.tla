------------------------------- MODULE Monitor -------------------------------
(***************************************************************************)
(* The state a channel's monitor keeps about the chain (State of           *)
(* vls-core/src/monitor.rs) and the operators that change it: detecting    *)
(* the changes a block makes, applying them when the block is added,       *)
(* reverting them when it is removed, and deciding that the channel can be *)
(* forgotten.  Each transaction spends one outpoint, which names the       *)
(* transaction and the role of its output.                                 *)
(***************************************************************************)
EXTENDS Integers, Sequences, SequencesExt

CONSTANTS
  None,         \* Option::None
  Txs,          \* transactions that may confirm
  Spends,       \* the outpoint each of them spends
  Commitments,  \* those decode_commitment_number recognises
  Outputs,      \* their to-us ("our") and spendable HTLC ("htlc") outputs
  MinDepth      \* MIN_DEPTH: confirmations after which a channel is done

FundingOut(tx) == <<tx, "funding">>
SecondOut(tx) == <<tx, "second">>

\* The state of a new monitor: add_funding_outpoint follows at once.
NewState(tx, height) ==
  [height |-> height, funding_txid |-> tx, funding_inputs |-> {},
   funding_height |-> None, funding_outpoint |-> None,
   funding_double_spent_height |-> None,
   mutual_closing_height |-> None, unilateral_closing_height |-> None,
   closing_outpoints |-> None,
   closing_swept_height |-> None, our_output_swept_height |-> None,
   saw_block |-> FALSE, saw_forget_channel |-> FALSE]

\* ClosingOutpoints::new
NewClosingOutpoints(tx) ==
  [txid |-> tx, outputs |-> Outputs[tx], spent |-> {},
   second |-> {}, second_spent |-> {}]

is_all_spent(co) == co.outputs \subseteq co.spent /\ co.second \subseteq co.second_spent

is_closing_swept(s) == s.closing_outpoints # None /\ is_all_spent(s.closing_outpoints)

is_our_output_swept(s) ==
  /\ s.closing_outpoints # None
  /\ "our" \in s.closing_outpoints.outputs => "our" \in s.closing_outpoints.spent

-----------------------------------------------------------------------------
(* Detection: PushListener on one transaction, against the temporary state. *)

\* The changes a transaction makes, in the order they are pushed.  A spend of
\* the funding that creates the watched funding is a splice, not a close.
Changes(s, tx) ==
  LET o  == Spends[tx]
      co == s.closing_outpoints
      change(cond, kind) == IF cond THEN <<[kind |-> kind, tx |-> tx]>> ELSE <<>>
      closes == o = s.funding_outpoint /\ tx # s.funding_txid
      output(role) == co # None /\ o = <<co.txid, role>> /\ role \in co.outputs
  IN  change(o \in s.funding_inputs, "FundingInputSpent")
      \o change(output("our"), "OurOutputSpent")
      \o change(co # None /\ o \in co.second, "SecondLevelHTLCOutputSpent")
      \o change(tx = s.funding_txid, "FundingConfirmed")
      \o change(closes /\ tx \in Commitments, "UnilateralCloseConfirmed")
      \o change(closes /\ tx \notin Commitments, "MutualCloseConfirmed")
      \o change(output("htlc"), "HTLCOutputSpent")

\* apply_forward_change: the state ...
ApplyForward(s, c) ==
  CASE c.kind = "FundingConfirmed" ->
         [s EXCEPT !.funding_height = s.height,
                   !.funding_outpoint = FundingOut(c.tx),
                   !.funding_double_spent_height = None]
    [] c.kind = "FundingInputSpent" ->
         [s EXCEPT !.funding_double_spent_height = IF @ = None THEN s.height ELSE @]
    [] c.kind = "UnilateralCloseConfirmed" ->
         [s EXCEPT !.unilateral_closing_height = s.height,
                   !.closing_outpoints = NewClosingOutpoints(c.tx)]
    [] c.kind = "MutualCloseConfirmed" -> [s EXCEPT !.mutual_closing_height = s.height]
    [] c.kind = "OurOutputSpent" ->
         [s EXCEPT !.closing_outpoints.spent = @ \cup {"our"}]
    [] c.kind = "HTLCOutputSpent" ->
         [s EXCEPT !.closing_outpoints.spent = @ \cup {"htlc"},
                   !.closing_outpoints.second = @ \cup {SecondOut(c.tx)}]
    [] c.kind = "SecondLevelHTLCOutputSpent" ->
         [s EXCEPT !.closing_outpoints.second_spent = @ \cup {Spends[c.tx]}]

\* ... and the outpoints to start and to stop watching.
ForwardAdds(c) ==
  CASE c.kind = "FundingConfirmed" -> {FundingOut(c.tx)}
    [] c.kind = "UnilateralCloseConfirmed" -> {<<c.tx, role>> : role \in Outputs[c.tx]}
    [] c.kind = "HTLCOutputSpent" -> {SecondOut(c.tx)}
    [] OTHER -> {}
ForwardRemoves(c) == IF c.kind = "FundingConfirmed" THEN {} ELSE {Spends[c.tx]}

-----------------------------------------------------------------------------
(* Reverting: apply_backward_change.                                       *)

\* The assertions and unwraps that hold, or the signer panics.
BackwardDefined(s, c) ==
  CASE c.kind = "FundingConfirmed" -> s.funding_height = s.height
    [] c.kind = "UnilateralCloseConfirmed" -> s.unilateral_closing_height = s.height
    [] c.kind \in {"OurOutputSpent", "HTLCOutputSpent"} -> s.closing_outpoints # None
    [] c.kind = "SecondLevelHTLCOutputSpent" ->
         s.closing_outpoints # None /\ Spends[c.tx] \in s.closing_outpoints.second
    [] OTHER -> TRUE

ApplyBackward(s, c) ==
  CASE c.kind = "FundingConfirmed" ->
         [s EXCEPT !.funding_height = None, !.funding_outpoint = None]
    [] c.kind = "FundingInputSpent" ->
         [s EXCEPT !.funding_double_spent_height = IF @ = s.height THEN None ELSE @]
    [] c.kind = "UnilateralCloseConfirmed" ->
         [s EXCEPT !.unilateral_closing_height = None, !.closing_outpoints = None]
    [] c.kind = "MutualCloseConfirmed" -> [s EXCEPT !.mutual_closing_height = None]
    [] c.kind = "OurOutputSpent" ->
         [s EXCEPT !.closing_outpoints.spent = @ \ {"our"}]
    [] c.kind = "HTLCOutputSpent" ->
         [s EXCEPT !.closing_outpoints.spent = @ \ {"htlc"},
                   !.closing_outpoints.second = @ \ {SecondOut(c.tx)},
                   !.closing_outpoints.second_spent = @ \ {SecondOut(c.tx)}]
    [] c.kind = "SecondLevelHTLCOutputSpent" ->
         [s EXCEPT !.closing_outpoints.second_spent = @ \ {Spends[c.tx]}]

\* The caller stops watching the adds and watches the removes again.
BackwardAdds(c) ==
  CASE c.kind = "FundingConfirmed" -> {FundingOut(c.tx)}
    [] c.kind = "UnilateralCloseConfirmed" -> {<<c.tx, role>> : role \in Outputs[c.tx]}
    [] c.kind \in {"HTLCOutputSpent", "SecondLevelHTLCOutputSpent"} -> {Spends[c.tx]}
    [] OTHER -> {}
BackwardRemoves(c) ==
  CASE c.kind = "HTLCOutputSpent" -> {SecondOut(c.tx)}
    [] c.kind \in {"FundingConfirmed", "SecondLevelHTLCOutputSpent"} -> {}
    [] OTHER -> {Spends[c.tx]}

-----------------------------------------------------------------------------
(* Whole blocks.                                                           *)

\* add_change over the transactions of a block: each change is applied to the
\* temporary state before the next transaction is looked at.
BlockChanges(s, txs) ==
  FoldLeft(LAMBDA acc, tx :
             LET cs == Changes(acc.state, tx)
             IN  [state |-> FoldLeft(ApplyForward, acc.state, cs),
                  changes |-> acc.changes \o cs],
           [state |-> s, changes |-> <<>>], txs).changes

AddsOf(cs) == UNION {ForwardAdds(cs[i]) : i \in DOMAIN cs}
RemovesOf(cs) == UNION {ForwardRemoves(cs[i]) : i \in DOMAIN cs}

\* Mutant: the height advances after the changes are applied.
AddHeightLast(s, cs) ==
  LET t == FoldLeft(ApplyForward, [s EXCEPT !.saw_block = TRUE], cs)
  IN  [t EXCEPT !.height = @ + 1]

on_add_block_end(s, cs) ==
  LET t == FoldLeft(ApplyForward, [s EXCEPT !.saw_block = TRUE, !.height = @ + 1], cs)
  IN  [t EXCEPT
        !.closing_swept_height =
           IF ~is_closing_swept(s) /\ is_closing_swept(t) THEN t.height ELSE @,
        !.our_output_swept_height =
           IF ~is_our_output_swept(s) /\ is_our_output_swept(t) THEN t.height ELSE @]

\* The changes of a removed block, reverted in the order they were detected;
\* None when one of them is undefined.
RevertChanges(s, cs) ==
  FoldLeft(LAMBDA t, c :
             IF t = None THEN None
             ELSE IF BackwardDefined(t, c) THEN ApplyBackward(t, c) ELSE None,
           s, cs)

on_remove_block_end(s, cs) ==
  LET t == RevertChanges(s, cs)
  IN  IF t = None THEN None
      ELSE [t EXCEPT
             !.closing_swept_height =
                IF is_closing_swept(s) /\ ~is_closing_swept(t) THEN None ELSE @,
             !.our_output_swept_height =
                IF is_our_output_swept(s) /\ ~is_our_output_swept(t) THEN None ELSE @,
             !.height = @ - 1]

-----------------------------------------------------------------------------
(* Depths and forgetting.                                                  *)

depth_of(s, h) == IF h = None THEN 0 ELSE s.height + 1 - h

\* ChainState.closing_depth, as the policies see it
closing_depth(s) ==
  depth_of(s, IF s.mutual_closing_height # None THEN s.mutual_closing_height
              ELSE s.unilateral_closing_height)

\* Mutant: one confirmation short.
is_done_early(s) ==
  /\ s.saw_forget_channel
  /\ \E h \in {s.funding_double_spent_height, s.mutual_closing_height,
               s.closing_swept_height} : depth_of(s, h) + 1 >= MinDepth

\* The channel can be forgotten: the node said so, and its end is buried.
is_done(s) ==
  /\ s.saw_forget_channel
  /\ \E h \in {s.funding_double_spent_height, s.mutual_closing_height,
               s.closing_swept_height} : depth_of(s, h) >= MinDepth
=============================================================================
