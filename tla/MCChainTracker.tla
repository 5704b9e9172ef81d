--------------------------- MODULE MCChainTracker ---------------------------
(***************************************************************************)
(* Small instances of ChainTracker: a funding that may be double-spent,    *)
(* closed mutually or by a commitment with a to-us and an HTLC output, the *)
(* transactions that sweep those, a splice and a close of it.              *)
(***************************************************************************)
EXTENDS ChainTracker

MCSpends ==
  [funding       |-> <<"wallet", "input">>,
   double_spend  |-> <<"wallet", "input">>,
   mutual        |-> <<"funding", "funding">>,
   unilateral    |-> <<"funding", "funding">>,
   sweep         |-> <<"unilateral", "our">>,
   htlc_tx       |-> <<"unilateral", "htlc">>,
   second_sweep  |-> <<"htlc_tx", "second">>,
   splice        |-> <<"funding", "funding">>,
   splice_mutual |-> <<"splice", "funding">>]

\* The outputs of the commitment: one of each kind, or the HTLC alone.
MCOutputs == [unilateral |-> {"our", "htlc"}]
MCHtlcOutput == [unilateral |-> {"htlc"}]

\* Bound of an instance: a behaviour ends with the pruning, and a refused
\* stream, a splice and a forgotten channel are not combined.
OneConcern ==
  /\ ~pruned
  /\ Cardinality({c \in {"orphan", "splice", "forget"} :
                    \/ c = "orphan" /\ orphans > 0
                    \/ c = "splice" /\ asked
                    \/ c = "forget" /\ forgot}) <= 1
=============================================================================
