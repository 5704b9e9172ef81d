------------------------------ MODULE MCChannel ------------------------------
(***************************************************************************)
(* Small instances of Channel.  Fundings, contents and seeds are model     *)
(* values; f2 is a splice-out, too small for the larger content, so that   *)
(* eras differ in scale.                                                   *)
(***************************************************************************)
EXTENDS Channel, FiniteSets

CONSTANTS f1, f2, f3, i1, i2, s1, s2

\* channel_value_sat: f2 is worth less than f1 (splice-out), f3 more again.
MCChannelValue == [f \in Fundings |-> IF f = f2 THEN 1 ELSE 2]

\* Outputs of i1 fit every funding, those of i2 do not fit f2.
MCTotal == [i \in Infos |-> IF i = i2 THEN 2 ELSE 1]

CONSTANTS MaxHolder, MaxCloseSigned, MaxCpSigned

\* Bounds of an instance beyond those of Channel: the holder commitments, the
\* broadcast signatures and the counterparty signatures of a behaviour.  They
\* let one run go deep on one side of the channel.
HistoryBound ==
  /\ es.next_holder_commit_num <= MaxHolder
  /\ Cardinality(closeSigned) <= MaxCloseSigned
  /\ Cardinality(cpSigned) <= MaxCpSigned
=============================================================================
