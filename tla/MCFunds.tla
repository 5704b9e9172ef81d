------------------------------- MODULE MCFunds -------------------------------
(***************************************************************************)
(* The modules about money on the chain, for TLC: the chain tracker, the   *)
(* wallet's transactions, the recovery tool, the signatures of a channel   *)
(* and the tracer that follows it from funding to funding; and the serial  *)
(* line on which a device is asked for them.  They share no variable, so   *)
(* that they are one state space in which a behaviour is one of one `part` *)
(* and the others stay as they were at the start.                          *)
(***************************************************************************)
EXTENDS MCChainTracker, Onchain, Recovery, Trace, Signatures, Serial

CONSTANTS Parts, c1, c2, u1, u2

VARIABLE part

-----------------------------------------------------------------------------
(* Recovery: a node with an anchors channel, and one with a second channel *)
(* of the older kind.                                                      *)

OnHtlc(n, offered, cltv, known, pays) ==
  [n |-> n, offered |-> offered, cltv |-> cltv, known |-> known, pays |-> pays]

MCNodes == {{c1}, {c1, c2}}
MCKind == (c1 :> "anchors") @@ (c2 :> "static")
MCHtlcs ==
  (c1 :> {OnHtlc(1, FALSE, 0, TRUE, TRUE), OnHtlc(2, FALSE, 0, TRUE, TRUE)})
    @@ (c2 :> {OnHtlc(1, TRUE, 1, FALSE, FALSE)})

\* One output can pay for two HTLC transactions, the other for none.
MCWalletOuts == (u1 :> 2) @@ (u2 :> 0)
MCFeeInputs == {<<>>, <<Wallet(u2), Wallet(u1)>>}

-----------------------------------------------------------------------------
(* The wallet: t1 funds c1 with change, t2 is malleable and funds c2 (or   *)
(* c1 after a splice) besides paying someone, t3 pays below an xpub with a *)
(* key that does not fit its input.                                        *)

Input(id, value, script, key, fits) ==
  [id |-> id, value |-> value, script |-> script, key |-> key, fits |-> fits]
Output(to, value, path) == [to |-> to, value |-> value, path |-> path]
Withdrawal(id, ins, native, outs) ==
  [id |-> id, ins |-> ins, version |-> 2, native |-> native, outs |-> outs]
FundedBy(tx, vout, value, outbound, pushed) ==
  [tx |-> tx, vout |-> vout, value |-> value, outbound |-> outbound, push |-> pushed]

MCWithdrawals ==
  {Withdrawal("t1", {Input(1, 5, "p2wpkh", TRUE, TRUE)}, TRUE,
              <<Output(c1, 2, FALSE), Output("wallet", 2, TRUE)>>),
   Withdrawal("t2", {Input(2, 5, "p2tr", TRUE, TRUE), Input(3, 1, "unknown", FALSE, FALSE)},
              FALSE, <<Output(c2, 3, FALSE), Output("friend", 2, FALSE)>>),
   Withdrawal("t3", {Input(4, 3, "p2tr", TRUE, FALSE)}, TRUE, <<Output("other", 3, TRUE)>>)}
MCFunded ==
  (c1 :> {FundedBy("t1", 1, 2, TRUE, 0)})
    @@ (c2 :> {FundedBy("t2", 1, 3, TRUE, 0), FundedBy("t1", 1, 2, FALSE, 1)})
MCSpliced == (c1 :> {FundedBy("t2", 1, 3, TRUE, 0)}) @@ (c2 :> {})
MCEntries == {<<"script", "friend">>, <<"xpub", "other">>}

-----------------------------------------------------------------------------
(* The tracer: a splice against a scenario, against another channel's      *)
(* operations, and after a restore.                                        *)

Workload(live, restores, first, second, scenarios) ==
  [live |-> ("c1" :> live) @@ ("c2" :> <<1>>), restores |-> restores,
   ops |-> ("c1" :> first) @@ ("c2" :> second), scenarios |-> scenarios]

MCWorkloads ==
  {Workload(<<1>>, FALSE, <<{"splice"}, {"sign", "lock"}>>, <<>>, TRUE),
   Workload(<<1>>, FALSE, <<{"splice"}>>, <<{"view", "lock"}>>, FALSE),
   Workload(<<1, 2>>, TRUE, <<{"restore"}, {"sign", "splice"}, {"lock"}>>, <<{"restore"}>>,
            FALSE)}

-----------------------------------------------------------------------------
fundsVars == <<part, vars, onchainVars, recoveryVars, traceVars, signatureVars, serialVars>>

FundsInit ==
  /\ part \in Parts
  /\ Init /\ OnchainInit /\ RecoveryInit /\ TraceInit
  /\ SignaturesInit /\ SerialInit
  /\ part # "recovery" => DOMAIN closed = {c1}
  /\ part # "trace" => load = CHOOSE w \in Workloads : TRUE
  /\ part # "signatures" =>
       signing.type = "static" /\ fundingOuts = <<[key |-> "k1", value |-> 100]>>

\* The bounds end a behaviour of these parts; only the chain never ends.
Ended == part # "chain" /\ UNCHANGED fundsVars

FundsNext ==
  \/ /\ part = "chain" /\ Next
     /\ UNCHANGED <<part, onchainVars, recoveryVars, traceVars, signatureVars, serialVars>>
  \/ /\ part = "onchain" /\ OnchainNext
     /\ UNCHANGED <<part, vars, recoveryVars, traceVars, signatureVars, serialVars>>
  \/ /\ part = "recovery" /\ RecoveryNext
     /\ UNCHANGED <<part, vars, onchainVars, traceVars, signatureVars, serialVars>>
  \/ /\ part = "trace" /\ TraceNext
     /\ UNCHANGED <<part, vars, onchainVars, recoveryVars, signatureVars, serialVars>>
  \/ /\ part = "signatures" /\ SignaturesNext
     /\ UNCHANGED <<part, vars, onchainVars, recoveryVars, traceVars, serialVars>>
  \/ /\ part = "serial" /\ SerialNext
     /\ UNCHANGED <<part, vars, onchainVars, recoveryVars, traceVars, signatureVars>>
  \/ Ended

FundsSpec == FundsInit /\ [][FundsNext]_fundsVars
=============================================================================
