------------------------------- MODULE Handler ------------------------------
(***************************************************************************)
(* The protocol handlers of the signer (vls-protocol-signer/src/           *)
(* handler.rs), as functions from a channel slot, the negotiated protocol  *)
(* version and a message to the slot after it and the outcome.             *)
(*                                                                         *)
(* InitHandler negotiates the version, RootHandler answers the messages of *)
(* the node, ChannelHandler those of one channel.  Of a channel only what  *)
(* the version decides about is kept: the holder's commitment numbers.     *)
(* Message contents are well formed.                                       *)
(***************************************************************************)
EXTENDS Naturals, FiniteSets

PROTOCOL_VERSION_REVOKE    == 5
PROTOCOL_VERSION_NO_SECRET == 6
MIN_PROTOCOL_VERSION       == 2
NoVersion                  == 0

\* A ChannelSlot: kind is "absent", "stub" or "ready"; `next` is
\* next_holder_commit_num, `pending` whether next_holder_commit_info is there,
\* `window` whether a splice window is open.
Absent == [kind |-> "absent", next |-> 0, pending |-> FALSE, window |-> FALSE]

\* What a handler returns: the slot it leaves, "reply", "error" or "panic", and
\* the commitment secrets in the reply.
Reply(s, secrets) == [slot |-> s, out |-> "reply", secrets |-> secrets]
Refuse(s)         == [slot |-> s, out |-> "error", secrets |-> {}]
Panic(s)          == [slot |-> s, out |-> "panic", secrets |-> {}]

-----------------------------------------------------------------------------
(* InitHandler *)

\* HsmdInit: the versions the node announces must overlap the signer's.
Overlaps(lo, hi, max) == lo <= max /\ hi >= MIN_PROTOCOL_VERSION

MutualVersion(hi, max) == IF hi < max THEN hi ELSE max

\* hsm_capabilities of the reply: none in the reply of the versions before 4.
Capabilities(version) ==
  IF version < 4
  THEN {}
  ELSE {"CheckPubKey", "SignAnyDelayedPaymentToUs", "SignAnchorspend",
        "SignHtlcTxMingle", "SignSpliceTx", "CheckOutpoint", "ForgetChannel"}
       \cup (IF version >= PROTOCOL_VERSION_REVOKE
             THEN {"RevokeCommitmentTx"} ELSE {})

\* HsmdInit2 has no version of its own.
VersionOfInit2 == 4

-----------------------------------------------------------------------------
(* Points and secrets of the holder's commitments *)

\* ChannelStub and Channel::get_per_commitment_point.
PointAvailable(s, n) ==
  \/ s.kind = "stub" /\ n \in 0..2
  \/ s.kind = "ready" /\ n <= s.next + 1

\* Channel::get_per_commitment_secret; a stub has none.
SecretAvailable(s, n) == s.kind = "ready" /\ n + 2 <= s.next

\* Mutant: the secret two before is not checked.
PointWithSecret(s, version, n) ==
  IF PointAvailable(s, n)
  THEN Reply(s, IF version < PROTOCOL_VERSION_NO_SECRET /\ n >= 2
                THEN {n - 2} ELSE {})
  ELSE Refuse(s)

\* GetPerCommitmentPoint: older protocols take the secret two before along.
GetPerCommitmentPoint(s, version, n) ==
  LET old == version < PROTOCOL_VERSION_NO_SECRET /\ n >= 2
  IN  IF PointAvailable(s, n) /\ (old => SecretAvailable(s, n - 2))
      THEN Reply(s, IF old THEN {n - 2} ELSE {})
      ELSE Refuse(s)

\* GetPerCommitmentPoint2 never does.
GetPerCommitmentPoint2(s, n) ==
  IF PointAvailable(s, n) THEN Reply(s, {}) ELSE Refuse(s)

\* release_commitment_secret, called with the slot it changed before.
ReleaseCommitmentSecret(s, n) ==
  IF PointAvailable(s, n + 1) /\ (n >= 1 => SecretAvailable(s, n - 1))
  THEN Reply(s, IF n >= 1 THEN {n - 1} ELSE {})
  ELSE Refuse(s)

\* Mutant: a repeated call is refused.
RevokeOnce(s, n) ==
  IF n = s.next /\ s.pending
  THEN ReleaseCommitmentSecret([s EXCEPT !.next = n + 1, !.pending = FALSE], n)
  ELSE Refuse(s)

\* revoke_previous_holder_commitment.
RevokePrevious(s, n) ==
  IF n # s.next
  THEN ReleaseCommitmentSecret(s, n)
  ELSE IF s.pending
       THEN ReleaseCommitmentSecret([s EXCEPT !.next = n + 1, !.pending = FALSE], n)
       ELSE Refuse(s)

\* activate_initial_commitment: the first commitment, or the first one of a
\* spliced funding, which keeps the number.
ActivateInitial(s) ==
  IF s.pending /\ (s.next = 0 \/ (s.next = 1 /\ s.window))
  THEN Reply([s EXCEPT !.next = 1, !.pending = FALSE], {})
  ELSE Refuse(s)

\* validate_holder_commitment_tx: what is stored of commitment n, if it is
\* accepted.
Validated(s, n) == IF n = s.next THEN [s EXCEPT !.pending = TRUE] ELSE s

\* ValidateCommitmentTx.  The old protocol revokes the predecessor at once, the
\* newer one leaves that to RevokeCommitmentTx, except that commitment 0 has no
\* predecessor and is made current here.
ValidateCommitmentTx(s, version, n) ==
  IF s.kind # "ready" \/ n + 2 <= s.next
  THEN Refuse(s)
  ELSE LET v == Validated(s, n)
       IN  IF version < PROTOCOL_VERSION_REVOKE THEN RevokePrevious(v, n)
           ELSE IF n > 0 THEN GetPerCommitmentPoint2(v, n + 1)
           ELSE IF v.pending THEN ActivateInitial(v)
           ELSE GetPerCommitmentPoint2(v, 1)

\* resolve_legacy_phase2_funding: the values of the messages with a 2 do not say
\* which funding they are for.
EraKnown(s) == s.kind = "ready" /\ ~s.window

ValidateCommitmentTx2(s, version, n) ==
  IF EraKnown(s) THEN ValidateCommitmentTx(s, version, n) ELSE Refuse(s)

\* RevokeCommitmentTx names the commitment to revoke.
RevokeCommitmentTx(s, version, n) ==
  IF version < PROTOCOL_VERSION_REVOKE \/ s.kind # "ready"
  THEN Refuse(s)
  ELSE LET r == RevokePrevious(s, n + 1)
       IN  IF r.secrets = {} THEN [r EXCEPT !.out = "error"] ELSE r

-----------------------------------------------------------------------------
(* The other messages, by what they need *)

\* Answered from the node alone, with no channel.
NodeMessages ==
  {"Ping", "Memleak", "SignBolt12", "SignBolt12V2", "PreapproveInvoice",
   "PreapproveKeysend", "DeriveSecret", "SignMessage", "Ecdh", "NewChannel",
   "ForgetChannel", "SignWithdrawal", "SignHtlcTxMingle"}

InvoiceMessages == {"SignInvoice", "SignBolt12Invoice"}

ChainMessages ==
  {"TipInfo", "ForwardWatches", "ReverseWatches", "AddBlock", "RemoveBlock",
   "BlockChunk", "GetHeartbeat"}

GossipMessages ==
  {"NodeInfo", "SignNodeAnnouncement", "SignChannelUpdate", "SignGossipMessage",
   "CheckPubKey", "GetSecureRandomBytes", "HsmdDevPreinit2"}

\* with_channel on the channel the message names.
AnyChannelMessages ==
  {"SignCommitmentTx", "SignAnyDelayedPaymentToUs", "SignAnyRemoteHtlcToUs",
   "SignAnyPenaltyToUs", "SignAnyLocalHtlcTx", "SignAnyChannelAnnouncement",
   "SignAnchorspend"}

\* SignSpliceTx is for a channel; the root handler does not implement it.
RootMessages ==
  NodeMessages \cup InvoiceMessages \cup ChainMessages \cup GossipMessages
  \cup AnyChannelMessages \cup {"GetChannelBasepoints", "CheckChannelStateSync"}

RootHandle(s, m) ==
  IF m \notin RootMessages THEN Panic(s)
  ELSE IF m \in AnyChannelMessages /\ s.kind # "ready" THEN Refuse(s)
  ELSE IF m \in {"GetChannelBasepoints", "CheckChannelStateSync"}
          /\ s.kind = "absent" THEN Refuse(s)
  ELSE Reply(s, {})

\* ChannelHandler: its channel is the one of the connection.
SignMessages ==
  {"SignRemoteHtlcTx", "SignLocalHtlcTx2", "SignRemoteCommitmentTx",
   "SignDelayedPaymentToUs", "SignRemoteHtlcToUs", "SignLocalHtlcTx",
   "SignMutualCloseTx", "SignMutualCloseTx2", "SignLocalCommitmentTx2",
   "ValidateRevocation", "SignPenaltyToUs", "SignChannelAnnouncement",
   "SignSpliceTx", "CheckFutureSecret"}

EraMessages == {"SignRemoteCommitmentTx2"}

ChannelMessages ==
  SignMessages \cup EraMessages \cup {"Memleak", "Ecdh", "CheckOutpoint"}

ChannelHandle(s, m) ==
  IF m \notin ChannelMessages THEN Panic(s)
  ELSE IF m \in SignMessages /\ s.kind # "ready" THEN Refuse(s)
  ELSE IF m \in EraMessages /\ ~EraKnown(s) THEN Refuse(s)
  ELSE Reply(s, {})

\* NewChannel and SetupChannel make the slot; a repeated one finds it as it is,
\* and the setup of another funding for a ready channel opens a splice window.
NewChannel(s) ==
  IF s.kind = "absent" THEN Reply([s EXCEPT !.kind = "stub"], {}) ELSE Reply(s, {})

SetupChannel(s, splice) ==
  IF s.kind = "absent" THEN Refuse(s)
  ELSE Reply([s EXCEPT !.kind = "ready",
                       !.window = @ \/ (s.kind = "ready" /\ splice)], {})

\* LockOutpoint of the current funding closes the window.
LockOutpoint(s) ==
  IF s.kind = "absent" THEN Refuse(s) ELSE Reply([s EXCEPT !.window = FALSE], {})
=============================================================================
