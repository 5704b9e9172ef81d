------------------------------ MODULE LdkClient -----------------------------
(***************************************************************************)
(* A node that is built on LDK and signs through the client of             *)
(* vls-protocol-client/src/lib.rs: KeysManagerClient names the channels,   *)
(* SignerClient turns the calls LDK makes for a channel into messages.     *)
(*                                                                         *)
(* LDK has no call that hands over the channel's parameters, so the client *)
(* sends SetupChannel with the first signing call, and keeps a holder      *)
(* commitment it was given before that until then.  LDK stores its         *)
(* channels; the client stores nothing and starts anew with the process.   *)
(* HsmdInit2 makes the signer speak version 4.                             *)
(***************************************************************************)
EXTENDS Handler, Functions, Sequences, TLC

CONSTANTS
  Sides,       \* the channels LDK opens, in order: "outbound" or "inbound"
  LastCommit,  \* bound: the last holder commitment of a channel
  MaxRestarts  \* bound on restarts of the node's process

ASSUME ClientAssumption ==
  /\ Sides \in Seq({"outbound", "inbound"})
  /\ LastCommit \in Nat /\ MaxRestarts \in Nat

NoCommit == LastCommit + 1

VARIABLES
  next_dbid,  \* KeysManagerClient.next_dbid
  chans,      \* LDK's channels, in the order they were opened
  setup,      \* SetupState of each channel's SignerClient
  slots,      \* the signer's slots by dbid,
  holder,      \* and the channel whose setup each one holds, or 0
  ok,         \* the process has not panicked
  restarts

clientVars == <<next_dbid, chans, setup, slots, holder, ok, restarts>>

Dbids == 1..Len(Sides)
Chans == DOMAIN chans

ClientInit ==
  /\ next_dbid = 1
  /\ chans = <<>>
  /\ setup = <<>>
  /\ slots = [d \in Dbids |-> Absent]
  /\ holder = [d \in Dbids |-> 0]
  /\ ok = TRUE
  /\ restarts = 0

\* SignerClient::new.
FreshSetup == [done |-> FALSE, deferred |-> NoCommit]

-----------------------------------------------------------------------------

\* generate_channel_keys_id and derive_channel_signer: the next number, a
\* NewChannel message and a client without setup.  The funder of a channel
\* signs first, the other side is given a commitment first.
OpenChannel ==
  /\ ok /\ Len(chans) < Len(Sides) /\ next_dbid \in Dbids
  /\ next_dbid' = next_dbid + 1
  /\ chans' = Append(chans, [dbid |-> next_dbid, n |-> 0,
                             step |-> IF Sides[Len(chans) + 1] = "outbound"
                                      THEN "sign" ELSE "validate"])
  /\ setup' = Append(setup, FreshSetup)
  /\ slots' = [slots EXCEPT ![next_dbid] = NewChannel(@).slot]
  /\ UNCHANGED <<holder, ok, restarts>>

\* Mutant: the kept commitment is forgotten with the setup.
SetupDropsDeferred(c) ==
  [state |-> [done |-> TRUE, deferred |-> NoCommit],
   slot |-> IF setup[c].done THEN slots[chans[c].dbid]
            ELSE SetupChannel(slots[chans[c].dbid], FALSE).slot,
   ok |-> TRUE]

\* ensure_channel_setup: SetupChannel, then the commitment that was kept.  The
\* parameters of another channel are no splice of this one and are refused.
EnsureChannelSetup(c) ==
  LET s == slots[chans[c].dbid]
      made == IF holder[chans[c].dbid] \in {0, c} THEN SetupChannel(s, FALSE)
                                                 ELSE Refuse(s)
      kept == setup[c].deferred
      replay == ValidateCommitmentTx2(made.slot, VersionOfInit2, kept)
  IN  IF setup[c].done THEN [state |-> setup[c], slot |-> s, ok |-> TRUE]
      ELSE IF made.out = "error"
           THEN [state |-> setup[c], slot |-> s, ok |-> FALSE]
      ELSE IF kept = NoCommit
           THEN [state |-> [done |-> TRUE, deferred |-> NoCommit],
                 slot |-> made.slot, ok |-> TRUE]
      ELSE IF replay.out = "reply"
           THEN [state |-> [done |-> TRUE, deferred |-> NoCommit],
                 slot |-> replay.slot, ok |-> TRUE]
      ELSE [state |-> setup[c], slot |-> made.slot, ok |-> FALSE]

\* sign_counterparty_commitment, and the other calls that carry the channel's
\* parameters.  The first one of the funder comes before its commitment 0, that
\* of the other side after it.
Sign(c) ==
  LET e == EnsureChannelSetup(c)
  IN  /\ ok /\ chans[c].step \in {"sign", "idle"} /\ e.ok
      /\ setup' = [setup EXCEPT ![c] = e.state]
      /\ slots' = [slots EXCEPT ![chans[c].dbid] = e.slot]
      /\ holder' = [holder EXCEPT ![chans[c].dbid] = c]
      /\ chans' = [chans EXCEPT ![c].step =
                     IF @ = "sign" /\ chans[c].n = 0 THEN "validate" ELSE "idle"]
      /\ UNCHANGED <<next_dbid, ok, restarts>>

\* validate_holder_commitment: kept until the setup, or sent.  LDK then owes its
\* peer the predecessor's secret; after commitment 0 there is none, and the
\* other side has its first signature to make.
ValidateHolder(c) ==
  LET r == ValidateCommitmentTx2(slots[chans[c].dbid], VersionOfInit2, chans[c].n)
      after == [chans[c] EXCEPT !.n = @ + 1,
                                !.step = IF chans[c].n > 0 THEN "release"
                                         ELSE IF setup[c].done THEN "idle" ELSE "sign"]
  IN  /\ ok /\ chans[c].n <= LastCommit
      /\ chans[c].step = IF chans[c].n = 0 THEN "validate" ELSE "idle"
      /\ \/ /\ setup[c].done /\ r.out = "reply"
            /\ slots' = [slots EXCEPT ![chans[c].dbid] = r.slot]
            /\ UNCHANGED setup
         \/ /\ ~setup[c].done /\ setup[c].deferred = NoCommit
            /\ setup' = [setup EXCEPT ![c].deferred = chans[c].n]
            /\ UNCHANGED slots
      /\ chans' = [chans EXCEPT ![c] = after]
      /\ UNCHANGED <<next_dbid, holder, ok, restarts>>

\* release_commitment_secret: the point two after is expected to bring the
\* secret; a refusal is a panic of the node.
ReleaseSecret(c) ==
  LET r == GetPerCommitmentPoint(slots[chans[c].dbid], VersionOfInit2, chans[c].n)
  IN  /\ ok /\ chans[c].step = "release"
      /\ ok' = (chans[c].n - 2 \in r.secrets)
      /\ chans' = [chans EXCEPT ![c].step = IF ok' THEN "idle" ELSE @]
      /\ UNCHANGED <<next_dbid, setup, slots, holder, restarts>>

\* The process starts again: KeysManagerClient::new, and a new client for each
\* channel that LDK stored, which is one that has its first commitments.
ClientRestart ==
  /\ restarts < MaxRestarts /\ restarts' = restarts + 1
  /\ \A c \in Chans : chans[c].n > 0 /\ chans[c].step # "sign"
  /\ next_dbid' = 1
  /\ setup' = [c \in Chans |-> FreshSetup]
  /\ ok' = TRUE
  /\ UNCHANGED <<chans, slots, holder>>

ClientNext ==
  \/ OpenChannel
  \/ \E c \in Chans : Sign(c)
  \/ \E c \in Chans : ValidateHolder(c)
  \/ \E c \in Chans : ReleaseSecret(c)
  \/ ClientRestart

ClientSpec == ClientInit /\ [][ClientNext]_clientVars

-----------------------------------------------------------------------------
(* Properties *)

\* A commitment that validate_holder_commitment returned Ok for is current at
\* the signer, or is the one that is kept for the setup: none is lost between
\* the two.  (What is kept after one restart is lost with the next.)
NoneDropped ==
  restarts < 2 => \A c \in Chans :
    LET last == chans[c].n - 1
    IN  chans[c].n > 0 =>
          \/ slots[chans[c].dbid].next > last
          \/ setup[c].deferred = last

\* The node never panics because a secret it is due to its peer is refused,
\* while its process runs without a restart.
SecretsComeFreely == ok \/ restarts > 0

\* Between the client and the signer no commitment is dropped and no secret due
\* to the peer is refused.
ClientKeepsUp == NoneDropped /\ SecretsComeFreely

\* Without the condition: what release_commitment_secret's comment says of it.
SecretsCome == ok

\* No two channels of LDK share a channel of the signer.
DbidsUnique == IsInjective([c \in Chans |-> chans[c].dbid])
=============================================================================
