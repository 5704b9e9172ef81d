------------------------------- MODULE Session ------------------------------
(***************************************************************************)
(* The connection of the signer daemon (vlsd/src/grpc/signer.rs) with a    *)
(* Core Lightning node, over restarts and upgrades of either.              *)
(*                                                                         *)
(* The daemon connects, negotiates a protocol version with the node's      *)
(* first message (InitHandleLoop), then serves its requests one at a time  *)
(* (HandleLoop).  It commits what a request changed before it replies and  *)
(* leaves the stream after it refused a request; a panic aborts the        *)
(* process.  The node advances its side of a channel: it has commitment n  *)
(* validated and its predecessor revoked, by the messages of the version   *)
(* and with the capabilities it was told.  A reply may be lost with the    *)
(* stream; the node then asks again.                                       *)
(***************************************************************************)
EXTENDS Handler

CONSTANTS
  SignerMax,     \* max_protocol_version of the signer's builds
  NodeRanges,    \* the version ranges <<min, max>> of the node's builds
  OtherRoot,     \* further messages of the node: to the root handler,
  OtherChannel,  \* to the channel's handler,
  Refusable,     \* and those a policy may refuse
  Hot,           \* whether another build of the signer takes over while the
                 \* node runs
  MaxNum,        \* bound: the last commitment
  MaxBreaks      \* bound: lost streams, crashes, refusals, and upgrades

ASSUME SessionAssumption ==
  /\ SignerMax \subseteq Nat /\ SignerMax # {}
  /\ NodeRanges \subseteq Nat \X Nat
  /\ \A r \in NodeRanges : \A max \in SignerMax : Overlaps(r[1], r[2], max)
  /\ MaxNum \in Nat /\ MaxBreaks \in Nat /\ Hot \in BOOLEAN

VARIABLES
  daemon,   \* stage, version of the root handler, build
  node,     \* range of the build, what the reply told, progress, secrets
  slot,     \* the channel, committed with every request
  breaks

sessionVars == <<daemon, node, slot, breaks>>

FreshNode(r) == [range |-> r, version |-> NoVersion, told |-> {}, n |-> 0,
                 step |-> "setup", held |-> {}]

SessionInit ==
  /\ \E max \in SignerMax :
       daemon = [stage |-> "off", version |-> NoVersion, max |-> max]
  /\ \E r \in NodeRanges : node = FreshNode(r)
  /\ slot = Absent
  /\ breaks = 0

-----------------------------------------------------------------------------
(* The daemon's stages *)

\* connect: reset the init handler and open the stream.
Connect ==
  /\ daemon.stage = "off"
  /\ daemon' = [daemon EXCEPT !.stage = "init", !.version = NoVersion]
  /\ UNCHANGED <<node, slot, breaks>>

\* Messages the init handler answers and stays: Ping, HsmdDevPreinit,
\* HsmdDevPreinit2 (no reply), whose allowlist is the node's affair.
InitOther ==
  /\ daemon.stage = "init"
  /\ UNCHANGED sessionVars

\* HsmdInit, then the root handler with the version agreed on.  The node waits
\* for the reply when it starts; later the proxy replays the message for it and
\* drops the reply.
HsmdInit ==
  LET v == MutualVersion(node.range[2], daemon.max)
  IN  /\ daemon.stage = "init"
      /\ Overlaps(node.range[1], node.range[2], daemon.max)
      /\ daemon' = [daemon EXCEPT !.stage = "serving", !.version = v]
      /\ node' = IF node.version = NoVersion
                 THEN [node EXCEPT !.version = v, !.told = Capabilities(v)]
                 ELSE node
      /\ UNCHANGED <<slot, breaks>>

\* handle_request then send_response: the slot is committed; a refusal is sent
\* and ends the stream, a panic ends the process.
Serve(r) ==
  /\ daemon.stage = "serving"
  /\ slot' = r.slot
  /\ daemon' = [daemon EXCEPT !.stage = IF r.out = "reply" THEN @ ELSE "off"]

\* The reply of a request reaches the node, or the stream is lost first.
Answered(r, after) ==
  \/ node' = (IF r.out = "reply" THEN after ELSE node) /\ UNCHANGED breaks
  \/ /\ breaks < MaxBreaks /\ breaks' = breaks + 1
     /\ UNCHANGED node

-----------------------------------------------------------------------------
(* The node *)

\* The channel is made and set up.
Setup ==
  LET r == IF slot.kind = "absent" THEN NewChannel(slot) ELSE SetupChannel(slot, FALSE)
  IN  /\ node.step = "setup"
      /\ Serve(r)
      /\ Answered(r, IF r.slot.kind = "ready" THEN [node EXCEPT !.step = "validate"]
                                              ELSE node)

Advanced(nd) == [nd EXCEPT !.n = @ + 1, !.step = "validate"]

\* ValidateCommitmentTx.  A node that was told of RevokeCommitmentTx revokes
\* next; another one takes the secret from this reply.
Validate ==
  LET r == ValidateCommitmentTx(slot, daemon.version, node.n)
      split == "RevokeCommitmentTx" \in node.told
  IN  /\ node.step = "validate" /\ node.n <= MaxNum
      /\ Serve(r)
      /\ Answered(r,
           IF node.n = 0 THEN Advanced(node)
           ELSE IF split THEN [node EXCEPT !.step = "revoke"]
           ELSE IF r.secrets # {}
                THEN Advanced([node EXCEPT !.held = @ \cup r.secrets])
           ELSE node)

Revoke ==
  LET r == RevokeCommitmentTx(slot, daemon.version, node.n - 1)
  IN  /\ node.step = "revoke"
      /\ Serve(r)
      /\ Answered(r, Advanced([node EXCEPT !.held = @ \cup r.secrets]))

\* Points are asked for at any time, with a secret in the older protocols.
AskPoint(n) ==
  LET r == GetPerCommitmentPoint(slot, daemon.version, n)
  IN  /\ r.out = "reply" \/ breaks < MaxBreaks
      /\ Serve(r)
      /\ node' = [node EXCEPT !.held = @ \cup r.secrets]
      /\ breaks' = IF r.out = "reply" THEN breaks ELSE breaks + 1

\* A splice opens and closes its window; in between the messages with a 2 are
\* refused.
Splice ==
  LET r == SetupChannel(slot, TRUE)
  IN  /\ slot.kind = "ready" /\ node.step = "validate" /\ breaks < MaxBreaks
      /\ Serve(r) /\ breaks' = breaks + 1 /\ UNCHANGED node

Lock ==
  /\ slot.window
  /\ Serve(LockOutpoint(slot)) /\ UNCHANGED <<node, breaks>>

\* Every other message, at the root or on the channel's connection; a policy may
\* refuse it.
Other ==
  \E r \in {RootHandle(slot, m) : m \in OtherRoot}
           \cup {ChannelHandle(slot, m) : m \in OtherChannel}
           \cup {Refuse(slot) : m \in Refusable} :
    /\ r.out # "reply" => breaks < MaxBreaks
    /\ Serve(r)
    /\ breaks' = IF r.out = "reply" THEN breaks ELSE breaks + 1
    /\ UNCHANGED node

-----------------------------------------------------------------------------
(* Faults *)

\* The stream ends, or the signer's process does.
SignerRestart(max) ==
  /\ breaks < MaxBreaks /\ breaks' = breaks + 1
  /\ max = daemon.max \/ Hot
  /\ daemon' = [stage |-> "off", version |-> NoVersion, max |-> max]
  /\ UNCHANGED <<node, slot>>

\* The node restarts, maybe as another build and with another build of the
\* signer; its peer sends the commitment it did not acknowledge again, so it
\* validates again.
NodeRestart(r, max) ==
  /\ breaks < MaxBreaks /\ breaks' = breaks + 1
  /\ daemon' = [stage |-> "off", version |-> NoVersion, max |-> max]
  /\ node' = [node EXCEPT !.range = r, !.version = NoVersion, !.told = {},
                          !.step = IF @ = "revoke" THEN "validate" ELSE @]
  /\ UNCHANGED slot

\* The node's own sequence of requests.
NodeStep == Setup \/ Validate \/ Revoke

SessionNext ==
  \/ Connect \/ InitOther \/ HsmdInit
  \/ Setup \/ Validate \/ Revoke
  \/ \E n \in 0..MaxNum + 2 : AskPoint(n)
  \/ Splice \/ Lock \/ Other
  \/ \E max \in SignerMax : SignerRestart(max)
  \/ \E r \in NodeRanges, max \in SignerMax : NodeRestart(r, max)

SessionSpec == SessionInit /\ [][SessionNext]_sessionVars

\* The daemon reconnects by itself, the node starts with its init message and
\* asks again until it is answered.
SessionFairness ==
  /\ WF_sessionVars(Connect) /\ WF_sessionVars(HsmdInit)
  /\ WF_sessionVars(NodeStep)

-----------------------------------------------------------------------------
(* Properties *)

\* The node holds the secret of a commitment only when a later one is current
\* at the signer, whichever versions the two spoke on the way: a secret in a
\* reply was preceded by the commit of the advance.
SecretsCovered == \A n \in node.held : SecretAvailable(slot, n)

\* While the daemon serves, its handlers run the version the node was told, one
\* both builds know, and the node was told of the split revocation exactly if
\* the handlers wait for it.
VersionsAgree ==
  daemon.stage = "serving" =>
    /\ node.version = daemon.version
    /\ daemon.version <= daemon.max /\ daemon.version <= node.range[2]
    /\ ("RevokeCommitmentTx" \in node.told)
         <=> daemon.version >= PROTOCOL_VERSION_REVOKE

\* A node never asks for more than the signer can give: a commitment is never
\* more than one ahead of the signer's, so no version leaves the two apart.
InStep == slot.kind = "ready" => node.n \in {slot.next, slot.next - 1}

\* Through upgrades and restarts of either side, the node and the signer agree on
\* versions and numbers, and no secret is with the node too early.
SessionSound == SecretsCovered /\ VersionsAgree /\ InStep

\* Whatever was lost, restarted, upgraded or downgraded on the way, the node
\* gets its commitments current and their predecessors' secrets once the two
\* have connected.
ChannelAdvances ==
  (daemon.stage = "init") ~> (node.n > MaxNum /\ 0..MaxNum - 1 \subseteq node.held)
=============================================================================
