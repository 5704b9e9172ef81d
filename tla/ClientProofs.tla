---------------------------- MODULE ClientProofs ----------------------------
(***************************************************************************)
(* Theorems about the nodes that use the signer: the session with a Core   *)
(* Lightning node (module Session) and the client of a node built on LDK   *)
(* (module LdkClient), for every set of builds and channels and every      *)
(* bound.                                                                  *)
(***************************************************************************)
EXTENDS Session, LdkClient, TLAPS

-----------------------------------------------------------------------------
(* The handlers: what each of them does to the holder's numbers.           *)

Slots0 ==
  [kind : {"absent", "stub", "ready"}, next : Nat, pending : BOOLEAN, window : BOOLEAN]

\* A reply of a handler comes with a slot that is at least as far as the one before
\* and gives away only secrets that this slot covers.
Sound(s, r) ==
  /\ r.slot \in Slots0
  /\ r.slot.kind = s.kind
  /\ s.next <= r.slot.next
  /\ \A n \in r.secrets : n \in Nat /\ SecretAvailable(r.slot, n)

\* GetPerCommitmentPoint gives a point, and the secret two before, of a slot that
\* it leaves alone.
LEMMA PointSound ==
  ASSUME NEW s \in Slots0, NEW v \in Nat, NEW n \in Nat
  PROVE  /\ Sound(s, GetPerCommitmentPoint(s, v, n))
         /\ GetPerCommitmentPoint(s, v, n).slot = s
  BY DEF GetPerCommitmentPoint, Sound, Slots0, Reply, Refuse, SecretAvailable,
         PointAvailable, PROTOCOL_VERSION_NO_SECRET

\* What a revocation of commitment n's predecessor leaves: commitment n current, and
\* the secret of its predecessor in the reply.
Revoked(s, n, r) ==
  /\ Sound(s, r)
  /\ r.slot.next = s.next \/ (r.slot.next = n + 1 /\ s.next = n)
  /\ r.out = "reply" => r.slot.next > n
  /\ r.out = "reply" /\ n > 0 => r.secrets = {n - 1}
  /\ r.secrets # {} => r.out = "reply"
  /\ r.out \in {"reply", "error"}

\* release_commitment_secret of a slot that commitment n was not the next of.
LEMMA ReleaseSound ==
  ASSUME NEW s \in Slots0, NEW n \in Nat, n # s.next
  PROVE  Revoked(s, n, ReleaseCommitmentSecret(s, n))
  BY DEF ReleaseCommitmentSecret, Slots0, Reply, Refuse, SecretAvailable, PointAvailable,
         Revoked, Sound

\* revoke_previous_holder_commitment: after a reply commitment n is current.
LEMMA RevokePreviousSound ==
  ASSUME NEW s \in Slots0, NEW n \in Nat
  PROVE  Revoked(s, n, RevokePrevious(s, n))
<1> DEFINE t == [s EXCEPT !.next = n + 1, !.pending = FALSE]
<1>0. n + 1 \in Nat /\ n + 1 # n
  OBVIOUS
<1>1. t \in Slots0 /\ t.next = n + 1 /\ t.kind = s.kind
  BY <1>0, Zenon DEF Slots0
<1>2. CASE n # s.next
  BY <1>2, ReleaseSound DEF RevokePrevious
<1>3. CASE n = s.next /\ s.pending
  <2>1. RevokePrevious(s, n) = ReleaseCommitmentSecret(t, n)
    BY <1>3 DEF RevokePrevious
  <2> HIDE DEF t
  <2>2. Revoked(t, n, RevokePrevious(s, n))
    BY <1>0, <1>1, <2>1, ReleaseSound
  <2> QED
    BY <1>1, <1>3, <2>2 DEF Revoked, Sound
<1>4. CASE n = s.next /\ ~s.pending
  BY <1>4 DEF RevokePrevious, Refuse, Sound, Slots0, Revoked
<1> QED
  BY <1>2, <1>3, <1>4, Zenon

\* What a validation of commitment n leaves: a reply of the old protocol, and any for
\* commitment 0, has it current.
Validates(s, v, n, r) ==
  /\ Sound(s, r)
  /\ r.slot.next = s.next \/ (r.slot.next = n + 1 /\ s.next = n)
  /\ r.out = "reply" => s.kind = "ready"
  /\ r.out = "reply" /\ (n = 0 \/ v < PROTOCOL_VERSION_REVOKE) => r.slot.next > n
  /\ r.secrets # {} => r.out = "reply" /\ n > 0 /\ r.slot.next > n
  /\ r.out \in {"reply", "error"}

\* ValidateCommitmentTx, in every version.
LEMMA ValidateSound ==
  ASSUME NEW s \in Slots0, NEW v \in Nat, NEW n \in Nat
  PROVE  Validates(s, v, n, ValidateCommitmentTx(s, v, n))
<1> DEFINE r == ValidateCommitmentTx(s, v, n)
           w == Validated(s, n)
<1>1. /\ w \in Slots0 /\ w.kind = s.kind /\ w.next = s.next
      /\ w.next = 0 /\ n = 0 => w.pending
  BY Zenon DEF Validated, Slots0
<1>2. CASE s.kind # "ready" \/ n + 2 <= s.next
  <2>1. r = Refuse(s)
    BY <1>2, Zenon DEF ValidateCommitmentTx
  <2> QED
    BY <2>1 DEF Refuse, Sound, Slots0, Validates
<1>3. CASE s.kind = "ready" /\ ~(n + 2 <= s.next) /\ v < PROTOCOL_VERSION_REVOKE
  <2>1. r = RevokePrevious(w, n)
    BY <1>3 DEF ValidateCommitmentTx
  <2> HIDE DEF w, r
  <2> Validates(s, v, n, r)
    BY <2>1, <1>1, <1>3, RevokePreviousSound DEF Revoked, Sound, Slots0, SecretAvailable,
                                                      Validates
  <2> QED
    BY Zenon DEF r
<1>4. CASE s.kind = "ready" /\ ~(n + 2 <= s.next) /\ ~(v < PROTOCOL_VERSION_REVOKE) /\ n > 0
  <2>1. r = GetPerCommitmentPoint2(w, n + 1)
    BY <1>4 DEF ValidateCommitmentTx
  <2> HIDE DEF w, r
  <2> Validates(s, v, n, r)
    BY <2>1, <1>1, <1>4 DEF GetPerCommitmentPoint2, Reply, Refuse, Sound, Slots0, Validates
  <2> QED
    BY Zenon DEF r
<1>5. CASE s.kind = "ready" /\ ~(v < PROTOCOL_VERSION_REVOKE) /\ n = 0 /\ ~(n + 2 <= s.next)
  <2> DEFINE t == [w EXCEPT !.next = 1, !.pending = FALSE]
  <2>1. r = IF w.pending THEN ActivateInitial(w) ELSE GetPerCommitmentPoint2(w, 1)
    BY <1>5 DEF ValidateCommitmentTx
  <2>2. t \in Slots0 /\ t.next = 1 /\ t.kind = w.kind
    <3> 1 \in Nat
      OBVIOUS
    <3> QED
      BY <1>1, Zenon DEF Slots0
  <2>3. ActivateInitial(w) =
          IF w.pending /\ (w.next = 0 \/ (w.next = 1 /\ w.window)) THEN Reply(t, {}) ELSE Refuse(w)
    BY Zenon DEF ActivateInitial
  <2> HIDE DEF w, r, t
  <2> Validates(s, v, n, r)
    BY <2>1, <2>2, <2>3, <1>1, <1>5
    DEF GetPerCommitmentPoint2, Reply, Refuse, Sound, Slots0, Validates
  <2> QED
    BY Zenon DEF r
<1> QED
  BY <1>2, <1>3, <1>4, <1>5

\* RevokeCommitmentTx: a reply has the commitment after n current.
LEMMA RevokeSound ==
  ASSUME NEW s \in Slots0, NEW v \in Nat, NEW n \in Nat
  PROVE  LET r == RevokeCommitmentTx(s, v, n)
         IN  /\ Sound(s, r)
             /\ r.slot.next = s.next \/ (r.slot.next = n + 2 /\ s.next = n + 1)
             /\ r.out = "reply" => s.kind = "ready" /\ r.slot.next > n + 1
<1> DEFINE q == RevokePrevious(s, n + 1)
<1>1. Revoked(s, n + 1, q)
  BY RevokePreviousSound
<1>2. CASE v < PROTOCOL_VERSION_REVOKE \/ s.kind # "ready"
  BY <1>2 DEF RevokeCommitmentTx, Refuse, Sound, Slots0
<1>3. CASE ~(v < PROTOCOL_VERSION_REVOKE \/ s.kind # "ready")
  <2>1. RevokeCommitmentTx(s, v, n) = IF q.secrets = {} THEN [q EXCEPT !.out = "error"] ELSE q
    BY <1>3, Zenon DEF RevokeCommitmentTx
  <2> HIDE DEF q
  <2> QED
    BY <1>1, <1>3, <2>1 DEF Revoked, Sound
<1> QED
  BY <1>2, <1>3, Zenon

-----------------------------------------------------------------------------
(* The session with a Core Lightning node.                                 *)

Nodes ==
  [range : NodeRanges, version : Nat, told : SUBSET Capabilities(PROTOCOL_VERSION_REVOKE),
   n : Nat, step : {"setup", "validate", "revoke"}, held : SUBSET Nat]

Daemons == [stage : {"off", "init", "serving"}, version : Nat, max : SignerMax]

\* The numbers and the secrets: before the channel is ready nothing was exchanged,
\* and a node that revokes has a predecessor to revoke.
NumbersInv ==
  /\ slot \in Slots0 /\ node \in Nodes /\ daemon \in Daemons
  /\ slot.kind # "ready" => slot.next = 0 /\ node.step = "setup"
  /\ node.step = "setup" => node.n = 0
  /\ node.step = "revoke" => node.n > 0
  /\ SecretsCovered /\ InStep

\* The versions: while the two builds stay, what the node was told is what they agree
\* on again after each reconnection.
VersionsInv ==
  LET v == MutualVersion(node.range[2], daemon.max)
  IN  /\ node.version # NoVersion => node.version = v /\ node.told = Capabilities(v)
      /\ daemon.stage = "serving" =>
           /\ daemon.version = v
           /\ node.version = v /\ node.told = Capabilities(v)

\* What the session's record types give.
LEMMA SessionTypes ==
  ASSUME slot \in Slots0, node \in Nodes, daemon \in Daemons
  PROVE  /\ slot.next \in Nat /\ node.n \in Nat /\ node.held \subseteq Nat
         /\ daemon.version \in Nat
  BY Zenon DEF Slots0, Nodes, Daemons

\* A serving step leaves the daemon well formed and in the version it had.
LEMMA ServeTypes ==
  ASSUME daemon \in Daemons, NEW r, Serve(r)
  PROVE  /\ daemon' \in Daemons /\ daemon'.max = daemon.max
         /\ daemon'.version = daemon.version
         /\ daemon.stage = "serving" /\ slot' = r.slot
  BY Zenon DEF Serve, Daemons

\* The secrets a node holds stay covered while the slot goes on.
LEMMA StillCovered ==
  ASSUME SecretsCovered, slot \in Slots0, node \in Nodes,
         NEW t \in Slots0, slot.kind = "ready" => t.kind = "ready", slot.next <= t.next
  PROVE  \A n \in node.held : SecretAvailable(t, n)
<1> SUFFICES ASSUME NEW n \in node.held PROVE SecretAvailable(t, n)
  OBVIOUS
<1>1. n \in Nat /\ slot.next \in Nat /\ t.next \in Nat
  BY Zenon DEF Nodes, Slots0
<1>2. slot.kind = "ready" /\ n + 2 <= slot.next
  BY Zenon DEF SecretsCovered, SecretAvailable
<1> QED
  BY <1>1, <1>2 DEF SecretAvailable

\* A step that leaves the node as it was and the slot with its next number keeps the
\* numbers.
LEMMA QuietNumbers ==
  ASSUME NumbersInv, daemon' \in Daemons, node' = node, slot' \in Slots0,
         slot'.next = slot.next, slot.kind = "ready" => slot'.kind = "ready",
         slot'.kind # "ready" => node.step = "setup"
  PROVE  NumbersInv'
<1>1. slot.next \in Nat /\ slot.next <= slot.next
  BY DEF NumbersInv, Slots0
<1>2. SecretsCovered'
  BY <1>1, StillCovered, Zenon DEF NumbersInv, SecretsCovered
<1>3. InStep'
  BY Zenon DEF NumbersInv, InStep
<1> QED
  BY <1>2, <1>3, Zenon DEF NumbersInv

\* A step that goes on with the commitment the node is at, at the signer, at the node or
\* at both, keeps the numbers.
LEMMA Advances ==
  ASSUME NumbersInv, slot.kind = "ready", daemon' \in Daemons,
         NEW r, Sound(slot, r), slot' = r.slot,
         r.slot.next = slot.next \/ (r.slot.next = node.n + 1 /\ slot.next = node.n),
         node' \in Nodes, node'.held \subseteq node.held \cup r.secrets,
         node'.step = "setup" => node'.n = 0, node'.step = "revoke" => node'.n > 0,
         \/ node'.n = node.n
         \/ node'.n = node.n + 1 /\ slot'.next > node.n
  PROVE  NumbersInv'
<1>0. /\ slot \in Slots0 /\ slot' \in Slots0 /\ slot'.kind = "ready" /\ slot.next <= slot'.next
      /\ node \in Nodes /\ node.n \in Nat /\ slot.next \in Nat /\ slot'.next \in Nat
      /\ node.n \in {slot.next, slot.next - 1}
  BY Zenon DEF NumbersInv, Sound, Nodes, Slots0, InStep
<1>1. InStep'
  <2>1. node'.n \in {slot'.next, slot'.next - 1}
    BY <1>0
  <2> QED
    BY <2>1, Zenon DEF InStep
<1>2. SecretsCovered'
  <2>1. \A n \in node.held : SecretAvailable(slot', n)
    BY <1>0, StillCovered, Zenon DEF NumbersInv
  <2> QED
    BY <2>1, Zenon DEF SecretsCovered, Sound
<1> QED
  BY <1>0, <1>1, <1>2, Zenon DEF NumbersInv

\* NewChannel and SetupChannel make a slot and leave its numbers.
LEMMA SetupSlots ==
  ASSUME NEW s \in Slots0, NEW splice \in BOOLEAN
  PROVE  /\ NewChannel(s).slot \in Slots0 /\ NewChannel(s).slot.next = s.next
         /\ SetupChannel(s, splice).slot \in Slots0 /\ SetupChannel(s, splice).slot.next = s.next
         /\ s.kind # "absent" => SetupChannel(s, splice).slot.kind = "ready"
         /\ s.kind = "absent" => NewChannel(s).slot.kind = "stub"
<1> DEFINE n == [s EXCEPT !.kind = "stub"]
           t == [s EXCEPT !.kind = "ready", !.window = @ \/ (s.kind = "ready" /\ splice)]
<1>1. n \in Slots0 /\ n.next = s.next /\ n.kind = "stub"
  BY Zenon DEF Slots0
<1>2. t \in Slots0 /\ t.next = s.next /\ t.kind = "ready"
  BY Zenon DEF Slots0
<1>3. NewChannel(s).slot = IF s.kind = "absent" THEN n ELSE s
  BY DEF NewChannel, Reply
<1>4. SetupChannel(s, splice).slot = IF s.kind = "absent" THEN s ELSE t
  BY DEF SetupChannel, Reply, Refuse
<1> HIDE DEF n, t
<1> QED
  BY <1>1, <1>2, <1>3, <1>4, Zenon

\* The channel is made and set up; the reply may be lost.
LEMMA SetupNumbers ==
  ASSUME NumbersInv, Setup
  PROVE  NumbersInv'
<1> DEFINE r == IF slot.kind = "absent" THEN NewChannel(slot) ELSE SetupChannel(slot, FALSE)
           after == [node EXCEPT !.step = "validate"]
<1>0. /\ slot \in Slots0 /\ node \in Nodes /\ daemon \in Daemons
      /\ node.step = "setup" /\ node.n = 0 /\ Serve(r)
      /\ Answered(r, IF r.slot.kind = "ready" THEN after ELSE node)
  BY Zenon DEF NumbersInv, Setup
<1>1. /\ r.slot \in Slots0 /\ r.slot.next = slot.next
      /\ slot.kind # "absent" => r.slot.kind = "ready"
  BY <1>0, SetupSlots, Zenon
<1>2. after \in Nodes /\ after.n = node.n /\ after.held = node.held /\ after.step = "validate"
  BY <1>0, Zenon DEF Nodes
<1> HIDE DEF r, after
<1>3. daemon' \in Daemons /\ slot' = r.slot
  BY <1>0, ServeTypes, Zenon
<1>4. node' = node \/ (node' = after /\ slot'.kind = "ready")
  BY <1>0, <1>3, Zenon DEF Answered
<1>5. slot.kind = "ready" => slot'.kind = "ready"
  BY <1>1, <1>3, Zenon
<1>6. CASE node' = node
  BY <1>0, <1>1, <1>3, <1>5, <1>6, QuietNumbers, Zenon
<1>7. CASE node' = after /\ slot'.kind = "ready"
  <2>1. InStep'
    BY <1>0, <1>1, <1>2, <1>3, <1>5, <1>7, Zenon DEF NumbersInv, InStep
  <2>2. slot.next \in Nat /\ slot.next <= slot.next
    BY <1>0 DEF Slots0
  <2>3. SecretsCovered'
    BY <1>0, <1>1, <1>2, <1>3, <1>5, <1>7, <2>2, StillCovered, Zenon
    DEF NumbersInv, SecretsCovered
  <2> QED
    BY <1>0, <1>1, <1>2, <1>3, <1>7, <2>1, <2>3, Zenon DEF NumbersInv
<1> QED
  BY <1>4, <1>6, <1>7, Zenon

\* A node that goes on to its next commitment, with further secrets.
LEMMA AdvancedNode ==
  ASSUME node \in Nodes, NEW secrets, secrets \subseteq Nat
  PROVE  LET more == [node EXCEPT !.held = @ \cup secrets]
         IN  /\ Advanced(node) \in Nodes /\ Advanced(more) \in Nodes
             /\ Advanced(node).n = node.n + 1 /\ Advanced(more).n = node.n + 1
             /\ Advanced(node).step = "validate" /\ Advanced(more).step = "validate"
             /\ Advanced(node).held = node.held
             /\ Advanced(more).held = node.held \cup secrets
<1>1. node.n \in Nat /\ node.held \cup secrets \in SUBSET Nat
  BY Zenon DEF Nodes
<1>2. node.n + 1 \in Nat
  BY <1>1
<1> QED
  BY <1>1, <1>2, Zenon DEF Nodes, Advanced

\* ValidateCommitmentTx: the node goes on when the reply shows that commitment n is
\* current, and else stays or has the predecessor revoked next.
LEMMA ValidateNumbers ==
  ASSUME NumbersInv, Validate
  PROVE  NumbersInv'
<1> DEFINE r == ValidateCommitmentTx(slot, daemon.version, node.n)
           revoke == [node EXCEPT !.step = "revoke"]
           more == [node EXCEPT !.held = @ \cup r.secrets]
           after == IF node.n = 0 THEN Advanced(node)
                    ELSE IF "RevokeCommitmentTx" \in node.told THEN revoke
                    ELSE IF r.secrets # {} THEN Advanced(more)
                    ELSE node
<1>0. /\ slot \in Slots0 /\ node \in Nodes /\ daemon \in Daemons
      /\ node.step = "validate" /\ slot.kind = "ready"
      /\ Serve(r) /\ Answered(r, after)
  BY Zenon DEF NumbersInv, Validate
<1>1. Validates(slot, daemon.version, node.n, r)
  BY <1>0, ValidateSound, SessionTypes, Zenon
<1>2. r.secrets \subseteq Nat
  BY <1>1, Zenon DEF Validates, Sound
<1>3. /\ Advanced(node) \in Nodes /\ Advanced(more) \in Nodes
      /\ Advanced(node).n = node.n + 1 /\ Advanced(more).n = node.n + 1
      /\ Advanced(node).step = "validate" /\ Advanced(more).step = "validate"
      /\ Advanced(node).held = node.held
      /\ Advanced(more).held = node.held \cup r.secrets
  BY <1>0, <1>2, AdvancedNode, Zenon
<1>4. revoke \in Nodes /\ revoke.n = node.n /\ revoke.held = node.held /\ revoke.step = "revoke"
  BY <1>0, Zenon DEF Nodes
<1>5. node.n \in Nat /\ (node.n # 0 => node.n > 0)
  BY <1>0 DEF Nodes
<1> HIDE DEF r, revoke, more
<1>6. daemon' \in Daemons /\ slot' = r.slot
  BY <1>0, ServeTypes, Zenon
<1>7. \/ node' = node
      \/ node' = revoke /\ node.n > 0
      \/ node' = Advanced(node) /\ r.slot.next > node.n
      \/ node' = Advanced(more) /\ r.slot.next > node.n
  BY <1>0, <1>1, <1>5, Zenon DEF Answered, Validates
<1>8. /\ node' \in Nodes /\ node'.held \subseteq node.held \cup r.secrets
      /\ node'.step = "setup" => node'.n = 0
      /\ node'.step = "revoke" => node'.n > 0
      /\ \/ node'.n = node.n
         \/ node'.n = node.n + 1 /\ slot'.next > node.n
  BY <1>0, <1>3, <1>4, <1>6, <1>7, Zenon
<1> QED
  BY <1>0, <1>1, <1>6, <1>8, Advances, Zenon DEF Validates

\* RevokeCommitmentTx for the predecessor: after a reply the commitment is current.
LEMMA RevokeNumbers ==
  ASSUME NumbersInv, Revoke
  PROVE  NumbersInv'
<1> DEFINE r == RevokeCommitmentTx(slot, daemon.version, node.n - 1)
           more == [node EXCEPT !.held = @ \cup r.secrets]
<1>0. /\ slot \in Slots0 /\ node \in Nodes /\ daemon \in Daemons
      /\ node.step = "revoke" /\ node.n > 0 /\ slot.kind = "ready"
      /\ Serve(r) /\ Answered(r, Advanced(more))
  BY Zenon DEF NumbersInv, Revoke
<1>1. /\ node.n \in Nat /\ node.n - 1 \in Nat /\ daemon.version \in Nat
      /\ node.n - 1 + 1 = node.n /\ node.n - 1 + 2 = node.n + 1
  BY <1>0, SessionTypes
<1>2. /\ Sound(slot, r)
      /\ r.slot.next = slot.next \/ (r.slot.next = node.n + 1 /\ slot.next = node.n)
      /\ r.out = "reply" => r.slot.next > node.n
  BY <1>0, <1>1, RevokeSound
<1>3. r.secrets \subseteq Nat
  BY <1>2, Zenon DEF Sound
<1>4. /\ Advanced(more) \in Nodes /\ Advanced(more).n = node.n + 1
      /\ Advanced(more).step = "validate" /\ Advanced(more).held = node.held \cup r.secrets
  BY <1>0, <1>3, AdvancedNode, Zenon
<1> HIDE DEF r, more
<1>5. daemon' \in Daemons /\ slot' = r.slot
  BY <1>0, ServeTypes, Zenon
<1>6. node' = node \/ (node' = Advanced(more) /\ r.slot.next > node.n)
  BY <1>0, <1>2, Zenon DEF Answered
<1>7. /\ node' \in Nodes /\ node'.held \subseteq node.held \cup r.secrets
      /\ node'.step = "setup" => node'.n = 0
      /\ node'.step = "revoke" => node'.n > 0
      /\ \/ node'.n = node.n
         \/ node'.n = node.n + 1 /\ slot'.next > node.n
  BY <1>0, <1>4, <1>5, <1>6, Zenon
<1> QED
  BY <1>0, <1>2, <1>5, <1>7, Advances, Zenon

\* GetPerCommitmentPoint: what a reply brings is covered.
LEMMA PointNumbers ==
  ASSUME NumbersInv, NEW n \in Nat, AskPoint(n)
  PROVE  NumbersInv'
<1> DEFINE r == GetPerCommitmentPoint(slot, daemon.version, n)
           more == [node EXCEPT !.held = @ \cup r.secrets]
<1>0. /\ slot \in Slots0 /\ node \in Nodes /\ daemon \in Daemons
      /\ Serve(r) /\ node' = more
  BY Zenon DEF NumbersInv, AskPoint
<1>1. Sound(slot, r) /\ r.slot = slot
  BY <1>0, PointSound, SessionTypes, Zenon
<1>2. node.held \cup r.secrets \in SUBSET Nat
  BY <1>0, <1>1, Zenon DEF Sound, Nodes
<1>3. /\ more \in Nodes /\ more.n = node.n /\ more.step = node.step
      /\ more.held = node.held \cup r.secrets
  BY <1>0, <1>2, Zenon DEF Nodes
<1> HIDE DEF r, more
<1>4. daemon' \in Daemons /\ slot' = slot
  BY <1>0, <1>1, ServeTypes, Zenon
<1>5. SecretsCovered'
  BY <1>0, <1>1, <1>3, <1>4, Zenon DEF NumbersInv, SecretsCovered, Sound
<1> QED
  BY <1>0, <1>3, <1>4, <1>5, Zenon DEF NumbersInv, InStep

\* The other requests leave the numbers alone.
LEMMA OtherNumbers ==
  ASSUME NumbersInv, Splice \/ Lock \/ Other
  PROVE  NumbersInv'
<1>0. slot \in Slots0 /\ node \in Nodes /\ daemon \in Daemons
  BY Zenon DEF NumbersInv
<1>1. PICK r : /\ Serve(r) /\ node' = node
               /\ r.slot \in Slots0 /\ r.slot.next = slot.next
               /\ r.slot.kind = slot.kind
  <2>1. CASE Splice
    <3>1. slot.kind = "ready" /\ Serve(SetupChannel(slot, TRUE)) /\ node' = node
      BY <2>1, Zenon DEF Splice
    <3>2. SetupChannel(slot, TRUE).slot.kind = slot.kind
      BY <1>0, <3>1, SetupSlots, Zenon
    <3> QED
      BY <1>0, <3>1, <3>2, SetupSlots, Zenon
  <2>2. CASE Lock
    <3> DEFINE t == [slot EXCEPT !.window = FALSE]
    <3>1. t \in Slots0 /\ t.next = slot.next /\ t.kind = slot.kind
      BY <1>0, Zenon DEF Slots0
    <3>2. Serve(LockOutpoint(slot)) /\ node' = node
      BY <2>2, Zenon DEF Lock
    <3>3. LockOutpoint(slot).slot \in {slot, t}
      BY DEF LockOutpoint, Reply, Refuse
    <3> HIDE DEF t
    <3> QED
      BY <1>0, <3>1, <3>2, <3>3, Zenon
  <2>3. CASE Other
    <3>1. PICK r \in {RootHandle(slot, m) : m \in OtherRoot}
                     \cup {ChannelHandle(slot, m) : m \in OtherChannel}
                     \cup {Refuse(slot) : m \in Refusable} : Serve(r) /\ node' = node
      BY <2>3, Zenon DEF Other
    <3>2. \A m : RootHandle(slot, m).slot = slot /\ ChannelHandle(slot, m).slot = slot
      BY DEF RootHandle, ChannelHandle, Reply, Refuse, Panic
    <3>3. Refuse(slot).slot = slot
      BY DEF Refuse
    <3>4. r.slot = slot
      BY <3>1, <3>2, <3>3, Zenon
    <3> QED
      BY <1>0, <3>1, <3>4, Zenon
  <2> QED
    BY <2>1, <2>2, <2>3, Zenon
<1>2. daemon' \in Daemons /\ slot' = r.slot
  BY <1>0, <1>1, ServeTypes, Zenon
<1> QED
  BY <1>1, <1>2, QuietNumbers, Zenon DEF NumbersInv

\* Connections, restarts and upgrades change neither the slot nor what the node has.
LEMMA RestartNumbers ==
  ASSUME NumbersInv, slot' = slot, daemon' \in Daemons, node' \in Nodes,
         node'.n = node.n, node'.held = node.held,
         node'.step = node.step \/ (node.step = "revoke" /\ node'.step = "validate")
  PROVE  NumbersInv'
BY Zenon DEF NumbersInv, SecretsCovered, InStep

\* The version two builds agree on, and what the node is told of it.
LEMMA VersionTypes ==
  ASSUME NEW r \in NodeRanges, NEW max \in SignerMax
  PROVE  LET v == MutualVersion(r[2], max)
         IN  /\ v \in Nat /\ v <= max /\ v <= r[2]
             /\ Capabilities(v) \subseteq Capabilities(PROTOCOL_VERSION_REVOKE)
             /\ "RevokeCommitmentTx" \in Capabilities(v) <=> v >= PROTOCOL_VERSION_REVOKE
<1> DEFINE v == MutualVersion(r[2], max)
<1>1. r[2] \in Nat /\ max \in Nat
  BY SessionAssumption
<1>2. v \in Nat /\ v <= max /\ v <= r[2]
  BY <1>1 DEF MutualVersion
<1> HIDE DEF v
<1>3. /\ Capabilities(v) \subseteq Capabilities(PROTOCOL_VERSION_REVOKE)
      /\ "RevokeCommitmentTx" \in Capabilities(v) <=> v >= PROTOCOL_VERSION_REVOKE
  BY <1>2 DEF Capabilities, PROTOCOL_VERSION_REVOKE
<1> QED
  BY <1>2, <1>3 DEF v

\* The daemon's stages and the restarts of either side leave the records well formed.
LEMMA StageTypes ==
  ASSUME slot \in Slots0, node \in Nodes, daemon \in Daemons,
         \/ Connect \/ InitOther \/ HsmdInit
         \/ \E max \in SignerMax : SignerRestart(max)
         \/ \E r \in NodeRanges, max \in SignerMax : NodeRestart(r, max)
  PROVE  /\ slot' = slot /\ daemon' \in Daemons /\ node' \in Nodes
         /\ node'.n = node.n /\ node'.held = node.held
         /\ node'.step = node.step \/ (node.step = "revoke" /\ node'.step = "validate")
<1>0. NoVersion \in Nat
  BY DEF NoVersion
<1>1. CASE Connect \/ InitOther
  BY <1>0, <1>1, Zenon DEF Connect, InitOther, sessionVars, Daemons
<1>2. CASE HsmdInit
  <2> DEFINE v == MutualVersion(node.range[2], daemon.max)
             told == [node EXCEPT !.version = v, !.told = Capabilities(v)]
             serving == [daemon EXCEPT !.stage = "serving", !.version = v]
  <2>1. v \in Nat /\ Capabilities(v) \in SUBSET Capabilities(PROTOCOL_VERSION_REVOKE)
    <3>1. node.range \in NodeRanges /\ daemon.max \in SignerMax
      BY Zenon DEF Nodes, Daemons
    <3> QED
      BY <3>1, VersionTypes, Zenon
  <2>2. daemon' = serving /\ slot' = slot /\ (node' = node \/ node' = told)
    BY <1>2, Zenon DEF HsmdInit
  <2> HIDE DEF v
  <2>3. /\ told \in Nodes /\ told.n = node.n /\ told.held = node.held
        /\ told.step = node.step
    BY <2>1, Zenon DEF Nodes
  <2>4. serving \in Daemons
    BY <2>1, Zenon DEF Daemons
  <2> QED
    BY <2>2, <2>3, <2>4, Zenon
<1>3. ASSUME NEW max \in SignerMax, SignerRestart(max)
      PROVE  slot' = slot /\ daemon' \in Daemons /\ node' = node
  BY <1>0, <1>3, Zenon DEF SignerRestart, Daemons
<1>4. ASSUME NEW r \in NodeRanges, NEW max \in SignerMax, NodeRestart(r, max)
      PROVE  /\ slot' = slot /\ daemon' \in Daemons /\ node' \in Nodes
             /\ node'.n = node.n /\ node'.held = node.held
             /\ node'.step = node.step \/ (node.step = "revoke" /\ node'.step = "validate")
  BY <1>0, <1>4, Zenon DEF NodeRestart, Daemons, Nodes
<1> QED
  BY <1>1, <1>2, <1>3, <1>4, Zenon

\* The numbers stay together and the secrets covered in every step.
LEMMA NumbersStep ==
  ASSUME NumbersInv, [SessionNext]_sessionVars
  PROVE  NumbersInv'
<1>0. slot \in Slots0 /\ node \in Nodes /\ daemon \in Daemons
  BY Zenon DEF NumbersInv
<1>1. CASE \/ Connect \/ InitOther \/ HsmdInit
           \/ \E max \in SignerMax : SignerRestart(max)
           \/ \E r \in NodeRanges, max \in SignerMax : NodeRestart(r, max)
  BY <1>0, <1>1, StageTypes, RestartNumbers, Zenon
<1>2. CASE Setup
  BY <1>2, SetupNumbers, Zenon
<1>3. CASE Validate
  BY <1>3, ValidateNumbers, Zenon
<1>4. CASE Revoke
  BY <1>4, RevokeNumbers, Zenon
<1>5. ASSUME NEW n \in 0..MaxNum + 2, AskPoint(n)
      PROVE  NumbersInv'
  <2>1. n \in Nat
    BY SessionAssumption
  <2> QED
    BY <1>5, <2>1, PointNumbers, Zenon
<1>6. CASE Splice \/ Lock \/ Other
  BY <1>6, OtherNumbers, Zenon
<1>7. CASE UNCHANGED sessionVars
  BY <1>0, <1>7, RestartNumbers, Zenon DEF sessionVars
<1> QED
  BY <1>1, <1>2, <1>3, <1>4, <1>5, <1>6, <1>7, Zenon DEF SessionNext

\* Before anything was exchanged.
LEMMA SessionStarts ==
  ASSUME SessionInit
  PROVE  NumbersInv /\ VersionsInv
<1>0. NoVersion \in Nat /\ 0 \in Nat /\ {} \subseteq Nat
  BY DEF NoVersion
<1>1. slot \in Slots0 /\ slot.kind = "absent" /\ slot.next = 0
  BY <1>0, Zenon DEF SessionInit, Absent, Slots0
<1>2. PICK r \in NodeRanges : node = FreshNode(r)
  BY Zenon DEF SessionInit
<1>3. PICK max \in SignerMax : daemon = [stage |-> "off", version |-> NoVersion, max |-> max]
  BY Zenon DEF SessionInit
<1>4. /\ node \in Nodes /\ node.step = "setup" /\ node.n = 0 /\ node.held = {}
      /\ node.version = NoVersion
  <2>1. {} \in SUBSET Nat /\ {} \in SUBSET Capabilities(PROTOCOL_VERSION_REVOKE)
    BY Zenon
  <2> QED
    BY <1>0, <1>2, <2>1, Zenon DEF FreshNode, Nodes
<1>5. daemon \in Daemons /\ daemon.stage = "off"
  BY <1>0, <1>3, Zenon DEF Daemons
<1> QED
  BY <1>1, <1>4, <1>5, Zenon DEF NumbersInv, VersionsInv, SecretsCovered, InStep

\* A served request leaves the builds and what was agreed on as they are.
LEMMA ServedVersions ==
  ASSUME node \in Nodes, daemon \in Daemons, slot \in Slots0,
         \/ Setup \/ Validate \/ Revoke
         \/ \E n \in 0..MaxNum + 2 : AskPoint(n)
         \/ Splice \/ Lock \/ Other
  PROVE  /\ node'.range = node.range /\ node'.version = node.version /\ node'.told = node.told
         /\ daemon'.max = daemon.max /\ daemon'.version = daemon.version
         /\ daemon.stage = "serving"
<1> DEFINE Keeps(nd) == nd.range = node.range /\ nd.version = node.version /\ nd.told = node.told
<1>1. \A h : Keeps([node EXCEPT !.held = h])
  BY Zenon DEF Nodes
<1>2. /\ Keeps(node) /\ Keeps([node EXCEPT !.step = "validate"])
      /\ Keeps([node EXCEPT !.step = "revoke"]) /\ Keeps(Advanced(node))
      /\ \A h : Keeps(Advanced([node EXCEPT !.held = h]))
  BY Zenon DEF Nodes, Advanced
<1> HIDE DEF Keeps
<1>3. \A r, after : Answered(r, after) /\ Keeps(after) => Keeps(node')
  BY <1>2, Zenon DEF Answered
<1>4. (\E r : Serve(r)) /\ Keeps(node')
  <2>1. CASE Setup
    BY <2>1, <1>2, <1>3, Zenon DEF Setup
  <2>2. CASE Validate
    BY <2>2, <1>2, <1>3, Zenon DEF Validate
  <2>3. CASE Revoke
    BY <2>3, <1>2, <1>3, Zenon DEF Revoke
  <2>4. ASSUME NEW n \in 0..MaxNum + 2, AskPoint(n)
        PROVE  (\E r : Serve(r)) /\ Keeps(node')
    BY <2>4, <1>1, Zenon DEF AskPoint
  <2>5. CASE Splice \/ Lock \/ Other
    BY <2>5, <1>2, Zenon DEF Splice, Lock, Other
  <2> QED
    BY <2>1, <2>2, <2>3, <2>4, <2>5, Zenon
<1> QED
  BY <1>4, ServeTypes, Zenon DEF Keeps

\* The versions agree in every step that keeps the build of the signer while the node
\* runs.
LEMMA VersionsStep ==
  ASSUME Hot = FALSE, node \in Nodes, daemon \in Daemons, slot \in Slots0,
         VersionsInv, [SessionNext]_sessionVars
  PROVE  VersionsInv'
<1> DEFINE v == MutualVersion(node.range[2], daemon.max)
<1>0. ASSUME node'.range = node.range, node'.version = node.version, node'.told = node.told,
             daemon'.max = daemon.max, daemon'.stage = "serving" => daemon.stage = "serving",
             daemon'.stage = "serving" => daemon'.version = daemon.version
      PROVE  VersionsInv'
  BY <1>0, Zenon DEF VersionsInv
<1>1. CASE \/ Setup \/ Validate \/ Revoke
           \/ \E n \in 0..MaxNum + 2 : AskPoint(n)
           \/ Splice \/ Lock \/ Other
  BY <1>0, <1>1, ServedVersions, Zenon
<1>2. CASE Connect \/ InitOther \/ UNCHANGED sessionVars
  BY <1>0, <1>2, Zenon DEF Connect, InitOther, sessionVars, Daemons
<1>3. CASE HsmdInit
  <2> DEFINE told == [node EXCEPT !.version = v, !.told = Capabilities(v)]
  <2>1. /\ daemon'.max = daemon.max /\ daemon'.version = v
        /\ node' = IF node.version = NoVersion THEN told ELSE node
    BY <1>3, Zenon DEF HsmdInit, Daemons
  <2>2. told.range = node.range /\ told.version = v /\ told.told = Capabilities(v)
    BY Zenon DEF Nodes
  <2>3. node.version # NoVersion => node.version = v /\ node.told = Capabilities(v)
    BY Zenon DEF VersionsInv
  <2>4. node'.range = node.range /\ node'.version = v /\ node'.told = Capabilities(v)
    BY <2>1, <2>2, <2>3, Zenon
  <2> QED
    BY <2>1, <2>4, Zenon DEF VersionsInv
<1>4. ASSUME NEW max \in SignerMax, SignerRestart(max)
      PROVE  VersionsInv'
  <2>1. daemon'.max = daemon.max /\ daemon'.stage = "off" /\ node' = node
    BY <1>4, Zenon DEF SignerRestart
  <2> QED
    BY <1>0, <2>1, Zenon
<1>5. ASSUME NEW r \in NodeRanges, NEW max \in SignerMax, NodeRestart(r, max)
      PROVE  VersionsInv'
  <2>1. node'.version = NoVersion /\ daemon'.stage = "off"
    BY <1>5, Zenon DEF NodeRestart, Nodes
  <2> QED
    BY <2>1, Zenon DEF VersionsInv
<1> QED
  BY <1>1, <1>2, <1>3, <1>4, <1>5, Zenon DEF SessionNext

\* Whatever builds of the node and the signer meet, and whether or not another signer
\* takes over while the node runs: a secret with the node belongs to a commitment that
\* the signer has replaced, and the node is never more than one commitment away.
THEOREM SecretsNeverEarly == SessionSpec => [](SecretsCovered /\ InStep)
<1>1. SessionInit => NumbersInv
  BY SessionStarts
<1>2. NumbersInv /\ [SessionNext]_sessionVars => NumbersInv'
  BY NumbersStep
<1>3. NumbersInv => SecretsCovered /\ InStep
  BY Zenon DEF NumbersInv
<1> QED
  BY <1>1, <1>2, <1>3, PTL DEF SessionSpec

\* With the signer's build changed only together with a restart of the node, the versions
\* the two run agree as well.
THEOREM SessionIsSound ==
  ASSUME Hot = FALSE
  PROVE  SessionSpec => []SessionSound
<1> DEFINE IInv == NumbersInv /\ VersionsInv
<1>1. SessionInit => IInv
  BY SessionStarts
<1>2. IInv /\ [SessionNext]_sessionVars => IInv'
  BY NumbersStep, VersionsStep, Zenon DEF NumbersInv
<1>3. IInv => SessionSound
  <2> SUFFICES ASSUME IInv PROVE SessionSound
    OBVIOUS
  <2> DEFINE v == MutualVersion(node.range[2], daemon.max)
  <2>1. node.range \in NodeRanges /\ daemon.max \in SignerMax
    BY Zenon DEF NumbersInv, Nodes, Daemons
  <2>2. /\ v <= daemon.max /\ v <= node.range[2]
        /\ "RevokeCommitmentTx" \in Capabilities(v) <=> v >= PROTOCOL_VERSION_REVOKE
    BY <2>1, VersionTypes, Zenon
  <2>3. VersionsAgree
    BY <2>2, Zenon DEF VersionsInv, VersionsAgree
  <2> QED
    BY <2>3, Zenon DEF NumbersInv, SessionSound
<1> QED
  BY <1>1, <1>2, <1>3, PTL DEF SessionSpec

-----------------------------------------------------------------------------
(* The client of a node built on LDK.                                      *)

ClientChannels == [dbid : Dbids, n : 0..NoCommit, step : {"sign", "validate", "idle", "release"}]

Setups == [done : BOOLEAN, deferred : 0..NoCommit]

\* A channel of a process that was not restarted: set up before its second commitment,
\* and with all its commitments at the signer but the one that is kept.
FirstRun(ch, st, s) ==
  /\ st.done => s.kind = "ready" /\ ch.n <= s.next
  /\ ~st.done => ch.n = IF st.deferred = NoCommit THEN 0 ELSE st.deferred + 1
  /\ ch.n > 0 /\ ch.step # "sign" => st.done

\* The last commitment is at the signer, or kept.
Kept(ch, st, s) == ch.n > 0 => s.next > ch.n - 1 \/ st.deferred = ch.n - 1

ClientInv ==
  /\ chans \in Seq(ClientChannels) /\ setup \in Seq(Setups) /\ Len(setup) = Len(chans)
  /\ slots \in [Dbids -> Slots0] /\ next_dbid \in Nat /\ restarts \in Nat
  /\ \A c \in Chans : chans[c].step = "release" => chans[c].n >= 2
  /\ restarts = 0 => ok
  /\ \A c \in Chans :
       /\ restarts = 0 => FirstRun(chans[c], setup[c], slots[chans[c].dbid])
       /\ restarts < 2 => Kept(chans[c], setup[c], slots[chans[c].dbid])

\* A slot that went on.
Grown(s, t) ==
  /\ t \in Slots0 /\ s.next <= t.next
  /\ s.kind = "ready" => t.kind = "ready"

\* What the types give of each channel.
LEMMA ClientTypes ==
  ASSUME chans \in Seq(ClientChannels), setup \in Seq(Setups), Len(setup) = Len(chans),
         slots \in [Dbids -> Slots0]
  PROVE  /\ DOMAIN setup = Chans /\ Chans = 1..Len(chans)
         /\ \A c \in Chans : /\ chans[c] \in ClientChannels /\ chans[c].dbid \in Dbids
                            /\ setup[c] \in Setups /\ slots[chans[c].dbid] \in Slots0
<1>1. /\ DOMAIN setup = Chans /\ Chans = 1..Len(chans)
      /\ \A c \in Chans : chans[c] \in ClientChannels /\ setup[c] \in Setups
  BY DEF Chans
<1>2. \A ch \in ClientChannels : ch.dbid \in Dbids
  BY Zenon DEF ClientChannels
<1> QED
  BY <1>1, <1>2, Zenon

\* What holds of a channel holds with the slot grown.
LEMMA StillKept ==
  ASSUME NEW ch \in ClientChannels, NEW st, NEW s \in Slots0, NEW t, Grown(s, t)
  PROVE  /\ FirstRun(ch, st, s) => FirstRun(ch, st, t)
         /\ Kept(ch, st, s) => Kept(ch, st, t)
<1>1. ch.n \in Nat /\ s.next \in Nat /\ t.next \in Nat
  BY ClientAssumption DEF ClientChannels, Slots0, Grown, NoCommit
<1> QED
  BY <1>1 DEF FirstRun, Kept, Grown

\* A step for channel c, whose slot goes on, keeps the invariant when the channel itself
\* is left in order.
LEMMA ChannelStep ==
  ASSUME ClientInv, NEW c \in Chans, NEW ch \in ClientChannels, NEW st \in Setups, NEW t,
         ch.dbid = chans[c].dbid, Grown(slots[chans[c].dbid], t),
         chans' = [chans EXCEPT ![c] = ch], setup' = [setup EXCEPT ![c] = st],
         slots' = [slots EXCEPT ![chans[c].dbid] = t],
         UNCHANGED <<next_dbid, restarts>>,
         ch.step = "release" => ch.n >= 2,
         restarts = 0 => ok' /\ FirstRun(ch, st, t),
         restarts < 2 => Kept(ch, st, t)
  PROVE  ClientInv'
<1> DEFINE d == chans[c].dbid
<1>0. /\ \A b \in Chans : chans[b] \in ClientChannels /\ chans[b].dbid \in Dbids
      /\ DOMAIN setup = Chans
  BY ClientTypes, Zenon DEF ClientInv
<1>1. /\ chans' \in Seq(ClientChannels) /\ Len(chans') = Len(chans) /\ Chans' = Chans
      /\ setup' \in Seq(Setups) /\ Len(setup') = Len(setup)
  <2>1. c \in DOMAIN chans /\ c \in DOMAIN setup
    BY <1>0, Zenon DEF Chans
  <2> QED
    BY <2>1 DEF ClientInv, Chans
<1>2. slots' \in [Dbids -> Slots0] /\ \A b \in Dbids : Grown(slots[b], slots'[b])
  <2>1. \A b \in Dbids : Grown(slots[b], slots[b])
    BY DEF Grown, ClientInv, Slots0
  <2> QED
    BY <1>0, <2>1, Zenon DEF Grown, ClientInv
<1>3. \A b \in Chans : chans'[b] = (IF b = c THEN ch ELSE chans[b])
                     /\ setup'[b] = (IF b = c THEN st ELSE setup[b])
                     /\ chans'[b].dbid = chans[b].dbid
  BY <1>0, Zenon DEF Chans
<1>4. slots'[d] = t
  BY <1>0, Zenon DEF ClientInv
<1>5. ASSUME NEW b \in Chans
      PROVE  /\ restarts = 0 => FirstRun(chans'[b], setup'[b], slots'[chans'[b].dbid])
             /\ restarts < 2 => Kept(chans'[b], setup'[b], slots'[chans'[b].dbid])
             /\ chans'[b].step = "release" => chans'[b].n >= 2
  <2>1. CASE b = c
    BY <1>3, <1>4, <2>1, Zenon
  <2>2. CASE b # c
    <3>1. /\ chans'[b] = chans[b] /\ setup'[b] = setup[b] /\ chans[b] \in ClientChannels
          /\ slots[chans[b].dbid] \in Slots0
          /\ Grown(slots[chans[b].dbid], slots'[chans[b].dbid])
      BY <1>0, <1>2, <1>3, <2>2, Zenon DEF ClientInv
    <3>2. /\ restarts = 0 => FirstRun(chans[b], setup[b], slots[chans[b].dbid])
          /\ restarts < 2 => Kept(chans[b], setup[b], slots[chans[b].dbid])
          /\ chans[b].step = "release" => chans[b].n >= 2
      BY Zenon DEF ClientInv
    <3>3. /\ restarts = 0 => FirstRun(chans[b], setup[b], slots'[chans[b].dbid])
          /\ restarts < 2 => Kept(chans[b], setup[b], slots'[chans[b].dbid])
      BY <3>1, <3>2, StillKept, Zenon
    <3> QED
      BY <3>1, <3>2, <3>3, Zenon
  <2> QED
    BY <2>1, <2>2, Zenon
<1> QED
  BY <1>1, <1>2, <1>5, Zenon DEF ClientInv

\* A channel is opened: the next number, a slot for it and a client without setup.
LEMMA OpenStep ==
  ASSUME ClientInv, OpenChannel
  PROVE  ClientInv'
<1> DEFINE ch == [dbid |-> next_dbid, n |-> 0,
                  step |-> IF Sides[Len(chans) + 1] = "outbound" THEN "sign" ELSE "validate"]
           t == NewChannel(slots[next_dbid]).slot
           last == Len(chans) + 1
<1>0. /\ \A b \in Chans : chans[b] \in ClientChannels /\ chans[b].dbid \in Dbids
      /\ DOMAIN setup = Chans
  BY ClientTypes, Zenon DEF ClientInv
<1>1. /\ next_dbid \in Dbids /\ next_dbid' = next_dbid + 1
      /\ chans' = Append(chans, ch) /\ setup' = Append(setup, FreshSetup)
      /\ slots' = [slots EXCEPT ![next_dbid] = t]
      /\ ok' = ok /\ restarts' = restarts
  BY Zenon DEF OpenChannel
<1>2. NoCommit \in 0..NoCommit /\ 0 \in 0..NoCommit /\ 0 <= NoCommit
  BY ClientAssumption DEF NoCommit
<1>3. /\ ch \in ClientChannels /\ ch.n = 0 /\ ch.step # "release"
      /\ FreshSetup \in Setups /\ FreshSetup.done = FALSE /\ FreshSetup.deferred = NoCommit
  BY <1>1, <1>2, Zenon DEF ClientChannels, Setups, FreshSetup
<1>4. Grown(slots[next_dbid], t)
  <2>1. slots[next_dbid] \in Slots0
    BY <1>1, Zenon DEF ClientInv
  <2>2. slots[next_dbid].kind # "absent" => t = slots[next_dbid]
    BY DEF NewChannel, Reply
  <2>3. slots[next_dbid].next \in Nat /\ slots[next_dbid].next <= slots[next_dbid].next
    BY <2>1 DEF Slots0
  <2> HIDE DEF t
  <2> QED
    BY <2>1, <2>2, <2>3, SetupSlots, Zenon DEF Grown, t
<1> HIDE DEF ch, t
<1>5. slots' \in [Dbids -> Slots0] /\ \A b \in Dbids : Grown(slots[b], slots'[b])
  <2>1. \A b \in Dbids : Grown(slots[b], slots[b])
    BY DEF Grown, ClientInv, Slots0
  <2> QED
    BY <1>1, <1>4, <2>1, Zenon DEF Grown, ClientInv
<1>6. /\ chans' \in Seq(ClientChannels) /\ setup' \in Seq(Setups) /\ Len(setup') = Len(chans')
      /\ \A b \in Chans : chans'[b] = chans[b] /\ setup'[b] = setup[b]
      /\ chans'[last] = ch /\ setup'[last] = FreshSetup
      /\ \A b \in Chans' : b \in Chans \/ b = last
  BY <1>0, <1>1, <1>3 DEF ClientInv, Chans
<1>7. next_dbid' \in Nat
  BY <1>1 DEF ClientInv
<1>8. ASSUME NEW b \in Chans'
      PROVE  /\ restarts = 0 => FirstRun(chans'[b], setup'[b], slots'[chans'[b].dbid])
             /\ restarts < 2 => Kept(chans'[b], setup'[b], slots'[chans'[b].dbid])
             /\ chans'[b].step = "release" => chans'[b].n >= 2
  <2>1. CASE b = last
    BY <1>3, <1>6, <2>1 DEF FirstRun, Kept
  <2>2. CASE b \in Chans
    <3>1. /\ chans'[b] = chans[b] /\ setup'[b] = setup[b] /\ chans[b] \in ClientChannels
          /\ slots[chans[b].dbid] \in Slots0
          /\ Grown(slots[chans[b].dbid], slots'[chans[b].dbid])
      BY <1>0, <1>5, <1>6, <2>2, Zenon DEF ClientInv
    <3>2. /\ restarts = 0 => FirstRun(chans[b], setup[b], slots[chans[b].dbid])
          /\ restarts < 2 => Kept(chans[b], setup[b], slots[chans[b].dbid])
          /\ chans[b].step = "release" => chans[b].n >= 2
      BY <2>2, Zenon DEF ClientInv
    <3>3. /\ restarts = 0 => FirstRun(chans[b], setup[b], slots'[chans[b].dbid])
          /\ restarts < 2 => Kept(chans[b], setup[b], slots'[chans[b].dbid])
      BY <3>1, <3>2, StillKept, Zenon
    <3> QED
      BY <3>1, <3>2, <3>3, Zenon
  <2> QED
    BY <1>6, <2>1, <2>2, Zenon
<1> QED
  BY <1>1, <1>5, <1>6, <1>7, <1>8, Zenon DEF ClientInv

\* ValidateCommitmentTx2 in the client's version: a reply has the commitment current.
LEMMA ReplaySound ==
  ASSUME NEW s \in Slots0, NEW n \in Nat
  PROVE  LET r == ValidateCommitmentTx2(s, VersionOfInit2, n)
         IN  Grown(s, r.slot) /\ (r.out = "reply" => r.slot.next > n)
<1> DEFINE r == ValidateCommitmentTx(s, VersionOfInit2, n)
<1>1. Validates(s, VersionOfInit2, n, r)
  <2>1. VersionOfInit2 \in Nat
    BY DEF VersionOfInit2
  <2> QED
    BY <2>1, ValidateSound, Zenon
<1>2. ValidateCommitmentTx2(s, VersionOfInit2, n) \in {r, Refuse(s)}
  BY Zenon DEF ValidateCommitmentTx2
<1>3. Refuse(s).slot = s /\ Refuse(s).out = "error" /\ s.next <= s.next
  BY DEF Refuse, Slots0
<1>4. VersionOfInit2 < PROTOCOL_VERSION_REVOKE
  BY DEF VersionOfInit2, PROTOCOL_VERSION_REVOKE
<1> HIDE DEF r
<1>5. Grown(s, r.slot) /\ (r.out = "reply" => r.slot.next > n)
  BY <1>1, <1>4, Zenon DEF Validates, Sound, Grown
<1>6. Grown(s, Refuse(s).slot) /\ Refuse(s).out # "reply"
  BY <1>3, Zenon DEF Grown
<1> QED
  BY <1>2, <1>5, <1>6, Zenon

\* ensure_channel_setup: when it succeeds the channel is ready, and the commitment that
\* was kept is current.
LEMMA EnsureSound ==
  ASSUME NEW c \in Chans, setup[c] \in Setups, slots[chans[c].dbid] \in Slots0,
         EnsureChannelSetup(c).ok
  PROVE  LET e == EnsureChannelSetup(c)
             s == slots[chans[c].dbid]
         IN  /\ Grown(s, e.slot) /\ e.state \in Setups /\ e.state.done
             /\ setup[c].done => e.state = setup[c] /\ e.slot = s
             /\ ~setup[c].done =>
                  /\ e.slot.kind = "ready" /\ e.state.deferred = NoCommit
                  /\ setup[c].deferred # NoCommit => e.slot.next > setup[c].deferred
<1> DEFINE e == EnsureChannelSetup(c)
           s == slots[chans[c].dbid]
           made == IF holder[chans[c].dbid] \in {0, c} THEN SetupChannel(s, FALSE)
                                                      ELSE Refuse(s)
           kept == setup[c].deferred
           replay == ValidateCommitmentTx2(made.slot, VersionOfInit2, kept)
           set == [done |-> TRUE, deferred |-> NoCommit]
<1>0. kept \in Nat /\ NoCommit \in 0..NoCommit /\ s.next \in Nat /\ s.next <= s.next
  BY ClientAssumption DEF Setups, NoCommit, Slots0
<1>1. set \in Setups /\ set.done /\ set.deferred = NoCommit
  BY <1>0, Zenon DEF Setups
<1>2. Grown(s, s)
  BY <1>0, Zenon DEF Grown
<1>3. made.out # "error" => Grown(s, made.slot) /\ made.slot.kind = "ready"
  <2>1. SetupChannel(s, FALSE).out # "error" => s.kind # "absent"
    BY DEF SetupChannel, Refuse
  <2>2. Refuse(s).out = "error"
    BY DEF Refuse
  <2>3. SetupChannel(s, FALSE).slot \in Slots0 /\ SetupChannel(s, FALSE).slot.next = s.next
    BY SetupSlots, Zenon
  <2>4. s.kind # "absent" => SetupChannel(s, FALSE).slot.kind = "ready"
    BY SetupSlots, Zenon
  <2> QED
    BY <1>0, <2>1, <2>2, <2>3, <2>4, Zenon DEF Grown
<1>4. made.out # "error" => /\ Grown(made.slot, replay.slot)
                            /\ replay.out = "reply" => replay.slot.next > kept
  BY <1>0, <1>3, ReplaySound, Zenon DEF Grown
<1>5. e = IF setup[c].done THEN [state |-> setup[c], slot |-> s, ok |-> TRUE]
          ELSE IF made.out = "error"
               THEN [state |-> setup[c], slot |-> s, ok |-> FALSE]
          ELSE IF kept = NoCommit
               THEN [state |-> set, slot |-> made.slot, ok |-> TRUE]
          ELSE IF replay.out = "reply"
               THEN [state |-> set, slot |-> replay.slot, ok |-> TRUE]
          ELSE [state |-> setup[c], slot |-> made.slot, ok |-> FALSE]
  BY Zenon DEF EnsureChannelSetup
<1>6. CASE setup[c].done
  <2>1. e.state = setup[c] /\ e.slot = s
    BY <1>5, <1>6
  <2> QED
    BY <1>2, <1>6, <2>1, Zenon
<1>7. CASE ~setup[c].done
  <2> HIDE DEF made, replay, kept, set
  <2>1. /\ made.out # "error" /\ e.state = set
        /\ \/ kept = NoCommit /\ e.slot = made.slot
           \/ replay.out = "reply" /\ e.slot = replay.slot
    BY <1>5, <1>7
  <2>2. Grown(s, e.slot) /\ e.slot.kind = "ready" /\ (kept # NoCommit => e.slot.next > kept)
    <3>1. CASE kept = NoCommit /\ e.slot = made.slot
      BY <1>3, <2>1, <3>1, Zenon
    <3>2. CASE replay.out = "reply" /\ e.slot = replay.slot
      <4>1. Grown(s, made.slot) /\ Grown(made.slot, e.slot) /\ made.slot.kind = "ready"
            /\ e.slot.next > kept
        BY <1>3, <1>4, <2>1, <3>2, Zenon
      <4> HIDE DEF e, s
      <4>2. s.next <= e.slot.next
        BY <1>0, <4>1 DEF Grown, Slots0
      <4> QED
        BY <4>1, <4>2, Zenon DEF Grown
    <3> QED
      BY <2>1, <3>1, <3>2, Zenon
  <2> QED
    BY <1>1, <1>7, <2>1, <2>2, Zenon DEF kept
<1> QED
  BY <1>6, <1>7, Zenon

\* What the invariant says of one channel.
LEMMA OneChannel ==
  ASSUME ClientInv, NEW c \in Chans
  PROVE  /\ chans[c] \in ClientChannels /\ chans[c].dbid \in Dbids /\ chans[c].n \in 0..NoCommit
         /\ setup[c] \in Setups /\ setup[c].deferred \in 0..NoCommit
         /\ slots[chans[c].dbid] \in Slots0 /\ slots[chans[c].dbid].next \in Nat
         /\ restarts = 0 => FirstRun(chans[c], setup[c], slots[chans[c].dbid])
         /\ restarts < 2 => Kept(chans[c], setup[c], slots[chans[c].dbid])
         /\ chans[c].step = "release" => chans[c].n >= 2
<1>1. /\ chans[c] \in ClientChannels /\ chans[c].dbid \in Dbids
      /\ setup[c] \in Setups /\ slots[chans[c].dbid] \in Slots0
  BY ClientTypes, Zenon DEF ClientInv
<1>2. /\ chans[c].n \in 0..NoCommit /\ setup[c].deferred \in 0..NoCommit
      /\ slots[chans[c].dbid].next \in Nat
  BY <1>1, Zenon DEF ClientChannels, Setups, Slots0
<1> QED
  BY <1>1, <1>2, Zenon DEF ClientInv

\* A signing call: the setup and the kept commitment reach the signer with it.
LEMMA SignStep ==
  ASSUME ClientInv, NEW c \in Chans, Sign(c)
  PROVE  ClientInv'
<1> DEFINE e == EnsureChannelSetup(c)
           s == slots[chans[c].dbid]
           step == IF chans[c].step = "sign" /\ chans[c].n = 0 THEN "validate" ELSE "idle"
           ch == [chans[c] EXCEPT !.step = step]
<1>1. /\ e.ok /\ chans' = [chans EXCEPT ![c] = ch] /\ setup' = [setup EXCEPT ![c] = e.state]
      /\ slots' = [slots EXCEPT ![chans[c].dbid] = e.slot]
      /\ ok' = ok /\ restarts' = restarts /\ next_dbid' = next_dbid
  BY Zenon DEF Sign
<1>2. /\ ch \in ClientChannels /\ ch.dbid = chans[c].dbid /\ ch.n = chans[c].n
      /\ ch.step # "release"
  BY OneChannel, Zenon DEF ClientChannels
<1>3. /\ Grown(s, e.slot) /\ e.state \in Setups /\ e.state.done
      /\ setup[c].done => e.state = setup[c] /\ e.slot = s
      /\ ~setup[c].done =>
           /\ e.slot.kind = "ready" /\ e.state.deferred = NoCommit
           /\ setup[c].deferred # NoCommit => e.slot.next > setup[c].deferred
  BY <1>1, OneChannel, EnsureSound, Zenon
<1>4. /\ chans[c].n \in 0..NoCommit /\ setup[c].deferred \in 0..NoCommit /\ NoCommit \in Nat
      /\ s.next \in Nat /\ e.slot.next \in Nat /\ s.next <= e.slot.next
  <2>1. NoCommit \in Nat
    BY ClientAssumption DEF NoCommit
  <2> QED
    BY <1>3, <2>1, OneChannel, Zenon DEF Grown, Slots0
<1>5. /\ restarts = 0 => ok /\ FirstRun(chans[c], setup[c], s)
      /\ restarts < 2 => Kept(chans[c], setup[c], s)
  BY OneChannel, Zenon DEF ClientInv
<1> HIDE DEF e, s, ch
<1>6. restarts = 0 => FirstRun(ch, e.state, e.slot)
  BY <1>2, <1>3, <1>4, <1>5 DEF FirstRun
<1>7. restarts < 2 => Kept(ch, e.state, e.slot)
  BY <1>2, <1>3, <1>4, <1>5 DEF Kept
<1> QED
  BY <1>1, <1>2, <1>3, <1>5, <1>6, <1>7, ChannelStep, Zenon DEF s

\* A holder commitment is sent, or kept until the setup.
LEMMA ValidateHolderStep ==
  ASSUME ClientInv, NEW c \in Chans, ValidateHolder(c)
  PROVE  ClientInv'
<1> DEFINE s == slots[chans[c].dbid]
           n == chans[c].n
           r == ValidateCommitmentTx2(s, VersionOfInit2, n)
           step == IF n > 0 THEN "release" ELSE IF setup[c].done THEN "idle" ELSE "sign"
           ch == [chans[c] EXCEPT !.n = n + 1, !.step = step]
           defer == [setup[c] EXCEPT !.deferred = n]
<1>1. /\ n <= LastCommit /\ chans' = [chans EXCEPT ![c] = ch]
      /\ ok' = ok /\ restarts' = restarts /\ next_dbid' = next_dbid
      /\ \/ /\ setup[c].done /\ r.out = "reply"
            /\ slots' = [slots EXCEPT ![chans[c].dbid] = r.slot] /\ setup' = setup
         \/ /\ ~setup[c].done /\ setup[c].deferred = NoCommit
            /\ setup' = [setup EXCEPT ![c] = defer] /\ slots' = slots
  BY Zenon DEF ValidateHolder
<1>2. /\ n \in Nat /\ n + 1 \in 0..NoCommit /\ n \in 0..NoCommit /\ n # NoCommit
      /\ n > 0 => n + 1 >= 2
  <2>1. n \in 0..NoCommit /\ n <= LastCommit
    BY <1>1, OneChannel, Zenon
  <2> HIDE DEF n
  <2> QED
    BY <2>1, ClientAssumption DEF NoCommit
<1>3. /\ ch \in ClientChannels /\ ch.dbid = chans[c].dbid /\ ch.n = n + 1 /\ ch.step = step
  BY <1>2, OneChannel, Zenon DEF ClientChannels
<1>4. ch.step = "release" => ch.n >= 2
  <2>1. step = "release" => n > 0
    OBVIOUS
  <2> QED
    BY <1>2, <1>3, <2>1
<1>5. s \in Slots0 /\ s.next \in Nat /\ setup[c] \in Setups
  BY OneChannel, Zenon
<1>6. /\ restarts = 0 => ok /\ FirstRun(chans[c], setup[c], s)
      /\ restarts < 2 => Kept(chans[c], setup[c], s)
  BY OneChannel, Zenon DEF ClientInv
<1>7. CASE setup[c].done /\ r.out = "reply"
  <2>1. Grown(s, r.slot) /\ r.slot.next > n /\ r.slot.next \in Nat
    BY <1>2, <1>5, <1>7, ReplaySound, Zenon DEF Grown, Slots0
  <2>2. setup' = [setup EXCEPT ![c] = setup[c]]
    <3>1. setup = [setup EXCEPT ![c] = setup[c]]
      BY DEF ClientInv
    <3> QED
      BY <1>1, <1>7, <3>1, Zenon
  <2> HIDE DEF s, r, ch
  <2>3. restarts = 0 => FirstRun(ch, setup[c], r.slot)
    BY <1>2, <1>3, <1>6, <1>7, <2>1 DEF FirstRun, Grown
  <2>4. Kept(ch, setup[c], r.slot)
    BY <1>2, <1>3, <2>1 DEF Kept
  <2> QED
    BY <1>1, <1>3, <1>4, <1>5, <1>6, <1>7, <2>1, <2>2, <2>3, <2>4, ChannelStep, Zenon DEF s
<1>8. CASE ~setup[c].done /\ setup[c].deferred = NoCommit
  <2>1. defer \in Setups /\ defer.done = setup[c].done /\ defer.deferred = n
    BY <1>2, <1>5, Zenon DEF Setups
  <2>2. slots' = [slots EXCEPT ![chans[c].dbid] = s] /\ Grown(s, s)
    <3>1. slots = [slots EXCEPT ![chans[c].dbid] = slots[chans[c].dbid]]
      BY OneChannel, Zenon DEF ClientInv
    <3>2. s.next <= s.next
      BY <1>5
    <3> QED
      BY <1>1, <1>5, <1>8, <3>1, <3>2, Zenon DEF Grown
  <2> HIDE DEF s, r, ch, defer
  <2>3. restarts = 0 => FirstRun(ch, defer, s)
    BY <1>2, <1>3, <1>6, <1>8, <2>1 DEF FirstRun
  <2>4. Kept(ch, defer, s)
    BY <1>2, <1>3, <2>1 DEF Kept
  <2> QED
    BY <1>1, <1>3, <1>4, <1>5, <1>6, <1>8, <2>1, <2>2, <2>3, <2>4, ChannelStep, Zenon DEF s
<1> QED
  BY <1>1, <1>7, <1>8, Zenon

\* A secret is due for a channel that is set up and has the commitments that replace it.
LEMMA ReleaseStep ==
  ASSUME ClientInv, NEW c \in Chans, ReleaseSecret(c)
  PROVE  ClientInv'
<1> DEFINE s == slots[chans[c].dbid]
           n == chans[c].n
           r == GetPerCommitmentPoint(s, VersionOfInit2, n)
           ch == [chans[c] EXCEPT !.step = IF ok' THEN "idle" ELSE chans[c].step]
<1>1. /\ chans[c].step = "release" /\ ok' = (n - 2 \in r.secrets)
      /\ chans' = [chans EXCEPT ![c] = ch] /\ setup' = setup /\ slots' = slots
      /\ restarts' = restarts /\ next_dbid' = next_dbid
  BY Zenon DEF ReleaseSecret
<1>2. /\ chans[c] \in ClientChannels /\ setup[c] \in Setups /\ s \in Slots0
      /\ n \in 0..NoCommit /\ s.next \in Nat /\ n >= 2
      /\ restarts = 0 => FirstRun(chans[c], setup[c], s)
      /\ restarts < 2 => Kept(chans[c], setup[c], s)
  BY <1>1, OneChannel, Zenon
<1>3. /\ ch \in ClientChannels /\ ch.dbid = chans[c].dbid /\ ch.n = n
      /\ ch.step \in {"idle", "release"}
  BY <1>1, <1>2, Zenon DEF ClientChannels
<1>4. restarts = 0 => setup[c].done /\ s.kind = "ready" /\ n <= s.next
  <2>1. n > 0
    BY <1>2
  <2> QED
    BY <1>1, <1>2, <2>1, Zenon DEF FirstRun
<1>5. restarts = 0 => ok'
  <2> HIDE DEF s, n
  <2>1. restarts = 0 => r.secrets = {n - 2}
    BY <1>2, <1>4 DEF GetPerCommitmentPoint, PointAvailable, SecretAvailable, Reply,
                      VersionOfInit2, PROTOCOL_VERSION_NO_SECRET
  <2> QED
    BY <1>1, <2>1, Zenon
<1>6. /\ setup' = [setup EXCEPT ![c] = setup[c]]
      /\ slots' = [slots EXCEPT ![chans[c].dbid] = s] /\ Grown(s, s)
  <2>1. setup = [setup EXCEPT ![c] = setup[c]]
    BY DEF ClientInv
  <2>2. slots = [slots EXCEPT ![chans[c].dbid] = slots[chans[c].dbid]]
    BY OneChannel, Zenon DEF ClientInv
  <2>3. s.next <= s.next
    BY <1>2
  <2> QED
    BY <1>1, <1>2, <2>1, <2>2, <2>3, Zenon DEF Grown
<1> HIDE DEF s, n, ch
<1>7. /\ restarts = 0 => FirstRun(ch, setup[c], s)
      /\ restarts < 2 => Kept(ch, setup[c], s)
  BY <1>2, <1>3, <1>4, Zenon DEF FirstRun, Kept, n
<1> QED
  BY <1>1, <1>2, <1>3, <1>5, <1>6, <1>7, ChannelStep, Zenon DEF s, n

\* A restart comes with a new client for each channel LDK stored, all of whose
\* commitments are at the signer if it is the first.
LEMMA RestartStep ==
  ASSUME ClientInv, ClientRestart
  PROVE  ClientInv'
<1>1. /\ \A c \in Chans : chans[c].n > 0 /\ chans[c].step # "sign"
      /\ next_dbid' = 1 /\ setup' = [c \in Chans |-> FreshSetup] /\ ok' = TRUE
      /\ restarts' = restarts + 1 /\ chans' = chans /\ slots' = slots
  BY Zenon DEF ClientRestart
<1>2. restarts \in Nat /\ restarts' \in Nat /\ restarts' # 0 /\ (restarts' < 2 => restarts = 0)
  BY <1>1 DEF ClientInv
<1>3. FreshSetup \in Setups
  <2>1. NoCommit \in 0..NoCommit
    BY ClientAssumption DEF NoCommit
  <2> QED
    BY <2>1, Zenon DEF FreshSetup, Setups
<1>4. setup' \in Seq(Setups) /\ Len(setup') = Len(chans)
  <2>1. Chans = 1..Len(chans) /\ Len(chans) \in Nat
    BY DEF Chans, ClientInv
  <2> QED
    BY <1>1, <1>3, <2>1
<1>5. ASSUME NEW c \in Chans, restarts = 0
      PROVE  Kept(chans[c], setup'[c], slots[chans[c].dbid])
  <2>1. chans[c].n <= slots[chans[c].dbid].next
    BY <1>1, <1>5, OneChannel, Zenon DEF FirstRun
  <2>2. chans[c].n \in Nat /\ slots[chans[c].dbid].next \in Nat
    BY OneChannel
  <2> QED
    BY <2>1, <2>2 DEF Kept
<1>6. Chans' = Chans
  BY <1>1, Zenon DEF Chans
<1>7. 1 \in Nat
  OBVIOUS
<1> QED
  BY <1>1, <1>2, <1>4, <1>5, <1>6, <1>7, Zenon DEF ClientInv

\* The client and the signer keep up with each other: every commitment that was accepted
\* is at the signer or kept, and before a restart no secret that is due is refused.
THEOREM ClientAlwaysKeepsUp == ClientSpec => []ClientKeepsUp
<1>1. ClientInit => ClientInv
  <2> SUFFICES ASSUME ClientInit PROVE ClientInv
    OBVIOUS
  <2>1. Absent \in Slots0
    <3>1. 0 \in Nat
      OBVIOUS
    <3> QED
      BY <3>1, Zenon DEF Absent, Slots0
  <2>2. chans = <<>> /\ setup = <<>> /\ slots \in [Dbids -> Slots0] /\ ok = TRUE
    BY <2>1, Zenon DEF ClientInit
  <2>3. next_dbid \in Nat /\ restarts \in Nat
    BY DEF ClientInit
  <2>4. /\ chans \in Seq(ClientChannels) /\ setup \in Seq(Setups) /\ Len(setup) = Len(chans)
        /\ Chans = {}
    BY <2>2 DEF Chans
  <2> QED
    BY <2>2, <2>3, <2>4, Zenon DEF ClientInv
<1>2. ClientInv /\ [ClientNext]_clientVars => ClientInv'
  <2> SUFFICES ASSUME ClientInv, [ClientNext]_clientVars PROVE ClientInv'
    OBVIOUS
  <2>1. CASE UNCHANGED clientVars
    BY <2>1, Zenon DEF clientVars, ClientInv, Chans
  <2> QED
    BY <2>1, OpenStep, SignStep, ValidateHolderStep, ReleaseStep, RestartStep, Zenon
    DEF ClientNext
<1>3. ClientInv => ClientKeepsUp
  <2> SUFFICES ASSUME ClientInv PROVE ClientKeepsUp
    OBVIOUS
  <2>1. NoneDropped
    BY OneChannel, Zenon DEF NoneDropped, Kept
  <2>2. restarts = 0 \/ restarts > 0
    BY DEF ClientInv
  <2>3. SecretsComeFreely
    BY <2>2, Zenon DEF ClientInv, SecretsComeFreely
  <2> QED
    BY <2>1, <2>3, Zenon DEF ClientKeepsUp
<1> QED
  BY <1>1, <1>2, <1>3, PTL DEF ClientSpec
=============================================================================
