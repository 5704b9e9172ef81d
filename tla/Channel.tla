------------------------------- MODULE Channel -------------------------------
(***************************************************************************)
(* A ready channel of the signer (vls-core/src/channel.rs), driven by the  *)
(* requests of a host node (vls-protocol-signer/src/handler.rs): validate  *)
(* and revoke holder commitments, sign counterparty commitments, take      *)
(* revocations, close, splice, lock a funding, and restart from storage.   *)
(*                                                                         *)
(* A request is one step.  Inside a step the code changes the channel in   *)
(* memory, writes it with persist(), and only then replies, so a signature *)
(* or a secret leaves the signer with its state already stored; a crash in *)
(* the middle of a request is a Restart without the request.  A request    *)
(* that is refused without changing anything is no step; one that fails    *)
(* after it changed memory is a step that leaves `disk` behind.            *)
(*                                                                         *)
(* Policies are enforced (no permissive filter).  The node's payment state *)
(* and the chain state accept every request here.                          *)
(***************************************************************************)
EXTENDS EnforcementState

CONSTANTS
  InitFunding,   \* the funding setup_channel made the stub ready with
  ValidSetups,   \* fundings whose setup validate_setup_channel accepts
  MaxNum,        \* bound on commitment numbers
  MaxSplices     \* bound on splice setups

ASSUME ChannelAssumption ==
  /\ InitFunding \in ValidSetups
  /\ ValidSetups \subseteq Fundings
  /\ MaxNum \in Nat
  /\ MaxSplices \in Nat

VARIABLES
  mem,             \* the channel in memory: what update_channel writes
  disk,            \* the channel in storage
  funding_locked,  \* Channel.funding_locked, never stored
  panicked,        \* a panic left the channel's mutex poisoned
  released,        \* holder commitments whose secret left the signer
  closeSigned,     \* holder commitments signed for broadcast
  cpSigned,        \* counterparty commitments signed
  splices          \* splice setups so far

history == <<released, closeSigned, cpSigned>>

vars == <<mem, disk, funding_locked, panicked, history, splices>>

es == mem.es

ChannelRecords ==
  [setup           : Fundings,
   prev_setup      : Option(Fundings),
   prev_prev_setup : Option(Fundings),
   es              : EnforcementStates]

\* One type invariant: the channel record in memory and in storage, and the
\* history of what left the signer.
TypeOK ==
  /\ mem \in ChannelRecords
  /\ disk \in ChannelRecords
  /\ funding_locked \in Option(Fundings)
  /\ panicked \in BOOLEAN
  /\ released \subseteq Nat
  /\ closeSigned \subseteq
       [n : Nat, f : Fundings, info : AnyInfo, sigs : Signatures]
  /\ cpSigned \subseteq
       [n : Nat, f : Fundings, point : Points, info : Infos]
  /\ splices \in 0..MaxSplices

Init ==
  /\ mem = [setup           |-> InitFunding,
            prev_setup      |-> None,
            prev_prev_setup |-> None,
            es              |-> NewState]
  /\ disk = mem
  /\ funding_locked = None
  /\ panicked = FALSE
  /\ released = {}
  /\ closeSigned = {}
  /\ cpSigned = {}
  /\ splices = 0

\* Channel::persist after the change of a request.
Persist(c) == mem' = c /\ disk' = c

WithState(e) == [mem EXCEPT !.es = e]

\* setup_for_tx / setup_for_outpoint: the funding views a request may name.
Views == {mem.setup} \cup ({mem.prev_setup, mem.prev_prev_setup} \ {None})

-----------------------------------------------------------------------------
(* Holder commitments *)

\* What validate_holder_commitment_tx(_phase2) stores: the next commitment in
\* the pending slot, or a same-number one of another funding (`straggler`) in
\* the record of the retiring funding.  Any other number that passes validation
\* stores nothing.
StoreHolderCommitment(n, f, i, straggler) ==
  LET pending == [info |-> i, sigs |-> <<n, f, i>>]
  IN  IF n = es.next_holder_commit_num
      THEN [es EXCEPT !.next_holder_commit_info   = pending,
                      !.holder_commitment_funding = f]
      ELSE IF /\ n + 1 = es.next_holder_commit_num
              /\ es.prev_funding_commitment # None
              /\ straggler
           THEN [es EXCEPT !.prev_funding_commitment.next_holder_info = pending]
           ELSE es

\* activate_initial_commitment, where it succeeds on state e.
CanActivate(e) ==
  /\ e.next_holder_commit_num <= 1
  /\ e.next_holder_commit_num = 1 => e.prev_funding_commitment # None
  /\ e.next_holder_commit_info # None

activate_initial_commitment(e) ==
  LET p == e.next_holder_commit_info
      t == [e EXCEPT !.next_holder_commit_info = None]
  IN  IF e.next_holder_commit_num = 0
      THEN set_next_holder_commit_num(t, 1, p.info, p.sigs)
      ELSE [t EXCEPT !.current_holder_commit_info      = p.info,
                     !.current_counterparty_signatures = p.sigs]

\* Message::ValidateCommitmentTx: validate, then activate commitment 0 if a
\* pending commitment is there.  ValidateCommitmentTx2 is refused inside a
\* splice window and outside of it does the same for the current funding.
HandleValidateCommitmentTx(f, n, i) ==
  LET e == StoreHolderCommitment(n, f, i, f # mem.setup)
  IN  /\ ~panicked
      /\ n <= es.next_holder_commit_num + 1
      /\ es.next_holder_commit_num < MaxNum
      /\ f \in Views
      /\ validate_holder_commitment_tx(es, n, f, i)
      /\ Persist(WithState(IF n = 0 /\ CanActivate(e)
                           THEN activate_initial_commitment(e)
                           ELSE e))
      /\ UNCHANGED <<funding_locked, panicked, history, splices>>

\* validate_holder_commitment_tx_phase2 called as a library, with a funding
\* token: it takes any same-number commitment whose funding differs from the
\* tag for a straggler.
ValidateHolderCommitmentPhase2(f, n, i) ==
  /\ ~panicked
  /\ n <= es.next_holder_commit_num + 1
  /\ es.next_holder_commit_num < MaxNum
  /\ f \in Views
  /\ validate_holder_commitment_tx(es, n, f, i)
  /\ Persist(WithState(StoreHolderCommitment(n, f, i,
                         f # es.holder_commitment_funding)))
  /\ UNCHANGED <<funding_locked, panicked, history, splices>>

\* Mutant: the pending commitment stays in its slot.
RevokeWithoutTake(n) ==
  LET p == es.next_holder_commit_info
  IN  /\ ~panicked
      /\ n = es.next_holder_commit_num
      /\ p # None
      /\ Persist(WithState(set_next_holder_commit_num(es, n + 1, p.info, p.sigs)))
      /\ released' = released \cup (IF n >= 1 THEN {n - 1} ELSE {})
      /\ UNCHANGED <<funding_locked, panicked, closeSigned, cpSigned, splices>>

\* Mutant: the secret is disclosed and the channel is not stored.
RevokeUnpersisted(n) ==
  LET p == es.next_holder_commit_info
  IN  /\ ~panicked
      /\ n = es.next_holder_commit_num
      /\ p # None
      /\ mem' = WithState(set_next_holder_commit_num(
                   [es EXCEPT !.next_holder_commit_info = None],
                   n + 1, p.info, p.sigs))
      /\ released' = released \cup (IF n >= 1 THEN {n - 1} ELSE {})
      /\ UNCHANGED <<disk, funding_locked, panicked, closeSigned, cpSigned,
                     splices>>

\* revoke_previous_holder_commitment on the next number with a pending
\* commitment: it becomes current and the secret of n - 1 is disclosed.
RevokePreviousHolderCommitment(n) ==
  LET p == es.next_holder_commit_info
  IN  /\ ~panicked
      /\ n = es.next_holder_commit_num
      /\ p # None
      /\ Fits(p.info, mem.setup)
      /\ Persist(WithState(set_next_holder_commit_num(
                   [es EXCEPT !.next_holder_commit_info = None],
                   n + 1, p.info, p.sigs)))
      /\ released' = released \cup (IF n >= 1 THEN {n - 1} ELSE {})
      /\ UNCHANGED <<funding_locked, panicked, closeSigned, cpSigned, splices>>

\* Mutant: the number advances before the balance check fails.
RevokeFailsAfterAdvance(n) ==
  LET p == es.next_holder_commit_info
  IN  /\ ~panicked
      /\ n = es.next_holder_commit_num
      /\ p # None
      /\ ~Fits(p.info, mem.setup)
      /\ mem' = WithState(set_next_holder_commit_num(
                   [es EXCEPT !.next_holder_commit_info = None],
                   n + 1, p.info, p.sigs))
      /\ UNCHANGED <<disk, funding_locked, panicked, history, splices>>

\* The same call when the pending commitment (validated on a retiring funding)
\* does not fit the current one: the pending commitment was already taken when
\* claimable_balances returns the error, and nothing is stored.
RevokeFailsAfterTake(n) ==
  /\ ~panicked
  /\ n = es.next_holder_commit_num
  /\ es.next_holder_commit_info # None
  /\ ~Fits(es.next_holder_commit_info.info, mem.setup)
  /\ mem' = WithState([es EXCEPT !.next_holder_commit_info = None])
  /\ UNCHANGED <<disk, funding_locked, panicked, history, splices>>

\* Mutant: the secret of the current commitment is available.
SecretOfCurrent(n) ==
  /\ ~panicked
  /\ n + 1 <= es.next_holder_commit_num
  /\ released' = released \cup {n}
  /\ UNCHANGED <<mem, disk, funding_locked, panicked, closeSigned, cpSigned,
                 splices>>

\* get_per_commitment_secret, reached from GetPerCommitmentPoint of the old
\* protocol and from a repeated revoke_previous_holder_commitment.
GetPerCommitmentSecret(n) ==
  /\ ~panicked
  /\ n + 2 <= es.next_holder_commit_num
  /\ released' = released \cup {n}
  /\ UNCHANGED <<mem, disk, funding_locked, panicked, closeSigned, cpSigned,
                 splices>>

\* Mutant: a pending commitment is signed under the number of the current one.
SignPendingAsCurrent(n) ==
  LET p == es.next_holder_commit_info
  IN  /\ ~panicked
      /\ n + 1 = es.next_holder_commit_num
      /\ p # None
      /\ closeSigned' = closeSigned \cup
           {[n |-> n, f |-> mem.setup, info |-> p.info, sigs |-> p.sigs]}
      /\ Persist(WithState([es EXCEPT !.channel_closed = TRUE]))
      /\ UNCHANGED <<funding_locked, panicked, released, cpSigned, splices>>

\* sign_holder_commitment_tx_phase2: the pending commitment if it has the
\* number asked for, else the current one; built on the current setup.
SignHolderCommitment(n) ==
  LET p       == es.next_holder_commit_info
      pending == n = es.next_holder_commit_num /\ p # None
      current == /\ n + 1 = es.next_holder_commit_num
                 /\ es.current_holder_commit_info # None
                 /\ es.current_counterparty_signatures # None
  IN  /\ ~panicked
      /\ pending \/ current
      /\ closeSigned' = closeSigned \cup
           {[n    |-> n,
             f    |-> mem.setup,
             info |-> IF pending THEN p.info
                      ELSE es.current_holder_commit_info,
             sigs |-> IF pending THEN p.sigs
                      ELSE es.current_counterparty_signatures]}
      /\ Persist(WithState([es EXCEPT !.channel_closed = TRUE]))
      /\ UNCHANGED <<funding_locked, panicked, released, cpSigned, splices>>

\* sign_holder_commitment_tx_for_recovery: the newest commitment held, pending
\* or current.  (The dry run hands nothing out and changes nothing.)
SignHolderCommitmentForRecovery ==
  LET next == es.next_holder_commit_num
  IN  /\ next >= 1
      /\ SignHolderCommitment(IF es.next_holder_commit_info # None THEN next
                              ELSE next - 1)

\* get_current_holder_commitment_info unwraps the current info.
SignHolderCommitmentPanics(n) ==
  /\ ~panicked
  /\ n + 1 = es.next_holder_commit_num
  /\ es.current_holder_commit_info = None
  /\ panicked' = TRUE
  /\ UNCHANGED <<mem, disk, funding_locked, history, splices>>

-----------------------------------------------------------------------------
(* Counterparty commitments *)

\* Everything sign_counterparty_commitment_tx(_phase2) checks on these data.
SignCounterpartyOk(n, f, point, i) ==
  LET tag == es.counterparty_commitment_funding
  IN  /\ f \in Views
      /\ validate_counterparty_commitment_tx(es, n, point, f, i)
      /\ next_counterparty_commit_num_ok(es, n + 1, tag # None /\ tag # f)

SignCounterpartyCommitment(f, n, s, i) ==
  LET e == set_next_counterparty_commit_num(es, n + 1, <<n, s>>, i)
  IN  /\ ~panicked
      /\ n < MaxNum
      /\ SignCounterpartyOk(n, f, <<n, s>>, i)
      /\ Persist(WithState([e EXCEPT !.counterparty_commitment_funding = f]))
      /\ cpSigned' = cpSigned \cup
           {[n |-> n, f |-> f, point |-> <<n, s>>, info |-> i]}
      /\ UNCHANGED <<funding_locked, panicked, released, closeSigned, splices>>

\* validate_counterparty_revocation.
ValidateCounterpartyRevocation(n, s) ==
  LET e == provide_secret(es, <<n, s>>)
  IN  /\ ~panicked
      /\ validate_counterparty_revocation(es, n, <<n, s>>)
      /\ next_counterparty_revoke_num_ok(es, n + 1)
      /\ Persist(WithState(set_next_counterparty_revoke_num(e, n + 1)))
      /\ UNCHANGED <<funding_locked, panicked, history, splices>>

\* The same call with the secret of the newest commitment: the secret is kept
\* in memory, then set_next_counterparty_revoke_num refuses.
RevocationFailsAfterProvide(n, s) ==
  /\ ~panicked
  /\ validate_counterparty_revocation(es, n, <<n, s>>)
  /\ ~next_counterparty_revoke_num_ok(es, n + 1)
  /\ mem' = WithState(provide_secret(es, <<n, s>>))
  /\ UNCHANGED <<disk, funding_locked, panicked, history, splices>>

-----------------------------------------------------------------------------
(* Closing, splicing, restarting *)

\* sign_mutual_close_tx(_phase2).
SignMutualClose ==
  /\ ~panicked
  /\ es.current_holder_commit_info # None
  /\ es.current_counterparty_commit_info # None
  /\ Persist(WithState([es EXCEPT !.channel_closed = TRUE]))
  /\ UNCHANGED <<funding_locked, panicked, history, splices>>

\* The splice branch of Node::setup_channel: shift the setups, move the
\* commitment state into the record of the retiring funding.
Spliced(f) ==
  [setup           |-> f,
   prev_setup      |-> mem.setup,
   prev_prev_setup |-> mem.prev_setup,
   es              |-> snapshot_funding_for_splice(es, mem.setup)]

\* It swaps the channel in memory and validates the new setup afterwards, so
\* a setup that is refused stays in memory and is not stored.
SetupChannelSplice(f) ==
  /\ ~panicked
  /\ f # mem.setup
  /\ mem' = Spliced(f)
  /\ disk' = IF f \in ValidSetups THEN Spliced(f) ELSE disk
  /\ splices < MaxSplices
  /\ splices' = splices + 1
  /\ UNCHANGED <<funding_locked, panicked, history>>

\* confirm_funding_locked: retire the previous fundings and, after a splice,
\* install the baseline infos of the new one.
ConfirmFundingLocked ==
  LET was_splice == mem.prev_setup # None \/ mem.prev_prev_setup # None
      retired    == [es EXCEPT !.prev_funding_commitment = None]
  IN  /\ ~panicked
      /\ funding_locked # mem.setup
      /\ funding_locked' = mem.setup
      /\ Persist([setup           |-> mem.setup,
                  prev_setup      |-> None,
                  prev_prev_setup |-> None,
                  es |-> IF was_splice
                         THEN [retired EXCEPT
                                !.current_holder_commit_info =
                                    Baseline(mem.setup),
                                !.current_counterparty_commit_info =
                                    Baseline(mem.setup)]
                         ELSE retired])
      /\ UNCHANGED <<panicked, history, splices>>

\* The signer process dies and restores the channel from storage.
Restart ==
  /\ mem' = disk
  /\ funding_locked' = None
  /\ panicked' = FALSE
  /\ UNCHANGED <<disk, history, splices>>

Next ==
  \/ \E f \in Fundings, n \in 0..MaxNum, i \in Infos :
       \/ HandleValidateCommitmentTx(f, n, i)
       \/ ValidateHolderCommitmentPhase2(f, n, i)
       \/ \E s \in Seeds : SignCounterpartyCommitment(f, n, s, i)
  \/ \E n \in 0..MaxNum :
       \/ RevokePreviousHolderCommitment(n)
       \/ RevokeFailsAfterTake(n)
       \/ GetPerCommitmentSecret(n)
       \/ SignHolderCommitment(n)
       \/ SignHolderCommitmentPanics(n)
       \/ \E s \in Seeds : \/ ValidateCounterpartyRevocation(n, s)
                           \/ RevocationFailsAfterProvide(n, s)
  \/ SignHolderCommitmentForRecovery
  \/ SignMutualClose
  \/ \E f \in Fundings : SetupChannelSplice(f)
  \/ ConfirmFundingLocked
  \/ Restart

Spec == Init /\ [][Next]_vars

-----------------------------------------------------------------------------
(* Properties *)

\* The commitment numbers in memory are the stored ones after every request
\* and every restart: a step that fails half way (revoke_previous_holder_
\* commitment, validate_counterparty_revocation, a refused splice setup) may
\* lose or keep contents, never a number.
DurableCounters ==
  /\ es.next_holder_commit_num       = disk.es.next_holder_commit_num
  /\ es.next_counterparty_commit_num = disk.es.next_counterparty_commit_num
  /\ es.next_counterparty_revoke_num = disk.es.next_counterparty_revoke_num
  /\ es.channel_closed               = disk.es.channel_closed

\* get_per_commitment_secret releases only secrets two behind the next holder
\* commitment, and no restart brings the counter back to one of them.
ReleasedBehind ==
  \A n \in released : /\ n + 2 <= es.next_holder_commit_num
                      /\ n + 2 <= disk.es.next_holder_commit_num

\* sign_holder_commitment_tx_phase2 never signs a commitment whose secret was
\* disclosed earlier ("policy-commitment-holder-not-revoked is implicitly
\* checked", channel.rs), whatever splices and restarts happened in between.
NeverSignRevoked ==
  [][\A c \in closeSigned' \ closeSigned : c.n \notin released]_vars

\* Once a holder commitment is signed for broadcast at most the one commitment
\* that was already pending can still be revoked into place: validation
\* refuses new commitments on a closing channel, also after a restart.
BoundedAfterClose ==
  \A c \in closeSigned : es.next_holder_commit_num <= c.n + 2

\* The counterparty never holds signed commitments of more than two unrevoked
\* numbers: the oldest unrevoked one and its successor, on any funding.
CounterpartyWindow ==
  /\ es.next_counterparty_commit_num <= es.next_counterparty_revoke_num + 2
  /\ \A c \in cpSigned : /\ c.n < es.next_counterparty_commit_num
                         /\ c.n <= es.next_counterparty_revoke_num + 1

\* Each number counted as revoked by validate_counterparty_revocation has its
\* secret stored, in memory and in storage.
RevokedSecretsKept ==
  \A n \in 0..MaxNum :
    /\ n < es.next_counterparty_revoke_num =>
         \E p \in es.counterparty_secrets : p[1] = n
    /\ n < disk.es.next_counterparty_revoke_num =>
         \E p \in disk.es.counterparty_secrets : p[1] = n

\* The pending slot holds a commitment of the next number only, with the
\* signatures the counterparty gave for it, so that a revoke never installs a
\* commitment of another number.
PendingIsNext ==
  es.next_holder_commit_info # None =>
    /\ es.next_holder_commit_info.sigs[1] = es.next_holder_commit_num
    /\ es.next_holder_commit_info.sigs[3] = es.next_holder_commit_info.info

\* The record of the retiring funding and the previous setup name the same
\* funding, in memory and in storage, through splices on top of splices,
\* locks, refused setups and restarts.
SnapshotIsPrevious ==
  \A c \in {mem, disk} :
    c.prev_setup = IF c.es.prev_funding_commitment = None THEN None
                   ELSE c.es.prev_funding_commitment.outpoint

\* Numbers, slots and fundings stay in step on the holder's side: what is
\* pending is of the next number, and what was put aside for a splice is of the
\* funding before it.
SlotsInStep == TypeOK /\ PendingIsNext /\ SnapshotIsPrevious

\* Every commitment signed for broadcast is one whose counterparty signatures
\* the signer holds: same number, same funding, same contents.
CloseSignaturesMatch ==
  \A c \in closeSigned : c.sigs = <<c.n, c.f, c.info>>

\* The current signatures are those of the current holder commitment number.
CurrentSignaturesCurrent ==
  es.current_counterparty_signatures # None =>
    es.current_counterparty_signatures[1] + 1 = es.next_holder_commit_num

\* The counterparty's signatures are those of the commitment they are kept or
\* broadcast with.
SignaturesMatch == CloseSignaturesMatch /\ CurrentSignaturesCurrent

\* get_current_holder_commitment_info never unwraps a missing info.
NoPanic == ~panicked

\* Retries of sign_counterparty_commitment_tx have the same data: at most one
\* commitment is ever signed for a number on a funding.
RetrySameData ==
  \A c, d \in cpSigned : c.n = d.n /\ c.f = d.f => c = d

\* Every counterparty commitment counted as revoked can be punished: the
\* secret of the very point it was signed for is stored.
RevokedIsPunishable ==
  \A c \in cpSigned :
    c.n < es.next_counterparty_revoke_num =>
      c.point \in es.counterparty_secrets

\* The last signed counterparty commitment can be signed again, same data, for
\* a retransmission while it and its predecessor are both unrevoked.
CanRetransmit ==
  \A c \in cpSigned :
    /\ c.n = es.next_counterparty_revoke_num + 1
    /\ c.n + 1 = es.next_counterparty_commit_num
    => SignCounterpartyOk(c.n, c.f, c.point, c.info)

\* A retransmission repeats its data, and it is not refused.
RetriesExact == RetrySameData /\ CanRetransmit

\* A splice reuses the commitment number on the new funding; after a lost
\* message that same commitment can be signed again, same data.
CanRetransmitSplice ==
  \A c \in cpSigned :
    /\ c.n = es.next_counterparty_revoke_num
    /\ c.n + 1 = es.next_counterparty_commit_num
    /\ c.f = es.counterparty_commitment_funding
    /\ c.f = mem.setup
    /\ mem.prev_setup # None
    => SignCounterpartyOk(c.n, c.f, c.point, c.info)

\* Channel::get_spendable_htlc_indices succeeds for a counterparty's commitment:
\* get_commitment_info finds its contents and the point is supplied.
SpendableHtlcsFound(n) ==
  /\ get_previous_counterparty_commit_info(es, n) # None
  /\ get_counterparty_commitment_point(es, n) # None

\* Whichever commitment the counterparty holds and broadcasts, the newest one,
\* the unrevoked one before it or a revoked one, the monitor gets the "valid
\* spendable HTLC indices for a decoded commitment transaction" that it expects.
CloseHandled ==
  \A c \in cpSigned : SpendableHtlcsFound(c.n)

-----------------------------------------------------------------------------
(* The channel implements the revocation protocol *)

Protocol == INSTANCE RevocationProtocol WITH
              nextHolder <- mem.es.next_holder_commit_num,
              disclosed  <- released,
              nextCp     <- mem.es.next_counterparty_commit_num,
              nextRevoke <- mem.es.next_counterparty_revoke_num

\* Every behaviour of the channel, with splices, failed requests, panics and
\* restarts, is one of the revocation protocol: numbers advance one at a time
\* under its guards and never go back.
ImplementsProtocol == Protocol!Spec
=============================================================================
