--------------------------- MODULE EnforcementState ---------------------------
(***************************************************************************)
(* The per-channel policy state of the signer (`EnforcementState` and      *)
(* `PrevFundingCommitment` of vls-core/src/policy/validator.rs) with the   *)
(* functions that read and advance it: the progression checks of the       *)
(* `Validator` trait, the setters they call, and the retry rules of        *)
(* vls-core/src/policy/simple_validator.rs.  Everything here is a pure     *)
(* operator on a record `es`; Channel.tla owns the state.                  *)
(*                                                                         *)
(* Data abstraction.  A funding outpoint is a member of Fundings, and with *)
(* it comes its ChannelSetup (one setup per outpoint).  A CommitmentInfo2  *)
(* is a member of Infos; the only number the control flow reads off it is  *)
(* the total of its outputs, Total[i].  A counterparty commitment point is *)
(* <<n, s>>: the point of commitment n in the secret chain of seed s.  The *)
(* counterparty's signatures on a holder commitment are the triple of what *)
(* they sign: <<n, f, i>>.                                                 *)
(***************************************************************************)
EXTENDS Naturals

CONSTANTS
  None,          \* Rust's Option::None
  Fundings,      \* funding outpoints the channel may be set up with
  Infos,         \* commitment contents
  Seeds,         \* counterparty secret chains a host may present
  ChannelValue,  \* channel_value_sat of the setup of each funding
  Total          \* CommitmentInfo2::total_value of each content

ASSUME ConstantsAssumption ==
  /\ None \notin Fundings
  /\ ChannelValue \in [Fundings -> Nat]
  /\ Total \in [Infos -> Nat]

\* The info confirm_funding_locked installs: the balance split of the setup,
\* no HTLCs, feerate 0.  No counterparty ever signed it.
Baseline(f) == <<"baseline", f>>

Option(S) == S \cup {None}

AnyInfo == Infos \cup {Baseline(f) : f \in Fundings}

Points == Nat \X Seeds

Signatures == Nat \X Fundings \X Infos

\* A pending holder commitment: (CommitmentInfo2, CommitmentSignatures).
PendingCommit == [info : Infos, sigs : Signatures]

PrevFundingCommitment ==
  [outpoint                  : Fundings,
   current_holder_info       : Option(AnyInfo),
   current_holder_signatures : Option(Signatures),
   next_holder_info          : Option(PendingCommit),
   current_counterparty_info : Option(AnyInfo)]

\* Option::None is no value of the types it is added to.
ASSUME NoneAssumption ==
  /\ None \notin Points
  /\ None \notin PrevFundingCommitment

EnforcementStates ==
  [next_holder_commit_num            : Nat,
   next_counterparty_commit_num      : Nat,
   next_counterparty_revoke_num      : Nat,
   current_counterparty_point        : Option(Points),
   previous_counterparty_point       : Option(Points),
   current_holder_commit_info        : Option(AnyInfo),
   current_counterparty_signatures   : Option(Signatures),
   next_holder_commit_info           : Option(PendingCommit),
   current_counterparty_commit_info  : Option(AnyInfo),
   previous_counterparty_commit_info : Option(AnyInfo),
   channel_closed                    : BOOLEAN,
   counterparty_secrets              : SUBSET Points,
   holder_commitment_funding         : Option(Fundings),
   counterparty_commitment_funding   : Option(Fundings),
   prev_funding_commitment           : Option(PrevFundingCommitment)]

\* EnforcementState::new
NewState ==
  [next_holder_commit_num            |-> 0,
   next_counterparty_commit_num      |-> 0,
   next_counterparty_revoke_num      |-> 0,
   current_counterparty_point        |-> None,
   previous_counterparty_point       |-> None,
   current_holder_commit_info        |-> None,
   current_counterparty_signatures   |-> None,
   next_holder_commit_info           |-> None,
   current_counterparty_commit_info  |-> None,
   previous_counterparty_commit_info |-> None,
   channel_closed                    |-> FALSE,
   counterparty_secrets              |-> {},
   holder_commitment_funding         |-> None,
   counterparty_commitment_funding   |-> None,
   prev_funding_commitment           |-> None]

-----------------------------------------------------------------------------
(* Reading the state *)

\* holder_commit_info_for: the channel slot when its tag is unset or names the
\* view, the snapshot's copy when the view is the retiring funding.
holder_commit_info_for(es, view) ==
  LET tag  == es.holder_commitment_funding
      prev == es.prev_funding_commitment
  IN  IF tag \in {None, view} THEN es.current_holder_commit_info
      ELSE IF prev # None /\ prev.outpoint = view
           THEN prev.current_holder_info
           ELSE None

\* counterparty_commit_info_for: the same, but the channel slot counts only
\* while it is populated.
counterparty_commit_info_for(es, view) ==
  LET tag  == es.counterparty_commitment_funding
      prev == es.prev_funding_commitment
      cur  == es.current_counterparty_commit_info
  IN  IF tag \in {None, view} /\ cur # None THEN cur
      ELSE IF prev # None /\ prev.outpoint = view
           THEN prev.current_counterparty_info
           ELSE None

get_previous_counterparty_point(es, num) ==
  IF num + 1 = es.next_counterparty_commit_num
  THEN es.current_counterparty_point
  ELSE IF num + 2 = es.next_counterparty_commit_num
       THEN es.previous_counterparty_point
       ELSE None

get_previous_counterparty_commit_info(es, num) ==
  IF num + 1 = es.next_counterparty_commit_num
  THEN es.current_counterparty_commit_info
  ELSE IF num + 2 = es.next_counterparty_commit_num
       THEN es.previous_counterparty_commit_info
       ELSE None

-----------------------------------------------------------------------------
(* Setters *)

\* EnforcementState::set_next_holder_commit_num; its assertion num = next + 1
\* is the guard of both callers.
set_next_holder_commit_num(es, num, info, sigs) ==
  [es EXCEPT !.next_holder_commit_num          = num,
             !.current_holder_commit_info      = info,
             !.current_counterparty_signatures = sigs]

\* The progression checks of Validator::set_next_counterparty_commit_num.
next_counterparty_commit_num_ok(es, num, funding_changed) ==
  LET delta == IF num = 1 \/ funding_changed THEN 1 ELSE 2
  IN  /\ num # 0
      /\ num >= es.next_counterparty_revoke_num + delta
      /\ num \in {es.next_counterparty_commit_num,
                  es.next_counterparty_commit_num + 1}

\* EnforcementState::set_next_counterparty_commit_num for the two numbers the
\* checks let through: an advance shifts current to previous, a repeat of the
\* current number stores neither the point nor the info.
set_next_counterparty_commit_num(es, num, point, info) ==
  IF num = es.next_counterparty_commit_num + 1
  THEN [es EXCEPT
         !.next_counterparty_commit_num      = num,
         !.previous_counterparty_point       = es.current_counterparty_point,
         !.previous_counterparty_commit_info =
              es.current_counterparty_commit_info,
         !.current_counterparty_point        = point,
         !.current_counterparty_commit_info  = info]
  ELSE es

\* Mutant: the newest commitment may be revoked.
RevokeTooLarge(es, num) ==
  /\ num # 0
  /\ num + 2 >= es.next_counterparty_commit_num
  /\ num \in {es.next_counterparty_revoke_num,
              es.next_counterparty_revoke_num + 1}

\* The progression checks of Validator::set_next_counterparty_revoke_num.
next_counterparty_revoke_num_ok(es, num) ==
  /\ num # 0
  /\ num + 2 >= es.next_counterparty_commit_num
  /\ num + 1 <= es.next_counterparty_commit_num
  /\ num \in {es.next_counterparty_revoke_num,
              es.next_counterparty_revoke_num + 1}

\* EnforcementState::set_next_counterparty_revoke_num.  The previous point
\* stays, it is needed for retries.
set_next_counterparty_revoke_num(es, num) ==
  [es EXCEPT
     !.next_counterparty_revoke_num = num,
     !.previous_counterparty_commit_info =
        IF num + 1 >= es.next_counterparty_commit_num THEN None ELSE @]

\* Mutant: the comparison with the secrets already seen is the wrong way round.
provide_secret_swapped(es, point) ==
  [es EXCEPT !.counterparty_secrets =
     IF \E p \in @ : p[1] <= point[1] THEN @ ELSE @ \cup {point}]

\* CounterpartyCommitmentSecrets::provide_secret: a secret older than one
\* already seen is checked but not stored again.
provide_secret(es, point) ==
  [es EXCEPT !.counterparty_secrets =
     IF \E p \in @ : p[1] >= point[1] THEN @ ELSE @ \cup {point}]

\* snapshot_funding_for_splice: the commitment state moves into the record of
\* the retiring funding; the tags stay behind.
snapshot_funding_for_splice(es, outpoint) ==
  [es EXCEPT
     !.prev_funding_commitment =
        [outpoint                  |-> outpoint,
         current_holder_info       |-> es.current_holder_commit_info,
         current_holder_signatures |-> es.current_counterparty_signatures,
         next_holder_info          |-> es.next_holder_commit_info,
         current_counterparty_info |-> es.current_counterparty_commit_info],
     !.current_holder_commit_info       = None,
     !.current_counterparty_signatures  = None,
     !.next_holder_commit_info          = None,
     !.current_counterparty_commit_info = None]

-----------------------------------------------------------------------------
(* Validation *)

\* claimable_balances and validate_commitment_tx reject an explicit new
\* commitment whose outputs exceed the value of the funding it is valued
\* against.
Fits(info, view) == Total[info] <= ChannelValue[view]

\* Mutant: a closing channel takes new commitments.
ValidateWhenClosing(es, n, view, info) ==
  /\ n + 2 > es.next_holder_commit_num
  /\ Fits(info, view)
  /\ (n + 1 = es.next_holder_commit_num /\ es.holder_commitment_funding = view)
       => holder_commit_info_for(es, view) \in {None, info}

\* validate_holder_commitment_tx (numbers n + 1 >= next only: it rejects the
\* others).  A retry must repeat what is stored for its funding, unless
\* nothing is; a closing channel takes no new commitment.
validate_holder_commitment_tx(es, n, view, info) ==
  /\ n + 2 > es.next_holder_commit_num
  /\ Fits(info, view)
  /\ (n + 1 = es.next_holder_commit_num /\ es.holder_commitment_funding = view)
       => holder_commit_info_for(es, view) \in {None, info}
  /\ ~(n = es.next_holder_commit_num /\ es.channel_closed)

\* What a retry of a counterparty commitment is compared with.
prev_commit_info(es, n, view) ==
  IF get_previous_counterparty_commit_info(es, n) # None
  THEN get_previous_counterparty_commit_info(es, n)
  ELSE counterparty_commit_info_for(es, view)

\* Mutant: a changed funding skips the check against the revocations.
FundingChangeSkipsRevoked(es, n, point, view, info) ==
  /\ Fits(info, view)
  /\ es.counterparty_commitment_funding = view
       => n <= es.next_counterparty_revoke_num + 1
  /\ (/\ n + 1 = es.next_counterparty_commit_num
      /\ es.counterparty_commitment_funding = view)
       => /\ es.current_counterparty_point = point
          /\ prev_commit_info(es, n, view) = info

\* Mutant: a retry has to repeat the point only.
RetryChecksPointOnly(es, n, point, view, info) ==
  /\ Fits(info, view)
  /\ n <= es.next_counterparty_revoke_num + 1
  /\ (/\ n + 1 = es.next_counterparty_commit_num
      /\ es.counterparty_commitment_funding = view)
       => es.current_counterparty_point = point

\* validate_counterparty_commitment_tx: not more than one commitment ahead of
\* the revocations, and a retry on the same funding repeats point and info.
validate_counterparty_commitment_tx(es, n, point, view, info) ==
  /\ Fits(info, view)
  /\ n <= es.next_counterparty_revoke_num + 1
  /\ (/\ n + 1 = es.next_counterparty_commit_num
      /\ es.counterparty_commitment_funding = view)
       => /\ es.current_counterparty_point = point
          /\ prev_commit_info(es, n, view) = info

\* Mutant: the secret is not compared with the point.
RevocationUnchecked(es, n, point) ==
  /\ \/ n = es.next_counterparty_revoke_num
     \/ n + 1 = es.next_counterparty_revoke_num
  /\ get_previous_counterparty_point(es, n) # None

\* validate_counterparty_revocation: the expected number or a retry of the
\* last one, with the secret of the point that commitment was signed for.
validate_counterparty_revocation(es, n, point) ==
  /\ \/ n = es.next_counterparty_revoke_num
     \/ n + 1 = es.next_counterparty_revoke_num
  /\ get_previous_counterparty_point(es, n) = point

\* Channel::get_counterparty_commitment_point.
get_counterparty_commitment_point(es, n) ==
  LET next == es.next_counterparty_commit_num
  IN  IF next < n + 1 THEN None
      ELSE IF next = n + 1 THEN es.current_counterparty_point
      ELSE IF next = n THEN es.previous_counterparty_point
      ELSE IF \E p \in es.counterparty_secrets : p[1] = n
           THEN CHOOSE p \in es.counterparty_secrets : p[1] = n
           ELSE None
=============================================================================
