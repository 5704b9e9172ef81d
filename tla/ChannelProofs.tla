---------------------------- MODULE ChannelProofs ----------------------------
(***************************************************************************)
(* Theorems about Channel for every number of commitments, splices,        *)
(* fundings, contents and seeds: its types, the safety of the holder side  *)
(* (no signature on a revoked commitment, no progress after a close), the  *)
(* window of the counterparty side, and that it implements                 *)
(* RevocationProtocol.                                                     *)
(***************************************************************************)
EXTENDS Channel, TLAPS

-----------------------------------------------------------------------------
(* Lemmas: what the operators of EnforcementState preserve *)

\* An Option holds None and every value of its set, and nothing else.
LEMMA OptionFacts ==
  ASSUME NEW S
  PROVE  /\ None \in Option(S)
         /\ \A x \in S : x \in Option(S)
         /\ \A x \in Option(S) : x # None => x \in S
  BY Zenon DEF Option

\* A fresh enforcement state is well typed.
LEMMA NewStateType == NewState \in EnforcementStates
  BY OptionFacts, SMT DEF NewState, EnforcementStates

\* The setters of EnforcementState keep the type of the record.
LEMMA SetHolderType ==
  ASSUME NEW e \in EnforcementStates, NEW num \in Nat,
         NEW info \in AnyInfo, NEW sigs \in Signatures
  PROVE  set_next_holder_commit_num(e, num, info, sigs) \in EnforcementStates
  <1>1. info \in Option(AnyInfo) /\ sigs \in Option(Signatures)
    BY OptionFacts, Zenon
  <1> QED
    BY <1>1, Zenon DEF set_next_holder_commit_num, EnforcementStates

\* So does the step of the counterparty's commitment number.
LEMMA SetCounterpartyType ==
  ASSUME NEW e \in EnforcementStates, NEW num \in Nat,
         NEW point \in Points, NEW info \in AnyInfo
  PROVE  set_next_counterparty_commit_num(e, num, point, info)
           \in EnforcementStates
  <1>1. info \in Option(AnyInfo) /\ point \in Option(Points)
    BY OptionFacts, Zenon
  <1> QED
    BY <1>1, Zenon DEF set_next_counterparty_commit_num, EnforcementStates

\* So does the step of the counterparty's revocation number.
LEMMA SetRevokeType ==
  ASSUME NEW e \in EnforcementStates, NEW num \in Nat
  PROVE  set_next_counterparty_revoke_num(e, num) \in EnforcementStates
  <1>1. None \in Option(AnyInfo)
    BY OptionFacts, Zenon
  <1> QED
    BY <1>1, Zenon DEF set_next_counterparty_revoke_num, EnforcementStates

\* Storing a revealed secret keeps the type.
LEMMA ProvideSecretType ==
  ASSUME NEW e \in EnforcementStates, NEW point \in Points
  PROVE  provide_secret(e, point) \in EnforcementStates
  BY Zenon DEF provide_secret, EnforcementStates

\* The snapshot taken at a splice keeps the type.
LEMMA SnapshotType ==
  ASSUME NEW e \in EnforcementStates, NEW f \in Fundings
  PROVE  snapshot_funding_for_splice(e, f) \in EnforcementStates
  <1> DEFINE r == [outpoint                  |-> f,
                   current_holder_info       |-> e.current_holder_commit_info,
                   current_holder_signatures |-> e.current_counterparty_signatures,
                   next_holder_info          |-> e.next_holder_commit_info,
                   current_counterparty_info |-> e.current_counterparty_commit_info]
  <1>1. r \in PrevFundingCommitment
    BY Zenon DEF EnforcementStates, PrevFundingCommitment
  <1>2. /\ r \in Option(PrevFundingCommitment)
        /\ None \in Option(AnyInfo)
        /\ None \in Option(Signatures)
        /\ None \in Option(PendingCommit)
    BY <1>1, OptionFacts, Zenon
  <1> HIDE DEF r
  <1>3. [e EXCEPT !.prev_funding_commitment          = r,
                  !.current_holder_commit_info       = None,
                  !.current_counterparty_signatures  = None,
                  !.next_holder_commit_info          = None,
                  !.current_counterparty_commit_info = None]
          \in EnforcementStates
    BY <1>2, Zenon DEF EnforcementStates
  <1> QED
    BY <1>3, Zenon DEF snapshot_funding_for_splice, r

\* A pending commitment is a pair of contents and signatures.
LEMMA PendingType ==
  ASSUME NEW e \in EnforcementStates, e.next_holder_commit_info # None
  PROVE  /\ e.next_holder_commit_info.info \in Infos
         /\ e.next_holder_commit_info.info \in AnyInfo
         /\ e.next_holder_commit_info.sigs \in Signatures
  <1>1. e.next_holder_commit_info \in PendingCommit
    BY OptionFacts, Zenon DEF EnforcementStates
  <1> QED
    BY <1>1, Zenon DEF PendingCommit, AnyInfo

\* The pending slot can be emptied.
LEMMA TakeType ==
  ASSUME NEW e \in EnforcementStates
  PROVE  [e EXCEPT !.next_holder_commit_info = None] \in EnforcementStates
  <1>1. None \in Option(PendingCommit)
    BY OptionFacts, Zenon
  <1> QED
    BY <1>1, Zenon DEF EnforcementStates

\* What a validation stores keeps the type.
LEMMA StoreType ==
  ASSUME TypeOK, NEW n \in Nat, NEW f \in Fundings, NEW i \in Infos,
         NEW straggler
  PROVE  StoreHolderCommitment(n, f, i, straggler) \in EnforcementStates
  <1> DEFINE p == [info |-> i, sigs |-> <<n, f, i>>]
  <1>1. p \in PendingCommit
    BY Zenon DEF PendingCommit, Signatures
  <1>2. /\ p \in Option(PendingCommit)
        /\ f \in Option(Fundings)
    BY <1>1, OptionFacts, Zenon
  <1>3. es \in EnforcementStates
    BY Zenon DEF TypeOK, ChannelRecords, es
  <1> HIDE DEF p
  <1>4. [es EXCEPT !.next_holder_commit_info   = p,
                   !.holder_commitment_funding = f] \in EnforcementStates
    BY <1>2, <1>3, Zenon DEF EnforcementStates
  <1>5. ASSUME es.prev_funding_commitment # None
        PROVE  [es EXCEPT !.prev_funding_commitment.next_holder_info = p]
                 \in EnforcementStates
    <2>1. es.prev_funding_commitment \in PrevFundingCommitment
      BY <1>3, <1>5, OptionFacts, Zenon DEF EnforcementStates
    <2>2. [es.prev_funding_commitment EXCEPT !.next_holder_info = p]
            \in PrevFundingCommitment
      BY <2>1, <1>2, Zenon DEF PrevFundingCommitment
    <2>3. [es.prev_funding_commitment EXCEPT !.next_holder_info = p]
            \in Option(PrevFundingCommitment)
      BY <2>2, OptionFacts, Zenon
    <2> QED
      BY <2>3, <1>3, Zenon DEF EnforcementStates
  <1> QED
    BY <1>3, <1>4, <1>5, Zenon DEF StoreHolderCommitment, p

\* activate_initial_commitment keeps the type.
LEMMA ActivateType ==
  ASSUME NEW e \in EnforcementStates, CanActivate(e)
  PROVE  activate_initial_commitment(e) \in EnforcementStates
  <1> DEFINE p == e.next_holder_commit_info
             t == [e EXCEPT !.next_holder_commit_info = None]
  <1>1. t \in EnforcementStates
    BY TakeType, Zenon
  <1>2. p.info \in AnyInfo /\ p.sigs \in Signatures
    BY PendingType, Zenon DEF CanActivate
  <1>3. p.info \in Option(AnyInfo) /\ p.sigs \in Option(Signatures)
    BY <1>2, OptionFacts, Zenon
  <1>4. set_next_holder_commit_num(t, 1, p.info, p.sigs) \in EnforcementStates
    BY <1>1, <1>2, SetHolderType, Zenon
  <1> HIDE DEF t, p
  <1>5. [t EXCEPT !.current_holder_commit_info      = p.info,
                  !.current_counterparty_signatures = p.sigs]
          \in EnforcementStates
    BY <1>1, <1>3, Zenon DEF EnforcementStates
  <1> QED
    BY <1>4, <1>5, Zenon DEF activate_initial_commitment, t, p

\* Replacing the enforcement state of the channel record keeps its type.
LEMMA WithStateType ==
  ASSUME TypeOK, NEW e \in EnforcementStates
  PROVE  WithState(e) \in ChannelRecords
  BY Zenon DEF TypeOK, ChannelRecords, WithState

\* Closing keeps the type.
LEMMA ClosedType ==
  ASSUME NEW e \in EnforcementStates
  PROVE  [e EXCEPT !.channel_closed = TRUE] \in EnforcementStates
  BY Zenon DEF EnforcementStates

-----------------------------------------------------------------------------
(* Type correctness *)

\* Every step of the channel keeps the type invariant: one step per action.
LEMMA TypeStep == TypeOK /\ [Next]_vars => TypeOK'
  <1> SUFFICES ASSUME TypeOK, [Next]_vars PROVE TypeOK'
    OBVIOUS
  <1> USE ChannelAssumption
  <1>e. es \in EnforcementStates
    BY Zenon DEF TypeOK, ChannelRecords, es
  <1>1. ASSUME NEW f \in Fundings, NEW n \in 0..MaxNum, NEW i \in Infos,
               HandleValidateCommitmentTx(f, n, i)
        PROVE  TypeOK'
    <2> DEFINE s == StoreHolderCommitment(n, f, i, f # mem.setup)
               e == IF n = 0 /\ CanActivate(s)
                    THEN activate_initial_commitment(s) ELSE s
    <2>1. e \in EnforcementStates
      BY StoreType, ActivateType
    <2>2. WithState(e) \in ChannelRecords
      BY <2>1, WithStateType, Zenon
    <2> QED
      BY <1>1, <2>2, Zenon DEF HandleValidateCommitmentTx, Persist, TypeOK, history
  <1>2. ASSUME NEW f \in Fundings, NEW n \in 0..MaxNum, NEW i \in Infos,
               ValidateHolderCommitmentPhase2(f, n, i)
        PROVE  TypeOK'
    <2> DEFINE e == StoreHolderCommitment(n, f, i,
                      f # es.holder_commitment_funding)
    <2>1. e \in EnforcementStates
      BY StoreType
    <2>2. WithState(e) \in ChannelRecords
      BY <2>1, WithStateType, Zenon
    <2> QED
      BY <1>2, <2>2, Zenon DEF ValidateHolderCommitmentPhase2, Persist, TypeOK, history
  <1>3. ASSUME NEW f \in Fundings, NEW n \in 0..MaxNum, NEW i \in Infos,
               NEW s \in Seeds, SignCounterpartyCommitment(f, n, s, i)
        PROVE  TypeOK'
    <2> DEFINE e == set_next_counterparty_commit_num(es, n + 1, <<n, s>>, i)
               d == [e EXCEPT !.counterparty_commitment_funding = f]
               c == [n |-> n, f |-> f, point |-> <<n, s>>, info |-> i]
    <2>1. <<n, s>> \in Points /\ i \in AnyInfo /\ n + 1 \in Nat
      BY DEF Points, AnyInfo
    <2>2. e \in EnforcementStates
      BY <1>e, <2>1, SetCounterpartyType, Zenon
    <2>3. f \in Option(Fundings)
      BY OptionFacts, Zenon
    <2> HIDE DEF e
    <2>4. d \in EnforcementStates
      BY <2>2, <2>3, Zenon DEF EnforcementStates
    <2>5. WithState(d) \in ChannelRecords
      BY <2>4, WithStateType, Zenon
    <2>6. c \in [n : Nat, f : Fundings, point : Points, info : Infos]
      BY <2>1
    <2>7. mem' = WithState(d) /\ disk' = WithState(d)
      BY <1>3, Zenon DEF SignCounterpartyCommitment, Persist, e
    <2>8. cpSigned' = cpSigned \cup {c}
      BY <1>3, Zenon DEF SignCounterpartyCommitment
    <2> QED
      BY <1>3, <2>5, <2>6, <2>7, <2>8, Zenon
      DEF SignCounterpartyCommitment, TypeOK
  <1>4. ASSUME NEW n \in 0..MaxNum, RevokePreviousHolderCommitment(n)
        PROVE  TypeOK'
    <2> DEFINE p == es.next_holder_commit_info
               t == [es EXCEPT !.next_holder_commit_info = None]
               e == set_next_holder_commit_num(t, n + 1, p.info, p.sigs)
    <2>1. p.info \in AnyInfo /\ p.sigs \in Signatures
      BY <1>4, <1>e, PendingType, Zenon DEF RevokePreviousHolderCommitment
    <2>2. t \in EnforcementStates
      BY <1>e, TakeType, Zenon
    <2> HIDE DEF p, t
    <2>3. e \in EnforcementStates
      <3>1. n + 1 \in Nat
        OBVIOUS
      <3> QED
        BY <3>1, <2>1, <2>2, SetHolderType, Zenon
    <2>4. WithState(e) \in ChannelRecords
      BY <2>3, WithStateType, Zenon
    <2>5. mem' = WithState(e) /\ disk' = WithState(e)
      BY <1>4, Zenon DEF RevokePreviousHolderCommitment, Persist, p, t
    <2>6. released' \subseteq Nat
      BY <1>4 DEF RevokePreviousHolderCommitment, TypeOK
    <2> QED
      BY <1>4, <2>4, <2>5, <2>6, Zenon DEF RevokePreviousHolderCommitment, TypeOK
  <1>5. ASSUME NEW n \in 0..MaxNum, RevokeFailsAfterTake(n)
        PROVE  TypeOK'
    <2>1. WithState([es EXCEPT !.next_holder_commit_info = None])
            \in ChannelRecords
      BY <1>e, TakeType, WithStateType, Zenon
    <2> QED
      BY <1>5, <2>1, Zenon DEF RevokeFailsAfterTake, TypeOK, history
  <1>6. ASSUME NEW n \in 0..MaxNum, GetPerCommitmentSecret(n)
        PROVE  TypeOK'
    BY <1>6 DEF GetPerCommitmentSecret, TypeOK
  <1>7. ASSUME NEW n \in Nat, SignHolderCommitment(n)
        PROVE  TypeOK'
    <2> DEFINE p == es.next_holder_commit_info
               pending == n = es.next_holder_commit_num /\ p # None
               c == [n    |-> n,
                     f    |-> mem.setup,
                     info |-> IF pending THEN p.info
                              ELSE es.current_holder_commit_info,
                     sigs |-> IF pending THEN p.sigs
                              ELSE es.current_counterparty_signatures]
    <2>1. WithState([es EXCEPT !.channel_closed = TRUE]) \in ChannelRecords
      BY <1>e, ClosedType, WithStateType, Zenon
    <2>2. /\ c.info \in AnyInfo
          /\ c.sigs \in Signatures
      <3>1. CASE pending
        BY <3>1, <1>e, PendingType, Zenon
      <3>2. CASE ~pending
        <4>1. /\ es.current_holder_commit_info # None
              /\ es.current_counterparty_signatures # None
          BY <3>2, <1>7, Zenon DEF SignHolderCommitment
        <4>2. /\ es.current_holder_commit_info \in Option(AnyInfo)
              /\ es.current_counterparty_signatures \in Option(Signatures)
          BY <1>e, Zenon DEF EnforcementStates
        <4> QED
          BY <4>1, <4>2, <3>2, OptionFacts, Zenon
      <3> QED
        BY <3>1, <3>2, Zenon
    <2>3. mem.setup \in Fundings
      BY Zenon DEF TypeOK, ChannelRecords
    <2>4. c \in [n : Nat, f : Fundings, info : AnyInfo, sigs : Signatures]
      BY <2>2, <2>3, Zenon
    <2>5. closeSigned' = closeSigned \cup {c}
      BY <1>7, Zenon DEF SignHolderCommitment
    <2> QED
      BY <1>7, <2>1, <2>4, <2>5, Zenon DEF SignHolderCommitment, Persist, TypeOK
  <1>8. ASSUME NEW n \in 0..MaxNum, SignHolderCommitmentPanics(n)
        PROVE  TypeOK'
    BY <1>8, Zenon DEF SignHolderCommitmentPanics, TypeOK, history
  <1>9. ASSUME NEW n \in 0..MaxNum, NEW s \in Seeds,
               ValidateCounterpartyRevocation(n, s)
        PROVE  TypeOK'
    <2> DEFINE e == provide_secret(es, <<n, s>>)
               d == set_next_counterparty_revoke_num(e, n + 1)
    <2>1. <<n, s>> \in Points
      BY DEF Points
    <2>2. e \in EnforcementStates
      BY <1>e, <2>1, ProvideSecretType, Zenon
    <2>3. d \in EnforcementStates
      BY <2>2, SetRevokeType
    <2>4. WithState(d) \in ChannelRecords
      BY <2>3, WithStateType, Zenon
    <2> QED
      BY <1>9, <2>4, Zenon DEF ValidateCounterpartyRevocation, Persist, TypeOK, history
  <1>10. ASSUME NEW n \in 0..MaxNum, NEW s \in Seeds,
                RevocationFailsAfterProvide(n, s)
         PROVE  TypeOK'
    <2>1. <<n, s>> \in Points
      BY DEF Points
    <2>2. WithState(provide_secret(es, <<n, s>>)) \in ChannelRecords
      BY <1>e, <2>1, ProvideSecretType, WithStateType, Zenon
    <2> QED
      BY <1>10, <2>2, Zenon DEF RevocationFailsAfterProvide, TypeOK, history
  <1>11. ASSUME SignHolderCommitmentForRecovery
         PROVE  TypeOK'
    <2>1. es.next_holder_commit_num \in Nat
      BY <1>e, Zenon DEF EnforcementStates
    <2>2. PICK n \in Nat : SignHolderCommitment(n)
      BY <1>11, <2>1 DEF SignHolderCommitmentForRecovery
    <2> QED
      BY <2>2, <1>7, Zenon
  <1>12. ASSUME SignMutualClose
         PROVE  TypeOK'
    <2>1. WithState([es EXCEPT !.channel_closed = TRUE]) \in ChannelRecords
      BY <1>e, ClosedType, WithStateType, Zenon
    <2> QED
      BY <1>12, <2>1, Zenon DEF SignMutualClose, Persist, TypeOK, history
  <1>13. ASSUME NEW f \in Fundings, SetupChannelSplice(f)
         PROVE  TypeOK'
    <2>1. /\ mem.setup \in Fundings
          /\ mem.setup \in Option(Fundings)
          /\ mem.prev_setup \in Option(Fundings)
      BY OptionFacts, Zenon DEF TypeOK, ChannelRecords
    <2>2. snapshot_funding_for_splice(es, mem.setup) \in EnforcementStates
      BY <1>e, <2>1, SnapshotType, Zenon
    <2>3. Spliced(f) \in ChannelRecords
      BY <2>1, <2>2, Zenon DEF Spliced, ChannelRecords
    <2> QED
      BY <1>13, <2>3 DEF SetupChannelSplice, TypeOK, history
  <1>14. ASSUME ConfirmFundingLocked
         PROVE  TypeOK'
    <2> DEFINE r == [es EXCEPT !.prev_funding_commitment = None]
               b == Baseline(mem.setup)
               w == [r EXCEPT !.current_holder_commit_info       = b,
                              !.current_counterparty_commit_info = b]
    <2>1. /\ None \in Option(PrevFundingCommitment)
          /\ None \in Option(Fundings)
      BY OptionFacts, Zenon
    <2>2. r \in EnforcementStates
      BY <1>e, <2>1, Zenon DEF EnforcementStates
    <2>3. mem.setup \in Fundings /\ mem.setup \in Option(Fundings)
      BY OptionFacts, Zenon DEF TypeOK, ChannelRecords
    <2>4. b \in Option(AnyInfo)
      BY <2>3, OptionFacts DEF AnyInfo
    <2> HIDE DEF r, b
    <2>5. w \in EnforcementStates
      BY <2>2, <2>4, Zenon DEF EnforcementStates
    <2> HIDE DEF w
    <2>6. /\ disk' = mem'
          /\ mem'.es \in {r, w}
          /\ mem' = [setup |-> mem.setup, prev_setup |-> None,
                     prev_prev_setup |-> None, es |-> mem'.es]
          /\ funding_locked' = mem.setup
          /\ UNCHANGED <<panicked, history, splices>>
      BY <1>14, Zenon DEF ConfirmFundingLocked, Persist, r, b, w
    <2>7. mem' \in ChannelRecords
      BY <2>1, <2>2, <2>3, <2>5, <2>6 DEF ChannelRecords
    <2> QED
      BY <2>3, <2>6, <2>7, Zenon DEF TypeOK, history
  <1>15. ASSUME Restart
         PROVE  TypeOK'
    BY <1>15, OptionFacts, Zenon DEF Restart, TypeOK, history
  <1>16. ASSUME UNCHANGED vars
         PROVE  TypeOK'
    BY <1>16, Zenon DEF vars, history, TypeOK
  <1>17. \A n \in 0..MaxNum : n \in Nat
    OBVIOUS
  <1> QED
    BY <1>1, <1>2, <1>3, <1>4, <1>5, <1>6, <1>7, <1>8, <1>9, <1>10, <1>11,
       <1>12, <1>13, <1>14, <1>15, <1>16, <1>17, Zenon
    DEF Next

\* A channel that setup_channel just made ready is well typed.
LEMMA InitType == Init => TypeOK
  <1> SUFFICES ASSUME Init PROVE TypeOK
    OBVIOUS
  <1>1. mem \in ChannelRecords
    BY NewStateType, OptionFacts, ChannelAssumption, Zenon DEF Init, ChannelRecords
  <1>2. splices \in 0..MaxSplices
    BY ChannelAssumption DEF Init
  <1>3. funding_locked \in Option(Fundings)
    BY OptionFacts, Zenon DEF Init
  <1> QED
    BY <1>1, <1>2, <1>3, Zenon DEF Init, TypeOK

\* The channel record in memory and in storage and what left the signer are
\* well typed in every behaviour.
THEOREM TypeCorrect == Spec => []TypeOK
  BY InitType, TypeStep, PTL DEF Spec

-----------------------------------------------------------------------------
(* What a step does to the commitment numbers                              *)
(*                                                                         *)
(* Each action falls under one of six effects; the invariants and the      *)
(* refinement are proved from the effects.                                 *)

nextHolder(c) == c.es.next_holder_commit_num
nextCp(c)     == c.es.next_counterparty_commit_num
nextRevoke(c) == c.es.next_counterparty_revoke_num
closed(c)     == c.es.channel_closed
pending(c)    == c.es.next_holder_commit_info

SameNumbers(c, d) ==
  /\ nextHolder(c) = nextHolder(d)
  /\ nextCp(c)     = nextCp(d)
  /\ nextRevoke(c) = nextRevoke(d)

\* No number moves; a pending commitment is an old one or new on an open
\* channel.
Quiet ==
  /\ \A c \in {mem', disk'} :
       /\ SameNumbers(c, mem)
       /\ closed(c) = closed(mem)
       /\ pending(c) \in {None, pending(mem), pending(disk)} \/ ~closed(mem)
  /\ UNCHANGED history

\* The pending (or the initial) holder commitment becomes current.
Advances ==
  /\ disk' = mem'
  /\ nextHolder(mem') = nextHolder(mem) + 1
  /\ nextCp(mem') = nextCp(mem)
  /\ nextRevoke(mem') = nextRevoke(mem)
  /\ closed(mem') = closed(mem)
  /\ pending(mem') = None
  /\ pending(mem) # None \/ nextHolder(mem) = 0
  /\ released \subseteq released'
  /\ \A n \in released' \ released : n + 1 = nextHolder(mem)
  /\ UNCHANGED <<closeSigned, cpSigned>>

Discloses ==
  /\ released \subseteq released'
  /\ \A n \in released' \ released : n + 2 <= nextHolder(mem)
  /\ UNCHANGED <<mem, disk, closeSigned, cpSigned>>

\* The channel closes, with or without a signature for broadcast.
Closes ==
  /\ disk' = mem'
  /\ SameNumbers(mem', mem)
  /\ closed(mem') = TRUE
  /\ pending(mem') = pending(mem)
  /\ closeSigned \subseteq closeSigned'
  /\ \A c \in closeSigned' \ closeSigned : nextHolder(mem) <= c.n + 1
  /\ UNCHANGED <<released, cpSigned>>

SignsCounterparty ==
  \E n \in Nat :
    /\ n <= nextRevoke(mem) + 1
    /\ n + 1 \in {nextCp(mem), nextCp(mem) + 1}
    /\ disk' = mem'
    /\ nextCp(mem') = n + 1
    /\ nextHolder(mem') = nextHolder(mem)
    /\ nextRevoke(mem') = nextRevoke(mem)
    /\ closed(mem') = closed(mem)
    /\ pending(mem') = pending(mem)
    /\ cpSigned \subseteq cpSigned'
    /\ \A c \in cpSigned' \ cpSigned : c.n = n
    /\ UNCHANGED <<released, closeSigned>>

Revokes ==
  \E n \in Nat :
    /\ n + 1 \in {nextRevoke(mem), nextRevoke(mem) + 1}
    /\ n + 2 <= nextCp(mem)
    /\ disk' = mem'
    /\ nextRevoke(mem') = n + 1
    /\ nextHolder(mem') = nextHolder(mem)
    /\ nextCp(mem') = nextCp(mem)
    /\ closed(mem') = closed(mem)
    /\ pending(mem') = pending(mem)
    /\ UNCHANGED history

Effect ==
  \/ Quiet
  \/ Advances
  \/ Discloses
  \/ Closes
  \/ SignsCounterparty
  \/ Revokes

\* Replacing the enforcement state of the record is visible in it.
LEMMA WithStateEs ==
  ASSUME TypeOK, NEW e
  PROVE  WithState(e).es = e
  BY Zenon DEF TypeOK, ChannelRecords, WithState

\* A validation moves no number, does not close, and fills the pending slot
\* with the next number only.
LEMMA StoreEffect ==
  ASSUME TypeOK, NEW n \in Nat, NEW f \in Fundings, NEW i \in Infos,
         NEW straggler
  PROVE  LET s == StoreHolderCommitment(n, f, i, straggler)
         IN  /\ s.next_holder_commit_num = es.next_holder_commit_num
             /\ s.next_counterparty_commit_num = es.next_counterparty_commit_num
             /\ s.next_counterparty_revoke_num = es.next_counterparty_revoke_num
             /\ s.channel_closed = es.channel_closed
             /\ \/ s.next_holder_commit_info = es.next_holder_commit_info
                \/ n = es.next_holder_commit_num
  <1>1. es \in EnforcementStates
    BY Zenon DEF TypeOK, ChannelRecords, es
  <1> QED
    BY <1>1, Zenon DEF StoreHolderCommitment, EnforcementStates

\* activate_initial_commitment moves at most from number 0 to 1 and empties
\* the pending slot.
LEMMA ActivateEffect ==
  ASSUME NEW e \in EnforcementStates, CanActivate(e)
  PROVE  LET a == activate_initial_commitment(e)
         IN  /\ a.next_holder_commit_num =
                  IF e.next_holder_commit_num = 0 THEN 1
                  ELSE e.next_holder_commit_num
             /\ a.next_counterparty_commit_num = e.next_counterparty_commit_num
             /\ a.next_counterparty_revoke_num = e.next_counterparty_revoke_num
             /\ a.channel_closed = e.channel_closed
             /\ a.next_holder_commit_info = None
  BY Zenon DEF activate_initial_commitment, set_next_holder_commit_num,
         EnforcementStates

\* The splice snapshot moves no number and empties the pending slot.
LEMMA SnapshotEffect ==
  ASSUME NEW e \in EnforcementStates, NEW f
  PROVE  LET s == snapshot_funding_for_splice(e, f)
         IN  /\ s.next_holder_commit_num = e.next_holder_commit_num
             /\ s.next_counterparty_commit_num = e.next_counterparty_commit_num
             /\ s.next_counterparty_revoke_num = e.next_counterparty_revoke_num
             /\ s.channel_closed = e.channel_closed
             /\ s.next_holder_commit_info = None
  BY Zenon DEF snapshot_funding_for_splice, EnforcementStates

\* Every step has one of the six effects.
LEMMA StepEffect ==
  ASSUME TypeOK, DurableCounters, Next
  PROVE  Effect
  <1> USE ChannelAssumption
  <1>e. /\ es \in EnforcementStates
        /\ es = mem.es
        /\ disk.es \in EnforcementStates
    BY Zenon DEF TypeOK, ChannelRecords, es
  <1>n. /\ nextHolder(mem) \in Nat
        /\ nextCp(mem) \in Nat
        /\ nextRevoke(mem) \in Nat
    BY <1>e, Zenon DEF EnforcementStates, nextHolder, nextCp, nextRevoke
  <1>d. SameNumbers(disk, mem) /\ closed(disk) = closed(mem)
    BY Zenon DEF DurableCounters, SameNumbers, nextHolder, nextCp, nextRevoke,
           closed, es
  <1>1. ASSUME NEW f \in Fundings, NEW n \in 0..MaxNum, NEW i \in Infos,
               HandleValidateCommitmentTx(f, n, i)
        PROVE  Quiet \/ Advances
    <2> DEFINE s == StoreHolderCommitment(n, f, i, f # mem.setup)
               a == activate_initial_commitment(s)
               e == IF n = 0 /\ CanActivate(s) THEN a ELSE s
    <2>1. /\ s \in EnforcementStates
          /\ s.next_holder_commit_num = es.next_holder_commit_num
          /\ s.next_counterparty_commit_num = es.next_counterparty_commit_num
          /\ s.next_counterparty_revoke_num = es.next_counterparty_revoke_num
          /\ s.channel_closed = es.channel_closed
          /\ \/ s.next_holder_commit_info = es.next_holder_commit_info
             \/ n = es.next_holder_commit_num
      BY StoreType, StoreEffect
    <2>2. /\ mem' = WithState(e) /\ disk' = WithState(e)
          /\ UNCHANGED history
          /\ n = es.next_holder_commit_num => ~es.channel_closed
      BY <1>1, Zenon DEF HandleValidateCommitmentTx, Persist,
                  validate_holder_commitment_tx
    <2>3. mem'.es = e /\ disk'.es = e /\ disk' = mem'
      BY <2>2, WithStateEs, Zenon
    <2>4. CASE n = 0 /\ CanActivate(s)
      <3>1. /\ a.next_holder_commit_num =
                 IF s.next_holder_commit_num = 0 THEN 1
                 ELSE s.next_holder_commit_num
            /\ a.next_counterparty_commit_num = s.next_counterparty_commit_num
            /\ a.next_counterparty_revoke_num = s.next_counterparty_revoke_num
            /\ a.channel_closed = s.channel_closed
            /\ a.next_holder_commit_info = None
        BY <2>1, <2>4, ActivateEffect, Zenon
      <3> HIDE DEF s, a
      <3>2. mem'.es = a
        BY <2>3, <2>4, Zenon
      <3>3. CASE es.next_holder_commit_num = 0
        BY <3>1, <3>2, <3>3, <2>1, <2>2, <2>3, <1>e
        DEF Advances, nextHolder, nextCp, nextRevoke, closed, pending, history
      <3>4. CASE es.next_holder_commit_num # 0
        BY <3>1, <3>2, <3>4, <2>1, <2>2, <2>3, <1>e, Zenon
        DEF Quiet, SameNumbers, nextHolder, nextCp, nextRevoke, closed, pending
      <3> QED
        BY <3>3, <3>4, Zenon
    <2>5. CASE ~(n = 0 /\ CanActivate(s))
      <3> HIDE DEF s, a
      <3>1. mem'.es = s
        BY <2>3, <2>5, Zenon
      <3> QED
        BY <3>1, <2>1, <2>2, <2>3, <1>e, Zenon
        DEF Quiet, SameNumbers, nextHolder, nextCp, nextRevoke, closed, pending
    <2> QED
      BY <2>4, <2>5, Zenon
  <1>2. ASSUME NEW f \in Fundings, NEW n \in 0..MaxNum, NEW i \in Infos,
               ValidateHolderCommitmentPhase2(f, n, i)
        PROVE  Quiet
    <2> DEFINE s == StoreHolderCommitment(n, f, i,
                      f # es.holder_commitment_funding)
    <2>1. /\ s.next_holder_commit_num = es.next_holder_commit_num
          /\ s.next_counterparty_commit_num = es.next_counterparty_commit_num
          /\ s.next_counterparty_revoke_num = es.next_counterparty_revoke_num
          /\ s.channel_closed = es.channel_closed
          /\ \/ s.next_holder_commit_info = es.next_holder_commit_info
             \/ n = es.next_holder_commit_num
      BY StoreEffect
    <2>2. /\ mem' = WithState(s) /\ disk' = WithState(s)
          /\ UNCHANGED history
          /\ n = es.next_holder_commit_num => ~es.channel_closed
      BY <1>2, Zenon DEF ValidateHolderCommitmentPhase2, Persist,
                  validate_holder_commitment_tx
    <2>3. mem'.es = s /\ disk'.es = s
      BY <2>2, WithStateEs, Zenon
    <2> HIDE DEF s
    <2> QED
      BY <2>1, <2>2, <2>3, <1>e, Zenon
      DEF Quiet, SameNumbers, nextHolder, nextCp, nextRevoke, closed, pending
  <1>3. ASSUME NEW f \in Fundings, NEW n \in 0..MaxNum, NEW i \in Infos,
               NEW s \in Seeds, SignCounterpartyCommitment(f, n, s, i)
        PROVE  SignsCounterparty
    <2> DEFINE e == set_next_counterparty_commit_num(es, n + 1, <<n, s>>, i)
               d == [e EXCEPT !.counterparty_commitment_funding = f]
    <2>1. /\ n <= es.next_counterparty_revoke_num + 1
          /\ n + 1 \in {es.next_counterparty_commit_num,
                        es.next_counterparty_commit_num + 1}
      BY <1>3, Zenon DEF SignCounterpartyCommitment, SignCounterpartyOk,
                  validate_counterparty_commitment_tx,
                  next_counterparty_commit_num_ok
    <2>2. /\ d.next_counterparty_commit_num = n + 1
          /\ d.next_holder_commit_num = es.next_holder_commit_num
          /\ d.next_counterparty_revoke_num = es.next_counterparty_revoke_num
          /\ d.channel_closed = es.channel_closed
          /\ d.next_holder_commit_info = es.next_holder_commit_info
      BY <2>1, <1>e, Zenon DEF set_next_counterparty_commit_num, EnforcementStates
    <2>3. /\ mem' = WithState(d) /\ disk' = WithState(d)
          /\ cpSigned \subseteq cpSigned'
          /\ \A c \in cpSigned' \ cpSigned : c.n = n
          /\ UNCHANGED <<released, closeSigned>>
      BY <1>3 DEF SignCounterpartyCommitment, Persist
    <2>4. mem'.es = d /\ disk' = mem'
      BY <2>3, WithStateEs, Zenon
    <2> HIDE DEF d
    <2> QED
      BY <2>1, <2>2, <2>3, <2>4, <1>e
      DEF SignsCounterparty, nextHolder, nextCp, nextRevoke, closed, pending
  <1>4. ASSUME NEW n \in 0..MaxNum, RevokePreviousHolderCommitment(n)
        PROVE  Advances
    <2> DEFINE p == es.next_holder_commit_info
               t == [es EXCEPT !.next_holder_commit_info = None]
               e == set_next_holder_commit_num(t, n + 1, p.info, p.sigs)
    <2>1. /\ n = es.next_holder_commit_num /\ p # None
          /\ mem' = WithState(e) /\ disk' = WithState(e)
          /\ released' = released \cup (IF n >= 1 THEN {n - 1} ELSE {})
          /\ UNCHANGED <<closeSigned, cpSigned>>
      BY <1>4, Zenon DEF RevokePreviousHolderCommitment, Persist
    <2>2. /\ e.next_holder_commit_num = n + 1
          /\ e.next_counterparty_commit_num = es.next_counterparty_commit_num
          /\ e.next_counterparty_revoke_num = es.next_counterparty_revoke_num
          /\ e.channel_closed = es.channel_closed
          /\ e.next_holder_commit_info = None
      BY <1>e, Zenon DEF set_next_holder_commit_num, EnforcementStates
    <2>3. mem'.es = e /\ disk' = mem'
      BY <2>1, WithStateEs, Zenon
    <2>4. /\ released \subseteq released'
          /\ \A m \in released' \ released : m + 1 = nextHolder(mem)
      BY <2>1, <1>e DEF nextHolder
    <2> HIDE DEF e
    <2> QED
      BY <2>1, <2>2, <2>3, <2>4, <1>e, Zenon
      DEF Advances, nextHolder, nextCp, nextRevoke, closed, pending
  <1>5. ASSUME NEW n \in 0..MaxNum, RevokeFailsAfterTake(n)
        PROVE  Quiet
    <2> DEFINE t == [es EXCEPT !.next_holder_commit_info = None]
    <2>1. /\ t.next_holder_commit_num = es.next_holder_commit_num
          /\ t.next_counterparty_commit_num = es.next_counterparty_commit_num
          /\ t.next_counterparty_revoke_num = es.next_counterparty_revoke_num
          /\ t.channel_closed = es.channel_closed
          /\ t.next_holder_commit_info = None
      BY <1>e, Zenon DEF EnforcementStates
    <2>2. mem' = WithState(t) /\ disk' = disk /\ UNCHANGED history
      BY <1>5, Zenon DEF RevokeFailsAfterTake
    <2>3. mem'.es = t
      BY <2>2, WithStateEs, Zenon
    <2> HIDE DEF t
    <2> QED
      BY <2>1, <2>2, <2>3, <1>e, <1>d, Zenon
      DEF Quiet, SameNumbers, nextHolder, nextCp, nextRevoke, closed, pending
  <1>6. ASSUME NEW n \in 0..MaxNum, GetPerCommitmentSecret(n)
        PROVE  Discloses
    BY <1>6, <1>e, Zenon DEF GetPerCommitmentSecret, Discloses, nextHolder
  <1>7. ASSUME NEW n \in Nat, SignHolderCommitment(n)
        PROVE  Closes
    <2> DEFINE d == [es EXCEPT !.channel_closed = TRUE]
    <2>1. /\ d.next_holder_commit_num = es.next_holder_commit_num
          /\ d.next_counterparty_commit_num = es.next_counterparty_commit_num
          /\ d.next_counterparty_revoke_num = es.next_counterparty_revoke_num
          /\ d.channel_closed = TRUE
          /\ d.next_holder_commit_info = es.next_holder_commit_info
      BY <1>e, Zenon DEF EnforcementStates
    <2>2. /\ mem' = WithState(d) /\ disk' = WithState(d)
          /\ closeSigned \subseteq closeSigned'
          /\ \A c \in closeSigned' \ closeSigned : c.n = n
          /\ UNCHANGED <<released, cpSigned>>
      BY <1>7 DEF SignHolderCommitment, Persist
    <2>3. es.next_holder_commit_num <= n + 1
      BY <1>7, <1>e, <1>n DEF SignHolderCommitment, nextHolder
    <2>4. mem'.es = d /\ disk' = mem'
      BY <2>2, WithStateEs, Zenon
    <2> HIDE DEF d
    <2> QED
      BY <2>1, <2>2, <2>3, <2>4, <1>e, Zenon
      DEF Closes, SameNumbers, nextHolder, nextCp, nextRevoke, closed, pending
  <1>8. ASSUME NEW n \in 0..MaxNum, SignHolderCommitmentPanics(n)
        PROVE  Quiet
    BY <1>8, <1>d, Zenon DEF SignHolderCommitmentPanics, Quiet, SameNumbers
  <1>9. ASSUME NEW n \in 0..MaxNum, NEW s \in Seeds,
               ValidateCounterpartyRevocation(n, s)
        PROVE  Revokes
    <2> DEFINE e == provide_secret(es, <<n, s>>)
               d == set_next_counterparty_revoke_num(e, n + 1)
    <2>1. /\ n + 1 \in {es.next_counterparty_revoke_num,
                        es.next_counterparty_revoke_num + 1}
          /\ n + 2 <= es.next_counterparty_commit_num
          /\ mem' = WithState(d) /\ disk' = WithState(d)
          /\ UNCHANGED history
      BY <1>9, <1>e DEF ValidateCounterpartyRevocation, Persist,
                        next_counterparty_revoke_num_ok, EnforcementStates
    <2>2. /\ d.next_holder_commit_num = es.next_holder_commit_num
          /\ d.next_counterparty_commit_num = es.next_counterparty_commit_num
          /\ d.next_counterparty_revoke_num = n + 1
          /\ d.channel_closed = es.channel_closed
          /\ d.next_holder_commit_info = es.next_holder_commit_info
      BY <1>e, Zenon DEF set_next_counterparty_revoke_num, provide_secret,
                  EnforcementStates
    <2>3. mem'.es = d /\ disk' = mem'
      BY <2>1, WithStateEs, Zenon
    <2> HIDE DEF d
    <2> QED
      BY <2>1, <2>2, <2>3, <1>e
      DEF Revokes, nextHolder, nextCp, nextRevoke, closed, pending
  <1>10. ASSUME NEW n \in 0..MaxNum, NEW s \in Seeds,
                RevocationFailsAfterProvide(n, s)
         PROVE  Quiet
    <2> DEFINE e == provide_secret(es, <<n, s>>)
    <2>1. /\ e.next_holder_commit_num = es.next_holder_commit_num
          /\ e.next_counterparty_commit_num = es.next_counterparty_commit_num
          /\ e.next_counterparty_revoke_num = es.next_counterparty_revoke_num
          /\ e.channel_closed = es.channel_closed
          /\ e.next_holder_commit_info = es.next_holder_commit_info
      BY <1>e, Zenon DEF provide_secret, EnforcementStates
    <2>2. mem' = WithState(e) /\ disk' = disk /\ UNCHANGED history
      BY <1>10, Zenon DEF RevocationFailsAfterProvide
    <2>3. mem'.es = e
      BY <2>2, WithStateEs, Zenon
    <2> HIDE DEF e
    <2> QED
      BY <2>1, <2>2, <2>3, <1>e, <1>d, Zenon
      DEF Quiet, SameNumbers, nextHolder, nextCp, nextRevoke, closed, pending
  <1>11. ASSUME SignHolderCommitmentForRecovery
         PROVE  Closes
    <2>1. PICK n \in Nat : SignHolderCommitment(n)
      BY <1>11, <1>n, <1>e DEF SignHolderCommitmentForRecovery, nextHolder
    <2> QED
      BY <2>1, <1>7, Zenon
  <1>12. ASSUME SignMutualClose
         PROVE  Closes
    <2> DEFINE d == [es EXCEPT !.channel_closed = TRUE]
    <2>1. /\ d.next_holder_commit_num = es.next_holder_commit_num
          /\ d.next_counterparty_commit_num = es.next_counterparty_commit_num
          /\ d.next_counterparty_revoke_num = es.next_counterparty_revoke_num
          /\ d.channel_closed = TRUE
          /\ d.next_holder_commit_info = es.next_holder_commit_info
      BY <1>e, Zenon DEF EnforcementStates
    <2>2. mem' = WithState(d) /\ disk' = WithState(d) /\ UNCHANGED history
      BY <1>12, Zenon DEF SignMutualClose, Persist
    <2>3. mem'.es = d /\ disk' = mem'
      BY <2>2, WithStateEs, Zenon
    <2> HIDE DEF d
    <2> QED
      BY <2>1, <2>2, <2>3, <1>e, Zenon
      DEF Closes, SameNumbers, nextHolder, nextCp, nextRevoke, closed, pending,
          history
  <1>13. ASSUME NEW f \in Fundings, SetupChannelSplice(f)
         PROVE  Quiet
    <2> DEFINE e == snapshot_funding_for_splice(es, mem.setup)
    <2>1. /\ e.next_holder_commit_num = es.next_holder_commit_num
          /\ e.next_counterparty_commit_num = es.next_counterparty_commit_num
          /\ e.next_counterparty_revoke_num = es.next_counterparty_revoke_num
          /\ e.channel_closed = es.channel_closed
          /\ e.next_holder_commit_info = None
      BY <1>e, SnapshotEffect
    <2>2. /\ mem'.es = e
          /\ disk'.es = e \/ disk' = disk
          /\ UNCHANGED history
      BY <1>13, Zenon DEF SetupChannelSplice, Spliced
    <2> HIDE DEF e
    <2> QED
      BY <2>1, <2>2, <1>e, <1>d, Zenon
      DEF Quiet, SameNumbers, nextHolder, nextCp, nextRevoke, closed, pending
  <1>14. ASSUME ConfirmFundingLocked
         PROVE  Quiet
    <2>1. /\ mem'.es.next_holder_commit_num = es.next_holder_commit_num
          /\ mem'.es.next_counterparty_commit_num =
               es.next_counterparty_commit_num
          /\ mem'.es.next_counterparty_revoke_num =
               es.next_counterparty_revoke_num
          /\ mem'.es.channel_closed = es.channel_closed
          /\ mem'.es.next_holder_commit_info = es.next_holder_commit_info
      BY <1>14, <1>e, Zenon DEF ConfirmFundingLocked, Persist, EnforcementStates
    <2>2. disk' = mem' /\ UNCHANGED history
      BY <1>14, Zenon DEF ConfirmFundingLocked, Persist
    <2> QED
      BY <2>1, <2>2, <1>e, Zenon
      DEF Quiet, SameNumbers, nextHolder, nextCp, nextRevoke, closed, pending
  <1>15. ASSUME Restart
         PROVE  Quiet
    BY <1>15, <1>d, Zenon DEF Restart, Quiet
  <1>16. \A n \in 0..MaxNum : n \in Nat
    OBVIOUS
  <1> QED
    BY <1>1, <1>2, <1>3, <1>4, <1>5, <1>6, <1>7, <1>8, <1>9, <1>10, <1>11,
       <1>12, <1>13, <1>14, <1>15, <1>16, Zenon
    DEF Next, Effect

-----------------------------------------------------------------------------
(* The inductive invariant *)

\* Once a holder commitment is signed for broadcast the channel is closed, in
\* memory and in storage, and the number can move only by consuming the
\* commitment that was pending.  BoundedAfterClose alone is not inductive: it
\* does not say that no further commitment can become pending.
ClosedForGood ==
  \A c \in closeSigned, r \in {mem, disk} :
    /\ closed(r)
    /\ nextHolder(r) <= c.n + 2
    /\ pending(r) # None => nextHolder(r) <= c.n + 1

Inv ==
  /\ TypeOK
  /\ DurableCounters
  /\ ReleasedBehind
  /\ ClosedForGood
  /\ CounterpartyWindow

\* The numbers of a well-typed channel are natural numbers.
LEMMA NumberTypes ==
  ASSUME TypeOK
  PROVE  /\ nextHolder(mem) \in Nat /\ nextHolder(disk) \in Nat
         /\ nextCp(mem) \in Nat /\ nextCp(disk) \in Nat
         /\ nextRevoke(mem) \in Nat /\ nextRevoke(disk) \in Nat
         /\ closed(mem) \in BOOLEAN /\ closed(disk) \in BOOLEAN
         /\ \A c \in closeSigned : c.n \in Nat
         /\ \A c \in cpSigned : c.n \in Nat
         /\ \A n \in released : n \in Nat
  BY Zenon DEF TypeOK, ChannelRecords, EnforcementStates, nextHolder, nextCp,
         nextRevoke, closed

\* The numbers in memory and in storage agree, in the vocabulary of the proofs.
LEMMA DurableNumbers ==
  DurableCounters <=> SameNumbers(disk, mem) /\ closed(disk) = closed(mem)
  BY Zenon DEF DurableCounters, SameNumbers, nextHolder, nextCp, nextRevoke, closed, es

\* The invariant holds initially.
LEMMA InvInit == Init => Inv
  <1> SUFFICES ASSUME Init PROVE Inv
    OBVIOUS
  <1>1. TypeOK
    BY InitType, Zenon
  <1>2. DurableCounters
    BY Zenon DEF Init, DurableCounters, es
  <1>3. mem.es = NewState /\ closeSigned = {} /\ cpSigned = {} /\ released = {}
    BY Zenon DEF Init
  <1>4. CounterpartyWindow
    BY <1>3 DEF CounterpartyWindow, NewState, es
  <1> QED
    BY <1>1, <1>2, <1>3, <1>4, Zenon DEF Inv, ReleasedBehind, ClosedForGood

\* Every step keeps the invariant: one case per effect.
LEMMA InvStep == Inv /\ [Next]_vars => Inv'
  <1> SUFFICES ASSUME Inv, [Next]_vars PROVE Inv'
    OBVIOUS
  <1>t. TypeOK /\ TypeOK'
    BY TypeStep, Zenon DEF Inv
  <1>n. /\ nextHolder(mem) \in Nat /\ nextHolder(mem') \in Nat
        /\ nextCp(mem) \in Nat /\ nextCp(mem') \in Nat
        /\ nextRevoke(mem) \in Nat /\ nextRevoke(mem') \in Nat
        /\ \A c \in closeSigned' : c.n \in Nat
        /\ \A c \in cpSigned' : c.n \in Nat
        /\ \A n \in released' : n \in Nat
    BY <1>t, Zenon DEF TypeOK, ChannelRecords, EnforcementStates, nextHolder, nextCp,
                nextRevoke
  <1>d. SameNumbers(disk, mem) /\ closed(disk) = closed(mem)
    BY DurableNumbers, Zenon DEF Inv
  <1>1. CASE UNCHANGED vars
    BY <1>1, Zenon DEF Inv, TypeOK, DurableCounters, ReleasedBehind, ClosedForGood,
                CounterpartyWindow, vars, history, es
  <1>2. CASE Next
    <2>1. Effect
      BY <1>2, StepEffect, Zenon DEF Inv
    <2>2. SameNumbers(disk', mem') /\ closed(disk') = closed(mem')
      BY <2>1, <1>d, Zenon DEF Effect, Quiet, Advances, Discloses, Closes,
                        SignsCounterparty, Revokes, SameNumbers
    <2>3. DurableCounters'
      BY <2>2, Zenon DEF DurableCounters, SameNumbers, nextHolder, nextCp, nextRevoke,
                  closed, es
    <2>4. /\ nextHolder(mem) <= nextHolder(mem')
          /\ nextHolder(mem') <= nextHolder(mem) + 1
      BY <2>1, <1>n, SMTT(60) DEF Effect, Quiet, Advances, Discloses, Closes,
                        SignsCounterparty, Revokes, SameNumbers
    <2>5. ReleasedBehind'
      <3>1. \A n \in released : n + 2 <= nextHolder(mem)
        BY Zenon DEF Inv, ReleasedBehind, nextHolder, es
      <3>2. \A n \in released' \ released : n + 2 <= nextHolder(mem')
        BY <2>1, <1>n, SMTT(60) DEF Effect, Quiet, Advances, Discloses, Closes,
                          SignsCounterparty, Revokes, history
      <3>3. \A n \in released' : n + 2 <= nextHolder(mem')
        BY <3>1, <3>2, <2>4, <1>n
      <3> QED
        BY <3>3, <2>2, Zenon DEF ReleasedBehind, SameNumbers, nextHolder, es
    <2>6. ClosedForGood'
      <3>1. \A c \in closeSigned :
              /\ closed(mem)
              /\ nextHolder(mem) <= c.n + 2
              /\ (pending(mem) # None \/ pending(disk) # None)
                   => nextHolder(mem) <= c.n + 1
        BY <1>d, Zenon DEF Inv, ClosedForGood, SameNumbers
      <3>2. CASE Quiet
        BY <3>1, <3>2, Zenon DEF Quiet, ClosedForGood, SameNumbers, history
      <3>3. CASE Advances
        BY <3>1, <3>3, <1>n DEF Advances, ClosedForGood
      <3>4. CASE Discloses
        BY <3>4, Zenon DEF Discloses, ClosedForGood, Inv
      <3>5. CASE Closes
        BY <3>1, <3>5, <1>n DEF Closes, ClosedForGood, SameNumbers
      <3>6. CASE SignsCounterparty
        BY <3>1, <3>6, Zenon DEF SignsCounterparty, ClosedForGood
      <3>7. CASE Revokes
        BY <3>1, <3>7, Zenon DEF Revokes, ClosedForGood, history
      <3> QED
        BY <2>1, <3>2, <3>3, <3>4, <3>5, <3>6, <3>7, Zenon DEF Effect
    <2>7. CounterpartyWindow'
      <3>1. /\ nextCp(mem) <= nextRevoke(mem) + 2
            /\ \A c \in cpSigned : /\ c.n < nextCp(mem)
                                   /\ c.n <= nextRevoke(mem) + 1
        BY Zenon DEF Inv, CounterpartyWindow, nextCp, nextRevoke, es
      <3> SUFFICES /\ nextCp(mem') <= nextRevoke(mem') + 2
                   /\ \A c \in cpSigned' : /\ c.n < nextCp(mem')
                                           /\ c.n <= nextRevoke(mem') + 1
        BY Zenon DEF CounterpartyWindow, nextCp, nextRevoke, es
      <3>2. CASE Quiet
        BY <3>1, <3>2, Zenon DEF Quiet, SameNumbers, history
      <3>3. CASE Advances
        BY <3>1, <3>3, Zenon DEF Advances
      <3>4. CASE Discloses
        BY <3>1, <3>4, Zenon DEF Discloses
      <3>5. CASE Closes
        BY <3>1, <3>5, Zenon DEF Closes, SameNumbers
      <3>6. CASE SignsCounterparty
        BY <3>1, <3>6, <1>n DEF SignsCounterparty
      <3>7. CASE Revokes
        BY <3>1, <3>7, <1>n DEF Revokes, history
      <3> QED
        BY <2>1, <3>2, <3>3, <3>4, <3>5, <3>6, <3>7, Zenon DEF Effect
    <2> QED
      BY <1>t, <2>3, <2>5, <2>6, <2>7, Zenon DEF Inv
  <1> QED
    BY <1>1, <1>2, Zenon

\* The inductive invariant holds in every behaviour.
THEOREM Invariance == Spec => []Inv
  BY InvInit, InvStep, PTL DEF Spec

\* The numbers in memory are the stored ones, whatever request failed half way
\* and whenever the signer restarted.
THEOREM CountersAreDurable == Spec => []DurableCounters
  BY Invariance, PTL DEF Inv

\* Only secrets at least two behind the next holder commitment leave the
\* signer, in memory and in storage.
THEOREM SecretsStayBehind == Spec => []ReleasedBehind
  BY Invariance, PTL DEF Inv

\* The counterparty holds signed commitments of at most two unrevoked numbers.
THEOREM WindowHolds == Spec => []CounterpartyWindow
  BY Invariance, PTL DEF Inv

\* After a holder commitment is signed for broadcast at most one more, pending
\* at that time, is revoked into place.
THEOREM CloseBounds == Spec => []BoundedAfterClose
  <1>1. Inv => BoundedAfterClose
    BY Zenon DEF Inv, ClosedForGood, BoundedAfterClose, nextHolder, es
  <1> QED
    BY <1>1, Invariance, PTL

\* No step signs for broadcast a holder commitment whose secret was disclosed.
THEOREM RevokedNeverSigned == Spec => NeverSignRevoked
  <1>1. Inv /\ [Next]_vars =>
          [\A c \in closeSigned' \ closeSigned : c.n \notin released]_vars
    <2> SUFFICES ASSUME Inv, Next,
                        NEW c \in closeSigned' \ closeSigned,
                        c.n \in released
                 PROVE  FALSE
      OBVIOUS
    <2>1. Effect
      BY StepEffect, Zenon DEF Inv
    <2>2. nextHolder(mem) <= c.n + 1
      BY <2>1, Zenon DEF Effect, Quiet, Advances, Discloses, Closes,
                  SignsCounterparty, Revokes, history
    <2>3. c.n + 2 <= nextHolder(mem)
      BY Zenon DEF Inv, ReleasedBehind, nextHolder, es
    <2>4. c.n \in Nat /\ nextHolder(mem) \in Nat
      BY NumberTypes, Zenon DEF Inv
    <2> QED
      BY <2>2, <2>3, <2>4
  <1> QED
    BY <1>1, Invariance, PTL DEF Spec, NeverSignRevoked

-----------------------------------------------------------------------------
(* Refinement *)

\* Every step of the channel is a step of RevocationProtocol or a stutter.
LEMMA ProtocolStep ==
  Inv /\ [Next]_vars => [Protocol!Next]_(Protocol!vars)
  <1> SUFFICES ASSUME Inv, [Next]_vars PROVE [Protocol!Next]_(Protocol!vars)
    OBVIOUS
  <1>n. /\ nextHolder(mem) \in Nat /\ nextCp(mem) \in Nat
        /\ nextRevoke(mem) \in Nat
    BY NumberTypes, Zenon DEF Inv
  <1>1. CASE UNCHANGED vars
    BY <1>1, Zenon DEF vars, history, Protocol!vars
  <1>2. CASE Next
    <2>1. Effect
      BY <1>2, StepEffect, Zenon DEF Inv
    <2>2. CASE Quiet
      BY <2>2, Zenon DEF Quiet, SameNumbers, nextHolder, nextCp, nextRevoke, history,
                  Protocol!vars
    <2>3. CASE Advances
      BY <2>3, Zenon DEF Advances, nextHolder, nextCp, nextRevoke,
                  Protocol!Next, Protocol!Advance
    <2>4. CASE Discloses
      BY <2>4, Zenon DEF Discloses, nextHolder, Protocol!Next, Protocol!Disclose
    <2>5. CASE Closes
      BY <2>5, Zenon DEF Closes, SameNumbers, nextHolder, nextCp, nextRevoke,
                  Protocol!vars
    <2>6. CASE SignsCounterparty
      BY <2>6, <1>n DEF SignsCounterparty, nextHolder, nextCp, nextRevoke,
                        Protocol!Next, Protocol!SignCounterparty, Protocol!vars
    <2>7. CASE Revokes
      BY <2>7, <1>n DEF Revokes, nextHolder, nextCp, nextRevoke, history,
                        Protocol!Next, Protocol!Revoked, Protocol!vars
    <2> QED
      BY <2>1, <2>2, <2>3, <2>4, <2>5, <2>6, <2>7, Zenon DEF Effect
  <1> QED
    BY <1>1, <1>2, Zenon

\* The channel implements the revocation protocol.
THEOREM Refinement == Spec => ImplementsProtocol
  <1>1. Init => Protocol!Init
    BY DEF Init, NewState, Protocol!Init
  <1> QED
    BY <1>1, ProtocolStep, Invariance, PTL
    DEF Spec, ImplementsProtocol, Protocol!Spec
=============================================================================
