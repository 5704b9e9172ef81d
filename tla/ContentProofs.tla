---------------------------- MODULE ContentProofs ----------------------------
(***************************************************************************)
(* Theorems about what a Channel keeps and signs under its numbers:        *)
(* contents, signatures, points and secrets.  ChannelProofs settles the    *)
(* numbers; here the slots are shown to be in step with them, first with   *)
(* splices (SlotsInStep, RevokedSecretsKept), then on a channel that is    *)
(* never spliced (SignaturesMatch, RetriesExact, RevokedIsPunishable).     *)
(***************************************************************************)
EXTENDS ChannelProofs

-----------------------------------------------------------------------------
(* The parts of a channel record                                           *)

currentInfo(c)   == c.es.current_holder_commit_info
currentSigs(c)   == c.es.current_counterparty_signatures
currentPoint(c)  == c.es.current_counterparty_point
previousPoint(c) == c.es.previous_counterparty_point
currentCpInfo(c) == c.es.current_counterparty_commit_info
secrets(c)       == c.es.counterparty_secrets
cpTag(c)         == c.es.counterparty_commitment_funding
retiring(c)      == c.es.prev_funding_commitment

SameHolder(c, d) ==
  /\ nextHolder(c)  = nextHolder(d)
  /\ pending(c)     = pending(d)
  /\ currentInfo(c) = currentInfo(d)
  /\ currentSigs(c) = currentSigs(d)

SameCounterparty(c, d) ==
  /\ nextCp(c)        = nextCp(d)
  /\ nextRevoke(c)    = nextRevoke(d)
  /\ currentPoint(c)  = currentPoint(d)
  /\ previousPoint(c) = previousPoint(d)
  /\ currentCpInfo(c) = currentCpInfo(d)
  /\ secrets(c)       = secrets(d)
  /\ cpTag(c)         = cpTag(d)

SameFundings(c, d) ==
  /\ c.setup           = d.setup
  /\ c.prev_setup      = d.prev_setup
  /\ c.prev_prev_setup = d.prev_prev_setup
  /\ retiring(c) = None <=> retiring(d) = None
  /\ retiring(c) # None => retiring(c).outpoint = retiring(d).outpoint

-----------------------------------------------------------------------------
(* What a step does to the contents                                        *)
(*                                                                         *)
(* Each action falls under one of seven effects, as in ChannelProofs for   *)
(* the numbers.                                                            *)

\* A commitment of the next number is stored as pending, or, as commitment 0,
\* becomes current at once.
TakesNext ==
  \E f \in Views, i \in Infos :
    \/ /\ pending(mem') = [info |-> i, sigs |-> <<nextHolder(mem), f, i>>]
       /\ nextHolder(mem')  = nextHolder(mem)
       /\ currentInfo(mem') = currentInfo(mem)
       /\ currentSigs(mem') = currentSigs(mem)
    \/ /\ pending(mem')     = None
       /\ nextHolder(mem)   = 0
       /\ nextHolder(mem')  = 1
       /\ currentInfo(mem') = i
       /\ currentSigs(mem') = <<0, f, i>>

\* The pending commitment becomes current, under the next number or, for the
\* first commitment after a splice, under the same one.
InstallsPending ==
  /\ pending(mem) # None
  /\ pending(mem')     = None
  /\ currentInfo(mem') = pending(mem).info
  /\ currentSigs(mem') = pending(mem).sigs
  /\ \/ nextHolder(mem') = nextHolder(mem) + 1
     \/ retiring(mem) # None

DropsPending ==
  /\ pending(mem')     = None
  /\ nextHolder(mem')  = nextHolder(mem)
  /\ currentInfo(mem') = currentInfo(mem)
  /\ currentSigs(mem') = currentSigs(mem)

HolderMoves ==
  /\ TakesNext \/ InstallsPending \/ DropsPending \/ SameHolder(mem', mem)
  /\ SameCounterparty(mem', mem)
  /\ SameFundings(mem', mem)
  /\ disk' \in {mem', disk}
  /\ UNCHANGED <<closeSigned, cpSigned>>

\* What sign_holder_commitment_tx_phase2 hands out.
Broadcast(c) ==
  /\ c.f = mem.setup
  /\ \/ /\ c.n = nextHolder(mem)
        /\ pending(mem) # None
        /\ c.info = pending(mem).info
        /\ c.sigs = pending(mem).sigs
     \/ /\ c.n + 1 = nextHolder(mem)
        /\ currentSigs(mem) # None
        /\ c.info = currentInfo(mem)
        /\ c.sigs = currentSigs(mem)

Broadcasts ==
  /\ SameHolder(mem', mem)
  /\ SameCounterparty(mem', mem)
  /\ SameFundings(mem', mem)
  /\ disk' = mem'
  /\ \A c \in closeSigned' \ closeSigned : Broadcast(c)
  /\ UNCHANGED cpSigned

SignsContents ==
  /\ SameHolder(mem', mem)
  /\ SameFundings(mem', mem)
  /\ disk' = mem'
  /\ UNCHANGED closeSigned
  /\ \E f \in Views, n \in Nat, s \in Seeds, i \in Infos :
       /\ cpSigned' = cpSigned \cup
            {[n |-> n, f |-> f, point |-> <<n, s>>, info |-> i]}
       /\ SignCounterpartyOk(n, f, <<n, s>>, i)
       /\ nextRevoke(mem') = nextRevoke(mem)
       /\ secrets(mem')    = secrets(mem)
       /\ cpTag(mem')      = f
       /\ nextCp(mem')     = n + 1
       /\ \/ /\ n = nextCp(mem)
             /\ previousPoint(mem') = currentPoint(mem)
             /\ currentPoint(mem')  = <<n, s>>
             /\ currentCpInfo(mem') = i
          \/ /\ n + 1 = nextCp(mem)
             /\ previousPoint(mem') = previousPoint(mem)
             /\ currentPoint(mem')  = currentPoint(mem)
             /\ currentCpInfo(mem') = currentCpInfo(mem)

\* A secret of the next or the last revoked number arrives; the number moves
\* unless it is the secret of the newest commitment.
TakesSecret ==
  /\ SameHolder(mem', mem)
  /\ SameFundings(mem', mem)
  /\ disk' \in {mem', disk}
  /\ UNCHANGED <<closeSigned, cpSigned>>
  /\ nextCp(mem')        = nextCp(mem)
  /\ currentPoint(mem')  = currentPoint(mem)
  /\ previousPoint(mem') = previousPoint(mem)
  /\ currentCpInfo(mem') = currentCpInfo(mem)
  /\ cpTag(mem')         = cpTag(mem)
  /\ \E n \in Nat, s \in Seeds :
       /\ n = nextRevoke(mem) \/ n + 1 = nextRevoke(mem)
       /\ \/ n + 1 = nextCp(mem) /\ currentPoint(mem) = <<n, s>>
          \/ n + 2 = nextCp(mem) /\ previousPoint(mem) = <<n, s>>
       /\ secrets(mem') = IF \E p \in secrets(mem) : p[1] >= n
                          THEN secrets(mem)
                          ELSE secrets(mem) \cup {<<n, s>>}
       /\ nextRevoke(mem') \in {nextRevoke(mem), n + 1}

Splices ==
  /\ MaxSplices # 0
  /\ pending(mem')    = None
  /\ retiring(mem') # None
  /\ retiring(mem').outpoint = mem.setup
  /\ mem'.prev_setup  = mem.setup
  /\ nextHolder(mem') = nextHolder(mem)
  /\ nextRevoke(mem') = nextRevoke(mem)
  /\ secrets(mem')    = secrets(mem)
  /\ disk' \in {mem', disk}
  /\ UNCHANGED <<closeSigned, cpSigned>>

Locks ==
  /\ mem'.setup = mem.setup
  /\ mem'.prev_setup = None
  /\ mem'.prev_prev_setup = None
  /\ retiring(mem')   = None
  /\ pending(mem')    = pending(mem)
  /\ nextHolder(mem') = nextHolder(mem)
  /\ nextRevoke(mem') = nextRevoke(mem)
  /\ secrets(mem')    = secrets(mem)
  /\ mem.prev_setup = None /\ mem.prev_prev_setup = None
       => SameHolder(mem', mem) /\ SameCounterparty(mem', mem)
  /\ disk' = mem'
  /\ UNCHANGED <<closeSigned, cpSigned>>

Restarts ==
  /\ mem' = disk
  /\ UNCHANGED <<disk, closeSigned, cpSigned>>

ContentEffect ==
  \/ HolderMoves
  \/ Broadcasts
  \/ SignsContents
  \/ TakesSecret
  \/ Splices
  \/ Locks
  \/ Restarts

\* Storing a validated commitment touches the pending slot, for the next number
\* only, or the record of the retiring funding.
LEMMA StoreContents ==
  ASSUME TypeOK, NEW n \in Nat, NEW f \in Fundings, NEW i \in Infos,
         NEW straggler
  PROVE  LET c == WithState(StoreHolderCommitment(n, f, i, straggler))
         IN  /\ SameCounterparty(c, mem)
             /\ SameFundings(c, mem)
             /\ nextHolder(c)  = nextHolder(mem)
             /\ currentInfo(c) = currentInfo(mem)
             /\ currentSigs(c) = currentSigs(mem)
             /\ n # nextHolder(mem) => pending(c) = pending(mem)
             /\ n = nextHolder(mem) =>
                  pending(c) = [info |-> i, sigs |-> <<nextHolder(mem), f, i>>]
  <1> DEFINE s == StoreHolderCommitment(n, f, i, straggler)
             p == [info |-> i, sigs |-> <<n, f, i>>]
             c == WithState(s)
  <1>1. es \in EnforcementStates /\ es = mem.es
    BY Zenon DEF TypeOK, ChannelRecords, es
  <1>2. /\ c.es = s
        /\ c.setup = mem.setup
        /\ c.prev_setup = mem.prev_setup
        /\ c.prev_prev_setup = mem.prev_prev_setup
    BY Zenon DEF WithState, TypeOK, ChannelRecords
  <1>3. /\ s.next_holder_commit_num = es.next_holder_commit_num
        /\ s.current_holder_commit_info = es.current_holder_commit_info
        /\ s.current_counterparty_signatures = es.current_counterparty_signatures
        /\ n # es.next_holder_commit_num =>
             s.next_holder_commit_info = es.next_holder_commit_info
        /\ n = es.next_holder_commit_num =>
             s.next_holder_commit_info = p
    BY <1>1, Zenon DEF StoreHolderCommitment, EnforcementStates
  <1>4. /\ s.next_counterparty_commit_num = es.next_counterparty_commit_num
        /\ s.next_counterparty_revoke_num = es.next_counterparty_revoke_num
        /\ s.current_counterparty_point = es.current_counterparty_point
        /\ s.previous_counterparty_point = es.previous_counterparty_point
        /\ s.current_counterparty_commit_info =
             es.current_counterparty_commit_info
        /\ s.counterparty_secrets = es.counterparty_secrets
        /\ s.counterparty_commitment_funding = es.counterparty_commitment_funding
    BY <1>1, Zenon DEF StoreHolderCommitment, EnforcementStates
  <1>5. /\ s.prev_funding_commitment = None
             <=> es.prev_funding_commitment = None
        /\ es.prev_funding_commitment # None =>
             s.prev_funding_commitment.outpoint =
               es.prev_funding_commitment.outpoint
    <2>1. CASE s.prev_funding_commitment = es.prev_funding_commitment
      BY <2>1, Zenon
    <2>2. CASE s.prev_funding_commitment # es.prev_funding_commitment
      <3>1. /\ es.prev_funding_commitment # None
            /\ s.prev_funding_commitment =
                 [es.prev_funding_commitment EXCEPT !.next_holder_info = p]
        BY <2>2, <1>1, Zenon DEF StoreHolderCommitment, EnforcementStates
      <3>2. es.prev_funding_commitment \in PrevFundingCommitment
        BY <3>1, <1>1, OptionFacts, Zenon DEF EnforcementStates
      <3>3. /\ s.prev_funding_commitment.outpoint =
                 es.prev_funding_commitment.outpoint
            /\ s.prev_funding_commitment \in PrevFundingCommitment
        <4>1. p \in Option(PendingCommit)
          BY OptionFacts, Zenon DEF PendingCommit, Signatures
        <4> QED
          BY <4>1, <3>1, <3>2, Zenon DEF PrevFundingCommitment
      <3> QED
        BY <3>1, <3>3, NoneAssumption, Zenon
    <2> QED
      BY <2>1, <2>2, Zenon
  <1> HIDE DEF s, c
  <1>6. /\ SameCounterparty(c, mem) /\ SameFundings(c, mem)
    BY <1>1, <1>2, <1>4, <1>5, Zenon
    DEF SameCounterparty, SameFundings, nextCp, nextRevoke, currentPoint,
        previousPoint, currentCpInfo, secrets, cpTag, retiring
  <1>7. /\ nextHolder(c)  = nextHolder(mem)
        /\ currentInfo(c) = currentInfo(mem)
        /\ currentSigs(c) = currentSigs(mem)
        /\ n # nextHolder(mem) => pending(c) = pending(mem)
        /\ n = nextHolder(mem) => pending(c) = p
    BY <1>1, <1>2, <1>3, Zenon
    DEF nextHolder, currentInfo, currentSigs, pending
  <1> QED
    BY <1>6, <1>7, Zenon DEF c, s
\* The same but for the holder's commitments and the closed flag.
SameElse(d, e) ==
  /\ d.next_counterparty_commit_num = e.next_counterparty_commit_num
  /\ d.next_counterparty_revoke_num = e.next_counterparty_revoke_num
  /\ d.current_counterparty_point = e.current_counterparty_point
  /\ d.previous_counterparty_point = e.previous_counterparty_point
  /\ d.current_counterparty_commit_info = e.current_counterparty_commit_info
  /\ d.counterparty_secrets = e.counterparty_secrets
  /\ d.counterparty_commitment_funding = e.counterparty_commitment_funding
  /\ d.prev_funding_commitment = e.prev_funding_commitment

SameHolderElse(d, e) ==
  /\ d.next_holder_commit_num = e.next_holder_commit_num
  /\ d.next_holder_commit_info = e.next_holder_commit_info
  /\ d.current_holder_commit_info = e.current_holder_commit_info
  /\ d.current_counterparty_signatures = e.current_counterparty_signatures
  /\ d.prev_funding_commitment = e.prev_funding_commitment

\* Records that agree on the fields of a side agree on its parts.
LEMMA SameElseParts ==
  ASSUME NEW c, NEW d
  PROVE  /\ SameElse(c.es, d.es) => SameCounterparty(c, d)
         /\ SameHolderElse(c.es, d.es) => SameHolder(c, d)
         /\ /\ SameElse(c.es, d.es) \/ SameHolderElse(c.es, d.es)
            /\ c.setup = d.setup
            /\ c.prev_setup = d.prev_setup
            /\ c.prev_prev_setup = d.prev_prev_setup
            => SameFundings(c, d)
  BY Zenon DEF SameElse, SameHolderElse, SameCounterparty, SameHolder, SameFundings,
         nextCp, nextRevoke, currentPoint, previousPoint, currentCpInfo,
         secrets, cpTag, retiring, nextHolder, pending, currentInfo, currentSigs

\* Replacing the enforcement state leaves the setups alone.
LEMMA RecordParts ==
  ASSUME TypeOK, NEW e
  PROVE  LET c == WithState(e)
         IN  /\ c.es = e
             /\ c.setup = mem.setup
             /\ c.prev_setup = mem.prev_setup
             /\ c.prev_prev_setup = mem.prev_prev_setup
  BY Zenon DEF WithState, TypeOK, ChannelRecords

\* Every step has one of the seven effects.
LEMMA ContentStep ==
  ASSUME TypeOK, DurableCounters, Next
  PROVE  ContentEffect
  <1> USE ChannelAssumption
  <1>e. es \in EnforcementStates /\ es = mem.es
    BY Zenon DEF TypeOK, ChannelRecords, es
  <1>n. es.next_holder_commit_num \in Nat
    BY <1>e, Zenon DEF EnforcementStates
  <1>s. SameHolder(mem, mem) /\ SameCounterparty(mem, mem)
          /\ SameFundings(mem, mem)
    BY Zenon DEF SameHolder, SameCounterparty, SameFundings
  <1>1. ASSUME NEW f \in Fundings, NEW n \in 0..MaxNum, NEW i \in Infos,
               HandleValidateCommitmentTx(f, n, i)
        PROVE  HolderMoves
    <2> DEFINE s == StoreHolderCommitment(n, f, i, f # mem.setup)
               c == WithState(s)
               a == activate_initial_commitment(s)
    <2>1. /\ f \in Views
          /\ mem' = WithState(IF n = 0 /\ CanActivate(s) THEN a ELSE s)
          /\ disk' = mem'
          /\ UNCHANGED <<closeSigned, cpSigned>>
      BY <1>1, Zenon DEF HandleValidateCommitmentTx, Persist, history
    <2>2. /\ SameCounterparty(c, mem)
          /\ SameFundings(c, mem)
          /\ nextHolder(c)  = nextHolder(mem)
          /\ currentInfo(c) = currentInfo(mem)
          /\ currentSigs(c) = currentSigs(mem)
          /\ n # nextHolder(mem) => pending(c) = pending(mem)
          /\ n = nextHolder(mem) =>
               pending(c) = [info |-> i, sigs |-> <<nextHolder(mem), f, i>>]
      BY StoreContents
    <2>3. s \in EnforcementStates /\ c.es = s
      BY StoreType, WithStateEs
    <2>4. CASE ~(n = 0 /\ CanActivate(s))
      <3>1. mem' = c
        BY <2>1, <2>4, Zenon
      <3>2. TakesNext \/ SameHolder(mem', mem)
        BY <3>1, <2>1, <2>2, Zenon DEF TakesNext, SameHolder
      <3> QED
        BY <3>1, <3>2, <2>1, <2>2, Zenon DEF HolderMoves
    <2>5. CASE n = 0 /\ CanActivate(s)
      <3>1. mem' = WithState(a) /\ a \in EnforcementStates
        BY <2>1, <2>3, <2>5, ActivateType, Zenon
      <3>2. /\ mem'.es = a
            /\ mem'.setup = c.setup
            /\ mem'.prev_setup = c.prev_setup
            /\ mem'.prev_prev_setup = c.prev_prev_setup
        BY <3>1, <2>3, RecordParts, Zenon
      <3>3. /\ a.next_holder_commit_info = None
            /\ a.next_holder_commit_num =
                 IF s.next_holder_commit_num = 0 THEN 1
                 ELSE s.next_holder_commit_num
            /\ a.current_holder_commit_info = s.next_holder_commit_info.info
            /\ a.current_counterparty_signatures =
                 s.next_holder_commit_info.sigs
        BY <2>3, Zenon DEF activate_initial_commitment, set_next_holder_commit_num,
                    EnforcementStates
      <3>4. /\ a.next_counterparty_commit_num = s.next_counterparty_commit_num
            /\ a.next_counterparty_revoke_num = s.next_counterparty_revoke_num
            /\ a.current_counterparty_point = s.current_counterparty_point
            /\ a.previous_counterparty_point = s.previous_counterparty_point
            /\ a.current_counterparty_commit_info =
                 s.current_counterparty_commit_info
            /\ a.counterparty_secrets = s.counterparty_secrets
            /\ a.counterparty_commitment_funding =
                 s.counterparty_commitment_funding
            /\ a.prev_funding_commitment = s.prev_funding_commitment
        BY <2>3, Zenon DEF activate_initial_commitment, set_next_holder_commit_num,
                    EnforcementStates
      <3>5. /\ s.next_holder_commit_num <= 1
            /\ s.next_holder_commit_num = 1 => s.prev_funding_commitment # None
            /\ s.next_holder_commit_info # None
            /\ s.next_holder_commit_num \in Nat
        BY <2>3, <2>5, Zenon DEF CanActivate, EnforcementStates
      <3> HIDE DEF s, a, c
      <3>6. SameCounterparty(mem', c) /\ SameFundings(mem', c)
        BY <3>2, <3>4, <2>3, Zenon
        DEF SameCounterparty, SameFundings, nextCp, nextRevoke, currentPoint,
            previousPoint, currentCpInfo, secrets, cpTag, retiring
      <3>7. SameCounterparty(mem', mem) /\ SameFundings(mem', mem)
        BY <3>6, <2>2, Zenon DEF SameCounterparty, SameFundings
      <3>8. /\ pending(mem') = None
            /\ nextHolder(mem') = IF nextHolder(mem) = 0 THEN 1
                                  ELSE nextHolder(mem)
            /\ currentInfo(mem') = pending(c).info
            /\ currentSigs(mem') = pending(c).sigs
            /\ pending(c) # None
            /\ nextHolder(mem) # 0 => retiring(mem) # None
        BY <3>2, <3>3, <3>5, <2>2, <2>3
        DEF pending, nextHolder, currentInfo, currentSigs, retiring,
            SameFundings
      <3>9. CASE nextHolder(mem) = 0
        <4>1. /\ currentInfo(mem') = i
              /\ currentSigs(mem') = <<0, f, i>>
              /\ nextHolder(mem') = 1
          BY <3>8, <3>9, <2>2, <2>5
        <4>2. TakesNext
          BY <4>1, <3>8, <3>9, <2>1, Zenon DEF TakesNext
        <4> QED
          BY <4>2, <3>7, <2>1, Zenon DEF HolderMoves
      <3>10. CASE nextHolder(mem) # 0
        <4>1. pending(c) = pending(mem)
          BY <3>10, <2>2, <2>5, Zenon
        <4>2. InstallsPending
          BY <4>1, <3>8, <3>10, Zenon DEF InstallsPending
        <4> QED
          BY <4>2, <3>7, <2>1, Zenon DEF HolderMoves
      <3> QED
        BY <3>9, <3>10, Zenon
    <2> QED
      BY <2>4, <2>5, Zenon
  <1>2. ASSUME NEW f \in Fundings, NEW n \in 0..MaxNum, NEW i \in Infos,
               ValidateHolderCommitmentPhase2(f, n, i)
        PROVE  HolderMoves
    <2> DEFINE c == WithState(StoreHolderCommitment(n, f, i,
                                f # es.holder_commitment_funding))
    <2>1. /\ f \in Views
          /\ mem' = c
          /\ disk' = mem'
          /\ UNCHANGED <<closeSigned, cpSigned>>
      BY <1>2, Zenon DEF ValidateHolderCommitmentPhase2, Persist, history
    <2>2. /\ SameCounterparty(c, mem)
          /\ SameFundings(c, mem)
          /\ nextHolder(c)  = nextHolder(mem)
          /\ currentInfo(c) = currentInfo(mem)
          /\ currentSigs(c) = currentSigs(mem)
          /\ n # nextHolder(mem) => pending(c) = pending(mem)
          /\ n = nextHolder(mem) =>
               pending(c) = [info |-> i, sigs |-> <<nextHolder(mem), f, i>>]
      BY StoreContents
    <2> HIDE DEF c
    <2>3. TakesNext \/ SameHolder(mem', mem)
      BY <2>1, <2>2, Zenon DEF TakesNext, SameHolder
    <2> QED
      BY <2>1, <2>2, <2>3, Zenon DEF HolderMoves
  <1>3. ASSUME NEW f \in Fundings, NEW n \in 0..MaxNum, NEW i \in Infos,
               NEW s \in Seeds, SignCounterpartyCommitment(f, n, s, i)
        PROVE  SignsContents
    <2> DEFINE e == set_next_counterparty_commit_num(es, n + 1, <<n, s>>, i)
               d == [e EXCEPT !.counterparty_commitment_funding = f]
    <2>1. /\ SignCounterpartyOk(n, f, <<n, s>>, i)
          /\ f \in Views
          /\ mem' = WithState(d) /\ disk' = mem'
          /\ cpSigned' = cpSigned \cup
               {[n |-> n, f |-> f, point |-> <<n, s>>, info |-> i]}
          /\ UNCHANGED closeSigned
      BY <1>3, Zenon DEF SignCounterpartyCommitment, SignCounterpartyOk, Persist
    <2>2. n = es.next_counterparty_commit_num
            \/ n + 1 = es.next_counterparty_commit_num
      BY <2>1, <1>e DEF SignCounterpartyOk, next_counterparty_commit_num_ok,
                        EnforcementStates
    <2>3. /\ d.next_holder_commit_num = es.next_holder_commit_num
          /\ d.next_holder_commit_info = es.next_holder_commit_info
          /\ d.current_holder_commit_info = es.current_holder_commit_info
          /\ d.current_counterparty_signatures =
               es.current_counterparty_signatures
          /\ d.prev_funding_commitment = es.prev_funding_commitment
          /\ d.next_counterparty_revoke_num = es.next_counterparty_revoke_num
          /\ d.counterparty_secrets = es.counterparty_secrets
          /\ d.counterparty_commitment_funding = f
          /\ d.next_counterparty_commit_num = n + 1
      BY <2>2, <1>e, Zenon DEF set_next_counterparty_commit_num, EnforcementStates
    <2>4. \/ /\ n = es.next_counterparty_commit_num
             /\ d.previous_counterparty_point = es.current_counterparty_point
             /\ d.current_counterparty_point = <<n, s>>
             /\ d.current_counterparty_commit_info = i
          \/ /\ n + 1 = es.next_counterparty_commit_num
             /\ d.previous_counterparty_point = es.previous_counterparty_point
             /\ d.current_counterparty_point = es.current_counterparty_point
             /\ d.current_counterparty_commit_info =
                  es.current_counterparty_commit_info
      BY <2>2, <1>e DEF set_next_counterparty_commit_num, EnforcementStates
    <2>5. /\ mem'.es = d
          /\ mem'.setup = mem.setup
          /\ mem'.prev_setup = mem.prev_setup
          /\ mem'.prev_prev_setup = mem.prev_prev_setup
      BY <2>1, Zenon DEF WithState, TypeOK, ChannelRecords
    <2> HIDE DEF d
    <2>6. SameHolder(mem', mem) /\ SameFundings(mem', mem)
      BY <2>3, <2>5, <1>e, Zenon
      DEF SameHolder, SameFundings, nextHolder, pending, currentInfo,
          currentSigs, retiring
    <2>7. /\ nextRevoke(mem') = nextRevoke(mem)
          /\ secrets(mem')    = secrets(mem)
          /\ cpTag(mem')      = f
          /\ nextCp(mem')     = n + 1
          /\ \/ /\ n = nextCp(mem)
                /\ previousPoint(mem') = currentPoint(mem)
                /\ currentPoint(mem')  = <<n, s>>
                /\ currentCpInfo(mem') = i
             \/ /\ n + 1 = nextCp(mem)
                /\ previousPoint(mem') = previousPoint(mem)
                /\ currentPoint(mem')  = currentPoint(mem)
                /\ currentCpInfo(mem') = currentCpInfo(mem)
      BY <2>3, <2>4, <2>5, <1>e, Zenon
      DEF nextCp, nextRevoke, currentPoint, previousPoint, currentCpInfo,
          secrets, cpTag
    <2>8. n \in Nat
      OBVIOUS
    <2> QED
      BY <2>1, <2>6, <2>7, <2>8, Zenon DEF SignsContents
  <1>4. ASSUME NEW n \in 0..MaxNum, RevokePreviousHolderCommitment(n)
        PROVE  HolderMoves
    <2> DEFINE p == es.next_holder_commit_info
               t == [es EXCEPT !.next_holder_commit_info = None]
               e == set_next_holder_commit_num(t, n + 1, p.info, p.sigs)
    <2>1. /\ n = es.next_holder_commit_num /\ p # None
          /\ mem' = WithState(e) /\ disk' = mem'
          /\ UNCHANGED <<closeSigned, cpSigned>>
      BY <1>4, Zenon DEF RevokePreviousHolderCommitment, Persist
    <2>2. /\ e.next_holder_commit_num = n + 1
          /\ e.next_holder_commit_info = None
          /\ e.current_holder_commit_info = p.info
          /\ e.current_counterparty_signatures = p.sigs
      BY <1>e, Zenon DEF set_next_holder_commit_num, EnforcementStates
    <2>3. SameElse(e, es)
      BY <1>e, Zenon DEF set_next_holder_commit_num, EnforcementStates, SameElse
    <2>4. /\ mem'.es = e
          /\ mem'.setup = mem.setup
          /\ mem'.prev_setup = mem.prev_setup
          /\ mem'.prev_prev_setup = mem.prev_prev_setup
      BY <2>1, RecordParts, Zenon
    <2> HIDE DEF e
    <2>5. SameCounterparty(mem', mem) /\ SameFundings(mem', mem)
      BY <2>3, <2>4, <1>e, SameElseParts, Zenon
    <2>6. InstallsPending
      BY <2>1, <2>2, <2>4, <1>e, Zenon
      DEF InstallsPending, nextHolder, pending, currentInfo, currentSigs
    <2> QED
      BY <2>1, <2>5, <2>6, Zenon DEF HolderMoves
  <1>5. ASSUME NEW n \in 0..MaxNum, RevokeFailsAfterTake(n)
        PROVE  HolderMoves
    <2> DEFINE t == [es EXCEPT !.next_holder_commit_info = None]
    <2>1. /\ mem' = WithState(t) /\ disk' = disk
          /\ UNCHANGED <<closeSigned, cpSigned>>
      BY <1>5, Zenon DEF RevokeFailsAfterTake, history
    <2>2. /\ SameElse(t, es)
          /\ t.next_holder_commit_info = None
          /\ t.next_holder_commit_num = es.next_holder_commit_num
          /\ t.current_holder_commit_info = es.current_holder_commit_info
          /\ t.current_counterparty_signatures =
               es.current_counterparty_signatures
      BY <1>e, Zenon DEF EnforcementStates, SameElse
    <2>3. /\ mem'.es = t
          /\ mem'.setup = mem.setup
          /\ mem'.prev_setup = mem.prev_setup
          /\ mem'.prev_prev_setup = mem.prev_prev_setup
      BY <2>1, RecordParts, Zenon
    <2> HIDE DEF t
    <2>4. SameCounterparty(mem', mem) /\ SameFundings(mem', mem)
      BY <2>2, <2>3, <1>e, SameElseParts, Zenon
    <2>5. DropsPending
      BY <2>2, <2>3, <1>e, Zenon
      DEF DropsPending, nextHolder, pending, currentInfo, currentSigs
    <2> QED
      BY <2>1, <2>4, <2>5, Zenon DEF HolderMoves
  <1>6. ASSUME NEW n \in 0..MaxNum, GetPerCommitmentSecret(n)
        PROVE  HolderMoves
    BY <1>6, <1>s, Zenon DEF GetPerCommitmentSecret, HolderMoves
  <1>c. ASSUME mem' = WithState([es EXCEPT !.channel_closed = TRUE])
        PROVE  /\ SameHolder(mem', mem)
               /\ SameCounterparty(mem', mem)
               /\ SameFundings(mem', mem)
    <2> DEFINE d == [es EXCEPT !.channel_closed = TRUE]
    <2>1. SameElse(d, es) /\ SameHolderElse(d, es)
      BY <1>e, Zenon DEF EnforcementStates, SameElse, SameHolderElse
    <2>2. /\ mem'.es = d
          /\ mem'.setup = mem.setup
          /\ mem'.prev_setup = mem.prev_setup
          /\ mem'.prev_prev_setup = mem.prev_prev_setup
      BY <1>c, RecordParts, Zenon
    <2> HIDE DEF d
    <2> QED
      BY <2>1, <2>2, <1>e, SameElseParts, Zenon
      DEF SameHolder, SameHolderElse, nextHolder, pending, currentInfo,
          currentSigs
  <1>7. ASSUME NEW n \in Nat, SignHolderCommitment(n)
        PROVE  Broadcasts
    <2> DEFINE p == es.next_holder_commit_info
               pnd == n = es.next_holder_commit_num /\ p # None
               c == [n    |-> n,
                     f    |-> mem.setup,
                     info |-> IF pnd THEN p.info
                              ELSE es.current_holder_commit_info,
                     sigs |-> IF pnd THEN p.sigs
                              ELSE es.current_counterparty_signatures]
    <2>1. /\ mem' = WithState([es EXCEPT !.channel_closed = TRUE])
          /\ disk' = mem'
          /\ closeSigned' = closeSigned \cup {c}
          /\ UNCHANGED cpSigned
          /\ ~pnd => /\ n + 1 = es.next_holder_commit_num
                     /\ es.current_counterparty_signatures # None
      BY <1>7, Zenon DEF SignHolderCommitment, Persist
    <2>2. Broadcast(c)
      BY <2>1, <1>e, Zenon
      DEF Broadcast, nextHolder, pending, currentInfo, currentSigs
    <2> QED
      BY <2>1, <2>2, <1>c, Zenon DEF Broadcasts
  <1>8. ASSUME NEW n \in 0..MaxNum, SignHolderCommitmentPanics(n)
        PROVE  HolderMoves
    BY <1>8, <1>s, Zenon DEF SignHolderCommitmentPanics, HolderMoves, history
  <1>9. ASSUME NEW n \in 0..MaxNum, NEW s \in Seeds, NEW e,
               validate_counterparty_revocation(es, n, <<n, s>>),
               e \in {provide_secret(es, <<n, s>>),
                      set_next_counterparty_revoke_num(
                        provide_secret(es, <<n, s>>), n + 1)},
               mem' = WithState(e),
               disk' \in {mem', disk},
               UNCHANGED <<closeSigned, cpSigned>>
        PROVE  TakesSecret
    <2>1. /\ SameHolderElse(e, es)
          /\ e.next_counterparty_commit_num = es.next_counterparty_commit_num
          /\ e.current_counterparty_point = es.current_counterparty_point
          /\ e.previous_counterparty_point = es.previous_counterparty_point
          /\ e.current_counterparty_commit_info =
               es.current_counterparty_commit_info
          /\ e.counterparty_commitment_funding =
               es.counterparty_commitment_funding
      <3>1. CASE e = provide_secret(es, <<n, s>>)
        BY <3>1, <1>e, Zenon DEF provide_secret, EnforcementStates, SameHolderElse
      <3>2. CASE e = set_next_counterparty_revoke_num(
                       provide_secret(es, <<n, s>>), n + 1)
        BY <3>2, <1>e, Zenon DEF provide_secret, EnforcementStates,
             set_next_counterparty_revoke_num, SameHolderElse
      <3> QED
        BY <3>1, <3>2, <1>9, Zenon
    <2>2. /\ e.counterparty_secrets =
               IF \E p \in es.counterparty_secrets : p[1] >= n
               THEN es.counterparty_secrets
               ELSE es.counterparty_secrets \cup {<<n, s>>}
          /\ e.next_counterparty_revoke_num
               \in {es.next_counterparty_revoke_num, n + 1}
      BY <1>9, <1>e, Zenon DEF provide_secret, set_next_counterparty_revoke_num,
                        EnforcementStates
    <2>3. /\ \/ n = es.next_counterparty_revoke_num
             \/ n + 1 = es.next_counterparty_revoke_num
          /\ \/ /\ n + 1 = es.next_counterparty_commit_num
                /\ es.current_counterparty_point = <<n, s>>
             \/ /\ n + 2 = es.next_counterparty_commit_num
                /\ es.previous_counterparty_point = <<n, s>>
      <3>1. <<n, s>> # None
        BY NoneAssumption DEF Points
      <3> QED
        BY <3>1, <1>9, Zenon DEF validate_counterparty_revocation,
                          get_previous_counterparty_point
    <2>4. /\ mem'.es = e
          /\ mem'.setup = mem.setup
          /\ mem'.prev_setup = mem.prev_setup
          /\ mem'.prev_prev_setup = mem.prev_prev_setup
      BY <1>9, RecordParts, Zenon
    <2>5. SameHolder(mem', mem) /\ SameFundings(mem', mem)
      BY <2>1, <2>4, <1>e, SameElseParts, Zenon
    <2>6. n \in Nat
      OBVIOUS
    <2> QED
      BY <1>9, <2>1, <2>2, <2>3, <2>4, <2>5, <2>6, <1>e, Zenon
      DEF TakesSecret, nextCp, nextRevoke, currentPoint, previousPoint,
          currentCpInfo, cpTag, secrets
  <1>10. ASSUME NEW n \in 0..MaxNum, NEW s \in Seeds,
                ValidateCounterpartyRevocation(n, s)
                  \/ RevocationFailsAfterProvide(n, s)
         PROVE  TakesSecret
    <2> DEFINE e == provide_secret(es, <<n, s>>)
               d == set_next_counterparty_revoke_num(e, n + 1)
    <2>1. /\ validate_counterparty_revocation(es, n, <<n, s>>)
          /\ mem' = WithState(e) \/ mem' = WithState(d)
          /\ disk' \in {mem', disk}
          /\ UNCHANGED <<closeSigned, cpSigned>>
      BY <1>10, Zenon DEF ValidateCounterpartyRevocation, RevocationFailsAfterProvide,
                   Persist, history
    <2> QED
      BY <2>1, <1>9, Zenon
  <1>11. ASSUME SignHolderCommitmentForRecovery
         PROVE  Broadcasts
    <2>1. PICK n \in Nat : SignHolderCommitment(n)
      BY <1>11, <1>n DEF SignHolderCommitmentForRecovery
    <2> QED
      BY <2>1, <1>7, Zenon
  <1>12. ASSUME SignMutualClose
         PROVE  Broadcasts
    <2>1. /\ mem' = WithState([es EXCEPT !.channel_closed = TRUE])
          /\ disk' = mem'
          /\ UNCHANGED <<closeSigned, cpSigned>>
      BY <1>12, Zenon DEF SignMutualClose, Persist, history
    <2> QED
      BY <2>1, <1>c, Zenon DEF Broadcasts
  <1>13. ASSUME NEW f \in Fundings, SetupChannelSplice(f)
         PROVE  Splices
    <2> DEFINE e == snapshot_funding_for_splice(es, mem.setup)
    <2>1. /\ e.next_holder_commit_num = es.next_holder_commit_num
          /\ e.next_counterparty_revoke_num = es.next_counterparty_revoke_num
          /\ e.counterparty_secrets = es.counterparty_secrets
          /\ e.next_holder_commit_info = None
          /\ e.prev_funding_commitment.outpoint = mem.setup
      BY <1>e, Zenon DEF snapshot_funding_for_splice, EnforcementStates
    <2>2. e.prev_funding_commitment # None
      <3>1. e.prev_funding_commitment \in PrevFundingCommitment
        BY <1>e, Zenon DEF snapshot_funding_for_splice, EnforcementStates,
                    PrevFundingCommitment, TypeOK, ChannelRecords
      <3> QED
        BY <3>1, NoneAssumption, Zenon
    <2>3. /\ mem'.es = e
          /\ mem'.prev_setup = mem.setup
          /\ disk' \in {mem', disk}
          /\ UNCHANGED <<closeSigned, cpSigned>>
          /\ splices < MaxSplices
      BY <1>13, Zenon DEF SetupChannelSplice, Spliced, history
    <2>4. MaxSplices # 0
      BY <2>3 DEF TypeOK
    <2> HIDE DEF e
    <2> QED
      BY <2>1, <2>2, <2>3, <2>4, <1>e, Zenon
      DEF Splices, pending, retiring, nextHolder, nextRevoke, secrets
  <1>14. ASSUME ConfirmFundingLocked
         PROVE  Locks
    <2> DEFINE r == [es EXCEPT !.prev_funding_commitment = None]
               b == Baseline(mem.setup)
               w == [r EXCEPT !.current_holder_commit_info       = b,
                              !.current_counterparty_commit_info = b]
    <2>1. /\ mem'.setup = mem.setup
          /\ mem'.prev_setup = None
          /\ mem'.prev_prev_setup = None
          /\ mem'.es \in {r, w}
          /\ mem.prev_setup = None /\ mem.prev_prev_setup = None => mem'.es = r
          /\ disk' = mem'
          /\ UNCHANGED <<closeSigned, cpSigned>>
      BY <1>14, Zenon DEF ConfirmFundingLocked, Persist, history
    <2>2. /\ r.prev_funding_commitment = None
          /\ r.next_holder_commit_info = es.next_holder_commit_info
          /\ r.next_holder_commit_num = es.next_holder_commit_num
          /\ r.next_counterparty_revoke_num = es.next_counterparty_revoke_num
          /\ r.counterparty_secrets = es.counterparty_secrets
      BY <1>e, Zenon DEF EnforcementStates
    <2>3. /\ w.prev_funding_commitment = None
          /\ w.next_holder_commit_info = es.next_holder_commit_info
          /\ w.next_holder_commit_num = es.next_holder_commit_num
          /\ w.next_counterparty_revoke_num = es.next_counterparty_revoke_num
          /\ w.counterparty_secrets = es.counterparty_secrets
      BY <1>e, Zenon DEF EnforcementStates
    <2>4. mem'.es = r => SameHolder(mem', mem) /\ SameCounterparty(mem', mem)
      BY <1>e, Zenon DEF EnforcementStates, SameHolder, SameCounterparty, nextHolder,
                  pending, currentInfo, currentSigs, nextCp, nextRevoke,
                  currentPoint, previousPoint, currentCpInfo, secrets, cpTag
    <2> HIDE DEF r, w
    <2> QED
      BY <2>1, <2>2, <2>3, <2>4, <1>e, Zenon
      DEF Locks, pending, retiring, nextHolder, nextRevoke, secrets
  <1>15. ASSUME Restart
         PROVE  Restarts
    BY <1>15, Zenon DEF Restart, Restarts, history
  <1>16. \A n \in 0..MaxNum : n \in Nat
    OBVIOUS
  <1> QED
    BY <1>1, <1>2, <1>3, <1>4, <1>5, <1>6, <1>7, <1>8, <1>10, <1>11, <1>12,
       <1>13, <1>14, <1>15, <1>16, Zenon
    DEF Next, ContentEffect

-----------------------------------------------------------------------------
(* Slots and secrets, through splices *)

\* What holds of the channel in memory and of the one in storage: what is
\* pending is of the next number, the record of the retiring funding is that of
\* the previous setup, and the stored secrets are those of the revoked numbers
\* and at most the next one (a secret that came before its commitment was
\* replaced stays in memory when the revocation is refused).
Slots(c) ==
  /\ pending(c) # None => /\ pending(c).sigs[1] = nextHolder(c)
                          /\ pending(c).sigs[3] = pending(c).info
  /\ c.prev_setup = IF retiring(c) = None THEN None ELSE retiring(c).outpoint
  /\ \A p \in secrets(c) : p[1] <= nextRevoke(c)
  /\ \A n \in Nat : n < nextRevoke(c) => \E p \in secrets(c) : p[1] = n

SlotInv == Inv /\ Slots(mem) /\ Slots(disk)

\* The stored secrets are points, and a point has a number.
LEMMA SecretTypes ==
  ASSUME TypeOK
  PROVE  /\ \A p \in secrets(mem) : p \in Points /\ p[1] \in Nat
         /\ \A p \in secrets(disk) : p \in Points /\ p[1] \in Nat
  BY Zenon DEF TypeOK, ChannelRecords, EnforcementStates, Points, secrets

\* A secret that arrives keeps the secrets of the revoked numbers complete.
LEMMA SecretStep ==
  ASSUME TypeOK, Slots(mem), TakesSecret
  PROVE  /\ \A p \in secrets(mem') : p[1] <= nextRevoke(mem')
         /\ \A m \in Nat :
              m < nextRevoke(mem') => \E p \in secrets(mem') : p[1] = m
  <1>1. PICK n \in Nat, s \in Seeds :
          /\ n = nextRevoke(mem) \/ n + 1 = nextRevoke(mem)
          /\ secrets(mem') = IF \E p \in secrets(mem) : p[1] >= n
                             THEN secrets(mem)
                             ELSE secrets(mem) \cup {<<n, s>>}
          /\ nextRevoke(mem') \in {nextRevoke(mem), n + 1}
    BY Zenon DEF TakesSecret
  <1>2. nextRevoke(mem) \in Nat /\ \A p \in secrets(mem) : p[1] \in Nat
    BY NumberTypes, SecretTypes, Zenon
  <1>3. nextRevoke(mem) <= nextRevoke(mem')
    BY <1>1, <1>2
  <1>4. \A p \in secrets(mem') : p[1] <= nextRevoke(mem')
    <2>1. \A p \in secrets(mem) : p[1] <= nextRevoke(mem')
      BY <1>1, <1>2, <1>3 DEF Slots
    <2>2. n <= nextRevoke(mem')
      BY <1>1, <1>2, <1>3
    <2> QED
      BY <1>1, <2>1, <2>2
  <1>5. ASSUME NEW m \in Nat, m < nextRevoke(mem')
        PROVE  \E p \in secrets(mem') : p[1] = m
    <2>1. CASE m < nextRevoke(mem)
      BY <2>1, <1>1, Zenon DEF Slots
    <2>2. CASE ~(m < nextRevoke(mem))
      <3>1. m = n /\ n = nextRevoke(mem)
        BY <2>2, <1>1, <1>2, <1>5
      <3>2. CASE \E p \in secrets(mem) : p[1] >= n
        <4>1. PICK p \in secrets(mem) : p[1] >= n
          BY <3>2, Zenon
        <4>2. p[1] = n
          BY <4>1, <3>1, <1>2 DEF Slots
        <4> QED
          BY <4>1, <4>2, <3>1, <3>2, <1>1, Zenon
      <3>3. CASE ~\E p \in secrets(mem) : p[1] >= n
        <4>1. <<n, s>> \in secrets(mem')
          BY <3>3, <1>1, Zenon
        <4> QED
          BY <4>1, <3>1, Zenon
      <3> QED
        BY <3>2, <3>3, Zenon
    <2> QED
      BY <2>1, <2>2, Zenon
  <1> QED
    BY <1>4, <1>5, Zenon

\* Every step keeps the slots in step: one case per effect.
LEMMA SlotStep == SlotInv /\ [Next]_vars => SlotInv'
  <1> SUFFICES ASSUME SlotInv, [Next]_vars PROVE SlotInv'
    OBVIOUS
  <1>1. Inv'
    BY InvStep, Zenon DEF SlotInv
  <1>2. CASE UNCHANGED vars
    <2>1. mem' = mem /\ disk' = disk
      BY <1>2, Zenon DEF vars
    <2> QED
      BY <2>1, <1>1, Zenon DEF SlotInv
  <1>3. CASE Next
    <2>t. /\ TypeOK /\ DurableCounters
          /\ Slots(mem) /\ Slots(disk)
      BY Zenon DEF SlotInv, Inv
    <2>n. /\ nextHolder(mem) \in Nat
          /\ nextRevoke(mem) \in Nat
      BY <2>t, NumberTypes, Zenon
    <2>1. ContentEffect
      BY <1>3, <2>t, ContentStep, Zenon
    <2>2. Slots(mem')
      <3>1. CASE HolderMoves
        <4>1. /\ mem'.prev_setup = mem.prev_setup
              /\ nextRevoke(mem') = nextRevoke(mem)
              /\ secrets(mem') = secrets(mem)
              /\ retiring(mem') = None <=> retiring(mem) = None
              /\ retiring(mem') # None =>
                   retiring(mem').outpoint = retiring(mem).outpoint
          BY <3>1, Zenon DEF HolderMoves, SameCounterparty, SameFundings
        <4>2. pending(mem') # None =>
                /\ pending(mem').sigs[1] = nextHolder(mem')
                /\ pending(mem').sigs[3] = pending(mem').info
          <5>1. CASE TakesNext
            BY <5>1 DEF TakesNext
          <5>2. CASE InstallsPending \/ DropsPending
            BY <5>2, Zenon DEF InstallsPending, DropsPending
          <5>3. CASE SameHolder(mem', mem)
            BY <5>3, <2>t, Zenon DEF SameHolder, Slots
          <5> QED
            BY <5>1, <5>2, <5>3, <3>1, Zenon DEF HolderMoves
        <4> QED
          BY <4>1, <4>2, <2>t, Zenon DEF Slots
      <3>2. CASE Broadcasts
        BY <3>2, <2>t, Zenon DEF Broadcasts, SameHolder, SameCounterparty,
                          SameFundings, Slots
      <3>3. CASE SignsContents
        BY <3>3, <2>t, Zenon DEF SignsContents, SameHolder, SameFundings, Slots
      <3>4. CASE TakesSecret
        <4>1. /\ \A p \in secrets(mem') : p[1] <= nextRevoke(mem')
              /\ \A m \in Nat :
                   m < nextRevoke(mem') => \E p \in secrets(mem') : p[1] = m
          BY <3>4, <2>t, SecretStep, Zenon
        <4>2. SameHolder(mem', mem) /\ SameFundings(mem', mem)
          BY <3>4, Zenon DEF TakesSecret
        <4> QED
          BY <4>1, <4>2, <2>t, Zenon DEF SameHolder, SameFundings, Slots
      <3>5. CASE Splices
        BY <3>5, <2>t, Zenon DEF Splices, Slots
      <3>6. CASE Locks
        BY <3>6, <2>t, Zenon DEF Locks, Slots
      <3>7. CASE Restarts
        BY <3>7, <2>t, Zenon DEF Restarts
      <3> QED
        BY <2>1, <3>1, <3>2, <3>3, <3>4, <3>5, <3>6, <3>7, Zenon DEF ContentEffect
    <2>3. disk' = mem' \/ disk' = disk
      BY <2>1, Zenon DEF ContentEffect, HolderMoves, Broadcasts, SignsContents,
                  TakesSecret, Splices, Locks, Restarts
    <2> QED
      BY <1>1, <2>2, <2>3, <2>t, Zenon DEF SlotInv
  <1> QED
    BY <1>2, <1>3, Zenon

\* The slots of a fresh channel are empty.
LEMMA SlotInit == Init => SlotInv
  <1> SUFFICES ASSUME Init PROVE SlotInv
    OBVIOUS
  <1>1. Inv
    BY InvInit, Zenon
  <1>2. /\ disk = mem
        /\ mem.es = NewState
        /\ mem.prev_setup = None
    BY Zenon DEF Init
  <1>3. Slots(mem)
    BY <1>2 DEF Slots, NewState, pending, retiring, secrets, nextRevoke
  <1> QED
    BY <1>1, <1>2, <1>3, Zenon DEF SlotInv

\* The slots stay in step in every behaviour.
LEMMA SlotInvariance == Spec => []SlotInv
  BY SlotInit, SlotStep, PTL DEF Spec

\* What is pending is of the next number and what is put aside for a splice is
\* of the funding before it, through splices on top of splices, locks, refused
\* setups and restarts.
THEOREM SlotsStayInStep == Spec => []SlotsInStep
  <1>1. SlotInv => SlotsInStep
    BY Zenon DEF SlotInv, Inv, Slots, SlotsInStep, PendingIsNext, SnapshotIsPrevious,
           pending, nextHolder, retiring, es
  <1> QED
    BY <1>1, SlotInvariance, PTL

\* Every number validate_counterparty_revocation counts as revoked has its
\* secret stored, in memory and in storage.
THEOREM SecretsAreKept == Spec => []RevokedSecretsKept
  <1>1. SlotInv => RevokedSecretsKept
    <2> SUFFICES ASSUME SlotInv, NEW n \in 0..MaxNum
                 PROVE  /\ n < es.next_counterparty_revoke_num =>
                             \E p \in es.counterparty_secrets : p[1] = n
                        /\ n < disk.es.next_counterparty_revoke_num =>
                             \E p \in disk.es.counterparty_secrets : p[1] = n
      BY Zenon DEF RevokedSecretsKept
    <2>1. n \in Nat
      BY ChannelAssumption
    <2> QED
      BY <2>1, Zenon DEF SlotInv, Slots, secrets, nextRevoke, es
  <1> QED
    BY <1>1, SlotInvariance, PTL

-----------------------------------------------------------------------------
(* A channel that is never spliced *)

Unspliced(c) ==
  /\ c.setup = InitFunding
  /\ c.prev_setup = None
  /\ c.prev_prev_setup = None
  /\ retiring(c) = None

\* The counterparty's signatures are kept with the commitment they sign.
HolderData(c) ==
  /\ pending(c) # None =>
       pending(c).sigs = <<nextHolder(c), InitFunding, pending(c).info>>
  /\ currentSigs(c) # None =>
       /\ currentSigs(c)[1] + 1 = nextHolder(c)
       /\ currentSigs(c) = <<currentSigs(c)[1], InitFunding, currentInfo(c)>>

\* The points and the contents kept for the two newest numbers are those of
\* the signed commitments, and a stored secret is that of the commitment signed
\* under its number.
CounterpartyData(c) ==
  /\ \A d \in cpSigned :
       /\ d.n + 1 = nextCp(c) => /\ d.point = currentPoint(c)
                                 /\ d.info = currentCpInfo(c)
       /\ d.n + 2 = nextCp(c) => d.point = previousPoint(c)
       /\ d.n < nextRevoke(c) => d.point \in secrets(c)
       /\ \A p \in secrets(c) : p[1] = d.n => p = d.point
  /\ \A p \in secrets(c) :
       /\ p[1] < nextCp(c)
       /\ p[1] + 1 = nextCp(c) => p = currentPoint(c)
       /\ p[1] + 2 = nextCp(c) => p = previousPoint(c)
  /\ nextCp(c) # 0 => cpTag(c) = InitFunding

SingleRecord(c) == Unspliced(c) /\ HolderData(c) /\ CounterpartyData(c)

SignedForFunding ==
  \A d \in cpSigned : d.f = InitFunding /\ Fits(d.info, d.f)

SingleInv ==
  /\ SlotInv
  /\ SingleRecord(mem)
  /\ SingleRecord(disk)
  /\ SignedForFunding
  /\ CloseSignaturesMatch
  /\ RetrySameData

\* Without splices a request can only name the one funding.
LEMMA OneView ==
  ASSUME Unspliced(mem)
  PROVE  Views = {InitFunding}
  BY Zenon DEF Unspliced, Views

\* The holder's side of a step that leaves the fundings alone.
LEMMA HolderDataStep ==
  ASSUME TypeOK, SingleRecord(mem), HolderMoves
  PROVE  HolderData(mem')
  <1>1. CASE TakesNext
    <2>1. PICK f \in Views, i \in Infos :
            \/ /\ pending(mem') = [info |-> i, sigs |-> <<nextHolder(mem), f, i>>]
               /\ nextHolder(mem')  = nextHolder(mem)
               /\ currentInfo(mem') = currentInfo(mem)
               /\ currentSigs(mem') = currentSigs(mem)
            \/ /\ pending(mem')     = None
               /\ nextHolder(mem)   = 0
               /\ nextHolder(mem')  = 1
               /\ currentInfo(mem') = i
               /\ currentSigs(mem') = <<0, f, i>>
      BY <1>1, Zenon DEF TakesNext
    <2>2. f = InitFunding
      BY OneView, Zenon DEF SingleRecord
    <2> QED
      BY <2>1, <2>2 DEF SingleRecord, HolderData
  <1>2. CASE InstallsPending
    BY <1>2 DEF InstallsPending, SingleRecord, HolderData, Unspliced
  <1>3. CASE DropsPending
    BY <1>3, Zenon DEF DropsPending, SingleRecord, HolderData
  <1>4. CASE SameHolder(mem', mem)
    BY <1>4, Zenon DEF SameHolder, SingleRecord, HolderData
  <1> QED
    BY <1>1, <1>2, <1>3, <1>4, Zenon DEF HolderMoves

\* What is signed for broadcast carries the signatures of its own contents.
LEMMA BroadcastMatches ==
  ASSUME SingleRecord(mem), NEW c, Broadcast(c),
         c.n \in Nat, nextHolder(mem) \in Nat,
         currentSigs(mem) # None => currentSigs(mem)[1] \in Nat
  PROVE  c.sigs = <<c.n, c.f, c.info>>
  BY DEF Broadcast, SingleRecord, HolderData, Unspliced

\* The counterparty's side when a commitment is signed: a new number, or a
\* retry that the checks force to repeat the stored data.
LEMMA SignDataStep ==
  ASSUME SingleInv, SignsContents, cpSigned' \subseteq
           [n : Nat, f : Fundings, point : Points, info : Infos]
  PROVE  CounterpartyData(mem)' /\ SignedForFunding' /\ RetrySameData'
  <1>1. PICK f \in Views, n \in Nat, s \in Seeds, i \in Infos :
          /\ cpSigned' = cpSigned \cup
               {[n |-> n, f |-> f, point |-> <<n, s>>, info |-> i]}
          /\ SignCounterpartyOk(n, f, <<n, s>>, i)
          /\ nextRevoke(mem') = nextRevoke(mem)
          /\ secrets(mem')    = secrets(mem)
          /\ cpTag(mem')      = f
          /\ nextCp(mem')     = n + 1
          /\ \/ /\ n = nextCp(mem)
                /\ previousPoint(mem') = currentPoint(mem)
                /\ currentPoint(mem')  = <<n, s>>
                /\ currentCpInfo(mem') = i
             \/ /\ n + 1 = nextCp(mem)
                /\ previousPoint(mem') = previousPoint(mem)
                /\ currentPoint(mem')  = currentPoint(mem)
                /\ currentCpInfo(mem') = currentCpInfo(mem)
    BY Zenon DEF SignsContents
  <1> DEFINE c == [n |-> n, f |-> f, point |-> <<n, s>>, info |-> i]
  <1>2. f = InitFunding
    BY OneView, Zenon DEF SingleInv, SingleRecord
  <1>3. TypeOK /\ SingleRecord(mem) /\ CounterpartyData(mem)
    BY Zenon DEF SingleInv, SlotInv, Inv, SingleRecord
  <1>4. /\ nextCp(mem) \in Nat /\ nextRevoke(mem) \in Nat
        /\ \A d \in cpSigned : d.n \in Nat
        /\ \A p \in secrets(mem) : p[1] \in Nat
    BY <1>3, NumberTypes, SecretTypes, Zenon
  <1>5. \A d \in cpSigned : d.n < nextCp(mem)
    BY Zenon DEF SingleInv, SlotInv, Inv, CounterpartyWindow, nextCp, es
  <1>6. nextRevoke(mem) <= n
    <2>1. n + 1 >= nextRevoke(mem) + 1
      BY <1>1, <1>4 DEF SignCounterpartyOk, next_counterparty_commit_num_ok,
                        nextRevoke, es
    <2> QED
      BY <2>1, <1>4
  <1>7. Fits(i, f)
    BY <1>1, Zenon DEF SignCounterpartyOk, validate_counterparty_commitment_tx
  <1>8. SignedForFunding'
    BY <1>1, <1>2, <1>7 DEF SignedForFunding, SingleInv, Fits
  <1>9. CASE n = nextCp(mem)
    <2>1. /\ previousPoint(mem') = currentPoint(mem)
          /\ currentPoint(mem')  = c.point
          /\ currentCpInfo(mem') = c.info
          /\ c.n = n
      BY <1>1, <1>4, <1>9
    <2>2. \A d \in cpSigned : d.n < n
      BY <1>5, <1>9, Zenon
    <2>3. RetrySameData'
      <3>1. \A d \in cpSigned : d.n # c.n
        BY <2>1, <2>2, <1>4
      <3> QED
        BY <3>1, <1>1 DEF RetrySameData, SingleInv
    <2>4. \A p \in secrets(mem) : p[1] < n
      BY <1>3, <1>9, Zenon DEF CounterpartyData
    <2>5. CounterpartyData(mem)'
      <3>1. ASSUME NEW d \in cpSigned
            PROVE  /\ d.n + 1 # nextCp(mem')
                   /\ d.n + 2 = nextCp(mem') => d.point = previousPoint(mem')
                   /\ d.n < nextRevoke(mem') => d.point \in secrets(mem')
                   /\ \A p \in secrets(mem') : p[1] = d.n => p = d.point
        BY <1>1, <1>3, <1>4, <1>9, <2>1, <2>2 DEF CounterpartyData
      <3>2. /\ c.n + 1 = nextCp(mem')
            /\ c.n + 2 # nextCp(mem')
            /\ ~(c.n < nextRevoke(mem'))
            /\ \A p \in secrets(mem') : p[1] # c.n
            /\ cpTag(mem') = InitFunding
        BY <1>1, <1>2, <1>4, <1>6, <2>1, <2>4
      <3>3. ASSUME NEW p \in secrets(mem')
            PROVE  /\ p[1] < nextCp(mem')
                   /\ p[1] + 1 # nextCp(mem')
                   /\ p[1] + 2 = nextCp(mem') => p = previousPoint(mem')
        BY <1>1, <1>3, <1>4, <1>9, <2>1, <2>4 DEF CounterpartyData
      <3> HIDE DEF c
      <3> QED
        BY <3>1, <3>2, <3>3, <2>1, <1>1, Zenon DEF CounterpartyData, c
    <2> QED
      BY <1>8, <2>3, <2>5, Zenon
  <1>10. CASE n + 1 = nextCp(mem)
    <2>1. /\ previousPoint(mem') = previousPoint(mem)
          /\ currentPoint(mem')  = currentPoint(mem)
          /\ currentCpInfo(mem') = currentCpInfo(mem)
          /\ nextCp(mem') = nextCp(mem)
      BY <1>1, <1>4, <1>10
    <2>2. cpTag(mem) = InitFunding
      BY <1>3, <1>4, <1>10 DEF CounterpartyData
    <2>3. /\ currentPoint(mem) = <<n, s>>
          /\ prev_commit_info(es, n, f) = i
      BY <2>2, <1>1, <1>2, <1>10, Zenon
      DEF SignCounterpartyOk, validate_counterparty_commitment_tx, nextCp,
          cpTag, currentPoint, es
    <2>4. prev_commit_info(es, n, f) = currentCpInfo(mem)
      <3>1. CASE currentCpInfo(mem) # None
        BY <3>1, <1>10, Zenon
        DEF prev_commit_info, get_previous_counterparty_commit_info,
            currentCpInfo, nextCp, es
      <3>2. CASE currentCpInfo(mem) = None
        <4>1. retiring(mem) = None
          BY <1>3, Zenon DEF SingleRecord, Unspliced
        <4> QED
          BY <3>2, <4>1, <1>10, Zenon
          DEF prev_commit_info, get_previous_counterparty_commit_info,
              counterparty_commit_info_for, currentCpInfo, nextCp, retiring, es
      <3> QED
        BY <3>1, <3>2, Zenon
    <2>5. /\ c.n = n /\ c.f = InitFunding
          /\ c.point = currentPoint(mem)
          /\ c.info = currentCpInfo(mem)
      BY <2>3, <2>4, <1>2, Zenon
    <2>6. ASSUME NEW d \in cpSigned, d.n = n
          PROVE  d = c
      <3>1. /\ d.point = currentPoint(mem)
            /\ d.info = currentCpInfo(mem)
        BY <2>6, <1>3, <1>10, Zenon DEF CounterpartyData
      <3>2. d.f = InitFunding
        BY Zenon DEF SingleInv, SignedForFunding
      <3>3. d \in [n : Nat, f : Fundings, point : Points, info : Infos]
        BY <1>3, Zenon DEF TypeOK
      <3>4. d.n = c.n /\ d.f = c.f /\ d.point = c.point /\ d.info = c.info
        BY <3>1, <3>2, <2>5, <2>6, Zenon
      <3> QED
        BY <3>3, <3>4, Zenon
    <2>7. RetrySameData'
      BY <2>5, <2>6, <1>1 DEF RetrySameData, SingleInv
    <2>8. CounterpartyData(mem)'
      <3> HIDE DEF c
      <3>1. /\ c.n + 1 = nextCp(mem')
            /\ c.n + 2 # nextCp(mem')
            /\ ~(c.n < nextRevoke(mem'))
            /\ \A p \in secrets(mem') : p[1] = c.n => p = c.point
        BY <1>1, <1>3, <1>4, <1>6, <1>10, <2>1, <2>5 DEF CounterpartyData
      <3>2. cpSigned' = cpSigned \cup {c}
        BY <1>1, Zenon DEF c
      <3> QED
        BY <3>1, <3>2, <2>1, <2>2, <2>5, <1>1, <1>2, <1>3, Zenon DEF CounterpartyData
    <2> QED
      BY <1>8, <2>7, <2>8, Zenon
  <1> QED
    BY <1>1, <1>9, <1>10, Zenon

\* The counterparty's side when a secret arrives: it is the secret of the very
\* point that was signed under its number.
LEMMA SecretDataStep ==
  ASSUME SingleInv, TakesSecret
  PROVE  CounterpartyData(mem)'
  <1>1. PICK n \in Nat, s \in Seeds :
          /\ n = nextRevoke(mem) \/ n + 1 = nextRevoke(mem)
          /\ \/ n + 1 = nextCp(mem) /\ currentPoint(mem) = <<n, s>>
             \/ n + 2 = nextCp(mem) /\ previousPoint(mem) = <<n, s>>
          /\ secrets(mem') = IF \E p \in secrets(mem) : p[1] >= n
                             THEN secrets(mem)
                             ELSE secrets(mem) \cup {<<n, s>>}
          /\ nextRevoke(mem') \in {nextRevoke(mem), n + 1}
    BY Zenon DEF TakesSecret
  <1> DEFINE q == <<n, s>>
  <1>2. TypeOK /\ Slots(mem) /\ CounterpartyData(mem)
    BY Zenon DEF SingleInv, SlotInv, Inv, SingleRecord
  <1>3. /\ nextCp(mem) \in Nat /\ nextRevoke(mem) \in Nat
        /\ \A d \in cpSigned : d.n \in Nat
        /\ \A p \in secrets(mem) : p[1] \in Nat
    BY <1>2, NumberTypes, SecretTypes, Zenon
  <1>4. /\ q[1] = n
        /\ n < nextCp(mem)
        /\ n + 1 = nextCp(mem) => q = currentPoint(mem)
        /\ n + 2 = nextCp(mem) => q = previousPoint(mem)
    BY <1>1, <1>3
  <1>5. /\ UNCHANGED cpSigned
        /\ nextCp(mem')        = nextCp(mem)
        /\ currentPoint(mem')  = currentPoint(mem)
        /\ previousPoint(mem') = previousPoint(mem)
        /\ currentCpInfo(mem') = currentCpInfo(mem)
        /\ cpTag(mem')         = cpTag(mem)
    BY Zenon DEF TakesSecret
  <1>6. \A d \in cpSigned : d.n = n => d.point = q
    BY <1>1, <1>2, <1>3, Zenon DEF CounterpartyData
  <1>7. secrets(mem) \subseteq secrets(mem')
        /\ \A p \in secrets(mem') : p \in secrets(mem) \/ p = q
    BY <1>1
  <1> HIDE DEF q
  <1>8. ASSUME NEW d \in cpSigned, d.n < nextRevoke(mem')
        PROVE  d.point \in secrets(mem')
    <2>1. CASE d.n < nextRevoke(mem)
      BY <2>1, <1>2, <1>7, Zenon DEF CounterpartyData
    <2>2. CASE ~(d.n < nextRevoke(mem))
      <3>1. d.n = n /\ n = nextRevoke(mem)
        BY <2>2, <1>1, <1>3, <1>8
      <3>2. CASE \E p \in secrets(mem) : p[1] >= n
        <4>1. PICK p \in secrets(mem) : p[1] >= n
          BY <3>2, Zenon
        <4>2. p[1] = n
          BY <4>1, <3>1, <1>2, <1>3 DEF Slots
        <4>3. p = d.point
          BY <4>1, <4>2, <3>1, <1>2, Zenon DEF CounterpartyData
        <4> QED
          BY <4>1, <4>3, <1>7, Zenon
      <3>3. CASE ~\E p \in secrets(mem) : p[1] >= n
        BY <3>1, <3>3, <1>1, <1>6, Zenon DEF q
      <3> QED
        BY <3>2, <3>3, Zenon
    <2> QED
      BY <2>1, <2>2, Zenon
  <1>9. \A p \in secrets(mem') :
          /\ p[1] < nextCp(mem)
          /\ p[1] + 1 = nextCp(mem) => p = currentPoint(mem)
          /\ p[1] + 2 = nextCp(mem) => p = previousPoint(mem)
          /\ \A d \in cpSigned : p[1] = d.n => p = d.point
    BY <1>2, <1>4, <1>6, <1>7, Zenon DEF CounterpartyData
  <1> QED
    BY <1>2, <1>5, <1>8, <1>9, Zenon DEF CounterpartyData

\* Every step of a channel that is never spliced keeps its data in step.
LEMMA SingleStep ==
  ASSUME MaxSplices = 0
  PROVE  SingleInv /\ [Next]_vars => SingleInv'
  <1> SUFFICES ASSUME SingleInv, [Next]_vars PROVE SingleInv'
    OBVIOUS
  <1>1. SlotInv'
    BY SlotStep, Zenon DEF SingleInv
  <1>2. CASE UNCHANGED vars
    <2>1. mem' = mem /\ disk' = disk /\ UNCHANGED <<closeSigned, cpSigned>>
      BY <1>2, Zenon DEF vars, history
    <2> QED
      BY <2>1, <1>1, Zenon DEF SingleInv, SingleRecord, Unspliced, HolderData,
           CounterpartyData, SignedForFunding, CloseSignaturesMatch,
           RetrySameData, Fits
  <1>3. CASE Next
    <2>t. /\ TypeOK /\ DurableCounters
          /\ SingleRecord(mem) /\ SingleRecord(disk)
      BY Zenon DEF SingleInv, SlotInv, Inv
    <2>u. TypeOK'
      BY <1>1, Zenon DEF SlotInv, Inv
    <2>1. ContentEffect
      BY <1>3, <2>t, ContentStep, Zenon
    <2>2. Unspliced(mem')
      BY <2>1, <2>t, Zenon DEF ContentEffect, HolderMoves, Broadcasts, SignsContents,
           TakesSecret, Splices, Locks, Restarts, SingleRecord, Unspliced,
           SameFundings
    <2>3. HolderData(mem')
      <3>1. CASE HolderMoves
        BY <3>1, <2>t, HolderDataStep, Zenon
      <3>2. CASE SameHolder(mem', mem)
        BY <3>2, <2>t, Zenon DEF SameHolder, SingleRecord, HolderData
      <3>3. CASE Locks
        BY <3>2, <3>3, <2>t, Zenon DEF Locks, SingleRecord, Unspliced
      <3>4. CASE Restarts
        BY <3>4, <2>t, Zenon DEF Restarts, SingleRecord
      <3> QED
        BY <2>1, <3>1, <3>2, <3>3, <3>4, Zenon
        DEF ContentEffect, Broadcasts, SignsContents, TakesSecret, Splices
    <2>4. CASE SignsContents
      <3>1. CounterpartyData(mem)' /\ SignedForFunding' /\ RetrySameData'
        BY <2>4, <2>u, SignDataStep, Zenon DEF TypeOK
      <3>2. disk' = mem' /\ closeSigned' = closeSigned
        BY <2>4, Zenon DEF SignsContents
      <3>3. SingleRecord(mem)'
        BY <3>1, <2>2, <2>3, Zenon DEF SingleRecord, Unspliced, HolderData
      <3>4. SingleRecord(disk)'
        BY <3>2, <3>3, Zenon
        DEF SingleRecord, Unspliced, HolderData, CounterpartyData
      <3> QED
        BY <1>1, <3>1, <3>2, <3>3, <3>4, Zenon DEF SingleInv, CloseSignaturesMatch
    <2>5. CASE ~SignsContents
      <3>1. UNCHANGED cpSigned
        BY <2>1, <2>5, Zenon DEF ContentEffect, HolderMoves, Broadcasts, TakesSecret,
                          Splices, Locks, Restarts
      <3>2. SignedForFunding' /\ RetrySameData'
        BY <3>1, Zenon DEF SingleInv, SignedForFunding, RetrySameData, Fits
      <3>3. CounterpartyData(mem)'
        <4>1. CASE TakesSecret
          BY <4>1, SecretDataStep, Zenon
        <4>2. CASE SameCounterparty(mem', mem)
          BY <4>2, <3>1, <2>t, Zenon
          DEF SameCounterparty, SingleRecord, CounterpartyData
        <4>3. CASE Locks
          BY <4>2, <4>3, <2>t, Zenon DEF Locks, SingleRecord, Unspliced
        <4>4. CASE Restarts
          BY <4>4, <3>1, <2>t, Zenon DEF Restarts, SingleRecord, CounterpartyData
        <4> QED
          BY <2>1, <2>5, <4>1, <4>2, <4>3, <4>4, Zenon
          DEF ContentEffect, HolderMoves, Broadcasts, Splices
      <3>4. SingleRecord(mem)'
        BY <3>3, <2>2, <2>3, Zenon DEF SingleRecord, Unspliced, HolderData
      <3>5. SingleRecord(disk)'
        <4>1. disk' = mem' \/ disk' = disk
          BY <2>1, <2>5, Zenon DEF ContentEffect, HolderMoves, Broadcasts,
               TakesSecret, Splices, Locks, Restarts
        <4> QED
          BY <4>1, <3>1, <3>4, <2>t
          DEF SingleRecord, Unspliced, HolderData, CounterpartyData
      <3>6. CloseSignaturesMatch'
        <4>1. ASSUME NEW c \in closeSigned' \ closeSigned
              PROVE  c.sigs = <<c.n, c.f, c.info>>
          <5>1. Broadcast(c)
            BY <2>1, <2>5, Zenon DEF ContentEffect, HolderMoves, Broadcasts,
                 TakesSecret, Splices, Locks, Restarts
          <5>2. c.n \in Nat /\ nextHolder(mem) \in Nat
            BY <2>t, <2>u, NumberTypes, Zenon DEF TypeOK
          <5>3. currentSigs(mem) # None => currentSigs(mem)[1] \in Nat
            <6>1. currentSigs(mem) \in Option(Signatures)
              BY <2>t, Zenon DEF TypeOK, ChannelRecords, EnforcementStates, currentSigs
            <6> QED
              BY <6>1, OptionFacts, Zenon DEF Signatures
          <5> QED
            BY <5>1, <5>2, <5>3, <2>t, BroadcastMatches, Zenon
        <4> QED
          BY <4>1, Zenon DEF CloseSignaturesMatch, SingleInv
      <3> QED
        BY <1>1, <3>2, <3>4, <3>5, <3>6, Zenon DEF SingleInv
    <2> QED
      BY <2>4, <2>5, Zenon
  <1> QED
    BY <1>2, <1>3, Zenon

\* A fresh channel has signed nothing.
LEMMA SingleInit == Init => SingleInv
  <1> SUFFICES ASSUME Init PROVE SingleInv
    OBVIOUS
  <1>1. SlotInv
    BY SlotInit, Zenon
  <1>2. /\ disk = mem
        /\ mem = [setup           |-> InitFunding,
                  prev_setup      |-> None,
                  prev_prev_setup |-> None,
                  es              |-> NewState]
        /\ closeSigned = {}
        /\ cpSigned = {}
    BY Zenon DEF Init
  <1>3. SingleRecord(mem)
    BY <1>2, Zenon DEF SingleRecord, Unspliced, HolderData, CounterpartyData, NewState,
         pending, retiring, currentSigs, secrets, nextCp
  <1> QED
    BY <1>1, <1>2, <1>3, Zenon
    DEF SingleInv, SignedForFunding, CloseSignaturesMatch, RetrySameData

\* The data of a channel that is never spliced stay in step.
LEMMA SingleInvariance ==
  ASSUME MaxSplices = 0
  PROVE  Spec => []SingleInv
  BY SingleInit, SingleStep, PTL DEF Spec

\* Without splices, every holder commitment signed for broadcast carries the
\* counterparty's signatures for its own number, funding and contents.
THEOREM SignaturesAlwaysMatch ==
  ASSUME MaxSplices = 0
  PROVE  Spec => []SignaturesMatch
  <1>1. SingleInv => SignaturesMatch
    BY Zenon DEF SingleInv, SingleRecord, HolderData, SignaturesMatch,
           CurrentSignaturesCurrent, currentSigs, nextHolder, es
  <1> QED
    BY <1>1, SingleInvariance, PTL

\* Without splices, one commitment per number is ever signed for the
\* counterparty, and the newest one can be signed again.
THEOREM RetriesAreExact ==
  ASSUME MaxSplices = 0
  PROVE  Spec => []RetriesExact
  <1>1. SingleInv => CanRetransmit
    <2> SUFFICES ASSUME SingleInv, NEW c \in cpSigned,
                        c.n = nextRevoke(mem) + 1,
                        c.n + 1 = nextCp(mem)
                 PROVE  SignCounterpartyOk(c.n, c.f, c.point, c.info)
      BY Zenon DEF CanRetransmit, nextRevoke, nextCp, es
    <2>1. TypeOK /\ SingleRecord(mem) /\ CounterpartyData(mem)
      BY Zenon DEF SingleInv, SlotInv, Inv, SingleRecord
    <2>2. nextRevoke(mem) \in Nat /\ nextCp(mem) \in Nat /\ c.n \in Nat
      BY <2>1, NumberTypes, Zenon
    <2>3. c.f = InitFunding /\ Fits(c.info, c.f) /\ c.f \in Views
      BY <2>1, OneView, Zenon DEF SingleInv, SignedForFunding, SingleRecord
    <2>4. /\ c.point = currentPoint(mem)
          /\ c.info = currentCpInfo(mem)
          /\ cpTag(mem) = InitFunding
      BY <2>1, <2>2 DEF CounterpartyData
    <2>5. prev_commit_info(es, c.n, c.f) = c.info
      <3>1. retiring(mem) = None
        BY <2>1, Zenon DEF SingleRecord, Unspliced
      <3> QED
        BY <3>1, <2>4, Zenon
        DEF prev_commit_info, get_previous_counterparty_commit_info,
            counterparty_commit_info_for, currentCpInfo, nextCp, retiring, es
    <2>6. validate_counterparty_commitment_tx(es, c.n, c.point, c.f, c.info)
      BY <2>2, <2>3, <2>4, <2>5
      DEF validate_counterparty_commitment_tx, currentPoint, nextRevoke, es
    <2>7. \A b \in BOOLEAN : next_counterparty_commit_num_ok(es, c.n + 1, b)
      BY <2>2 DEF next_counterparty_commit_num_ok, nextRevoke, nextCp, es
    <2> QED
      BY <2>3, <2>6, <2>7, Zenon DEF SignCounterpartyOk
  <1>2. SingleInv => RetriesExact
    BY <1>1, Zenon DEF SingleInv, RetriesExact
  <1> QED
    BY <1>2, SingleInvariance, PTL

\* Without splices, the secret of the very point a revoked commitment was
\* signed for is stored.
THEOREM RevokedCanBePunished ==
  ASSUME MaxSplices = 0
  PROVE  Spec => []RevokedIsPunishable
  <1>1. SingleInv => RevokedIsPunishable
    BY Zenon DEF SingleInv, SingleRecord, CounterpartyData, RevokedIsPunishable,
           nextRevoke, secrets, es
  <1> QED
    BY <1>1, SingleInvariance, PTL
=============================================================================
