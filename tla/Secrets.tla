------------------------------ MODULE Secrets ------------------------------
(***************************************************************************)
(* CounterpartyCommitmentSecrets (vls-core/src/policy/validator.rs): the   *)
(* revocation secrets of the counterparty, of which only one for each      *)
(* number of trailing zeros of the index is kept.  The others are derived  *)
(* from them, so that a secret is refused unless it derives the ones it    *)
(* replaces.                                                               *)
(*                                                                         *)
(* A secret is [seed, path]: the bits that were flipped and hashed on the  *)
(* way from a seed.  A counterparty that does not follow the chain gives   *)
(* secrets of another seed.                                                *)
(***************************************************************************)
EXTENDS Naturals, Sequences

CONSTANTS
  Bits,       \* bits of an index: 48 in the code
  SeedsGiven  \* seeds the counterparty may take secrets from

ASSUME SecretsAssumption == Bits \in Nat \ {0} /\ SeedsGiven # {}

VARIABLES
  old_secrets,  \* [secret, idx] by the trailing zeros of idx
  nextIdx,      \* the index of the next revocation
  accepted      \* history: the secret first accepted for each index

secretVars == <<old_secrets, nextIdx, accepted>>

Bit(idx, i) == (idx \div 2^i) % 2 = 1

Least(S) == CHOOSE x \in S : \A y \in S : x <= y

place_secret(idx) == Least({i \in 0..(Bits - 1) : Bit(idx, i)} \cup {Bits})

get_min_seen_secret(old) ==
  Least({old[i].idx : i \in 1..Len(old)} \cup {2^Bits})

derive_secret(secret, bits, idx) ==
  [secret EXCEPT
     !.path = @ \o SelectSeq([i \in 1..bits |-> bits - i],
                             LAMBDA b : Bit(idx, b))]

\* Mutant: the newest of the secrets that are replaced is not compared.
ProvideSkipsOne(old, idx, secret) ==
  LET pos == place_secret(idx)
  IN  /\ pos <= Len(old)
      /\ \A i \in 1..(pos - 1) :
           derive_secret(secret, pos, old[i].idx) = old[i].secret

\* The checks of provide_secret.
ProvideOk(old, idx, secret) ==
  LET pos == place_secret(idx)
  IN  /\ pos <= Len(old)
      /\ \A i \in 1..pos :
           derive_secret(secret, pos, old[i].idx) = old[i].secret

\* What provide_secret stores: nothing for an index that was seen.
Provided(old, idx, secret) ==
  LET pos == place_secret(idx)
      entry == [secret |-> secret, idx |-> idx]
  IN  IF get_min_seen_secret(old) <= idx THEN old
      ELSE IF pos < Len(old) THEN [old EXCEPT ![pos + 1] = entry]
      ELSE Append(old, entry)

\* The secrets get_secret can return for an index: that of the first entry
\* whose index agrees but for its trailing bits.
get_secret(old, idx) ==
  LET hits == {i \in 1..Len(old) : idx - (idx % 2^(i - 1)) = old[i].idx}
  IN  IF hits = {} THEN {}
      ELSE {derive_secret(old[Least(hits)].secret, Least(hits) - 1, idx)}

-----------------------------------------------------------------------------
\* What a counterparty may send for an index: the secret of a seed.
SecretOf(seed, idx) == derive_secret([seed |-> seed, path |-> <<>>], Bits, idx)

SecretsInit ==
  /\ old_secrets = <<>>
  /\ nextIdx = 2^Bits - 1
  /\ accepted = <<>>

\* The revocation of the next commitment.
ProvideNext(seed) ==
  /\ Len(accepted) < 2^Bits
  /\ ProvideOk(old_secrets, nextIdx, SecretOf(seed, nextIdx))
  /\ old_secrets' = Provided(old_secrets, nextIdx, SecretOf(seed, nextIdx))
  /\ accepted' = Append(accepted, SecretOf(seed, nextIdx))
  /\ nextIdx' = IF nextIdx = 0 THEN 0 ELSE nextIdx - 1

\* A revocation that is sent again, right or wrong.
ProvideAgain(seed, idx) ==
  /\ idx > nextIdx
  /\ ProvideOk(old_secrets, idx, SecretOf(seed, idx))
  /\ old_secrets' = Provided(old_secrets, idx, SecretOf(seed, idx))
  /\ UNCHANGED <<nextIdx, accepted>>

SecretsNext ==
  \/ \E seed \in SeedsGiven : ProvideNext(seed)
  \/ \E seed \in SeedsGiven, idx \in 0..(2^Bits - 1) : ProvideAgain(seed, idx)

SecretsSpec == SecretsInit /\ [][SecretsNext]_secretVars

-----------------------------------------------------------------------------
\* Every secret that was accepted for a commitment can be had back, unchanged,
\* whatever was accepted and repeated later: each revoked commitment stays
\* punishable although most secrets are not stored.  For the other indices
\* get_secret's assertion holds, and at most one entry more than the bits of
\* an index is kept.
SecretsRecovered ==
  /\ \A n \in 1..Len(accepted) :
       get_secret(old_secrets, 2^Bits - n) = {accepted[n]}
  /\ \A idx \in 0..(2^Bits - 1) :
       get_secret(old_secrets, idx) = {} =>
         idx < get_min_seen_secret(old_secrets)
  /\ Len(old_secrets) <= Bits + 1
=============================================================================
