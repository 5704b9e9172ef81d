-------------------------- MODULE RevocationProtocol --------------------------
(***************************************************************************)
(* What a channel of the signer promises about commitment numbers, without *)
(* contents, fundings, storage or failures: both sides move one commitment *)
(* at a time, a holder secret is disclosed only when a later commitment is *)
(* current, and a counterparty commitment is signed only while the one two *)
(* before it is revoked.  Channel implements it; splices, failed requests  *)
(* and restarts are stuttering steps.                                      *)
(***************************************************************************)
EXTENDS Naturals

VARIABLES
  nextHolder,   \* number of the next holder commitment
  disclosed,    \* holder commitments whose secret was disclosed
  nextCp,       \* number of the next counterparty commitment
  nextRevoke    \* number of the next counterparty revocation

vars == <<nextHolder, disclosed, nextCp, nextRevoke>>

Init ==
  /\ nextHolder = 0
  /\ disclosed = {}
  /\ nextCp = 0
  /\ nextRevoke = 0

\* The next holder commitment becomes current; its predecessor's secret may go
\* out in the same step.
Advance ==
  /\ nextHolder' = nextHolder + 1
  /\ disclosed \subseteq disclosed'
  /\ \A n \in disclosed' \ disclosed : n + 1 = nextHolder
  /\ UNCHANGED <<nextCp, nextRevoke>>

\* A secret behind the current commitment is disclosed (again).
Disclose ==
  /\ disclosed \subseteq disclosed'
  /\ \A n \in disclosed' \ disclosed : n + 2 <= nextHolder
  /\ UNCHANGED <<nextHolder, nextCp, nextRevoke>>

\* The next counterparty commitment is signed.
SignCounterparty ==
  /\ nextCp <= nextRevoke + 1
  /\ nextCp' = nextCp + 1
  /\ UNCHANGED <<nextHolder, disclosed, nextRevoke>>

\* The counterparty revokes the older of its two commitments.
Revoked ==
  /\ nextRevoke + 2 <= nextCp
  /\ nextRevoke' = nextRevoke + 1
  /\ UNCHANGED <<nextHolder, disclosed, nextCp>>

Next == Advance \/ Disclose \/ SignCounterparty \/ Revoked

Spec == Init /\ [][Next]_vars
=============================================================================
