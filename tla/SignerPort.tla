----------------------------- MODULE SignerPort -----------------------------
(***************************************************************************)
(* What a caller of the signer may rely on, whatever happens to the        *)
(* connection between the proxy and the signer (the SignerPort trait of    *)
(* vls-protocol-client and the replies of the proxy's SignerLoop).         *)
(*                                                                         *)
(* Calls are executed at least once and in order: a call is executed one   *)
(* or more times before it is answered, perhaps once more after that, but  *)
(* never after a later call of the same caller was executed.               *)
(***************************************************************************)
EXTENDS Naturals

CONSTANT Clients

VARIABLES
  call,   \* call[c]: the number of calls of caller c
  state,  \* state[c]: how the last of them stands
  ran     \* ran[c]: the last call of c that the signer executed

vars == <<call, state, ran>>

Init ==
  /\ call = [c \in Clients |-> 0]
  /\ state = [c \in Clients |-> "answered"]
  /\ ran = [c \in Clients |-> 0]

Call(c) ==
  /\ state[c] = "answered"
  /\ call' = [call EXCEPT ![c] = @ + 1]
  /\ state' = [state EXCEPT ![c] = "open"]
  /\ UNCHANGED ran

\* The first execution of the last call; repeating one changes nothing here.
Execute(c) ==
  /\ ran' = [ran EXCEPT ![c] = call[c]]
  /\ UNCHANGED <<call, state>>

Answer(c) ==
  /\ state[c] = "open"
  /\ ran[c] = call[c]
  /\ state' = [state EXCEPT ![c] = "answered"]
  /\ UNCHANGED <<call, ran>>

\* Some callers learn that they cannot be served any more.
Fail ==
  /\ \E S \in SUBSET Clients :
       state' = [c \in Clients |-> IF c \in S THEN "failed" ELSE state[c]]
  /\ UNCHANGED <<call, ran>>

Next ==
  \/ \E c \in Clients : Call(c) \/ Execute(c) \/ Answer(c)
  \/ Fail

Spec == Init /\ [][Next]_vars

\* Every call ends, with an answer or with an error.
Ends == \A c \in Clients : state[c] = "open" ~> state[c] # "open"
=============================================================================
