------------------------------- MODULE MCHost -------------------------------
(***************************************************************************)
(* The modules about the processes around the signer's state for TLC: the  *)
(* transport of requests, the chain follower, the session of a Core        *)
(* Lightning node, the client of an LDK node, the example node, and the    *)
(* locks the signer's threads take.  They share no variable, so that they  *)
(* are one state space in which a behaviour is one of one `part` and the   *)
(* others stay as they were at the start.                                  *)
(***************************************************************************)
EXTENDS Follower, Session, LdkClient, Transport, NodeLocks, Lnrod

CONSTANTS Parts, root, child, front, c1, c2, stream, chain, admin

VARIABLE part

\* Transport: the init of the node's loop, then a call of a channel's loop, which
\* may be retried, against one of the follower.
MCMaxCalls == [c \in Clients |-> 1]

\* Session: the versions of some releases of the node
MCRanges == {<<2, 3>>, <<1, 4>>, <<3, 5>>, <<4, 7>>}
MCRoot == {"TipInfo", "SignCommitmentTx", "GetChannelBasepoints"}
MCChannel == {"SignRemoteCommitmentTx", "SignRemoteCommitmentTx2", "CheckOutpoint"}
MCRefusable == {"SignWithdrawal"}

\* LdkClient
MCSides == <<"outbound", "inbound">>

\* NodeLocks: every pair of threads runs; with all three there are some hundred
\* thousand states that show the same.
MCSlots == <<c1, c2>>
MCWork ==
  [t \in Threads |->
     CASE t = stream -> {"sign", "validate", "revoke", "fulfill", "sweep", "close", "new",
                         "setup", "splice", "forget", "check_onchain", "sign_onchain"}
       [] t = chain -> {"block", "heartbeat", "persist_all"}
       [] t = admin -> {"info", "list", "balance", "chaninfo", "state"}]
MCMaxOps == {[t \in Threads |-> IF t = idle THEN 0 ELSE 1] : idle \in Threads}

vars == <<part, followVars, sessionVars, clientVars, transportVars, lockVars, lnVars>>

MCInit ==
  /\ part \in Parts
  /\ FollowInit /\ SessionInit /\ ClientInit /\ TransportInit /\ LockInit /\ LnInit
  /\ part # "session" => node.range = <<2, 3>> /\ daemon.max = 4
  /\ part # "locks" => ops[stream] = 0 /\ ~closing
  /\ part # "lnrod" => lnBound.use = {"channels"}

MCNext ==
  /\ UNCHANGED part
  /\ \/ /\ part = "follower" /\ FollowNext
        /\ UNCHANGED <<sessionVars, clientVars, transportVars, lockVars, lnVars>>
     \/ /\ part = "session" /\ SessionNext
        /\ UNCHANGED <<followVars, clientVars, transportVars, lockVars, lnVars>>
     \/ /\ part = "client" /\ ClientNext
        /\ UNCHANGED <<followVars, sessionVars, transportVars, lockVars, lnVars>>
     \/ /\ part = "transport" /\ TransportNext
        /\ UNCHANGED <<followVars, sessionVars, clientVars, lockVars, lnVars>>
     \/ /\ part = "locks" /\ LockNext
        /\ UNCHANGED <<followVars, sessionVars, clientVars, transportVars, lnVars>>
     \/ /\ part = "lnrod" /\ LnNext
        /\ UNCHANGED <<followVars, sessionVars, clientVars, transportVars, lockVars>>

MCSpec == MCInit /\ [][MCNext]_vars

\* The fairness of each module's specification, for the behaviours of its part.
MCFairness ==
  /\ WF_followVars(part = "follower" /\ Execute)
  /\ WF_followVars(part = "follower" /\ FollowerStep)
  /\ WF_sessionVars(part = "session" /\ Connect)
  /\ WF_sessionVars(part = "session" /\ HsmdInit)
  /\ WF_sessionVars(part = "session" /\ NodeStep)
  /\ \A c \in Clients : WF_transportVars(part = "transport" /\ Answers(c))
  /\ WF_transportVars(part = "transport" /\ CacheInit)
  /\ \A k \in 1..(MaxConns + 1) :
       /\ WF_transportVars(part = "transport" /\ WriterRuns(k))
       /\ WF_transportVars(part = "transport" /\ ReaderRuns(k))
  /\ WF_transportVars(part = "transport" /\ OpenStream)
  /\ WF_transportVars(part = "transport" /\ (HandleFrame \/ Unimplemented))
  /\ \A t \in Threads : WF_lockVars(part = "locks" /\ ThreadStep(t))

MCFairSpec == MCSpec /\ MCFairness
=============================================================================
