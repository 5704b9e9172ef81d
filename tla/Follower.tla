------------------------------ MODULE Follower ------------------------------
(***************************************************************************)
(* The chain follower (vls-frontend/src/chain_follower.rs) brings the      *)
(* tracker of the signer to the tip of bitcoind's chain, one block at a    *)
(* time: it asks for the tracker's tip, has the next step computed, and    *)
(* adds the next block or removes the last one.  A block whose filter      *)
(* matches by accident is streamed in chunks before the request.  When     *)
(* there is nothing to do it asks for a heartbeat.                         *)
(*                                                                         *)
(* Its requests reach the signer as module SignerPort promises: in order   *)
(* and at least once.  When the signer connects again the outstanding      *)
(* request is sent again, whether or not it was executed.  The signer      *)
(* keeps the tracker on disk and the decoder of a streamed block in        *)
(* memory; a panic restarts it.                                            *)
(***************************************************************************)
EXTENDS Naturals, Sequences, SequencesExt

CONSTANTS
  MaxHeight,   \* bound: blocks of bitcoind's chain
  MaxReorgs,   \* bound: reorganisations of it
  MaxReorg,    \* MAX_REORG_SIZE: headers the tracker keeps
  Chunks,      \* chunks of a streamed block
  Streams,     \* subset of BOOLEAN: whether a block may have to be streamed
  MaxFaults    \* bound: connections lost and restarts of the signer

ASSUME FollowerAssumption ==
  /\ MaxReorg \in Nat \ {0} /\ Chunks \in Nat \ {0}
  /\ Streams \subseteq BOOLEAN /\ Streams # {}

VARIABLES
  best,     \* bitcoind's chain: for each height the branch of its block
  reorgs,   \* reorganisations so far
  trk,      \* the tracker: chain, headers kept, whether it watches a new outpoint
  decode,   \* the tracker's decode_state, in memory
  pc,       \* the follower's step
  tip,      \* the tip it was told, as the chain that leads to it
  job,      \* the step it computed from that
  state,    \* State::Scanning or State::Synced
  call,     \* its outstanding request, or NoCall
  sent,     \* the copies of requests the signer has not executed yet
  replies,  \* the replies to call that may reach the follower
  faults    \* faults so far

followVars == <<best, reorgs, trk, decode, pc, tip, job, state, call, sent, replies, faults>>
world == <<best, reorgs>>
port == <<call, sent, replies>>

NoCall == [type |-> "none"]
NoDecode == [chain |-> <<>>, offset |-> 0]
NoJob == [type |-> "none", chain |-> <<>>, stream |-> FALSE, sees |-> FALSE, offset |-> 0]

FollowInit ==
  /\ best = <<>> /\ reorgs = 0
  /\ trk = [chain |-> <<>>, headers |-> 0, watch |-> FALSE]
  /\ decode = NoDecode
  /\ pc = "tick" /\ tip = <<>> /\ job = NoJob /\ state = "Scanning"
  /\ call = NoCall /\ sent = <<>> /\ replies = {}
  /\ faults = 0

-----------------------------------------------------------------------------
(* bitcoind and the node.                                                  *)

Mine ==
  /\ Len(best) < MaxHeight
  /\ best' = Append(best, reorgs)
  /\ UNCHANGED <<reorgs, trk, decode, pc, tip, job, state, port, faults>>

\* The last n blocks give way to n + 1 others.
Reorg ==
  /\ reorgs < MaxReorgs /\ Len(best) < MaxHeight
  /\ reorgs' = reorgs + 1
  /\ \E n \in 1..MaxReorg :
       /\ n <= Len(best)
       /\ best' = SubSeq(best, 1, Len(best) - n) \o [i \in 1..(n + 1) |-> reorgs + 1]
  /\ UNCHANGED <<trk, decode, pc, tip, job, state, port, faults>>

\* The node signs a transaction: the tracker watches one more outpoint, which a
\* block of the first branch spends.
AddWatch ==
  /\ ~trk.watch
  /\ trk' = [trk EXCEPT !.watch = TRUE]
  /\ UNCHANGED <<world, decode, pc, tip, job, state, port, faults>>

SpendsWatched(chain) == Last(chain) = 1

-----------------------------------------------------------------------------
(* The signer: what handling one request does.                             *)

Done(t, d, r) == [panics |-> FALSE, trk |-> t, decode |-> d, reply |-> r]
Panics == [panics |-> TRUE, trk |-> trk, decode |-> NoDecode, reply |-> [type |-> "none"]]
Ok == [type |-> "ok"]

\* ChainTracker::block_chunk
BlockChunk(m) ==
  IF m.offset = 0
  THEN IF decode # NoDecode THEN Panics
       ELSE Done(trk, [chain |-> m.chain, offset |-> 1], Ok)
  ELSE IF decode # [chain |-> m.chain, offset |-> m.offset] THEN Panics
       ELSE Done(trk, [decode EXCEPT !.offset = @ + 1], Ok)

\* maybe_finish_decoding_block, for a block that must be chain's last
Decoded(m, chain) ==
  IF m.stream THEN decode = [chain |-> chain, offset |-> Chunks] ELSE decode = NoDecode

\* headers.truncate(MAX_REORG_SIZE - 1); push_front(tip)
HeadersAfterAdd(n) == (IF n < MaxReorg THEN n ELSE MaxReorg - 1) + 1

\* header.prev_blockhash is the tip's hash
ExtendsTip(m) == Front(m.chain) = trk.chain

\* The proof leaves out no spend of an outpoint that is watched now.  A streamed
\* block holds all its transactions.
ProofCovers(m) == m.stream \/ m.sees \/ ~trk.watch \/ ~SpendsWatched(m.chain)

\* AddBlock of RootHandler: a block that does not extend the tip is an answer,
\* any other error a panic.
AddBlock(m) ==
  IF ~Decoded(m, m.chain) THEN Panics
  ELSE IF ~ExtendsTip(m) THEN Done(trk, NoDecode, [type |-> "orphan"])
  ELSE IF ~ProofCovers(m) THEN Panics
  ELSE Done([trk EXCEPT !.chain = m.chain, !.headers = HeadersAfterAdd(@)], NoDecode, Ok)

\* RemoveBlock of RootHandler: every error is a panic.  The hash that was
\* streamed is compared with the one of the block before the tip.
RemoveBlock(m) ==
  IF \/ trk.headers = 0 \/ trk.chain # m.chain
     \/ ~Decoded(m, Front(m.chain)) \/ ~ProofCovers(m)
  THEN Panics
  ELSE Done([trk EXCEPT !.chain = Front(@), !.headers = @ - 1], NoDecode, Ok)

Handle(m) ==
  CASE m.type = "TipInfo" -> Done(trk, decode, [type |-> "tip", chain |-> trk.chain])
    [] m.type = "Watches" -> Done(trk, decode, [type |-> "watches", watch |-> trk.watch])
    [] m.type = "GetHeartbeat" -> Done(trk, decode, Ok)
    [] m.type = "BlockChunk" -> BlockChunk(m)
    [] m.type = "AddBlock" -> AddBlock(m)
    [] m.type = "RemoveBlock" -> RemoveBlock(m)

\* What is sent when the signer has connected again.
Again == IF call = NoCall THEN <<>> ELSE <<call>>

\* The signer executes the next request; if it panics it is restarted.
Execute ==
  /\ sent # <<>>
  /\ LET m == Head(sent)
         r == Handle(m)
     IN  /\ trk' = r.trk /\ decode' = r.decode
         /\ sent' = IF r.panics THEN Again ELSE Tail(sent)
         /\ replies' = IF r.panics \/ m # call THEN replies ELSE replies \cup {r.reply}
  /\ UNCHANGED <<world, pc, tip, job, state, call, faults>>

\* The connection is lost; with a restart also the signer's memory.
Disconnect ==
  /\ faults < MaxFaults
  /\ faults' = faults + 1
  /\ sent' = Again
  /\ decode' \in {decode, NoDecode}
  /\ UNCHANGED <<world, trk, pc, tip, job, state, call, replies>>

-----------------------------------------------------------------------------
(* The follower.                                                           *)

Calls(m) == call' = m /\ sent' = Append(sent, m) /\ replies' = {}

\* The interval ticks: update asks for the tip.
Tick ==
  /\ pc = "tick" /\ call = NoCall
  /\ Calls([type |-> "TipInfo"])
  /\ UNCHANGED <<world, trk, decode, pc, tip, job, state, faults>>

Returns(type) ==
  /\ \E r \in replies : r.type = type
  /\ call' = NoCall /\ replies' = {} /\ UNCHANGED sent

GetTip ==
  /\ pc = "tick" /\ Returns("tip")
  /\ tip' = (CHOOSE r \in replies : TRUE).chain
  /\ pc' = "follow"
  /\ UNCHANGED <<world, trk, decode, job, state, faults>>

\* Mutant: one block short of the tip is the tip.
NearTip == Len(best) <= Len(tip) + 1

AtTip == tip = best

\* do_heartbeat
Beat == Calls([type |-> "GetHeartbeat"]) /\ pc' = "beat"

\* follow_with_proof: nothing, the next block, or the tip as no longer on the
\* chain.  For a block it asks which outpoints are watched.
Follow ==
  /\ pc = "follow" /\ call = NoCall
  /\ \/ /\ AtTip
        /\ state' = "Synced" /\ Beat
        /\ UNCHANGED job
     \/ /\ ~AtTip
        /\ \E s \in Streams :
             job' = [type |-> IF IsPrefix(tip, best) THEN "AddBlock" ELSE "RemoveBlock",
                     chain |-> IF IsPrefix(tip, best) THEN SubSeq(best, 1, Len(tip) + 1) ELSE tip,
                     stream |-> s, sees |-> FALSE, offset |-> 0]
        /\ Calls([type |-> "Watches"])
        /\ pc' = "watches" /\ UNCHANGED state
  /\ UNCHANGED <<world, trk, decode, tip, faults>>

\* The proof is made for the outpoints the tracker watches now.
GetWatches ==
  /\ pc = "watches" /\ Returns("watches")
  /\ job' = [job EXCEPT !.sees = (CHOOSE r \in replies : TRUE).watch]
  /\ pc' = "block"
  /\ UNCHANGED <<world, trk, decode, tip, state, faults>>

\* maybe_stream_block, one chunk
StreamChunk ==
  /\ pc = "block" /\ call = NoCall /\ job.stream /\ job.offset < Chunks
  /\ Calls([type |-> "BlockChunk", chain |-> job.chain, offset |-> job.offset])
  /\ UNCHANGED <<world, trk, decode, pc, tip, job, state, faults>>

ChunkDone ==
  /\ pc = "block" /\ call.type = "BlockChunk" /\ Returns("ok")
  /\ job' = [job EXCEPT !.offset = @ + 1]
  /\ UNCHANGED <<world, trk, decode, pc, tip, state, faults>>

\* ChainTrack::add_block and remove_block
SendBlock ==
  /\ pc = "block" /\ call = NoCall /\ (job.stream => job.offset = Chunks)
  /\ state' = IF job.type = "AddBlock" THEN "Scanning" ELSE state
  /\ Calls([type |-> job.type, chain |-> job.chain, stream |-> job.stream, sees |-> job.sees])
  /\ pc' = "update"
  /\ UNCHANGED <<world, trk, decode, tip, job, faults>>

\* The request, or the heartbeat, is answered; an orphan block is not an error.
Updated ==
  /\ pc \in {"update", "beat"} /\ (Returns("ok") \/ Returns("orphan"))
  /\ pc' = "tick" /\ tip' = <<>> /\ job' = NoJob
  /\ UNCHANGED <<world, trk, decode, state, faults>>

FollowNext ==
  \/ Mine \/ Reorg \/ AddWatch
  \/ Execute \/ Disconnect
  \/ Tick \/ GetTip \/ Follow \/ GetWatches \/ StreamChunk \/ ChunkDone \/ SendBlock \/ Updated

FollowerStep ==
  Tick \/ GetTip \/ Follow \/ GetWatches \/ StreamChunk \/ ChunkDone \/ SendBlock \/ Updated

FollowFairness == WF_followVars(Execute) /\ WF_followVars(FollowerStep)

FollowSpec == FollowInit /\ [][FollowNext]_followVars /\ FollowFairness
-----------------------------------------------------------------------------
(* Properties.                                                             *)

\* The outstanding request panics in a signer that has just been restarted, so
\* it is sent again and again.
Poisoned == call # NoCall /\ decode = NoDecode /\ sent # <<>> /\ Head(sent) = call /\ Handle(call).panics

\* Once bitcoind's chain stops changing the tracker reaches its tip and stays
\* there, unless a request that the signer cannot repeat is in the way.
CatchesUp == <>[](trk.chain = best \/ Poisoned)

\* The follower does not stop asking for heartbeats: whatever it does between
\* two of its ticks, a heartbeat follows.
KeepsBeating == (pc # "tick") ~> (pc = "beat" \/ Poisoned)

\* The follower goes on: it catches up with the chain and keeps the heartbeat.
FollowerLives == CatchesUp /\ KeepsBeating

\* "Follows the longest chain and feeds proofs of watched changes to
\* ChainTracker" (chain_follower.rs).
FollowsChain == <>[](trk.chain = best)
=============================================================================
