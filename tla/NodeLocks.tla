----------------------------- MODULE NodeLocks -----------------------------
(***************************************************************************)
(* The mutexes of one Node and the order in which its operations take      *)
(* them.  A Node guards four fields (tracker, channels, one slot for each  *)
(* channel, state); besides them every chain monitor guards its own state. *)
(* An operation is the sequence of acquisitions and releases of its code,  *)
(* with everything it computes left out; several threads run operations of *)
(* the same node (the request stream of vlsd and its RPC server, or the    *)
(* p2p, chain follower and admin threads of an embedding node).            *)
(*                                                                         *)
(* Left out are the locks under which nothing else is ever taken (the      *)
(* validator factory, the decode state of a monitor, the persister): no    *)
(* thread waits while it holds one.                                        *)
(***************************************************************************)
EXTENDS Naturals, Sequences, SequencesExt, FiniteSets, FiniteSetsExt

CONSTANTS Threads,      \* the threads of the process
          Slots,        \* the channels of the node, a sequence (the map is ordered)
          Work,         \* Work[t]: the operations that thread t may run
          MaxOps,       \* bounds: how many operations the threads run
          Closes,       \* whether the blocks may hold the close of a channel
          NoThread

ASSUME LocksAssumption == /\ NoThread \notin Threads
                          /\ MaxOps \subseteq [Threads -> Nat]
                          /\ Closes \subseteq BOOLEAN

VARIABLES steps,        \* what is left of the operation each thread runs
          owner,        \* the thread that holds each lock
          ops,          \* operations each thread has still to run
          closing       \* the blocks hold closes

lockVars == <<steps, owner, ops, closing>>

Slot(c) == <<"slot", c>>
Monitor(c) == <<"monitor", c>>
Tracker == <<"tracker", "">>
Channels == <<"channels", "">>
State == <<"state", "">>

Locks == {Tracker, Channels, State} \cup {Slot(c) : c \in Range(Slots)}
           \cup {Monitor(c) : c \in Range(Slots)}

-----------------------------------------------------------------------------
(* Building blocks.                                                         *)

\* a guard: the lock is held while body runs
Within(l, body) == <<<<"take", l>>>> \o body \o <<<<"drop", l>>>>

\* a guard that lives for one expression
Touch(l) == Within(l, <<>>)

ForEach(Body(_)) == FoldSeq(LAMBDA c, acc : acc \o Body(c), <<>>, Slots)

\* get_channel releases the map before it locks the slot
with_channel(c, body) == Touch(Channels) \o Within(Slot(c), body)

get_chain_state(c) == Touch(Monitor(c))

\* Channel::balance holds the node state while it asks the monitor
balance(c) == Within(State, get_chain_state(c))

\* ChainTrackerEntry::from copies the state of every monitor
update_tracker == ForEach(LAMBDA c : Touch(Monitor(c)))

find_channel_with_funding_outpoint == ForEach(LAMBDA c : Touch(Slot(c)))

-----------------------------------------------------------------------------
(* The signing path: operations on one channel.                             *)

\* the node state is held while the validator reads the chain state
sign_counterparty_commitment_tx_phase2(c) == with_channel(c, balance(c))

validate_holder_commitment_tx_phase2(c) == with_channel(c, balance(c))

revoke_previous_holder_commitment(c) == with_channel(c, Touch(State))

htlcs_fulfilled(c) == with_channel(c, Touch(State))

\* the chain state is read before the allowlist is looked up
sign_delayed_sweep(c) == with_channel(c, get_chain_state(c) \o Touch(State))

sign_mutual_close_tx(c) == with_channel(c, Touch(State) \o Touch(State))

-----------------------------------------------------------------------------
(* Operations of the node.                                                  *)

new_channel(c) ==
  Touch(State) \o Touch(Tracker) \o Within(Channels, Touch(Slot(c)))

setup_channel(c) ==
  Within(Tracker,
         Touch(Channels) \o Touch(Slot(c))
         \o Within(Channels, Touch(Slot(c)))
         \o Touch(State)
         \o Within(Channels, Touch(Monitor(c)) \o update_tracker))

\* a setup on a ready channel: a splice
splice_channel(c) ==
  Within(Tracker,
         Touch(Channels) \o Within(Slot(c), Touch(Monitor(c)))
         \o Touch(State) \o Touch(Slot(c)) \o update_tracker)

\* Mutant: the map of channels is not released.
ForgetLeaks(c) ==
  <<<<"take", Channels>>>> \o Within(Slot(c), Touch(Monitor(c))) \o Touch(State)

forget_channel(c) ==
  Within(Channels, Within(Slot(c), Touch(Monitor(c))) \o Touch(State))

channel_balance ==
  Touch(Channels) \o ForEach(LAMBDA c : Within(Slot(c), balance(c)))

prune_channels ==
  Within(Channels,
         ForEach(LAMBDA c : Within(Slot(c), Touch(Monitor(c))))
         \o ForEach(LAMBDA c : Touch(Slot(c))) \o update_tracker)

get_heartbeat ==
  Touch(State) \o channel_balance \o Within(Tracker, prune_channels)

check_onchain_tx(c) ==
  Within(Channels, find_channel_with_funding_outpoint
                   \o Touch(State) \o Touch(Slot(c)))
  \o Touch(State)

unchecked_sign_onchain_tx(c) ==
  Within(Channels, find_channel_with_funding_outpoint)
  \o Within(Tracker,
            Within(Channels, Within(Slot(c), Touch(Monitor(c)))
                             \o update_tracker))

persist_all ==
  Touch(State) \o Within(Channels, ForEach(LAMBDA c : Touch(Slot(c))))
  \o Within(Tracker, update_tracker)

\* invoices, keysends and the allowlist
node_state == Touch(State)

\* Mutant: every block, not only one with a close, asks the channel.
DecodeAlways(c) ==
  Within(Monitor(c), Touch(Slot(c)) \o Within(Slot(c), Touch(State)))

\* the monitor's state is held while the transactions of the block are decoded;
\* a close asks the channel for its parameters, points and spendable HTLCs
push_transactions(c) ==
  Within(Monitor(c), IF closing
                     THEN Touch(Slot(c)) \o Within(Slot(c), Touch(State))
                     ELSE <<>>)

add_block ==
  Within(Tracker,
         ForEach(LAMBDA c : push_transactions(c) \o Touch(Monitor(c)))
         \o update_tracker)

\* RpcServer
handle_info == Touch(Tracker) \o Touch(Channels)

handle_channel_list == Within(Channels, ForEach(LAMBDA c : Touch(Slot(c))))

chaninfo ==
  Within(Channels, ForEach(LAMBDA c :
           Within(Slot(c), Touch(Monitor(c)) \o balance(c) \o Touch(Monitor(c)))))

Script(op, c) ==
  CASE op = "sign" -> sign_counterparty_commitment_tx_phase2(c)
    [] op = "validate" -> validate_holder_commitment_tx_phase2(c)
    [] op = "revoke" -> revoke_previous_holder_commitment(c)
    [] op = "fulfill" -> htlcs_fulfilled(c)
    [] op = "sweep" -> sign_delayed_sweep(c)
    [] op = "close" -> sign_mutual_close_tx(c)
    [] op = "new" -> new_channel(c)
    [] op = "setup" -> setup_channel(c)
    [] op = "splice" -> splice_channel(c)
    [] op = "forget" -> forget_channel(c)
    [] op = "balance" -> channel_balance
    [] op = "heartbeat" -> get_heartbeat
    [] op = "check_onchain" -> check_onchain_tx(c)
    [] op = "sign_onchain" -> unchecked_sign_onchain_tx(c)
    [] op = "persist_all" -> persist_all
    [] op = "state" -> node_state
    [] op = "block" -> add_block
    [] op = "info" -> handle_info
    [] op = "list" -> handle_channel_list
    [] op = "chaninfo" -> chaninfo

-----------------------------------------------------------------------------

LockInit == /\ steps = [t \in Threads |-> <<>>]
            /\ owner = [l \in Locks |-> NoThread]
            /\ ops \in MaxOps
            /\ closing \in Closes

Begin(t) ==
  /\ steps[t] = <<>>
  /\ ops[t] > 0
  /\ \E op \in Work[t], c \in Range(Slots) :
       steps' = [steps EXCEPT ![t] = Script(op, c)]
  /\ ops' = [ops EXCEPT ![t] = @ - 1]
  /\ UNCHANGED <<owner, closing>>

Take(t) ==
  /\ steps[t] # <<>>
  /\ Head(steps[t])[1] = "take"
  /\ owner[Head(steps[t])[2]] = NoThread
  /\ owner' = [owner EXCEPT ![Head(steps[t])[2]] = t]
  /\ steps' = [steps EXCEPT ![t] = Tail(@)]
  /\ UNCHANGED <<ops, closing>>

Drop(t) ==
  /\ steps[t] # <<>>
  /\ Head(steps[t])[1] = "drop"
  /\ owner' = [owner EXCEPT ![Head(steps[t])[2]] = NoThread]
  /\ steps' = [steps EXCEPT ![t] = Tail(@)]
  /\ UNCHANGED <<ops, closing>>

LockNext == \/ \E t \in Threads : Begin(t)
            \/ \E t \in Threads : Take(t)
            \/ \E t \in Threads : Drop(t)

ThreadStep(t) == Begin(t) \/ Take(t) \/ Drop(t)

\* The scheduler runs every thread that can run.
LockFairness == \A t \in Threads : WF_lockVars(ThreadStep(t))

LockSpec == LockInit /\ [][LockNext]_lockVars /\ LockFairness

-----------------------------------------------------------------------------

Holds(t) == {l \in Locks : owner[l] = t}

Waits(t) == /\ steps[t] # <<>>
            /\ Head(steps[t])[1] = "take"
            /\ owner[Head(steps[t])[2]] # NoThread

Rank(l) == CASE l[1] = "tracker" -> 1
             [] l[1] = "channels" -> 2
             [] l[1] = "slot" -> 3
             [] l[1] = "state" -> 4

Ranked == {l \in Locks : l[1] # "monitor"}

\* The LOCK ORDERING of node.rs: a thread that takes one of the four locks of
\* the node while it holds others takes them in the order tracker, channels,
\* channel_slot, state; in particular it never holds two slots at once, and
\* never holds the state while it reaches for a channel.
OrderKept ==
  \A t \in Threads :
    (steps[t] # <<>> /\ Head(steps[t])[1] = "take"
                     /\ Head(steps[t])[2] \in Ranked)
      => \A l \in Holds(t) \cap Ranked : Rank(l) < Rank(Head(steps[t])[2])

\* Every thread of S waits for a lock that a thread of S holds.
WaitCycle(S) == \A t \in S : Waits(t) /\ owner[Head(steps[t])[2]] \in S

\* The monitor of a channel that decodes a close waits for the slot of the
\* channel, whose holder may wait for that monitor.
MonitorWaitsForSlot(t) ==
  /\ closing
  /\ \E c \in Range(Slots) : owner[Monitor(c)] = t /\ Head(steps[t])[2] = Slot(c)

\* The lock order "to prevent deadlocks" leaves one way to deadlock, the one
\* that goes through a monitor, which the order does not name: threads wait
\* for each other only when one of them decodes the close of a channel in a
\* block and asks the channel while it holds the monitor.
OnlyMonitorCycles ==
  \A S \in SUBSET Threads \ {{}} :
    WaitCycle(S) => \E t \in S : MonitorWaitsForSlot(t)

\* The locks of the node are taken in order, and a deadlock needs a monitor.
LocksOrdered == OrderKept /\ OnlyMonitorCycles

\* Every operation that a thread starts ends while no channel is closed on
\* chain: no request hangs in the node, whatever the others do.
OperationsEnd ==
  \A t \in Threads : (~closing /\ steps[t] # <<>>) ~> (steps[t] = <<>>)

=============================================================================
