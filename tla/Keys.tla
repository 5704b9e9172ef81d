-------------------------------- MODULE Keys --------------------------------
(***************************************************************************)
(* The keys of a node and of its channels (vls-core: signer/derive.rs,     *)
(* signer/my_keys_manager.rs).  Nothing derived is stored: a restarted     *)
(* signer derives every key again from the seed and the channel ids in its *)
(* store, so a key may depend on nothing that a restart forgets.           *)
(*                                                                         *)
(* A key is the path of its derivation, a sequence of steps <<what, n>>    *)
(* from the seed; two keys are the same secret exactly if their paths are. *)
(***************************************************************************)
EXTENDS Naturals, FiniteSets, Sequences

CONSTANTS
  KeyStyles,     \* "native", "ldk", "lnd"
  KeyDbids,         \* channel numbers of the node
  StartTimes,    \* what starting_time may return
  MaxDerived,    \* bound: derivations of channel keys in one process
  MaxStarts      \* bound: processes

VARIABLES
  km,       \* the MyKeysManager of this process
  keyed,    \* the channels in memory: id -> their keys
  derived,  \* history: id -> all keys ever derived for it
  drawn,    \* history: ids that were generated
  redrawn,  \* history: an id was generated twice
  starts    \* history: starting times of the processes

keyVars == <<km, keyed, derived, drawn, redrawn, starts>>

LOCAL INSTANCE SequencesExt
LOCAL INSTANCE Functions

-----------------------------------------------------------------------------
(* Derivation *)

Seed == << <<"seed", 0>> >>
hkdf_sha256(key, info) == Append(key, <<info, 0>>)
new_master(key) == Append(key, <<"master", 0>>)
Hardened(key, i) == Append(key, <<"hardened", i>>)
Normal(key, i) == Append(key, <<"normal", i>>)

master_key(style) ==
  new_master(IF style = "native" THEN hkdf_sha256(Seed, "bip32 seed") ELSE Seed)

derive_key_lnd(master, family, index) ==
  LET coin == Hardened(Hardened(master, 1017), 1)
  IN  Normal(Normal(Hardened(coin, family), 0), index)

node_secret(style) ==
  CASE style = "native" -> hkdf_sha256(Seed, "nodeid")
    [] style = "ldk" -> Hardened(master_key(style), 0)
    [] style = "lnd" -> derive_key_lnd(master_key(style), 6, 0)

\* The wallet.
get_account_extended_key(style) ==
  IF style = "lnd"
  THEN Hardened(Hardened(Hardened(new_master(Seed), 84), 0), 0)
  ELSE Normal(Normal(new_master(hkdf_sha256(Seed, "bip32 seed")), 0), 0)

channels_seed == hkdf_sha256(Seed, "peer seed")

\* Of an LDK id 33 bits are cleared, so that its first bytes are an index.
keys_id(style, id) ==
  LET res == hkdf_sha256(channels_seed, "per-peer seed") \o id
  IN  IF style = "ldk" THEN Append(res, <<"cleared", 33>>) ELSE res

\* hkdf_sha256_keys: the i-th block of the expansion.
KeyBlock(id, i) == Append(hkdf_sha256(id, "c-lightning"), <<"block", i>>)

ChannelKeys(funding, revocation, htlc, payment, delayed, seed) ==
  [funding |-> funding, revocation |-> revocation, htlc |-> htlc,
   payment |-> payment, delayed |-> delayed, seed |-> seed]

native_channel_keys(id) ==
  ChannelKeys(KeyBlock(id, 0), KeyBlock(id, 1), KeyBlock(id, 2), KeyBlock(id, 3),
              KeyBlock(id, 4), KeyBlock(id, 5))

\* Each key is hashed from the one before it, the first from a child of the master
\* key whose index is in the id.
ldk_channel_keys(id) ==
  LET child        == Hardened(master_key("ldk"), 3) \o id
      channel_seed == id \o Seed \o child
      seed         == hkdf_sha256(channel_seed, "commitment seed")
      funding      == hkdf_sha256(seed, "funding key")
      revocation   == hkdf_sha256(funding, "revocation base key")
      payment      == hkdf_sha256(revocation, "payment key")
      delayed      == hkdf_sha256(payment, "delayed payment base key")
      htlc         == hkdf_sha256(delayed, "HTLC base key")
  IN  ChannelKeys(funding, revocation, htlc, payment, delayed, seed)

lnd_channel_keys(id, basepoint_index) ==
  LET key(family) == derive_key_lnd(master_key("lnd"), family, basepoint_index)
  IN  ChannelKeys(key(0), key(1), key(2), key(3), key(4), KeyBlock(id, 5))

channel_keys(style, id, basepoint_index) ==
  CASE style = "native" -> native_channel_keys(keys_id(style, id))
    [] style = "ldk" -> ldk_channel_keys(keys_id(style, id))
    [] style = "lnd" -> lnd_channel_keys(keys_id(style, id), basepoint_index)

-----------------------------------------------------------------------------
(* The keys of the node *)

\* get_bolt12_keypair: a tweak with the old call or the new one, or none.
get_bolt12_keypair(style, info, tweak) ==
  IF ~tweak THEN node_secret(style)
  ELSE IF ~info THEN Append(Hardened(master_key(style), 9735), <<"tweak", 0>>)
  ELSE node_secret(style) \o hkdf_sha256(hkdf_sha256(Seed, "derived secrets"), "info")

\* Which key answers for what.  The seed of inbound payments is the root the ids of
\* channels are drawn from.
NodeKeys(style) ==
  LET m == master_key(style)
      account == get_account_extended_key(style)
  IN  [node |-> node_secret(style), heartbeat |-> account,
       destination |-> Normal(account, 1), shutdown |-> Normal(account, 2),
       channel_ids |-> Hardened(m, 5), inbound_payment |-> Hardened(m, 5),
       random |-> Hardened(m, 4), peer_storage |-> Hardened(m, 6),
       receive_auth |-> Hardened(m, 7), bolt12 |-> Hardened(m, 9735),
       persistence |-> Hardened(m, 9736),
       bolt12_tweaked |-> get_bolt12_keypair(style, FALSE, TRUE),
       bolt12_tweaked_2 |-> get_bolt12_keypair(style, TRUE, TRUE),
       onion_reply |-> hkdf_sha256(Seed, "onion reply secret"),
       derived_secrets |-> hkdf_sha256(Seed, "derived secrets")]

-----------------------------------------------------------------------------
(* The keys manager *)

DbidIds == {<< <<"dbid", d>> >> : d \in KeyDbids}

\* MyKeysManager::new
NewManager(style, time) ==
  [style |-> style, start |-> time, channel_id_child_index |-> 0,
   lnd_basepoint_index |-> 0]

KeysInit ==
  \E style \in KeyStyles, time \in StartTimes :
    /\ km = NewManager(style, time)
    /\ keyed = << >>
    /\ derived = << >>
    /\ drawn = {}
    /\ redrawn = FALSE
    /\ starts = <<time>>

Noted(hist, id, keys) ==
  [i \in DOMAIN hist \union {id} |->
     (IF i \in DOMAIN hist THEN hist[i] ELSE {}) \union (IF i = id THEN {keys} ELSE {})]

\* get_channel_id: hashed from the starting time, the seed and a counted child.
get_channel_id(m) == << <<"start", m.start>>, <<"index", m.channel_id_child_index>> >>

\* Mutant: the index of the process goes into the keys of every style.
get_channel_keys_counted(m, id) ==
  LET keys == channel_keys(m.style, id, m.lnd_basepoint_index)
  IN  [keys EXCEPT !.payment = Append(@, <<"index", m.lnd_basepoint_index>>)]

\* get_channel_keys_with_id: every call counts.
get_channel_keys(m, id) == channel_keys(m.style, id, m.lnd_basepoint_index)
Counted(m) == [m EXCEPT !.lnd_basepoint_index = @ + 1]

\* find_or_create_channel: keys are derived for an id that has no slot.
AddChannel(m, id) ==
  IF id \in DOMAIN keyed
  THEN km' = m /\ UNCHANGED <<keyed, derived>>
  ELSE /\ m.lnd_basepoint_index < MaxDerived
       /\ km' = Counted(m)
       /\ keyed' = [i \in DOMAIN keyed \union {id} |->
                      IF i = id THEN get_channel_keys(m, id) ELSE keyed[i]]
       /\ derived' = Noted(derived, id, get_channel_keys(m, id))

\* new_channel, under the node's number.
NewChannelKeys(id) ==
  /\ AddChannel(km, id)
  /\ UNCHANGED <<drawn, redrawn, starts>>

\* new_channel_with_random_id
NewRandomChannel ==
  LET id == get_channel_id(km)
  IN  /\ AddChannel([km EXCEPT !.channel_id_child_index = @ + 1], id)
      /\ drawn' = drawn \union {id}
      /\ redrawn' = (redrawn \/ id \in drawn)
      /\ UNCHANGED starts

\* spend_spendable_outputs: the keys are derived again from the id in the
\* descriptor, to spend the outputs of a channel that may be gone.
SpendDescriptors(id) ==
  /\ km.lnd_basepoint_index < MaxDerived
  /\ km' = Counted(km)
  /\ derived' = Noted(derived, id, get_channel_keys(km, id))
  /\ UNCHANGED <<keyed, drawn, redrawn, starts>>

\* A channel is forgotten.
DropChannel(id) ==
  /\ keyed' = Restrict(keyed, DOMAIN keyed \ {id})
  /\ UNCHANGED <<km, derived, drawn, redrawn, starts>>

\* new_from_persistence: the stored channels get their keys again, in the order in
\* which the store lists them.
RestoreKeys(time, order) ==
  LET fresh == NewManager(km.style, time)
      At(i) == get_channel_keys([fresh EXCEPT !.lnd_basepoint_index = i - 1], order[i])
      Place(id) == CHOOSE i \in DOMAIN order : order[i] = id
  IN  /\ Len(starts) < MaxStarts
      /\ km' = [fresh EXCEPT !.lnd_basepoint_index = Len(order)]
      /\ keyed' = [id \in DOMAIN keyed |-> At(Place(id))]
      /\ derived' = [id \in DOMAIN derived |->
                       derived[id] \union {At(i) : i \in {j \in DOMAIN order : order[j] = id}}]
      /\ starts' = Append(starts, time)
      /\ UNCHANGED <<drawn, redrawn>>

KeysNext ==
  \/ \E id \in DbidIds : NewChannelKeys(id)
  \/ NewRandomChannel
  \/ \E id \in DOMAIN derived : SpendDescriptors(id)
  \/ \E id \in DOMAIN keyed : DropChannel(id)
  \/ \E time \in StartTimes, order \in SetToSeqs(DOMAIN keyed) : RestoreKeys(time, order)

-----------------------------------------------------------------------------
(* Properties *)

\* The keys two records name for different purposes.
Disjoint(a, b) == Range(a) \intersect Range(b) = {}

\* The styles whose keys are meant to be those of the node the signer replaces.
Rederives(style) == style \in {"native", "ldk"}

\* The keys of a channel stay its own: whatever is created, forgotten, spent and
\* restored, and in whichever order the store lists the channels after a restart, an
\* id gives the keys it gave first, with the native and the LDK derivation; with that
\* of LND the commitment seed (the basepoints follow a counter of the process).  The
\* channels in memory share no key with one another or with the node, and no two
\* purposes of the node share one but the two that are one by design.  Ids drawn by
\* the signer never repeat if its starting times do not.
KeysKept ==
  /\ \A id \in DOMAIN derived :
       /\ Rederives(km.style) => Cardinality(derived[id]) = 1
       /\ Cardinality({k.seed : k \in derived[id]}) = 1
  /\ \A id \in DOMAIN keyed :
       /\ Cardinality(Range(keyed[id])) = 6
       /\ Disjoint(keyed[id], NodeKeys(km.style))
       /\ \A other \in DOMAIN keyed \ {id} : Disjoint(keyed[id], keyed[other])
  /\ keyed # << >> =>
       LET keys == NodeKeys(km.style)
       IN  \A a, b \in DOMAIN keys \ {"inbound_payment"} : a # b => keys[a] # keys[b]
  /\ IsInjective(starts) => ~redrawn
=============================================================================
