------------------------------- MODULE Device -------------------------------
(***************************************************************************)
(* The signer on a microcontroller (vls-signer-stm32): the card it keeps   *)
(* its nodes on, how it chooses one at the screen and starts it, and the   *)
(* store of one file per value that it updates by renaming files.  The     *)
(* power may fail between any two operations on the card and within a      *)
(* write.                                                                  *)
(*                                                                         *)
(* The card is a function from files to contents.  A call of the program   *)
(* is the queue of its operations on the card; one that the file system    *)
(* refuses ends it.  What the file system does (fatfs) is known only from  *)
(* its use here: create_file opens a file that exists and keeps its        *)
(* contents (which is why write_file_string truncates), rename refuses a   *)
(* target that exists and either happens or does not.                      *)
(***************************************************************************)
EXTENDS Naturals, FiniteSets, Sequences

CONSTANTS
  CardNodes,     \* directories the nodes may get
  Stored,        \* the values a node stores: "node", "nodestate", a channel ...
  ChannelFiles,  \* those of them that are channels
  MaxVersion,    \* bound: versions of a value
  MaxCuts,       \* bound: failures of the power
  MaxTouches     \* bound: what the user does at the screen

VARIABLES
  card,      \* file -> contents
  device,    \* [mode, queue, node]
  confirmed, \* history: <<node, value>> -> the version last stored
  cuts,
  touches,
  spoiled    \* history: values that were written over a longer remainder

deviceVars == <<card, device, confirmed, cuts, touches, spoiled>>

LOCAL INSTANCE SequencesExt
LOCAL INSTANCE Functions

TESTDIR == "test-mode"

-----------------------------------------------------------------------------
(* The file system *)

File(dir, name, ext) == <<dir, name, ext>>
RunPath == File("root", "RUNPATH", "")
Setting(n, name) == File(n, name, "")

\* A text, a version, the length, and whether the whole of it can be parsed.
Text(text) == [text |-> text, version |-> 0, len |-> 1, whole |-> TRUE]
EmptyText == [text |-> "", version |-> 0, len |-> 0, whole |-> FALSE]
\* Versions differ in length: every second one is long.
Version(v) == [text |-> "", version |-> v, len |-> 1 + (v % 2), whole |-> TRUE]

Op(op, file, to, contents) == [op |-> op, file |-> file, to |-> to, contents |-> contents]
Create(f) == Op("create", f, f, EmptyText)
Truncate(f) == Op("truncate", f, f, EmptyText)
WriteAll(f, c) == Op("write", f, f, c)
Move(f, to) == Op("rename", f, to, EmptyText)
MoveOk(f, to) == Op("rename?", f, to, EmptyText)
Unlink(f) == Op("remove", f, f, EmptyText)
UnlinkOk(f) == Op("remove?", f, f, EmptyText)
Ack(n, k, v) == Op("ack", File(n, k, ""), RunPath, Version(v))

On(f) == f \in DOMAIN card
With(f, c) == [g \in DOMAIN card \union {f} |-> IF g = f THEN c ELSE card[g]]
Dropping(f) == Restrict(card, DOMAIN card \ {f})

\* What is in a file after a write from its start.
Overwritten(f, c) == IF card[f].len > c.len THEN [c EXCEPT !.whole = FALSE] ELSE c

Refused(o) ==
  \/ o.op = "rename" /\ (~On(o.file) \/ On(o.to))
  \/ o.op = "remove" /\ ~On(o.file)

After(o) ==
  CASE o.op = "create" -> IF On(o.file) THEN card ELSE With(o.file, EmptyText)
    [] o.op = "truncate" -> With(o.file, EmptyText)
    [] o.op = "write" -> With(o.file, Overwritten(o.file, o.contents))
    [] o.op \in {"rename", "rename?"} ->
         IF On(o.file) /\ ~On(o.to)
         THEN [f \in (DOMAIN card \ {o.file}) \union {o.to} |->
                 card[IF f = o.to THEN o.file ELSE f]]
         ELSE card
    [] o.op \in {"remove", "remove?"} -> Dropping(o.file)
    [] o.op = "ack" -> card

-----------------------------------------------------------------------------
(* The store: FatJsonPersister *)

Old(n, k) == File(n, k, "old")
Cur(n, k) == File(n, k, "json")
New(n, k) == File(n, k, "new")

write_new_file(n, k, v) == <<Create(New(n, k)), WriteAll(New(n, k), Version(v))>>

\* Mutant: the file is removed and written again.
update_value_in_place(n, k, v) ==
  <<Unlink(Cur(n, k)), Create(Cur(n, k)), WriteAll(Cur(n, k), Version(v)), Ack(n, k, v)>>

update_value(n, k, v) ==
  write_new_file(n, k, v) \o
    <<Move(Cur(n, k), Old(n, k)), Move(New(n, k), Cur(n, k)), Unlink(Old(n, k)),
      Ack(n, k, v)>>

upsert_value(n, k, v) ==
  write_new_file(n, k, v) \o
    <<MoveOk(Cur(n, k), Old(n, k)), Move(New(n, k), Cur(n, k)),
      UnlinkOk(Old(n, k)), Ack(n, k, v)>>

insert_value(n, k, v) ==
  write_new_file(n, k, v) \o <<Move(New(n, k), Cur(n, k)), Ack(n, k, v)>>

delete_value(n, k) == <<Move(Cur(n, k), Old(n, k)), Unlink(Old(n, k))>>

\* What can be read back.
Readable(n, k) == On(Cur(n, k)) /\ card[Cur(n, k)].whole

\* list_keys: a file under any other name is an error.
ListsChannels(n) == \A k \in ChannelFiles : ~On(Old(n, k)) /\ ~On(New(n, k))

-----------------------------------------------------------------------------
(* The card of a device: SetupFS *)

\* write_file_string, write_seed_file
WriteFile(f, text) == <<Create(f), Truncate(f), WriteAll(f, Text(text))>>

\* create_rundir: a node with a seed, or the directory for tests.
create_rundir(n) ==
  WriteFile(Setting(n, "NETWORK"), "set") \o WriteFile(Setting(n, "KDSTYLE"), "set")
    \o WriteFile(Setting(n, IF n = TESTDIR THEN "TESTING" ELSE "SEED"), "set")

select_runpath(n) == WriteFile(RunPath, n)

\* manage_node: everything below the directory, in the order of the card, then the
\* test directory is selected.
delete_node(n) ==
  LET Add(f, queue) == Append(queue, Unlink(f))
  IN  FoldSet(Add, << >>, {f \in DOMAIN card : f[1] = n}) \o select_runpath(TESTDIR)

\* read_file_string: an empty file stops the device.
Crashes(f) == On(f) /\ card[f].len = 0

\* list_nodes: the directories with a network, whatever else they have.
ListedNodes == {n \in CardNodes \union {TESTDIR} : On(Setting(n, "NETWORK"))}

-----------------------------------------------------------------------------
(* The device *)

Off == [mode |-> "off", queue |-> << >>, node |-> ""]
Begin(mode, queue, n) == [mode |-> mode, queue |-> queue, node |-> n]

DeviceInit ==
  /\ card = << >>
  /\ device = Off
  /\ confirmed = [x \in CardNodes \X Stored |-> 0]
  /\ cuts = 0 /\ touches = 0 /\ spoiled = {}

\* initialize: a card without a selection gets the test directory.
PowerOn(setup) ==
  LET next == IF setup THEN "setup" ELSE "context"
  IN  /\ device.mode = "off"
      /\ device' = IF Crashes(RunPath) THEN [Off EXCEPT !.mode = "halted"]
                   ELSE Begin(next, IF On(RunPath) THEN << >>
                                    ELSE create_rundir(TESTDIR) \o select_runpath(TESTDIR), "")
      /\ UNCHANGED <<card, confirmed, cuts, touches, spoiled>>

\* The next operation on the card; a refused one stops the program.
CardStep ==
  LET o == Head(device.queue)
      k == <<o.file[1], o.file[2]>>
  IN  /\ device.mode \notin {"off", "halted"} /\ device.queue # << >>
      /\ IF Refused(o)
         THEN device' = [device EXCEPT !.mode = "halted", !.queue = << >>]
              /\ UNCHANGED <<card, confirmed, spoiled>>
         ELSE /\ card' = After(o)
              /\ device' = [device EXCEPT !.queue = Tail(@)]
              /\ confirmed' = IF o.op = "ack" THEN [confirmed EXCEPT ![k] = o.contents.version]
                          ELSE confirmed
              /\ spoiled' = IF o.op = "write" /\ ~Overwritten(o.file, o.contents).whole
                            THEN spoiled \union {k} ELSE spoiled
      /\ UNCHANGED <<cuts, touches>>

Resting(mode) == device.mode = mode /\ device.queue = << >>

\* setup_mode: a new node, with the seed drawn for it.
CreateNode(n) ==
  /\ Resting("setup") /\ touches < MaxTouches
  /\ \A m \in ListedNodes : ~Crashes(Setting(m, "NETWORK"))
  /\ \A f \in DOMAIN card : f[1] # n
  /\ touches' = touches + 1
  /\ device' = Begin("context", create_rundir(n) \o select_runpath(n), "")
  /\ UNCHANGED <<card, confirmed, cuts, spoiled>>

\* manage_node: a listed node is launched, switched to permissive or back, or, other
\* than the test directory, deleted.
ManageNode(n, what) ==
  LET permissive == Setting(n, "PERMISSIVE")
  IN  /\ Resting("setup") /\ touches < MaxTouches
      /\ \A m \in ListedNodes : ~Crashes(Setting(m, "NETWORK"))
      /\ n \in ListedNodes
      /\ touches' = touches + 1
      /\ \/ what = "launch" /\ device' = Begin("context", select_runpath(n), "")
         \/ what = "toggle" /\ device' = Begin("setup",
              IF On(permissive) THEN <<Unlink(permissive)>> ELSE WriteFile(permissive, "set"), "")
         \/ /\ what = "delete" /\ n # TESTDIR
            /\ device' = Begin("setup", delete_node(n), "")
      /\ confirmed' = IF what = "delete"
                  THEN [x \in DOMAIN confirmed |-> IF x[1] = n THEN 0 ELSE confirmed[x]] ELSE confirmed
      /\ UNCHANGED <<card, cuts, spoiled>>

\* context, then the start of the node: the selected directory has all that a node
\* needs; a node that was never stored is stored, a stored one restored.
ReadsContext(n) ==
  /\ \A s \in {"NETWORK", "KDSTYLE"} : On(Setting(n, s)) /\ ~Crashes(Setting(n, s))
  /\ On(Setting(n, "TESTING")) \/ (On(Setting(n, "SEED")) /\ card[Setting(n, "SEED")].whole)

Restores(n) ==
  /\ \A k \in Stored \ ChannelFiles : Readable(n, k)
  /\ ListsChannels(n)
  /\ \A k \in ChannelFiles : On(Cur(n, k)) => card[Cur(n, k)].whole

StoreNew(n) ==
  LET Add(k, queue) == queue \o upsert_value(n, k, 1)
  IN  FoldSet(Add, insert_value(n, "node", 1), Stored \ (ChannelFiles \union {"node"}))

StartNode ==
  LET n == card[RunPath].text
  IN  /\ Resting("context")
      /\ device' =
           IF ~ReadsContext(n) THEN [device EXCEPT !.mode = "halted"]
           ELSE IF On(Setting(n, "TESTING")) THEN Begin("testing", << >>, n)
           ELSE IF ~On(Cur(n, "node")) THEN Begin("normal", StoreNew(n), n)
           ELSE IF Restores(n) THEN Begin("normal", << >>, n)
           ELSE [device EXCEPT !.mode = "halted"]
      /\ UNCHANGED <<card, confirmed, cuts, touches, spoiled>>

\* A request that stores a value.
StoreValue(k) ==
  LET n == device.node
      v == confirmed[<<n, k>>]
  IN  /\ Resting("normal")
      /\ v < MaxVersion
      /\ \/ /\ k \in ChannelFiles /\ ~On(Cur(n, k))
            /\ device' = [device EXCEPT !.queue = insert_value(n, k, 1)]
            /\ confirmed' = confirmed
         \/ /\ On(Cur(n, k)) /\ v > 0
            /\ device' = [device EXCEPT !.queue = update_value(n, k, v + 1)]
            /\ confirmed' = confirmed
         \/ /\ k \in ChannelFiles /\ On(Cur(n, k))
            /\ device' = [device EXCEPT !.queue = delete_value(n, k)]
            /\ confirmed' = [confirmed EXCEPT ![<<n, k>>] = 0]
      /\ UNCHANGED <<card, cuts, touches, spoiled>>

\* The power fails, or the user resets a device that stopped; in the middle of a
\* write part of it is on the card.
PowerCut(within) ==
  /\ device.mode # "off"
  /\ cuts < MaxCuts
  /\ cuts' = cuts + 1
  /\ device' = Off
  /\ IF within
     THEN /\ device.queue # << >> /\ Head(device.queue).op = "write"
          /\ card' = With(Head(device.queue).file, [Head(device.queue).contents EXCEPT !.whole = FALSE])
     ELSE card' = card
  /\ UNCHANGED <<confirmed, touches, spoiled>>

DeviceNext ==
  \/ \E setup \in BOOLEAN : PowerOn(setup)
  \/ CardStep
  \/ \E n \in CardNodes : CreateNode(n)
  \/ \E n \in CardNodes \union {TESTDIR}, what \in {"launch", "toggle", "delete"} :
       ManageNode(n, what)
  \/ StartNode
  \/ \E k \in Stored \ {"node"} : StoreValue(k)
  \/ \E within \in BOOLEAN : PowerCut(within)

-----------------------------------------------------------------------------
(* Properties *)

\* Some file of a value holds the version `v` whole.
Holds(n, k, v) ==
  \E f \in {Old(n, k), Cur(n, k), New(n, k)} : On(f) /\ card[f].whole /\ card[f].version = v

\* Whenever the power fails, the card still holds the version of a value that was last
\* stored, or the one after it, in one of its three files (the queue of upsert_value and
\* update_value), unless it was written over the longer remainder of a write that an
\* earlier failure cut off: write_new_file does not truncate.  The seed of a node that
\* stored anything is whole until the user deletes the node.  And a device whose power
\* never failed does not stop: what is selected can be started and what was stored is
\* read back.
CardHolds ==
  /\ \A n \in CardNodes, k \in Stored :
       confirmed[<<n, k>>] > 0 /\ <<n, k>> \notin spoiled =>
         Holds(n, k, confirmed[<<n, k>>]) \/ Holds(n, k, confirmed[<<n, k>>] + 1)
  /\ \A n \in CardNodes :
       confirmed[<<n, "node">>] > 0 => On(Setting(n, "SEED")) /\ card[Setting(n, "SEED")].whole
  /\ cuts = 0 => device.mode # "halted"
=============================================================================
