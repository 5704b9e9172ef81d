------------------------------- MODULE Trace -------------------------------
(***************************************************************************)
(* The splice tracer (vls-core/src/trace, the instrumented operations of   *)
(* channel.rs and node.rs, and the scenario runner that drives it).  Every *)
(* global of the tracer has a lock of its own, so an operation's event is  *)
(* made of several steps with other threads between them: the one-time     *)
(* probe of the environment, the label of the funding era, the snapshot,   *)
(* the installation of a default sink, the numbering of the line and the   *)
(* write of the line.  One thread works on each channel, because an        *)
(* operation holds its channel's slot.                                     *)
(***************************************************************************)
EXTENDS Integers, Sequences, FiniteSets, SequencesExt

CONSTANTS
  Traced,         \* the channels, each driven by a thread of its own
  TraceLevel,     \* VLS_TRACE_LEVEL: 0 core, 1 base, 3 off
  EraCount,       \* the number of fundings a channel goes through
  Workloads,      \* [live, restores, ops, scenarios]: each channel's fundings at
                  \* the start, whether they are restored, the operations that
                  \* follow, and whether a scenario runner is at work too
  MaxSinks        \* sinks a process creates

VARIABLES
  tracer,   \* globals: [probed, on, slot (0 = no sink), labels]
  sinks,    \* the sinks of this process, in order of creation
  files,    \* file name -> the lines on disk
  eras,     \* channel -> its live fundings, oldest first
  work,     \* thread -> what it is doing
  told,     \* channel -> the operations of this process, in order
  load      \* the workload

traceVars == <<tracer, sinks, files, eras, work, told, load>>

NoSink == 0
Free == [at |-> "idle", n |-> 0, op |-> "none", era |-> 0, label |-> 0,
         after |-> <<>>, sink |-> NoSink, line |-> 0]

\* event.rs: the level of an event.  Operations and the driver's narrative are
\* core, the resolution of a funding view is a base diagnostic.
trace_level(op) == IF op = "view" THEN 1 ELSE 0

-----------------------------------------------------------------------------
(* Era labels: a channel's fundings are lettered in the order of sighting. *)

Labelled(labels, ch, out) ==
  IF \E i \in DOMAIN labels[ch] : labels[ch][i] = out
    THEN CHOOSE i \in DOMAIN labels[ch] : labels[ch][i] = out
    ELSE 0

\* The registry after label_for: an outpoint seen for the first time takes the
\* channel's next letter.
label_for(labels, ch, out) ==
  IF Labelled(labels, ch, out) # 0
    THEN labels
    ELSE [labels EXCEPT ![ch] = Append(@, out)]

\* The outpoints an operation labels, in order, before its event is built.
Sighted(op, live, out) ==
  CASE op = "restore" -> live
    [] op = "splice"  -> <<live[Len(live) - 1], live[Len(live)]>>
    [] op \in {"sign", "view"} ->
         IF out \in ToSet(live) THEN <<out>>
         ELSE IF op = "view" THEN <<live[Len(live)]>> ELSE <<>>
    [] OTHER -> <<out>>

\* snapshot_channel: the live eras in lineage order with the letters known now
\* (0 stands for "?": never sighted since the registry was cleared).
snapshot_channel(labels, ch, live) ==
  [i \in DOMAIN live |-> [out |-> live[i], label |-> Labelled(labels, ch, live[i])]]

-----------------------------------------------------------------------------
(* Sinks.  Creating one truncates its file and clears the registry.        *)

NoLabels == [ch \in Traced |-> <<>>]

\* VLS_TRACE_DIR is set; the level alone decides.
init_from_env == TraceLevel < 2

\* A sink writes through a file handle of its own, at its own offset.
NewSink(file) == [file |-> file, seq |-> 0, offset |-> 0, since |-> told]

DefaultFile == <<"vls">>

\* The events lost to the sink because another one was created over its file.
Clobbered(s) ==
  \E r \in DOMAIN sinks : r # s /\ sinks[r].file = sinks[s].file

-----------------------------------------------------------------------------
(* The steps of an instrumented operation.                                 *)

\* The effect of an operation on the channel's fundings: a splice adds one
\* (the chain keeps three), the lock of the newest retires the others.
Effect(op, live, out) ==
  CASE op = "splice" ->
         LET longer == Append(live, live[Len(live)] + 1)
         IN  SubSeq(longer, IF Len(longer) > 3 THEN 2 ELSE 1, Len(longer))
    [] op = "lock" /\ out = live[Len(live)] -> <<out>>
    [] OTHER -> live

Possible(op, live, out) == op = "splice" => out = live[Len(live)] + 1

\* The body of an operation.  Whether the tracer is on is read afterwards.
Operate(ch, op, out) ==
  /\ work[ch].at = "idle" /\ Len(told[ch]) < Len(load.ops[ch])
  /\ op \in load.ops[ch][Len(told[ch]) + 1]
  /\ Possible(op, eras[ch], out)
  /\ eras' = [eras EXCEPT ![ch] = Effect(op, @, out)]
  /\ told' = [told EXCEPT ![ch] = Append(@, [op |-> op, traced |-> FALSE])]
  /\ work' = [work EXCEPT ![ch] = [Free EXCEPT !.at = "enabled", !.op = op,
                !.n = Len(told[ch]) + 1, !.era = out]]
  /\ UNCHANGED <<tracer, sinks, files, load>>

\* enabled(): the first caller marks the probe as done before it has read the
\* environment, so a second caller may find the tracer still off.
Probe(ch) ==
  /\ work[ch].at = "enabled" /\ ~tracer.probed
  /\ tracer' = [tracer EXCEPT !.probed = TRUE]
  /\ work' = [work EXCEPT ![ch].at = "environment"]
  /\ UNCHANGED <<sinks, files, eras, told, load>>

ReadEnvironment(ch) ==
  /\ work[ch].at = "environment"
  /\ tracer' = [tracer EXCEPT !.on = init_from_env]
  /\ work' = [work EXCEPT ![ch].at = "enabled"]
  /\ UNCHANGED <<sinks, files, eras, told, load>>

Skip(ch) ==
  /\ work[ch].at = "enabled" /\ tracer.probed /\ ~tracer.on
  /\ work' = [work EXCEPT ![ch] = Free]
  /\ UNCHANGED <<tracer, sinks, files, eras, told, load>>

\* The payload: the sighted outpoints get their letters.
Label(ch) ==
  LET w == work[ch]
      labels == FoldLeft(LAMBDA l, o : label_for(l, ch, o), tracer.labels,
                         Sighted(w.op, eras[ch], w.era))
  IN  /\ w.at = "enabled" /\ tracer.probed /\ tracer.on
      /\ tracer' = [tracer EXCEPT !.labels = labels]
      /\ work' = [work EXCEPT ![ch].at = "snapshot",
                    ![ch].label = Labelled(labels, ch, w.era)]
      /\ UNCHANGED <<sinks, files, eras, told, load>>

Snapshot(ch) ==
  /\ work[ch].at = "snapshot"
  /\ work' = [work EXCEPT ![ch].at = "emit",
                ![ch].after = snapshot_channel(tracer.labels, ch, eras[ch])]
  /\ UNCHANGED <<tracer, sinks, files, eras, told, load>>

\* emit: without a current sink this thread installs the process's default
\* one; it does not hold the slot's lock meanwhile.
Emit(t) ==
  /\ work[t].at = "emit"
  /\ work' = [work EXCEPT ![t].at = IF tracer.slot = NoSink THEN "install" ELSE "take"]
  /\ UNCHANGED <<tracer, sinks, files, eras, told, load>>

\* TraceSink::install, up to the new file.
CreateSink(t, file) ==
  /\ init_from_env /\ Len(sinks) < MaxSinks
  /\ tracer' = [tracer EXCEPT !.labels = NoLabels, !.on = init_from_env, !.probed = TRUE]
  /\ files' = [f \in DOMAIN files \cup {file} |-> IF f = file THEN <<>> ELSE files[f]]
  /\ sinks' = Append(sinks, NewSink(file))
  /\ work' = [work EXCEPT ![t].at = "publish", ![t].sink = Len(sinks) + 1]
  /\ UNCHANGED <<eras, told, load>>

InstallDefault(ch) ==
  /\ work[ch].at = "install"
  /\ CreateSink(ch, DefaultFile)

\* The new sink becomes the current one.
Publish(t) ==
  /\ work[t].at = "publish"
  /\ tracer' = [tracer EXCEPT !.slot = work[t].sink]
  /\ work' = [work EXCEPT ![t].at = IF t = "driver" THEN "driving" ELSE "take"]
  /\ UNCHANGED <<sinks, files, eras, told, load>>

\* emit clones the current sink out of the slot; none is left when it was
\* uninstalled meanwhile.  Events above the level are dropped.
Take(ch) ==
  /\ work[ch].at = "take"
  /\ work' = [work EXCEPT ![ch] =
       IF tracer.slot = NoSink \/ trace_level(@.op) > TraceLevel
         THEN Free ELSE [@ EXCEPT !.at = "render", !.sink = tracer.slot]]
  /\ UNCHANGED <<tracer, sinks, files, eras, told, load>>

\* A line numbered by what is already in the file.
RenderByOffset(t) ==
  LET s == work[t].sink
  IN  /\ work[t].at = "render"
      /\ sinks' = [sinks EXCEPT ![s].seq = @ + 1]
      /\ work' = [work EXCEPT ![t].at = "write", ![t].line = sinks[s].offset + 1]
      /\ UNCHANGED <<tracer, files, eras, told, load>>

\* render_line: the line gets its number under the sink's lock.
Render(t) ==
  LET s == work[t].sink
  IN  /\ work[t].at = "render"
      /\ sinks' = [sinks EXCEPT ![s].seq = @ + 1]
      /\ work' = [work EXCEPT ![t].at = "write", ![t].line = sinks[s].seq + 1]
      /\ UNCHANGED <<tracer, files, eras, told, load>>

Line(t) == [by |-> t, n |-> work[t].n, op |-> work[t].op, era |-> work[t].era,
            label |-> work[t].label, after |-> work[t].after,
            seq |-> work[t].line, sink |-> work[t].sink]

\* A line written at a file's offset takes the place of what is there; an
\* offset past the end (the file was truncated) leaves a hole.
Hole == [by |-> "none", n |-> 0, op |-> "none", era |-> 0, label |-> 0,
         after |-> <<>>, seq |-> 0, sink |-> NoSink]
WrittenAt(lines, offset, line) ==
  [i \in 1..(IF Len(lines) > offset THEN Len(lines) ELSE offset + 1) |->
     IF i = offset + 1 THEN line
     ELSE IF i \in DOMAIN lines THEN lines[i] ELSE Hole]

\* emit_local's second lock: the line is written and flushed.
WriteLine(t) ==
  LET s == work[t].sink
      file == sinks[s].file
  IN  /\ work[t].at = "write"
      /\ files' = [files EXCEPT ![file] = WrittenAt(@, sinks[s].offset, Line(t))]
      /\ sinks' = [sinks EXCEPT ![s].offset = @ + 1]
      /\ told' = IF t = "driver" THEN told
                 ELSE [told EXCEPT ![t][work[t].n].traced = TRUE]
      /\ work' = [work EXCEPT ![t] =
           IF t = "driver" THEN [@ EXCEPT !.at = "driving"] ELSE Free]
      /\ UNCHANGED <<tracer, eras, load>>

-----------------------------------------------------------------------------
(* The scenario runner: it installs a sink of its own over whatever is     *)
(* current, narrates into it and uninstalls whatever is current then.      *)

ScenarioBegin ==
  /\ load.scenarios /\ work["driver"].at = "idle"
  /\ CreateSink("driver", <<"scenario">>)

ScenarioStep ==
  /\ work["driver"].at = "driving" /\ work["driver"].n = 0
  /\ work' = [work EXCEPT !["driver"].at = "render", !["driver"].n = @ + 1]
  /\ UNCHANGED <<tracer, sinks, files, eras, told, load>>

ScenarioFinish ==
  /\ work["driver"].at = "driving"
  /\ tracer' = [tracer EXCEPT !.slot = NoSink]
  /\ work' = [work EXCEPT !["driver"] = Free]
  /\ UNCHANGED <<sinks, files, eras, told, load>>

-----------------------------------------------------------------------------
(* A process starts with nothing of the tracer, with new channels or with  *)
(* restored ones, each of which it traces first.  A crash is the end of a   *)
(* behaviour: what the files hold in a state is what survives it.           *)

FreshTracer == [probed |-> FALSE, on |-> FALSE, slot |-> NoSink, labels |-> NoLabels]

Restored(ch) == [Free EXCEPT !.at = "enabled", !.op = "restore", !.n = 1,
                             !.era = load.live[ch][Len(load.live[ch])]]

TraceInit ==
  /\ tracer = FreshTracer /\ sinks = <<>> /\ files = <<>>
  /\ load \in Workloads
  /\ eras = load.live
  /\ work = [t \in Traced \cup {"driver"} |->
               IF t \in Traced /\ load.restores THEN Restored(t) ELSE Free]
  /\ told = [ch \in Traced |->
               IF load.restores THEN <<[op |-> "restore", traced |-> FALSE]>> ELSE <<>>]

TraceNext ==
  \/ \E ch \in Traced, op \in {"splice", "sign", "view", "lock"}, out \in 1..EraCount :
        Operate(ch, op, out)
  \/ \E ch \in Traced : Probe(ch)
  \/ \E ch \in Traced : ReadEnvironment(ch)
  \/ \E ch \in Traced : Skip(ch)
  \/ \E ch \in Traced : Label(ch)
  \/ \E ch \in Traced : Snapshot(ch)
  \/ \E ch \in Traced : Emit(ch)
  \/ \E ch \in Traced : InstallDefault(ch)
  \/ \E t \in DOMAIN work : Publish(t)
  \/ \E ch \in Traced : Take(ch)
  \/ \E t \in DOMAIN work : Render(t)
  \/ \E t \in DOMAIN work : WriteLine(t)
  \/ ScenarioBegin
  \/ ScenarioStep
  \/ ScenarioFinish

-----------------------------------------------------------------------------
(* Properties.                                                             *)

TraceTypeOK ==
  /\ tracer.slot \in 0..Len(sinks) /\ tracer.on \in BOOLEAN
  /\ \A ch \in Traced : Len(eras[ch]) \in 1..3
  /\ \A s \in DOMAIN sinks : sinks[s].offset <= sinks[s].seq

\* The lines of sink s that reached its file.
LinesOf(s) == SelectSeq(files[sinks[s].file], LAMBDA l : l.sink = s)

\* A channel's lines are in the order of its operations, and their numbers are
\* too, although lines of two channels may be written against their numbers.
InSequence(lines) ==
  \A i, j \in DOMAIN lines :
     /\ i # j => lines[i].seq # lines[j].seq
     /\ i < j /\ lines[i].by = lines[j].by =>
          lines[i].n < lines[j].n /\ lines[i].seq < lines[j].seq

\* The (outpoint, letter) pairs a line shows.
Shown(line) ==
  {<<line.by, line.era, line.label>>} \cup
  {<<line.by, line.after[i].out, line.after[i].label>> : i \in DOMAIN line.after}

\* The lines of operations that began after the sink was created: an operation
\* labelled before it took its letters from the cleared registry.
Begun(s, lines) ==
  SelectSeq(lines, LAMBDA l : l.by \in Traced /\ l.n > Len(sinks[s].since[l.by]))

\* One letter names one funding, and a funding has one letter.
StableLetters(lines) ==
  \A i, j \in DOMAIN lines : \A a \in Shown(lines[i]), b \in Shown(lines[j]) :
     a[1] = b[1] /\ a[3] # 0 /\ b[3] # 0 => (a[2] = b[2] <=> a[3] = b[3])

\* What the tracer writes can be read back: in the file of a sink that no other
\* sink was created over, the numbers are distinct and every channel's events
\* stand in the order of its operations; every line that was written is still
\* there after a crash; and for operations begun after the last installation,
\* a letter names one funding of the channel.
TraceReadable ==
  \A s \in DOMAIN sinks : ~Clobbered(s) =>
     /\ InSequence(LinesOf(s))
     /\ Len(LinesOf(s)) = sinks[s].offset
     /\ s = Len(sinks) => StableLetters(Begun(s, LinesOf(s)))
=============================================================================
