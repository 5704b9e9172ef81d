------------------------------- MODULE Serial -------------------------------
(***************************************************************************)
(* The serial proxy (vls-proxy/src/serial.rs) and the request loop of the  *)
(* device behind it (vls-signer-stm32/src/demo_signer_main.rs).            *)
(*                                                                         *)
(* The root loop, the loops of the node's other connections and the chain  *)
(* frontend share one port.  Each holds its lock from the header of its    *)
(* request to the last byte of the reply.  A request carries a sequence    *)
(* number that the reply repeats; the number is advanced once the reply's  *)
(* header was read.  The device answers in order and stops on the first    *)
(* request it refuses.  A proxy that starts again starts the sequence      *)
(* again, on a line that may still hold the reply to its predecessor.      *)
(***************************************************************************)
EXTENDS Integers, Sequences, FiniteSets, SequencesExt

CONSTANTS
  Connections,  \* the node's connections besides the root one
  Bodies,       \* the preapproval requests a loop may repeat
  Wrap,         \* sequence numbers; 2^16 in the code
  CacheSize,    \* preapprovals a loop remembers; 6 in the code
  CacheTTL,     \* how long one counts; 60 s in the code
  MaxNow,       \* bound on the clock
  MaxAsked,     \* bound on requests
  MaxProxies    \* bound on proxy processes

VARIABLES
  proxy,    \* [seq, ready, lock, epoch, up]: up is false once the device left
  loops,    \* user of the port -> its state
  wire,     \* [out, in]: the frames under way to the device and from it
  mcu,      \* the device: "init", "run" or "halted", and why it halted
  ticks,    \* the host's clock
  outstanding, \* the number of requests made
  replies   \* what was delivered

serialVars == <<proxy, loops, wire, mcu, ticks, outstanding, replies>>

Root == "root"
ChainFront == "front"
Users == {Root, ChainFront} \cup Connections
Nobody == "nobody"

NothingAsked == [kind |-> "none", content |-> "none", n |-> 0, time |-> 0]
Waiting(at) == [at |-> at, req |-> NothingAsked, seq |-> 0, cache |-> <<>>]

\* The request loops exist from the start or when the root connection asks for
\* one; the frontend does.  A loop that meets an error ends.
FreshLoops == [u \in Users |-> Waiting(IF u \in Connections THEN "absent" ELSE "idle")]

-----------------------------------------------------------------------------
(* The cache of preapprovals: least recently used first.                   *)

Cached(cache, content) == {i \in DOMAIN cache : cache[i].content = content}

\* LruCache::get and put.
Touched(cache, i) == Append(RemoveAt(cache, i), cache[i])

CachePut(cache, entry) ==
  LET others == SelectSeq(cache, LAMBDA e : e.content # entry.content)
  IN  Append(IF Len(others) = CacheSize THEN Tail(others) ELSE others, entry)

-----------------------------------------------------------------------------
(* The proxy.                                                              *)

\* What CLN sends on a connection: the root one starts with HsmdInit and may
\* open the others afterwards; the frontend waits for the port to be ready.
MayAsk(u, kind) ==
  /\ loops[u].at = "idle" /\ proxy.up /\ outstanding < MaxAsked
  /\ CASE u = Root  -> (kind = "init") = ~proxy.ready
       [] u = ChainFront -> kind = "other" /\ proxy.ready
       [] OTHER     -> kind \in {"approve", "other"}

\* ClientHsmFd: a loop for a new connection.
NewClient(c) ==
  /\ loops[Root].at = "idle" /\ proxy.ready /\ loops[c].at = "absent"
  /\ loops' = [loops EXCEPT ![c] = Waiting("idle")]
  /\ UNCHANGED <<proxy, wire, mcu, ticks, outstanding, replies>>

\* A request is read from a connection; it will go to the device.
AskDevice(u, kind, content) ==
  /\ MayAsk(u, kind)
  /\ kind = "approve" => Cached(loops[u].cache, content) = {}
  /\ outstanding' = outstanding + 1
  /\ loops' = [loops EXCEPT ![u].at = "want",
       ![u].req = [kind |-> kind, content |-> content, n |-> outstanding + 1, time |-> ticks]]
  /\ UNCHANGED <<proxy, wire, mcu, ticks, replies>>

\* A preapproval whose hash is in the loop's cache.  An entry from the future
\* ends the process; a fresh one answers; an old one does not.
Hit(u, content) ==
  LET i == CHOOSE j \in Cached(loops[u].cache, content) : TRUE
      entry == loops[u].cache[i]
  IN  /\ MayAsk(u, "approve") /\ Cached(loops[u].cache, content) # {}
      /\ entry.time <= ticks
      /\ outstanding' = outstanding + 1
      /\ IF ticks - entry.time < CacheTTL
           THEN /\ loops' = [loops EXCEPT ![u].cache = Touched(@, i)]
                /\ replies' = replies \cup
                     {[to |-> outstanding + 1, user |-> u, from |-> entry.n, seq |-> 0, replySeq |-> 0,
                       epoch |-> proxy.epoch, sent |-> proxy.epoch, age |-> ticks - entry.time,
                       content |-> content, of |-> entry.content]}
           ELSE /\ loops' = [loops EXCEPT ![u].cache = Touched(@, i), ![u].at = "want",
                     ![u].req = [kind |-> "approve", content |-> content,
                                 n |-> outstanding + 1, time |-> ticks]]
                /\ UNCHANGED replies
      /\ UNCHANGED <<proxy, wire, mcu, ticks>>

\* handle_message: with the port's lock, the header and the message are written.
Send(u) ==
  LET r == loops[u].req
  IN  /\ loops[u].at = "want" /\ proxy.lock = Nobody /\ proxy.up
      /\ proxy' = [proxy EXCEPT !.lock = u]
      /\ wire' = [wire EXCEPT !.out = Append(@, [seq |-> proxy.seq, n |-> r.n, kind |-> r.kind,
                    content |-> r.content, root |-> u \in {Root, ChainFront}, epoch |-> proxy.epoch])]
      /\ loops' = [loops EXCEPT ![u].at = "header", ![u].seq = proxy.seq]
      /\ UNCHANGED <<mcu, ticks, outstanding, replies>>

\* An error ends a loop; the frontend's port reports it and goes on.
Failed(u) == [loops EXCEPT ![u] = IF u = ChainFront THEN Waiting("idle") ELSE Waiting("gone")]

\* read_serial_response_header accepting any sequence number.
AnyHeader(frame, expected) == frame.part = "header"

\* read_serial_response_header: the magic and the expected sequence number.
HeaderOk(frame, expected) == frame.part = "header" /\ frame.seq = expected

\* The reply's header.  The sequence advances only when it is the right one; a
\* frame that is not is consumed all the same.
ReadHeader(u) ==
  LET frame == Head(wire.in)
      ok == HeaderOk(frame, proxy.seq)
  IN  /\ loops[u].at = "header" /\ wire.in # <<>>
      /\ wire' = [wire EXCEPT !.in = Tail(@)]
      /\ proxy' = IF ok THEN [proxy EXCEPT !.seq = (@ + 1) % Wrap]
                  ELSE [proxy EXCEPT !.lock = Nobody]
      /\ loops' = IF ok THEN [loops EXCEPT ![u].at = "body"] ELSE Failed(u)
      /\ UNCHANGED <<mcu, ticks, outstanding, replies>>

\* The reply's body, the write to the connection, and what the loop makes of
\* it: an approval is remembered with the time the request came in, the reply
\* to HsmdInit makes the port ready.
ReadBody(u) ==
  LET body == Head(wire.in)
      l == loops[u]
  IN  /\ l.at = "body" /\ wire.in # <<>>
      /\ wire' = [wire EXCEPT !.in = Tail(@)]
      /\ proxy' = [proxy EXCEPT !.lock = Nobody, !.ready = @ \/ l.req.kind = "init"]
      /\ loops' = [loops EXCEPT ![u].at = "idle", ![u].req = NothingAsked,
           ![u].cache = IF l.req.kind = "approve" /\ body.approved
                          THEN CachePut(@, [content |-> l.req.content, time |-> l.req.time,
                                       n |-> body.n])
                          ELSE @]
      /\ replies' = replies \cup
           {[to |-> l.req.n, user |-> u, from |-> body.n, seq |-> l.seq, replySeq |-> body.seq,
             epoch |-> proxy.epoch, sent |-> body.epoch, age |-> 0,
             content |-> l.req.content, of |-> body.content]}
      /\ UNCHANGED <<mcu, ticks, outstanding>>

\* The device went away: a read or a write fails.
LineError(u) ==
  /\ ~proxy.up /\ loops[u].at \in {"want", "header", "body"}
  /\ loops' = Failed(u)
  /\ proxy' = [proxy EXCEPT !.lock = IF @ = u THEN Nobody ELSE @]
  /\ UNCHANGED <<wire, mcu, ticks, outstanding, replies>>

\* The proxy is started again.  The frames the terminal still held are dropped
\* or not; the device may be about to answer the old proxy.
RestartProxy ==
  /\ proxy.epoch < MaxProxies
  /\ proxy' = [seq |-> 0, ready |-> FALSE, lock |-> Nobody, epoch |-> proxy.epoch + 1,
               up |-> TRUE]
  /\ loops' = FreshLoops
  /\ wire' \in {wire, [wire EXCEPT !.in = <<>>]}
  /\ UNCHANGED <<mcu, ticks, outstanding, replies>>

SerialTick ==
  /\ ticks' \in {ticks - 1, ticks + 1} \cap 0..MaxNow
  /\ UNCHANGED <<proxy, loops, wire, mcu, outstanding, replies>>

-----------------------------------------------------------------------------
(* The device: handle_init_requests until HsmdInit, then handle_requests.  *)

Answer(r, approved) ==
  LET frame(part) == [part |-> part, seq |-> r.seq, n |-> r.n, content |-> r.content,
                      epoch |-> r.epoch, approved |-> approved]
  IN  <<frame("header"), frame("body")>>

\* Why the device stops on a request: one for a channel, or not HsmdInit, while
\* it waits for HsmdInit; HsmdInit when it was initialised already.
Stops(r) ==
  IF mcu.mode = "init"
    THEN (IF ~r.root \/ r.kind # "init" THEN "early" ELSE "no")
    ELSE (IF r.kind = "init" THEN "again" ELSE "no")

\* A request is read, handled and answered; one that is refused halts it.
Serve(approved, refused) ==
  LET r == Head(wire.out)
      why == IF Stops(r) # "no" THEN Stops(r) ELSE IF refused THEN "refused" ELSE "no"
  IN  /\ mcu.mode \in {"init", "run"} /\ wire.out # <<>>
      /\ wire' = [out |-> Tail(wire.out),
                  in |-> IF why = "no" THEN wire.in \o Answer(r, approved) ELSE wire.in]
      /\ mcu' = IF why = "no" THEN [mcu EXCEPT !.mode = "run"]
                ELSE [mode |-> "halted", why |-> why]
      /\ UNCHANGED <<proxy, loops, ticks, outstanding, replies>>

\* The device is reset: it leaves the bus, and waits for HsmdInit again.
ResetDevice ==
  /\ mcu.mode = "halted"
  /\ mcu' = [mode |-> "init", why |-> "no"]
  /\ wire' = [out |-> <<>>, in |-> <<>>]
  /\ proxy' = [proxy EXCEPT !.up = FALSE]
  /\ UNCHANGED <<loops, ticks, outstanding, replies>>

SerialInit ==
  /\ proxy = [seq |-> 0, ready |-> FALSE, lock |-> Nobody, epoch |-> 1, up |-> TRUE]
  /\ loops = FreshLoops
  /\ wire = [out |-> <<>>, in |-> <<>>]
  /\ mcu = [mode |-> "init", why |-> "no"]
  /\ ticks = 0 /\ outstanding = 0 /\ replies = {}

SerialNext ==
  \/ \E c \in Connections : NewClient(c)
  \/ \E u \in Users : AskDevice(u, "init", "none")
  \/ \E u \in Users : AskDevice(u, "other", "none")
  \/ \E u \in Users, c \in Bodies : AskDevice(u, "approve", c)
  \/ \E u \in Users, c \in Bodies : Hit(u, c)
  \/ \E u \in Users : Send(u)
  \/ \E u \in Users : ReadHeader(u)
  \/ \E u \in Users : ReadBody(u)
  \/ \E u \in Users : LineError(u)
  \/ RestartProxy
  \/ SerialTick
  \/ \E approved, refused \in BOOLEAN : Serve(approved, refused)
  \/ ResetDevice

-----------------------------------------------------------------------------
(* Properties.                                                             *)

SerialTypeOK ==
  /\ proxy.seq \in 0..(Wrap - 1) /\ proxy.lock \in Users \cup {Nobody}
  /\ \A u \in Users : Len(loops[u].cache) <= CacheSize
  /\ mcu.mode \in {"init", "run", "halted"}

\* A reply is the device's answer to the request it is delivered for, whichever
\* users share the port, and whatever framing errors came before.  The one
\* exception is the HsmdInit of a proxy that was started again, which may be
\* given its predecessor's reply if that one had sequence number 0.
OwnReply(r) ==
  \/ r.from = r.to
  \/ r.epoch > r.sent /\ r.user = Root /\ r.seq = 0 /\ r.replySeq = 0

\* The serial line keeps requests and replies together: every delivered reply
\* is its request's own, or a fresh approval of the same request from the
\* loop's cache; one user at a time waits for the device; and no user reaches
\* the device before HsmdInit did, unless the device was reset meanwhile.
SerialPairs ==
  /\ \A r \in replies :
       \/ OwnReply(r)
       \/ r.of = r.content /\ r.content # "none" /\ r.epoch = r.sent /\ r.age < CacheTTL
  /\ \A u \in Users : loops[u].at \in {"header", "body"} => proxy.lock = u
  /\ mcu.why # "early"
=============================================================================
