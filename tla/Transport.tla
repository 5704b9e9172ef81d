------------------------------ MODULE Transport -----------------------------
(***************************************************************************)
(* The way of a request from the node to the signer and back.              *)
(*                                                                         *)
(* The proxy (vls-proxy) runs a SignerLoop for each file descriptor of     *)
(* lightningd and a chain follower that calls the same GrpcSignerPort.     *)
(* Their requests go through one queue to the ProtocolAdapter, which       *)
(* numbers them, remembers them until they are answered, and sends them    *)
(* on the stream the signer (vlsd) opened.  When the signer connects       *)
(* again, the adapter replays the node's init message and sends again all  *)
(* requests that have no answer.  The signer handles one request at a time *)
(* and leaves the stream after it refused one.                             *)
(*                                                                         *)
(* The writer, the reader and the loops are concurrent tasks; the signer,  *)
(* its restarts and the network run against them.  A panic of the signer   *)
(* aborts its process, which is started again and connects again.          *)
(***************************************************************************)
EXTENDS Naturals, Sequences, FiniteSets, Functions

CONSTANTS
  Clients,     \* callers in the proxy
  Root,        \* the SignerLoop on lightningd's descriptor
  Fronts,      \* callers of GrpcSignerPort::handle_message (the follower)
  MaxCalls,    \* bound: MaxCalls[c], the calls of caller c
  MaxTries,    \* BACKOFF_RETRY_TIMES
  MaxConns,    \* bound: streams the signer opens before the last
  Overlap      \* whether a stream may open before the writer of the one
               \* before it was dropped

ASSUME TransportAssumption ==
  /\ Root \in Clients /\ Fronts \subseteq Clients \ {Root}
  /\ MaxCalls \in [Clients -> Nat \ {0}] /\ MaxTries \in Nat /\ MaxConns \in Nat
  /\ Overlap \in BOOLEAN

VARIABLES
  loop,      \* loop[c]: the caller's task
  queue,     \* the mpsc channel from the callers to the writer
  requests,  \* Requests.requests of the adapter: id to request
  next_id,   \* Requests.request_id
  receiver,  \* the stream whose writer holds the receiver's lock, or 0
  conns,     \* the streams, in the order they were opened
  cached,    \* init_message_cache holds the init message
  signer,    \* the signer's stream and what its loop accepts
  ran,       \* history: the last call of each client that was executed
  stopped    \* the proxy has exited

transportVars == <<loop, queue, requests, next_id, receiver, conns, cached, signer, ran,
          stopped>>

\* No request has this id; those of the adapter are numbered from 1 here.
DUMMY_REQUEST_ID == 0
NoReply == "none"

Up == ~stopped

Request(c, n, t) == [c |-> c, n |-> n, try |-> t]
InitRequest == Request(Root, 1, 0)
IsInit(req) == req.c = Root /\ req.n = 1

TransportInit ==
  /\ loop = [c \in Clients |->
               [pc |-> IF c = Root THEN "read" ELSE "off", n |-> 0, try |-> 0,
                reply |-> NoReply]]
  /\ queue = <<>>
  /\ requests = <<>>
  /\ next_id = 1
  /\ receiver = 0
  /\ conns = <<>>
  /\ cached = FALSE
  /\ signer = [conn |-> 0, mode |-> "off"]
  /\ ran = [c \in Clients |-> 0]
  /\ stopped = FALSE

-----------------------------------------------------------------------------
(* The callers.                                                            *)

\* ClientHsmFd makes a loop for a channel or a peer; the follower waits until
\* the port is ready.  Both follow the cached init.
StartLoop(c) ==
  /\ Up /\ loop[c].pc = "off" /\ cached
  /\ c \in Fronts \/ loop[Root].pc = "read"
  /\ loop' = [loop EXCEPT ![c].pc = "read"]
  /\ UNCHANGED <<queue, requests, next_id, receiver, conns, cached, signer, ran, stopped>>

\* A message of the node, or the next call of the follower: send_request.
Send(c) ==
  /\ Up /\ loop[c].pc = "read" /\ loop[c].n < MaxCalls[c]
  /\ loop' = [loop EXCEPT ![c] = [pc |-> "wait", n |-> @.n + 1, try |-> 0, reply |-> NoReply]]
  /\ queue' = Append(queue, Request(c, loop[c].n + 1, 0))
  /\ UNCHANGED <<requests, next_id, receiver, conns, cached, signer, ran, stopped>>

\* The end of a caller's task: the root loop triggers the shutdown, and the
\* follower's expect aborts the proxy.
EndLoop(c) ==
  /\ loop' = [loop EXCEPT ![c].pc = "end", ![c].reply = NoReply]
  /\ stopped' = (c = Root \/ c \in Fronts)
  /\ UNCHANGED <<queue, requests, next_id, receiver, conns, cached, signer, ran>>

\* The node closes the descriptor of a channel's loop.
CloseClient(c) ==
  /\ Up /\ c \notin Fronts \cup {Root}
  /\ loop[c].pc = "read"
  /\ EndLoop(c)

\* The reply is forwarded: a refusal as an error reply that fails this one
\* request, or, of a preapproval, as a decline.
Forwards(c) ==
  \/ loop[c].reply = "ok"
  \/ loop[c].reply = "refused" /\ c \notin Fronts /\ ~IsInit(Request(c, loop[c].n, 0))

\* handle_message and do_proxy_msg return to the caller.
Return(c) ==
  /\ Up /\ loop[c].pc = "wait" /\ Forwards(c)
  /\ loop' = [loop EXCEPT ![c].reply = NoReply,
                          ![c].pc = IF IsInit(Request(c, loop[c].n, 0)) THEN "cache" ELSE "read"]
  /\ UNCHANGED <<queue, requests, next_id, receiver, conns, cached, signer, ran, stopped>>

\* The root loop remembers the init message once it has forwarded the reply,
\* and the port is ready.
CacheInit ==
  /\ Up /\ loop[Root].pc = "cache"
  /\ cached' = TRUE
  /\ loop' = [loop EXCEPT ![Root].pc = "read"]
  /\ UNCHANGED <<queue, requests, next_id, receiver, conns, signer, ran, stopped>>

\* A temporary failure is retried with backoff, as a new request.
Retry(c) ==
  /\ Up /\ loop[c].pc = "wait" /\ loop[c].reply = "temporary" /\ loop[c].try < MaxTries
  /\ loop' = [loop EXCEPT ![c].try = @ + 1, ![c].reply = NoReply]
  /\ queue' = Append(queue, Request(c, loop[c].n, loop[c].try + 1))
  /\ UNCHANGED <<requests, next_id, receiver, conns, cached, signer, ran, stopped>>

\* The call fails: no retries are left, the request was dropped by the adapter,
\* or the refusal is one the caller cannot take.
GiveUp(c) ==
  /\ Up /\ loop[c].pc = "wait"
  /\ \/ loop[c].reply = "temporary" /\ loop[c].try = MaxTries
     \/ loop[c].reply = "dropped"
     \/ loop[c].reply = "refused" /\ ~Forwards(c)
  /\ EndLoop(c)

-----------------------------------------------------------------------------
(* The adapter.                                                            *)

Frame(id, req) == [id |-> id, req |-> req]

\* The writer's stream after one more frame, which is lost if the signer is gone.
Sent(k, frame) ==
  IF conns[k].joined THEN Append(conns[k].down, frame) ELSE <<>>

\* What the writer sends first.
Replay == IF cached THEN <<Frame(DUMMY_REQUEST_ID, InitRequest)>> ELSE <<>>

\* requests.range(ind..)
Outstanding(k, id) == id > conns[k].ind

\* writer_stream: send again, in the order of their ids, the requests that have
\* no answer.
Retransmit(k) ==
  /\ Up /\ conns[k].w = "scan"
  /\ LET ids == {id \in DOMAIN requests : Outstanding(k, id)}
     IN  \/ ids = {} /\ conns' = [conns EXCEPT ![k].w = "lock"]
         \/ \E id \in ids :
              /\ \A other \in ids : id <= other
              /\ conns' = [conns EXCEPT ![k].ind = id,
                                        ![k].down = Sent(k, Frame(id, requests[id]))]
  /\ UNCHANGED <<loop, queue, requests, next_id, receiver, cached, signer, ran, stopped>>

\* receiver.lock().await
LockReceiver(k) ==
  /\ Up /\ conns[k].w = "lock" /\ receiver = 0
  /\ receiver' = k
  /\ conns' = [conns EXCEPT ![k].w = "recv"]
  /\ UNCHANGED <<loop, queue, requests, next_id, cached, signer, ran, stopped>>

\* receiver.recv()
Receive(k) ==
  /\ Up /\ conns[k].w = "recv" /\ queue # <<>>
  /\ conns' = [conns EXCEPT ![k].w = "insert", ![k].taken = Head(queue)]
  /\ queue' = Tail(queue)
  /\ UNCHANGED <<loop, requests, next_id, receiver, cached, signer, ran, stopped>>

\* The reply of a request, if its caller still waits for it.
Delivered(req, reply) ==
  IF loop[req.c].pc = "wait" /\ loop[req.c].n = req.n /\ loop[req.c].try = req.try
  THEN [loop EXCEPT ![req.c].reply = reply] ELSE loop

\* requests.insert
Inserted(id, req) == [i \in DOMAIN requests \cup {id} |-> IF i = id THEN req ELSE requests[i]]

\* Mutant: a request is numbered by how many have no answer.
InsertReused(k) ==
  /\ Up /\ conns[k].w = "insert"
  /\ LET id == Cardinality(DOMAIN requests) + 1
     IN  /\ requests' = Inserted(id, conns[k].taken)
         /\ next_id' = next_id + 1
         /\ conns' = [conns EXCEPT ![k].w = "recv", ![k].taken = InitRequest,
                                   ![k].down = Sent(k, Frame(id, conns[k].taken))]
  /\ UNCHANGED <<loop, queue, receiver, cached, signer, ran, stopped>>

\* Mutant: a request is answered when it is sent.
InsertAnswers(k) ==
  /\ Up /\ conns[k].w = "insert"
  /\ loop' = Delivered(conns[k].taken, "ok")
  /\ next_id' = next_id + 1
  /\ conns' = [conns EXCEPT ![k].w = "recv", ![k].taken = InitRequest,
                            ![k].down = Sent(k, Frame(next_id, conns[k].taken))]
  /\ UNCHANGED <<requests, queue, receiver, cached, signer, ran, stopped>>

\* With the lock on the requests: number the request, remember it, send it.
Insert(k) ==
  /\ Up /\ conns[k].w = "insert"
  /\ requests' = Inserted(next_id, conns[k].taken)
  /\ next_id' = next_id + 1
  /\ conns' = [conns EXCEPT ![k].w = "recv", ![k].taken = InitRequest,
                            ![k].down = Sent(k, Frame(next_id, conns[k].taken))]
  /\ UNCHANGED <<loop, queue, receiver, cached, signer, ran, stopped>>

\* The proxy sees that the signer is gone and drops the writer, at whichever
\* await it is: with it goes the receiver's lock and a request it has taken.
DropWriter(k) ==
  /\ Up /\ ~conns[k].joined /\ conns[k].w # "gone"
  /\ conns' = [conns EXCEPT ![k].w = "gone", ![k].ind = 0, ![k].taken = InitRequest]
  /\ receiver' = IF receiver = k THEN 0 ELSE receiver
  /\ loop' = IF conns[k].w = "insert" THEN Delivered(conns[k].taken, "dropped") ELSE loop
  /\ UNCHANGED <<queue, requests, next_id, cached, signer, ran, stopped>>

\* requests.remove
Removed(id) == [i \in DOMAIN requests \ {id} |-> requests[i]]

\* start_stream_reader: one response.  Of the replayed init only a permanent
\* failure counts, and of an answered request a second response is dropped.
ReadResponse(k) ==
  /\ Up /\ conns[k].up # <<>>
  /\ LET resp == Head(conns[k].up)
     IN  /\ conns' = [conns EXCEPT ![k].up = Tail(@)]
         /\ \/ /\ resp.id = DUMMY_REQUEST_ID
               /\ stopped' = (resp.reply = "refused")
               /\ UNCHANGED <<loop, requests>>
            \/ /\ resp.id # DUMMY_REQUEST_ID /\ resp.id \in DOMAIN requests
               /\ requests' = Removed(resp.id)
               /\ loop' = Delivered(requests[resp.id], resp.reply)
               /\ UNCHANGED stopped
            \/ /\ resp.id # DUMMY_REQUEST_ID /\ resp.id \notin DOMAIN requests
               /\ UNCHANGED <<loop, requests, stopped>>
  /\ UNCHANGED <<queue, next_id, receiver, cached, signer, ran>>

\* The stream ends with an error: what was not read of it is lost.
ReaderEnds(k) ==
  /\ Up /\ ~conns[k].joined /\ conns[k].up # <<>>
  /\ conns' = [conns EXCEPT ![k].up = <<>>]
  /\ UNCHANGED <<loop, queue, requests, next_id, receiver, cached, signer, ran, stopped>>

-----------------------------------------------------------------------------
(* The signer.                                                             *)

\* do_connect, and signer_stream of the proxy.
OpenStream ==
  /\ Up /\ signer.mode = "off" /\ Len(conns) <= MaxConns
  /\ Overlap \/ \A k \in DOMAIN conns : conns[k].w = "gone"
  /\ conns' = Append(conns, [w |-> "scan", ind |-> 0, taken |-> InitRequest, joined |-> TRUE,
                             down |-> Replay, up |-> <<>>])
  /\ signer' = [conn |-> Len(conns) + 1, mode |-> "init"]
  /\ UNCHANGED <<loop, queue, requests, next_id, receiver, cached, ran, stopped>>

\* The connection after the signer left it: what it has sent may still arrive.
Left(k, up) == [conns EXCEPT ![k].joined = FALSE, ![k].down = <<>>, ![k].up = up]

\* The handler of the current mode accepts the request.
Accepts(req) == (signer.mode = "init") = IsInit(req)

\* One request: handled, committed, and answered (send_response).  The one
\* temporary failure is that a channel's funding is not buried yet.
HandleFrame ==
  /\ Up /\ signer.mode # "off"
  /\ LET k == signer.conn
         frame == Head(conns[k].down)
         Sends(reply) == Append(conns[k].up, [id |-> frame.id, req |-> frame.req, reply |-> reply])
     IN  /\ conns[k].down # <<>> /\ Accepts(frame.req)
         /\ ran' = IF frame.id = DUMMY_REQUEST_ID THEN ran
                   ELSE [ran EXCEPT ![frame.req.c] = frame.req.n]
         /\ \/ /\ conns' = [conns EXCEPT ![k].down = Tail(@), ![k].up = Sends("ok")]
               /\ signer' = [signer EXCEPT !.mode = "root"]
            \/ /\ frame.req.c \notin Fronts \cup {Root}
               /\ conns' = [conns EXCEPT ![k].down = Tail(@), ![k].up = Sends("temporary")]
               /\ UNCHANGED signer
            \/ /\ Len(conns) < MaxConns
               /\ conns' = Left(k, Sends("refused"))
               /\ signer' = [conn |-> 0, mode |-> "off"]
  /\ UNCHANGED <<loop, queue, requests, next_id, receiver, cached, stopped>>

\* A message that the init handler, or the root handler, does not implement.
Unimplemented ==
  /\ Up /\ signer.mode # "off"
  /\ conns[signer.conn].down # <<>>
  /\ ~Accepts(Head(conns[signer.conn].down).req)
  /\ conns' = Left(signer.conn, conns[signer.conn].up)
  /\ signer' = [conn |-> 0, mode |-> "off"]
  /\ UNCHANGED <<loop, queue, requests, next_id, receiver, cached, ran, stopped>>

\* The signer is restarted, or the connection breaks.
BreakStream ==
  /\ Up /\ signer.mode # "off" /\ Len(conns) < MaxConns
  /\ conns' = Left(signer.conn, conns[signer.conn].up)
  /\ signer' = [conn |-> 0, mode |-> "off"]
  /\ UNCHANGED <<loop, queue, requests, next_id, receiver, cached, ran, stopped>>

-----------------------------------------------------------------------------
Caller(c) == StartLoop(c) \/ Send(c) \/ CloseClient(c) \/ Return(c) \/ Retry(c) \/ GiveUp(c)
Writer(k) == Retransmit(k) \/ LockReceiver(k) \/ Receive(k) \/ Insert(k) \/ DropWriter(k)
Reader(k) == ReadResponse(k) \/ ReaderEnds(k)

TransportNext ==
  \/ \E c \in Clients : Caller(c)
  \/ CacheInit
  \/ \E k \in DOMAIN conns : Writer(k) \/ Reader(k)
  \/ OpenStream
  \/ HandleFrame
  \/ Unimplemented
  \/ BreakStream

\* Tasks that can take a step are scheduled, the signer handles what it is sent,
\* and one that is gone connects again.
Answers(c) == Return(c) \/ Retry(c) \/ GiveUp(c)
WriterRuns(k) == k \in DOMAIN conns /\ Writer(k)
ReaderRuns(k) == k \in DOMAIN conns /\ ReadResponse(k)

TransportFairness ==
  /\ \A c \in Clients : WF_transportVars(Answers(c))
  /\ WF_transportVars(CacheInit)
  /\ \A k \in 1..(MaxConns + 1) :
       WF_transportVars(WriterRuns(k)) /\ WF_transportVars(ReaderRuns(k))
  /\ WF_transportVars(OpenStream)
  /\ WF_transportVars(HandleFrame \/ Unimplemented)

TransportSpec == TransportInit /\ [][TransportNext]_transportVars /\ TransportFairness
-----------------------------------------------------------------------------
(* Properties.                                                             *)

Writers == {"scan", "lock", "recv", "insert", "gone"}
Replies == {"ok", "temporary", "refused"}
IsRequest(r) == r.c \in Clients /\ r.n \in 1..MaxCalls[r.c] /\ r.try \in 0..MaxTries
Ids == 1..(next_id - 1)

TransportTypeOK ==
  /\ \A c \in Clients :
       /\ loop[c].pc \in {"off", "read", "wait", "cache", "end"}
       /\ loop[c].n \in 0..MaxCalls[c] /\ loop[c].try \in 0..MaxTries
       /\ loop[c].reply \in Replies \cup {NoReply, "dropped"}
  /\ \A r \in Range(queue) : IsRequest(r)
  /\ DOMAIN requests \subseteq Ids /\ \A id \in DOMAIN requests : IsRequest(requests[id])
  /\ receiver \in 0..Len(conns)
  /\ \A k \in DOMAIN conns :
       /\ conns[k].w \in Writers /\ conns[k].ind \in Ids \cup {0}
       /\ \A f \in Range(conns[k].down) : f.id \in Ids \cup {DUMMY_REQUEST_ID}
       /\ \A r \in Range(conns[k].up) : r.reply \in Replies
  /\ signer.mode \in {"off", "init", "root"} /\ signer.conn \in 0..Len(conns)

\* A response is for the request it is delivered to (requests.remove of the
\* adapter): a late response of an earlier stream never answers another call.
ResponsesMatch ==
  \A k \in DOMAIN conns : \A r \in Range(conns[k].up) :
    r.id # DUMMY_REQUEST_ID /\ r.id \in DOMAIN requests => requests[r.id] = r.req

\* Where the request of a caller that waits is: in the queue, in the hands of a
\* writer, among the adapter's requests, or answered.
Places(c) ==
  LET req == Request(c, loop[c].n, loop[c].try)
  IN  {<<"queue", i>> : i \in {j \in DOMAIN queue : queue[j] = req}}
      \cup {<<"writer", k>> : k \in {j \in DOMAIN conns : /\ conns[j].w = "insert"
                                                        /\ conns[j].taken = req}}
      \cup {<<"requests", id>> : id \in {j \in DOMAIN requests : requests[j] = req}}
      \cup {<<"reply", r>> : r \in {loop[c].reply} \ {NoReply}}

\* It is in exactly one of them.
NoSilentLoss == \A c \in Clients : loop[c].pc = "wait" => Cardinality(Places(c)) = 1

\* No request is lost, doubled or answered with the response to another, whatever
\* streams break and overlap: each is in one place until its caller has the reply.
RequestsKept == TransportTypeOK /\ ResponsesMatch /\ NoSilentLoss

\* Callers are served at least once and in order, and every call ends.
Port == INSTANCE SignerPort WITH
  call <- [c \in Clients |-> loop[c].n],
  state <- [c \in Clients |->
              IF stopped \/ loop[c].pc = "end" THEN "failed"
              ELSE IF loop[c].pc = "wait" THEN "open" ELSE "answered"]
ImplementsPort == Port!Spec /\ Port!Ends
=============================================================================
