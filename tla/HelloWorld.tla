----------------------------- MODULE HelloWorld -----------------------------
(***************************************************************************)
(* ucp_hello_world.cc: a client and a server exchange their UCX addresses  *)
(* (the server's over a socket, the client's by UCX), the server sends a   *)
(* test string, and the two sum their vectors: each sends the chunk that   *)
(* it owns, adds the other's chunk to its own copy, sends the sum back and *)
(* receives the sum of its own.  In the end they meet in barrier(), over   *)
(* the socket, before they destroy their workers.                          *)
(*                                                                         *)
(* A failure of a step of the exchange is only logged.  The options -e of  *)
(* the two processes, which kill one of them, are the variable mode.       *)
(*                                                                         *)
(* UCX is external: a blocking send of so few bytes returns when UCX has   *)
(* taken it; it has left, or is held by the worker until that progresses,  *)
(* or is refused.  The content of a chunk counts the contribution of each  *)
(* side.                                                                   *)
(***************************************************************************)
EXTENDS Integers, Sequences

CONSTANTS Modes,        \* failure modes: of "none", "send", "recv", "keepalive"
          SendResults,  \* subset of {"left", "held", "error"}
          RecvMayFail   \* a receive request may complete with an error

ASSUME ModesAssumption == Modes \subseteq {"none", "send", "recv", "keepalive"}

ASSUME ResultsAssumption == /\ SendResults \subseteq {"left", "held", "error"}
                            /\ RecvMayFail \in BOOLEAN

Sides == {"client", "server"}

Peer(s) == IF s = "client" THEN "server" ELSE "client"

Tag == 322414720  \* 0x1337a880, of the address and of the string

ChunkIds == 0 .. 1

\* The chunk that a side sends first, and the one that it sums.
Own(s)   == IF s = "client" THEN 1 ELSE 0
Other(s) == 1 - Own(s)

VARIABLES
  mode,      \* err_handling_opt.failure_mode
  alive,     \* side -> it has not been killed
  at,        \* side -> where it is
  outbox,    \* side -> messages its worker holds
  inbox,     \* side -> messages that have arrived at its worker
  chunk,     \* side -> content of its chunks
  ret,       \* side -> what main would return now
  epFailed,  \* side -> failure_handler has run
  token,     \* side -> it has sent the int of the barrier
  failed,    \* side -> one of its steps has failed
  joined     \* the sides whose own chunk UCX has taken (history)

data == <<outbox, inbox, chunk>>
vars == <<mode, alive, at, data, ret, epFailed, token, failed, joined>>

\* parse_cmd: -e chooses UCP_ERR_HANDLING_MODE_PEER and the failure to emulate.
ErrModePeer == mode # "none"

Value == [Sides -> Nat]
Text  == [p \in Sides |-> 0]  \* an address or a string: no contribution
Plus(v, w) == [p \in Sides |-> v[p] + w[p]]

\* init_vector_buffer; client and server are started in any order.
Init ==
  /\ mode \in Modes
  /\ alive = [s \in Sides |-> TRUE]
  /\ at = [s \in Sides |-> IF s = "client" THEN "connect" ELSE "listen"]
  /\ outbox = [s \in Sides |-> <<>>] /\ inbox = [s \in Sides |-> <<>>]
  /\ chunk = [s \in Sides |-> [c \in ChunkIds |-> [p \in Sides |-> IF p = s THEN 1 ELSE 0]]]
  /\ ret = [s \in Sides |-> -1]
  /\ epFailed = [s \in Sides |-> FALSE]
  /\ token = [s \in Sides |-> FALSE]
  /\ failed = [s \in Sides |-> FALSE]
  /\ joined = {}

Go(s, pc) == at' = [at EXCEPT ![s] = pc]

-----------------------------------------------------------------------------
\* The socket.  connect_common(NULL, ..): bind and listen, then accept.
Listen ==
  /\ at["server"] = "listen"
  /\ Go("server", "accept")
  /\ UNCHANGED <<mode, alive, data, ret, epFailed, token, failed, joined>>

\* connect_common(server, ..): main returns if nobody listens.
Connect ==
  /\ at["client"] = "connect"
  /\ IF at["server"] = "accept"
     THEN Go("client", "oob") /\ UNCHANGED failed
     ELSE Go("client", "over") /\ failed' = [failed EXCEPT !["client"] = TRUE]
  /\ UNCHANGED <<mode, alive, data, ret, epFailed, token, joined>>

\* accept returns, and the server sends the length and its address.
Accept ==
  /\ at["server"] = "accept" /\ at["client"] = "oob"
  /\ Go("server", "recvAddr")
  /\ UNCHANGED <<mode, alive, data, ret, epFailed, token, failed, joined>>

\* recv of the length and of the address, MSG_WAITALL.
OobRecv ==
  /\ at["client"] = "oob" /\ at["server"] # "accept"
  /\ Go("client", "makeEp")
  /\ UNCHANGED <<mode, alive, data, ret, epFailed, token, failed, joined>>

\* Variant: the two sides are taken for each other.
MakeEpSwapped(s) ==
  /\ at[s] = "makeEp"
  /\ Go(s, IF s = "server" THEN "sendAddr" ELSE "sendString")
  /\ ret' = [ret EXCEPT ![s] = IF s = "client" THEN -1 ELSE 0]
  /\ UNCHANGED <<mode, alive, data, epFailed, token, failed, joined>>

\* ucp_ep_create, by the client before it sends its address, by the server
\* when it has received that.  With -e the server takes a failure for success.
MakeEp(s) ==
  /\ at[s] = "makeEp"
  /\ \/ /\ Go(s, IF s = "client" THEN "sendAddr" ELSE "sendString")
        /\ ret' = [ret EXCEPT ![s] = IF s = "client" THEN -1 ELSE 0]
        /\ UNCHANGED failed
     \/ /\ "error" \in SendResults
        /\ Go(s, "sync")
        /\ ret' = [ret EXCEPT ![s] = IF s = "server" /\ ErrModePeer THEN 0 ELSE -1]
        /\ failed' = [failed EXCEPT ![s] = TRUE]
  /\ UNCHANGED <<mode, alive, data, epFailed, token, joined>>

-----------------------------------------------------------------------------
\* send_block(tag, content): ucp_tag_send_nbx and ucx_wait.
SendBlock(s, tag, content, ok, bad) ==
  \E result \in SendResults :
    LET m == [tag |-> tag, content |-> content] IN
    /\ result = "left" => outbox[s] = <<>>
    /\ outbox' = IF result = "held" THEN [outbox EXCEPT ![s] = Append(@, m)] ELSE outbox
    /\ inbox' = IF result = "left" THEN [inbox EXCEPT ![Peer(s)] = Append(@, m)] ELSE inbox
    /\ failed' = [failed EXCEPT ![s] = @ \/ result = "error"]
    /\ Go(s, IF result = "error" THEN bad ELSE ok)

\* The messages with a tag; UCX gives the first one.
Matching(s, tag) == {k \in DOMAIN inbox[s] : inbox[s][k].tag = tag}

\* Variant: the probe leaves the message (remove = 0).
TakeKept(s, tag, k) ==
  /\ k \in Matching(s, tag) /\ \A j \in Matching(s, tag) : k =< j
  /\ UNCHANGED inbox

\* ucp_tag_probe_nb takes it out.
TakeFirst(s, tag, k) ==
  /\ k \in Matching(s, tag) /\ \A j \in Matching(s, tag) : k =< j
  /\ inbox' = [inbox EXCEPT ![s] = SubSeq(@, 1, k - 1) \o SubSeq(@, k + 1, Len(@))]

\* receive_block when ucx_wait returns an error: the message is gone.
ReceiveFails(s, tag, bad) ==
  /\ RecvMayFail
  /\ \E k \in DOMAIN inbox[s] : TakeFirst(s, tag, k)
  /\ failed' = [failed EXCEPT ![s] = TRUE]
  /\ Go(s, bad)

\* The client sends its address; with -e recv it kills itself then.
SendAddr ==
  /\ at["client"] = "sendAddr"
  /\ SendBlock("client", Tag, Text, "recvString", "close")
  /\ alive' = [alive EXCEPT !["client"] = ~(mode = "recv" /\ at'["client"] = "recvString")]
  /\ UNCHANGED <<mode, chunk, ret, epFailed, token, joined>>

\* The server receives it; with -e send it kills itself then.
RecvAddr ==
  /\ at["server"] = "recvAddr"
  /\ \/ /\ \E k \in DOMAIN inbox["server"] : TakeFirst("server", Tag, k)
        /\ Go("server", "makeEp")
        /\ alive' = [alive EXCEPT !["server"] = mode # "send"]
        /\ UNCHANGED failed
     \/ ReceiveFails("server", Tag, "sync") /\ UNCHANGED alive
  /\ UNCHANGED <<mode, outbox, chunk, ret, epFailed, token, joined>>

\* The test string.  If it is refused the server reports a failure with -e,
\* and without waits for a failure_handler that no endpoint will call.
SendString ==
  /\ at["server"] = "sendString"
  /\ SendBlock("server", Tag, Text,
               IF mode = "keepalive" THEN "waitClient" ELSE "sendOwn",
               IF ErrModePeer THEN "close" ELSE "waitFailure")
  /\ ret' = [ret EXCEPT !["server"] = IF at'["server"] = "close" THEN -1 ELSE 0]
  /\ UNCHANGED <<mode, alive, chunk, epFailed, token, joined>>

\* while(ep_status == UCS_OK) progress
WaitFailure ==
  /\ at["server"] \in {"waitClient", "waitFailure"}
  /\ epFailed["server"]
  /\ Go("server", IF at["server"] = "waitClient" THEN "sendOwn" ELSE "close")
  /\ UNCHANGED <<mode, alive, data, ret, epFailed, token, failed, joined>>

RecvString ==
  /\ at["client"] = "recvString"
  /\ \/ /\ \E k \in DOMAIN inbox["client"] : TakeFirst("client", Tag, k)
        /\ Go("client", "sendOwn")
        /\ ret' = [ret EXCEPT !["client"] = 0]
        /\ UNCHANGED failed
     \/ ReceiveFails("client", Tag, "close") /\ UNCHANGED ret
  /\ UNCHANGED <<mode, alive, outbox, chunk, epFailed, token, joined>>

-----------------------------------------------------------------------------
\* chunk_send of the side's own chunk; a failure is logged.
SendOwn(s) ==
  /\ at[s] = "sendOwn"
  /\ SendBlock(s, Own(s), chunk[s][Own(s)], "reduce", "reduce")
  /\ joined' = IF failed'[s] THEN joined ELSE joined \cup {s}
  /\ UNCHANGED <<mode, alive, chunk, ret, epFailed, token>>

\* Variant: the chunk is received into its place, not added.
ReduceCopies(s) ==
  /\ at[s] = "reduce"
  /\ \/ /\ \E k \in DOMAIN inbox[s] :
             /\ TakeFirst(s, Other(s), k)
             /\ chunk' = [chunk EXCEPT ![s][Other(s)] = inbox[s][k].content]
        /\ Go(s, "forward")
        /\ UNCHANGED failed
     \/ ReceiveFails(s, Other(s), "recvSum") /\ UNCHANGED chunk
  /\ UNCHANGED <<mode, alive, outbox, ret, epFailed, token, joined>>

\* recieve_reduce_copy_send: receive into the scratch chunk, local_reduce; if
\* the receive fails the chunk is not sent ...
Reduce(s) ==
  /\ at[s] = "reduce"
  /\ \/ /\ \E k \in DOMAIN inbox[s] :
             /\ TakeFirst(s, Other(s), k)
             /\ chunk' = [chunk EXCEPT ![s][Other(s)] = Plus(@, inbox[s][k].content)]
        /\ Go(s, "forward")
        /\ UNCHANGED failed
     \/ ReceiveFails(s, Other(s), "recvSum") /\ UNCHANGED chunk
  /\ UNCHANGED <<mode, alive, outbox, ret, epFailed, token, joined>>

\* ... and chunk_send of the sum.
Forward(s) ==
  /\ at[s] = "forward"
  /\ SendBlock(s, Other(s), chunk[s][Other(s)], "recvSum", "recvSum")
  /\ UNCHANGED <<mode, alive, chunk, ret, epFailed, token, joined>>

\* chunk_recieve of the sum of the side's own chunk.
RecvSum(s) ==
  /\ at[s] = "recvSum"
  /\ LET next == IF s = "client" THEN "close" ELSE "flush" IN
     \/ /\ \E k \in DOMAIN inbox[s] :
             /\ TakeFirst(s, Own(s), k)
             /\ chunk' = [chunk EXCEPT ![s][Own(s)] = inbox[s][k].content]
        /\ Go(s, next)
        /\ UNCHANGED failed
     \/ ReceiveFails(s, Own(s), next) /\ UNCHANGED chunk
  /\ UNCHANGED <<mode, alive, outbox, ret, epFailed, token, joined>>

-----------------------------------------------------------------------------
\* flush_ep; then ret = 0.
Flush ==
  /\ at["server"] = "flush" /\ outbox["server"] = <<>>
  /\ ret' = [ret EXCEPT !["server"] = 0]
  /\ Go("server", "close")
  /\ UNCHANGED <<mode, alive, data, epFailed, token, failed, joined>>

\* ep_close_err_mode: flushes the endpoint, or with -e drops what it holds.
Close(s) ==
  /\ at[s] = "close"
  /\ ~ErrModePeer => outbox[s] = <<>>
  /\ outbox' = [outbox EXCEPT ![s] = <<>>]
  /\ Go(s, "sync")
  /\ UNCHANGED <<mode, alive, inbox, chunk, ret, epFailed, token, failed, joined>>

\* if(!ret && failure_mode == FAILURE_MODE_NONE) barrier: it sends its int.
Sync(s) ==
  /\ at[s] = "sync"
  /\ LET meets == ret[s] = 0 /\ ~ErrModePeer IN
       /\ Go(s, IF meets THEN "barrier" ELSE "over")
       /\ token' = [token EXCEPT ![s] = meets]
  /\ UNCHANGED <<mode, alive, data, ret, epFailed, failed, joined>>

\* Variant: the barrier waits for nobody.
BarrierOpen(s) ==
  /\ at[s] = "barrier"
  /\ Go(s, "over")
  /\ UNCHANGED <<mode, alive, data, ret, epFailed, token, failed, joined>>

\* poll and progress until the other's int is there, or its socket is closed;
\* then the socket is closed and the worker destroyed.
Barrier(s) ==
  /\ at[s] = "barrier"
  /\ token[Peer(s)] \/ at[Peer(s)] = "over"
  /\ ret' = [ret EXCEPT ![s] = IF token[Peer(s)] THEN 0 ELSE 1]
  /\ Go(s, "over")
  /\ UNCHANGED <<mode, alive, data, epFailed, token, failed, joined>>

-----------------------------------------------------------------------------
\* Variant: flush_ep and ep_close only look at the status of their request.
ProgressingNotFlushing(s) ==
  at[s] \in {"recvAddr", "recvString", "waitClient", "waitFailure", "reduce",
             "recvSum", "barrier"}

\* The loops that call ucp_worker_progress.
Progressing(s) ==
  at[s] \in {"recvAddr", "recvString", "waitClient", "waitFailure", "reduce",
             "recvSum", "flush", "close", "barrier"}

\* ucp_worker_progress sends what the worker holds.
Deliver(s) ==
  /\ Progressing(s) /\ outbox[s] # <<>>
  /\ outbox' = [outbox EXCEPT ![s] = Tail(@)]
  /\ inbox' = [inbox EXCEPT ![Peer(s)] = Append(@, Head(outbox[s]))]
  /\ UNCHANGED <<mode, alive, at, chunk, ret, epFailed, token, failed, joined>>

\* ... and finds out, with UCP_ERR_HANDLING_MODE_PEER, that the peer is dead.
PeerFailure(s) ==
  /\ ErrModePeer /\ ~alive[Peer(s)] /\ ~epFailed[s]
  /\ Progressing(s) /\ at[s] # "recvAddr"
  /\ epFailed' = [epFailed EXCEPT ![s] = TRUE]
  /\ UNCHANGED <<mode, alive, at, data, ret, token, failed, joined>>

\* -e keepalive: the server waits until somebody kills the client.
KillClient ==
  /\ mode = "keepalive" /\ alive["client"] /\ at["client"] \in {"sendOwn", "reduce"}
  /\ alive' = [alive EXCEPT !["client"] = FALSE]
  /\ UNCHANGED <<mode, at, data, ret, epFailed, token, failed, joined>>

\* What run_ucx_client and run_ucx_server share: the chunks, the endpoint.
Both(s) == \/ MakeEp(s) \/ SendOwn(s) \/ Reduce(s) \/ Forward(s) \/ RecvSum(s)
           \/ Close(s) \/ Sync(s) \/ Barrier(s) \/ Deliver(s) \/ PeerFailure(s)

Client == Connect \/ OobRecv \/ SendAddr \/ RecvString \/ Both("client")

Server == \/ Listen \/ Accept \/ RecvAddr \/ SendString \/ WaitFailure \/ Flush
          \/ Both("server")

Run(s) == alive[s] /\ IF s = "client" THEN Client ELSE Server

Ended == (\A s \in Sides : at[s] = "over") /\ UNCHANGED vars

Next == (\E s \in Sides : Run(s)) \/ KillClient \/ Ended

Spec == Init /\ [][Next]_vars

\* Both processes are scheduled, and a worker that is progressed again and
\* again sends what it holds.
FairSpec == Spec /\ \A s \in Sides : WF_vars(Run(s))

-----------------------------------------------------------------------------
(* Properties. *)

BothPcs   == {"makeEp", "sendOwn", "reduce", "forward", "recvSum", "close", "sync",
              "barrier", "over"}
ClientPcs == {"connect", "oob", "sendAddr", "recvString"}
ServerPcs == {"listen", "accept", "recvAddr", "sendString", "waitClient", "waitFailure",
              "flush"}

Message == [tag : ChunkIds \cup {Tag}, content : Value]

\* The types of the variables.
TypeOK ==
  /\ mode \in {"none", "send", "recv", "keepalive"}
  /\ alive \in [Sides -> BOOLEAN]
  /\ at \in [Sides -> BothPcs \cup ClientPcs \cup ServerPcs]
  /\ at["client"] \notin ServerPcs /\ at["server"] \notin ClientPcs
  /\ outbox \in [Sides -> Seq(Message)] /\ inbox \in [Sides -> Seq(Message)]
  /\ chunk \in [Sides -> [ChunkIds -> Value]]
  /\ ret \in [Sides -> {-1, 0, 1}]
  /\ epFailed \in [Sides -> BOOLEAN] /\ token \in [Sides -> BOOLEAN]
  /\ failed \in [Sides -> BOOLEAN]
  /\ joined \subseteq Sides

SumOfAll == [c \in ChunkIds |-> [p \in Sides |-> 1]]

\* "Make sure remote is disconnected before destroying local worker": a side
\* that returns success has destroyed its worker only after the other closed
\* its endpoint to it.
DisconnectedBeforeDestroyed ==
  \A s \in Sides : mode = "none" /\ at[s] = "over" /\ ret[s] = 0 =>
    at[Peer(s)] \in {"barrier", "over"}

\* A process that returns success took part in a complete allreduce: whatever
\* was refused or lost, each side has the sum, or has noticed a failure itself.
SuccessMeansSum ==
  \A s \in Sides : mode = "none" /\ at[s] = "over" /\ ret[s] = 0 =>
    \A p \in Sides : chunk[p] = SumOfAll \/ failed[p]

\* When the workers are destroyed without a failure, UCX holds no message of
\* theirs and has none for them.
NothingInFlight ==
  \A s \in Sides :
    at[s] = "over" /\ ret[s] = 0 /\ (\A p \in Sides : ~failed[p]) =>
      outbox[Peer(s)] = <<>> /\ inbox[s] = <<>>

\* Without -e both processes end, unless a step fails.
BothEnd == (mode = "none") => <>((\E s \in Sides : failed[s]) \/
                                 (\A s \in Sides : at[s] = "over"))

\* The exchange is an allreduce for a side that has had no failure, whatever
\* fails at the other or kills it.
Reduction == INSTANCE AllReduce WITH
  Ranks <- Sides, NoResult <- <<>>, joined <- joined,
  Sum <- [s \in Sides |-> SumOfAll],
  result <- [s \in Sides |->
    IF at[s] \in {"flush", "close", "sync", "barrier", "over"} /\ ~failed[s]
    THEN chunk[s] ELSE <<>>]

IsAllReduce == Reduction!Init /\ [][Reduction!Next]_(Reduction!vars)
=============================================================================
