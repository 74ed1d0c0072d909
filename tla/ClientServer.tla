---------------------------- MODULE ClientServer ----------------------------
(***************************************************************************)
(* ucp_client_server.c: one server that takes clients one at a time.  A    *)
(* client sends NumIterations messages, each once the one before is        *)
(* complete, and waits for a FIN; the server receives them, sends the FIN, *)
(* waits until the client has closed and takes the next.                   *)
(*                                                                         *)
(* The network and UCX are external.  What they are free to do: deliver    *)
(* connection requests in any order; complete a send at once or, by        *)
(* rendezvous, when it is received; run several callbacks in one           *)
(* ucp_worker_progress; report a dead or closed peer late.  Stream and tag *)
(* messages wait in UCX for their receive, active messages do not: their   *)
(* handler runs, or they are dropped when none is registered.              *)
(*                                                                         *)
(* Failures of ucp_listener_create, ucp_worker_create and malloc end the   *)
(* program before or between connections and are left out.                 *)
(***************************************************************************)
EXTENDS Naturals, Sequences

CONSTANTS Clients,        \* the clients that are started, each once
          NoClient,       \* the NULL of context.conn_request
          NumIterations,  \* -i, "Client and server must have the same value"
          Modes,          \* the communication types and protocols considered
          MayDie          \* whether a client may be killed

ASSUME IterationsAssumption == NumIterations \in Nat \ {0}

\* send_recv_type, and whether messages are large enough for rendezvous.
ASSUME ModesAssumption ==
  Modes \subseteq [api : {"stream", "tag", "am"}, rndv : BOOLEAN]

ASSUME MayDieAssumption == MayDie \in BOOLEAN

ASSUME NoClientAssumption == NoClient \notin Clients

Messages == Clients \X (1 .. NumIterations)

VARIABLES
  mode,               \* how this server and its clients were started
  server,             \* where run_server is
  conn_request,       \* context.conn_request: the client being served
  connection_closed,  \* connection_closed of the server
  am,                 \* am_data_desc of the server: its flag and its data
  client,             \* client -> where run_client is
  conn,               \* client -> what became of its connection request
  sent,               \* client -> messages it has posted
  out,                \* client -> messages posted and not received
  received,           \* client -> what the server's iterations received
  fin                 \* client -> what became of the FIN sent to it

serverVars == <<server, conn_request, connection_closed, am, received>>
clientVars == <<client, sent>>
vars == <<mode, serverVars, clientVars, conn, out, fin>>

Init ==
  /\ mode \in Modes
  /\ server = "listen" /\ conn_request = NoClient
  /\ connection_closed = TRUE
  /\ am = [complete |-> FALSE, msg |-> <<>>]
  /\ client = [c \in Clients |-> "start"]
  /\ conn = [c \in Clients |-> "none"]
  /\ sent = [c \in Clients |-> 0]
  /\ out = [c \in Clients |-> <<>>]
  /\ received = [c \in Clients |-> <<>>]
  /\ fin = [c \in Clients |-> "none"]

-----------------------------------------------------------------------------
(* The client. *)

Ended == {"closed", "failed", "dead"}

\* start_client: ucp_ep_create returns before the server has answered.
Connect(c) ==
  /\ client[c] = "start"
  /\ client' = [client EXCEPT ![c] = "post"]
  /\ conn' = [conn EXCEPT ![c] = "pending"]
  /\ UNCHANGED <<mode, serverVars, sent, out, fin>>

\* An iteration posts its message; UCX keeps it until there is a connection.
PostMessage(c) ==
  /\ client[c] = "post"
  /\ client' = [client EXCEPT ![c] = "wait"]
  /\ sent' = [sent EXCEPT ![c] = @ + 1]
  /\ out' = [out EXCEPT ![c] = Append(@, <<c, sent[c] + 1>>)]
  /\ UNCHANGED <<mode, serverVars, conn, fin>>

\* Variant: the client's loop runs once more.
MessageSentOneMore(c) ==
  /\ client[c] = "wait" /\ conn[c] = "accepted"
  /\ mode.rndv => Len(received[c]) >= sent[c]
  /\ client' = [client EXCEPT ![c] = IF sent[c] > NumIterations THEN "fin"
                                                                ELSE "post"]
  /\ UNCHANGED <<mode, serverVars, conn, sent, out, fin>>

\* request_wait ends: the message is with the server or, by rendezvous, has
\* been received there.  After the last, the handler for the FIN is registered.
MessageSent(c) ==
  /\ client[c] = "wait" /\ conn[c] = "accepted"
  /\ mode.rndv => Len(received[c]) >= sent[c]
  /\ client' = [client EXCEPT ![c] = IF sent[c] = NumIterations THEN "fin"
                                                                ELSE "post"]
  /\ UNCHANGED <<mode, serverVars, conn, sent, out, fin>>

\* The send ends in an error: the server rejected the client, or is gone.
SendFails(c) ==
  /\ client[c] = "wait" /\ (conn[c] = "rejected" \/ server = "down")
  /\ client' = [client EXCEPT ![c] = "failed"]
  /\ UNCHANGED <<mode, serverVars, conn, sent, out, fin>>

\* The client receives the FIN and closes the endpoint.
FinReceived(c) ==
  /\ client[c] = "fin" /\ fin[c] = "sent"
  /\ fin' = [fin EXCEPT ![c] = "received"]
  /\ client' = [client EXCEPT ![c] = "closed"]
  /\ UNCHANGED <<mode, serverVars, conn, sent, out>>

\* The FIN comes as an active message while the client, still in the
\* ucp_worker_progress that completes its last send, has no handler.  The
\* failure of a receive of the FIN needs a server that is killed: left out.
FinDropped(c) ==
  /\ mode.api = "am" /\ client[c] = "wait" /\ fin[c] = "sent"
  /\ fin' = [fin EXCEPT ![c] = "dropped"]
  /\ UNCHANGED <<mode, serverVars, clientVars, conn, out>>

\* A client is killed.
Die(c) ==
  /\ MayDie /\ client[c] \notin Ended \cup {"start"}
  /\ client' = [client EXCEPT ![c] = "dead"]
  /\ UNCHANGED <<mode, serverVars, sent, conn, out, fin>>

Client(c) == \/ Connect(c)   \/ PostMessage(c) \/ MessageSent(c) \/ SendFails(c)
             \/ FinReceived(c) \/ FinDropped(c)

-----------------------------------------------------------------------------
(* The server. *)

\* Variant: a later client replaces the one that waits.
ConnHandleLast(c) ==
  /\ server = "listen" /\ conn[c] = "pending"
  /\ conn_request' = c /\ conn' = [conn EXCEPT ![c] = "held"]
  /\ UNCHANGED <<mode, server, connection_closed, am, received>>
  /\ UNCHANGED <<clientVars, out, fin>>

\* server_conn_handle_cb, in the loop that progresses the connection worker;
\* one call may run it for several clients: the first stays, the rest go.
ConnHandle(c) ==
  /\ server = "listen" /\ conn[c] = "pending"
  /\ IF conn_request = NoClient
     THEN conn_request' = c /\ conn' = [conn EXCEPT ![c] = "held"]
     ELSE UNCHANGED conn_request /\ conn' = [conn EXCEPT ![c] = "rejected"]
  /\ UNCHANGED <<mode, server, connection_closed, am, received>>
  /\ UNCHANGED <<clientVars, out, fin>>

\* server_create_ep, and the start of client_server_do_work.
Accept ==
  /\ server = "listen" /\ conn_request # NoClient
  /\ conn' = [conn EXCEPT ![conn_request] = "accepted"]
  /\ connection_closed' = FALSE
  /\ server' = "recv"
  /\ UNCHANGED <<mode, conn_request, am, received, clientVars, out, fin>>

\* The client of the connection has closed it, or died.
PeerGone == conn_request # NoClient /\ client[conn_request] \in Ended

\* Any error on the server ends run_server.
Down == /\ server' = "down"
        /\ UNCHANGED <<mode, conn_request, connection_closed, am, received>>
        /\ UNCHANGED <<clientVars, conn, out, fin>>

\* server_create_ep for a client that is no longer there.
AcceptFails == server = "listen" /\ PeerGone /\ Down

\* Variant: an iteration too few before the FIN.
IterationSkipsLast(m) ==
  /\ received' = [received EXCEPT ![conn_request] = Append(@, m)]
  /\ server' = IF Len(received[conn_request]) + 2 >= NumIterations
               THEN "fin" ELSE "recv"

\* request_finalize of an iteration that received m, and the loop's condition.
Iteration(m) ==
  /\ received' = [received EXCEPT ![conn_request] = Append(@, m)]
  /\ server' = IF Len(received[conn_request]) + 1 = NumIterations
               THEN "fin" ELSE "recv"

\* Where a message can come from: a stream belongs to an endpoint; a tagged
\* receive (mask 0) and the handler take what reaches the data worker.
Senders == IF mode.api = "stream" THEN {conn_request}
           ELSE {c \in Clients : conn[c] = "accepted"}

\* send_recv_stream and send_recv_tag: the receive of an iteration completes.
Receive(c) ==
  /\ mode.api # "am" /\ server = "recv"
  /\ c \in Senders /\ out[c] # <<>>
  /\ Iteration(Head(out[c]))
  /\ out' = [out EXCEPT ![c] = Tail(@)]
  /\ UNCHANGED <<mode, conn_request, connection_closed, am>>
  /\ UNCHANGED <<clientVars, conn, fin>>

\* A stream receive fails with its endpoint; a tagged receive and the wait for
\* an active message do not, and go on waiting for a client that is dead.
ReceiveFails == mode.api = "stream" /\ server = "recv" /\ PeerGone /\ Down

\* Where the data worker is progressed.
Progressing == server \in {"recv", "pull", "finwait", "close"}

\* ucp_am_data_cb: there is one am_data_desc, whatever it holds is replaced.
AmDataCb(c) ==
  /\ mode.api = "am" /\ Progressing
  /\ c \in Senders /\ out[c] # <<>>
  /\ am' = [complete |-> TRUE, msg |-> Head(out[c])]
  /\ out' = [out EXCEPT ![c] = Tail(@)]
  /\ UNCHANGED <<mode, server, conn_request, connection_closed, received>>
  /\ UNCHANGED <<clientVars, conn, fin>>

\* Variant: the flag is not reset.
AmTakeKeepsFlag ==
  /\ mode.api = "am" /\ server = "recv" /\ am.complete
  /\ IF mode.rndv THEN server' = "pull" /\ UNCHANGED received
                  ELSE Iteration(am.msg)
  /\ UNCHANGED <<mode, conn_request, connection_closed, am, clientVars, conn, out, fin>>

\* send_recv_am: the loop on the flag ends; by rendezvous the data is asked for.
AmTake ==
  /\ mode.api = "am" /\ server = "recv" /\ am.complete
  /\ am' = [am EXCEPT !.complete = FALSE]
  /\ IF mode.rndv THEN server' = "pull" /\ UNCHANGED received
                  ELSE Iteration(am.msg)
  /\ UNCHANGED <<mode, conn_request, connection_closed, clientVars, conn, out, fin>>

\* ucp_am_recv_data_nbx completes,
Pulled ==
  /\ server = "pull"
  /\ Iteration(am.msg)
  /\ UNCHANGED <<mode, conn_request, connection_closed, am, clientVars, conn, out, fin>>

\* or fails with the endpoint.
PullFails == server = "pull" /\ PeerGone /\ Down

\* "FIN message in reverse direction to acknowledge delivery".
SendFin ==
  /\ server = "fin"
  /\ fin' = [fin EXCEPT ![conn_request] = "sent"]
  /\ server' = "finwait"
  /\ UNCHANGED <<mode, conn_request, connection_closed, am, received>>
  /\ UNCHANGED <<clientVars, conn, out>>

FinSent ==
  /\ server = "finwait"
  /\ mode.rndv => fin[conn_request] = "received"
  /\ server' = "close"
  /\ UNCHANGED <<mode, conn_request, connection_closed, am, received>>
  /\ UNCHANGED <<clientVars, conn, out, fin>>

\* The client has closed before the send of the FIN was complete, or is dead.
FinSendFails == server = "finwait" /\ PeerGone /\ Down

\* err_cb, in a loop that progresses the data worker.
ErrCb ==
  /\ Progressing /\ PeerGone /\ ~connection_closed
  /\ connection_closed' = TRUE
  /\ UNCHANGED <<mode, server, conn_request, am, received, clientVars, conn, out, fin>>

\* The loop on connection_closed ends, the endpoint is closed, and run_server
\* listens again.
NextClient ==
  /\ server = "close" /\ connection_closed
  /\ server' = "listen"
  /\ conn_request' = NoClient
  /\ UNCHANGED <<mode, connection_closed, am, received, clientVars, conn, out, fin>>

Server == \/ \E c \in Clients : ConnHandle(c) \/ Receive(c) \/ AmDataCb(c)
          \/ Accept \/ AmTake \/ Pulled \/ SendFin \/ FinSent \/ ErrCb \/ NextClient
          \/ AcceptFails \/ ReceiveFails \/ PullFails \/ FinSendFails

Next == Server \/ \E c \in Clients : Client(c) \/ Die(c)

Spec == Init /\ [][Next]_vars

\* The server and every client that is not killed run whenever they can.
FairSpec == /\ Spec
            /\ WF_vars(Server)
            /\ \A c \in Clients : WF_vars(Client(c))

-----------------------------------------------------------------------------
(* Properties. *)

\* The types of the variables; the server has a client in all its states but
\* two, and receives only while iterations are left.
TypeOK ==
  /\ mode \in Modes
  /\ server \in {"listen", "recv", "pull", "fin", "finwait", "close", "down"}
  /\ conn_request \in Clients \cup {NoClient}
  /\ conn_request = NoClient => server = "listen"
  /\ connection_closed \in BOOLEAN
  /\ am \in [complete : BOOLEAN, msg : Messages \cup {<<>>}]
  /\ client \in [Clients -> {"start", "post", "wait", "fin"} \cup Ended]
  /\ conn \in [Clients -> {"none", "pending", "held", "accepted", "rejected"}]
  /\ sent \in [Clients -> 0 .. NumIterations]
  /\ out \in [Clients -> Seq(Messages)]
  /\ received \in [Clients -> Seq(Messages)]
  /\ fin \in [Clients -> {"none", "sent", "received", "dropped"}]

\* The n-th iteration of the server for a client receives that client's n-th
\* message: none is lost, taken twice, or left over from a client before
\* ("The server gets a message from the client").
ReceivedInOrder ==
  \A c \in Clients : \A n \in DOMAIN received[c] : received[c][n] = <<c, n>>

\* "FIN message in reverse direction to acknowledge delivery": a client that
\* has been sent the FIN has had all its messages received.
FinAcknowledges ==
  \A c \in Clients : fin[c] # "none" => Len(received[c]) = NumIterations

\* When the server has moved on, nothing of an earlier client is left that the
\* next one's iterations could take for their own.
NothingLeftOver ==
  server = "listen" => /\ ~am.complete
                       /\ \A c \in Clients : conn[c] = "accepted" => out[c] = <<>>

\* No client waits for ever when none is killed: "the server will handle only
\* the first one and reject the rest", and moves on to the next.  Not so with
\* active messages, where FinDropped leaves client and server waiting.
ClientsEnd ==
  \A c \in Clients :
    (mode.api # "am" /\ client[c] # "start")
      ~> (client[c] \in Ended \/ \E d \in Clients : client[d] = "dead")
=============================================================================
