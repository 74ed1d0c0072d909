--------------------------- MODULE OffloadClient ---------------------------
(***************************************************************************)
(* test_offload_client.cc with ucp_init_resource.h: one client for each    *)
(* rank of the servers, each of which behaves as ReduceService says (that  *)
(* the servers of test_offload.cc do is OffloadServer's IsService).        *)
(*                                                                         *)
(* A client sends RequestNum requests, waits until the receive handler has *)
(* counted as many replies, sets the counter back, and sends as many again;*)
(* this time a thread waits for the replies while main computes.  All the  *)
(* requests are sent from the buffer that the replies are written to, so   *)
(* that a request carries what earlier replies have left there.            *)
(*                                                                         *)
(* Requests and replies are numbered; a content is the set of replies that *)
(* a byte of it may come from, 0 being the initial content.                *)
(***************************************************************************)
EXTENDS Integers, Sequences, FiniteSets, Functions

CONSTANTS Clients,      \* one for each rank
          RequestNum,   \* request_num
          Protocols,    \* the values rndv may have
          SendMayFail,  \* a send may fail, at once or later
          FailingPulls  \* <<client, reply>> whose data may not come

ASSUME ClientsAssumption == RequestNum \in Nat \ {0} /\ Protocols \subseteq BOOLEAN

VARIABLES
  pool, taken, answers,  \* of ReduceService
  main,      \* client -> where its main is
  sent,      \* client -> requests it has posted
  arrived,   \* client -> requests that have arrived at its server
  replied,   \* client -> replies whose handler has started
  nested,    \* client -> those whose handler is in ucx_wait, latest last
  receiveNum,\* client -> receive_num
  waiter,    \* client -> the thread of wait_allreduce
  buffer,    \* client -> content of buffer_ptrs[0]
  content,   \* client -> the content of its latest request
  rndv       \* whether the messages are sent by rendezvous

service == <<pool, taken, answers>>
received == <<replied, nested, receiveNum, buffer, content>>
vars == <<service, main, sent, arrived, received, waiter, rndv>>

Requests == 1 .. 2 * RequestNum

Service == INSTANCE ReduceService WITH
  Ranks <- Clients, Requests <- Requests, lost <- [c \in Clients |-> {}],
  pool <- pool, taken <- taken, answers <- answers

Init ==
  /\ Service!Init
  /\ main = [c \in Clients |-> "send"]
  /\ sent = [c \in Clients |-> 0]
  /\ arrived = [c \in Clients |-> 0]
  /\ replied = [c \in Clients |-> 0]
  /\ nested = [c \in Clients |-> <<>>]
  /\ receiveNum = [c \in Clients |-> 0]
  /\ waiter = [c \in Clients |-> "none"]
  /\ buffer = [c \in Clients |-> {0}]
  /\ content = [c \in Clients |-> {}]
  /\ rndv \in Protocols

-----------------------------------------------------------------------------
\* Variant: the server's callback queues a request before it has its data.
BeingReadLater(c) == main[c] = "sending"

\* UCX may read the buffer of the request that am_send_block waits for, until
\* it has arrived or, by rendezvous, until the server has pulled it.
BeingRead(c) ==
  /\ main[c] = "sending"
  /\ IF rndv THEN sent[c] \notin Range(taken[c]) ELSE sent[c] > arrived[c]

\* The buffer holds v from now on.
Written(c, v) ==
  /\ buffer' = [buffer EXCEPT ![c] = v]
  /\ content' = [content EXCEPT ![c] = IF BeingRead(c) THEN @ \cup v ELSE @]

\* Variant: the loops run once too often (i <= request_num).
AfterSendOneMore(c) ==
  IF sent'[c] = 2 * (RequestNum + 1) THEN "spawn"
  ELSE IF sent'[c] = RequestNum + 1 THEN "wait" ELSE "send"

\* Where main goes after a request: 2 * request_num in two loops.
AfterSend(c) ==
  IF sent'[c] = 2 * RequestNum THEN "spawn"
  ELSE IF sent'[c] = RequestNum THEN "wait" ELSE "send"

\* am_send_block: ucp_am_send_nbx returns a request that ucx_wait waits for,
\* or has sent the message at once (eager).
Send(c) ==
  /\ main[c] = "send"
  /\ sent' = [sent EXCEPT ![c] = @ + 1]
  /\ content' = [content EXCEPT ![c] = buffer[c]]
  /\ \E next \in {"sending"} \cup (IF rndv THEN {} ELSE {AfterSend(c)}) :
       main' = [main EXCEPT ![c] = next]
  /\ UNCHANGED <<service, arrived, replied, nested, receiveNum, waiter, buffer, rndv>>

\* It returns an error pointer, or the request has failed when ucx_wait
\* returns: main returns -1.
SendFails(c) ==
  /\ SendMayFail
  /\ \/ main[c] = "send" /\ main' = [main EXCEPT ![c] = "refused"]
     \/ /\ main[c] = "sending" /\ nested[c] = <<>>
        /\ main' = [main EXCEPT ![c] = "broken"]
  /\ UNCHANGED <<service, sent, arrived, waiter, received, rndv>>

\* ucx_wait returns.
SendDone(c) ==
  /\ main[c] = "sending" /\ nested[c] = <<>>
  /\ rndv => arrived[c] = sent[c]
  /\ UNCHANGED sent
  /\ main' = [main EXCEPT ![c] = AfterSend(c)]
  /\ UNCHANGED <<service, arrived, waiter, received, rndv>>

\* Variant: the counter is not set back.
WaitEndsKeeping(c) ==
  /\ main[c] = "wait" /\ nested[c] = <<>>
  /\ receiveNum[c] >= RequestNum
  /\ main' = [main EXCEPT ![c] = "send"]
  /\ UNCHANGED <<service, sent, arrived, waiter, received, rndv>>

\* while(receive_num < request_num) ends; receive_num = 0.
WaitEnds(c) ==
  /\ main[c] = "wait" /\ nested[c] = <<>>
  /\ receiveNum[c] >= RequestNum
  /\ receiveNum' = [receiveNum EXCEPT ![c] = 0]
  /\ main' = [main EXCEPT ![c] = "send"]
  /\ UNCHANGED <<service, sent, arrived, replied, nested, waiter, buffer, content, rndv>>

\* pthread_create(wait_allreduce); main computes.
Spawn(c) ==
  /\ main[c] = "spawn"
  /\ waiter' = [waiter EXCEPT ![c] = "waiting"]
  /\ main' = [main EXCEPT ![c] = "compute"]
  /\ UNCHANGED <<service, sent, arrived, received, rndv>>

Computed(c) ==
  /\ main[c] = "compute"
  /\ main' = [main EXCEPT ![c] = "join"]
  /\ UNCHANGED <<service, sent, arrived, waiter, received, rndv>>

\* Variant: the thread waits for one reply less.
WaiterEndsEarly(c) ==
  /\ waiter[c] = "waiting" /\ nested[c] = <<>>
  /\ receiveNum[c] >= RequestNum - 1
  /\ waiter' = [waiter EXCEPT ![c] = "ended"]
  /\ UNCHANGED <<service, main, sent, arrived, received, rndv>>

WaiterEnds(c) ==
  /\ waiter[c] = "waiting" /\ nested[c] = <<>>
  /\ receiveNum[c] >= RequestNum
  /\ waiter' = [waiter EXCEPT ![c] = "ended"]
  /\ UNCHANGED <<service, main, sent, arrived, received, rndv>>

\* pthread_join returns, and main.
Join(c) ==
  /\ main[c] = "join" /\ waiter[c] = "ended"
  /\ main' = [main EXCEPT ![c] = "end"]
  /\ UNCHANGED <<service, sent, arrived, waiter, received, rndv>>

\* Main progresses g_worker in ucx_wait and in its wait, then the thread does.
Progressing(c) == main[c] \in {"sending", "wait"} \/ waiter[c] = "waiting"

\* client_ucp_am_recv_handler, eager: the reply is copied and counted.
ReplyEager(c) ==
  /\ ~rndv
  /\ Progressing(c) /\ replied[c] < Len(answers[c])
  /\ replied' = [replied EXCEPT ![c] = @ + 1]
  /\ Written(c, {replied[c] + 1})
  /\ receiveNum' = [receiveNum EXCEPT ![c] = @ + 1]
  /\ UNCHANGED <<service, main, sent, arrived, nested, waiter, rndv>>

\* Rendezvous: the handler waits in ucx_wait, which progresses the worker and
\* so may call it again, while the data of both is written.
ReplyRendezvous(c) ==
  /\ rndv
  /\ Progressing(c) /\ replied[c] < Len(answers[c])
  /\ replied' = [replied EXCEPT ![c] = @ + 1]
  /\ nested' = [nested EXCEPT ![c] = Append(@, replied[c] + 1)]
  /\ Written(c, buffer[c] \cup {replied[c] + 1})
  /\ UNCHANGED <<service, main, sent, arrived, receiveNum, waiter, rndv>>

\* Variant: the handler returns without counting, as ucp_am_data_cb does.
ReplyUncounted(c) ==
  /\ nested[c] # <<>>
  /\ nested' = [nested EXCEPT ![c] = SubSeq(@, 1, Len(@) - 1)]
  /\ UNCHANGED <<service, main, sent, arrived, replied, receiveNum, waiter, rndv>>
  /\ UNCHANGED <<buffer, content>>

\* The innermost handler has its data: what the buffer held before it started
\* is overwritten, what was written meanwhile may have come later.
ReplyWritten(c) ==
  LET n == nested[c][Len(nested[c])]
      outer == SubSeq(nested[c], 1, Len(nested[c]) - 1)
  IN
  /\ nested[c] # <<>>
  /\ nested' = [nested EXCEPT ![c] = outer]
  /\ Written(c, {x \in buffer[c] : x >= n \/ x \in Range(outer)})
  /\ receiveNum' = [receiveNum EXCEPT ![c] = @ + 1]
  /\ UNCHANGED <<service, main, sent, arrived, replied, waiter, rndv>>

\* Or ucx_wait returns an error, which the handler does not look at: the reply
\* is counted, though the buffer need not hold it.
PullFails(c) ==
  /\ nested[c] # <<>>
  /\ <<c, nested[c][Len(nested[c])]>> \in FailingPulls
  /\ nested' = [nested EXCEPT ![c] = SubSeq(@, 1, Len(@) - 1)]
  /\ receiveNum' = [receiveNum EXCEPT ![c] = @ + 1]
  /\ UNCHANGED <<service, main, sent, arrived, replied, waiter, rndv>>
  /\ UNCHANGED <<buffer, content>>

Client(c) ==
  \/ Send(c)       \/ SendFails(c)       \/ SendDone(c)    \/ WaitEnds(c)
  \/ Spawn(c)      \/ Computed(c)        \/ Join(c)        \/ WaiterEnds(c)
  \/ ReplyEager(c) \/ ReplyRendezvous(c) \/ ReplyWritten(c) \/ PullFails(c)

\* The requests of a client arrive in the order they were sent.
Arrive(c) ==
  /\ arrived[c] < sent[c]
  /\ Service!Arrive(c, arrived[c] + 1)
  /\ arrived' = [arrived EXCEPT ![c] = @ + 1]
  /\ UNCHANGED <<main, sent, waiter, received, rndv>>

Serve(c) ==
  /\ Service!Serve(c)
  /\ UNCHANGED <<main, sent, arrived, waiter, received, rndv>>

AllEnded == \A c \in Clients : main[c] = "end"

Next == \/ \E c \in Clients : Client(c) \/ Arrive(c) \/ Serve(c)
        \/ AllEnded /\ UNCHANGED vars

\* The servers are fair to their clients, a network that delivers, and a
\* scheduler that runs every process; a send need not fail.
Spec == /\ Init /\ [][Next]_vars
        /\ \A c \in Clients : WF_vars(Client(c)) /\ WF_vars(Arrive(c)) /\ WF_vars(Serve(c))

-----------------------------------------------------------------------------
(* Properties. *)

\* The types of the variables.
TypeOK ==
  /\ main \in [Clients -> {"send", "sending", "wait", "spawn", "compute", "join",
                           "end", "refused", "broken"}]
  /\ sent \in [Clients -> 0 .. 2 * RequestNum]
  /\ arrived \in [Clients -> 0 .. 2 * RequestNum]
  /\ replied \in [Clients -> 0 .. 2 * RequestNum]
  /\ nested \in [Clients -> Seq(Requests)]
  /\ receiveNum \in [Clients -> Nat]
  /\ waiter \in [Clients -> {"none", "waiting", "ended"}]
  /\ buffer \in [Clients -> SUBSET (0 .. 2 * RequestNum)]
  /\ content \in [Clients -> SUBSET (0 .. 2 * RequestNum)]
  /\ rndv \in Protocols

SecondPhase(c) ==
  sent[c] > RequestNum \/ (sent[c] = RequestNum /\ main[c] \in {"send", "refused"})

\* Handlers nested in the progress calls of the send and of the wait, the
\* reset of the counter between the two measurements: receive_num is always
\* the number of replies to this measurement's requests whose handler has
\* returned (with their data or not), and none to the first comes during the
\* second.
RepliesCounted ==
  \A c \in Clients :
    receiveNum[c] = replied[c] - Len(nested[c])
                      - (IF SecondPhase(c) THEN RequestNum ELSE 0)

\* A client that ends leaves nobody behind: every client has sent all its
\* requests, and all of them have been taken into a sum.
NobodyLeft ==
  (\E c \in Clients : main[c] = "end") =>
    \A d \in Clients : sent[d] = 2 * RequestNum /\ Len(taken[d]) = 2 * RequestNum

\* The requests share their buffer with the replies, so that a request may
\* carry a reply, or parts of several; but only replies to earlier ones.
RepliesAreEarlier ==
  \A c \in Clients : content[c] \subseteq 0 .. sent[c] - 1

\* Every client ends, unless a send has failed: then its server waits for a
\* request that does not come, and the other clients for their replies.
ClientsEnd == <>(AllEnded \/ \E c \in Clients : main[c] \in {"refused", "broken"})
=============================================================================
