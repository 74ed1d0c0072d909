--------------------------- MODULE OffloadServer ---------------------------
(***************************************************************************)
(* test_offload.cc -o: every rank is a server.  A client sends it requests *)
(* (active messages that carry an input buffer) without waiting for the    *)
(* replies; ucp_am_data_cb queues them; main takes one, copies it into the *)
(* input buffer, has the threads execute the schedule, and replies with    *)
(* the input buffer.  The n-th request of a rank carries its own content,  *)
(* epoch n of module Interpreter; epoch 0 is the content of no request:    *)
(* what is in the input buffer before the first, and what malloc left in   *)
(* the buffer of a request whose data could not be pulled.                 *)
(*                                                                         *)
(* Threads are those of Interpreter, but go round: pc "done" is sem_wait   *)
(* on sem_4_th_wait.  The clients, and UCX's delivery of their requests in *)
(* the order they were sent, are external.                                 *)
(***************************************************************************)
EXTENDS Interpreter, Functions

CONSTANTS NRequests,     \* requests that each rank's client sends
          AmRendezvous,  \* requests arrive by rendezvous (ucx_wait in the callback)
          FailingPulls   \* <<rank, request>> for which that may return an error

ASSUME RequestsAssumption == NRequests \in Nat /\ Epochs = 0 .. NRequests

\* Every rank has threads: main waits for one at least.
ASSUME BlocksAssumption == \A r \in Ranks : Sched[r].tbs # <<>>

ASSUME AmAssumption == AmRendezvous \in BOOLEAN

VARIABLES
  main,      \* rank -> where its main is
  cnt,       \* rank -> tokens posted, or collected, for this request
  thSem,     \* rank -> sem_4_th_wait
  mainSem,   \* rank -> sem_4_main_wait
  arrived,   \* rank -> requests whose callback has started
  pulling,   \* rank -> requests whose callback waits for the data, latest last
  queue,     \* rank -> recv_buffer_ptr_queue
  taken,     \* rank -> the requests main has popped, in order (history)
  unfilled,  \* rank -> requests queued although their pull failed
  executed,  \* thread -> executions of its tb it has ended (history)
  replies    \* rank -> the contents sent back

serverVars == <<main, cnt, thSem, mainSem, arrived, pulling, queue,
                unfilled, taken, executed, replies>>
allVars == <<vars, serverVars>>

requests == <<arrived, pulling, queue, unfilled>>
history  == <<taken, executed, replies>>

NTbs(r) == Len(Sched[r].tbs)

ServerInit ==
  /\ step = [th \in Threads |-> NSteps(th)]
  /\ pc = [th \in Threads |-> "done"]
  /\ sem = [k \in Keys |-> 0]
  /\ buf = [s \in Slots |-> Initial(s, 0)]
  /\ reqs = [th \in Threads |-> <<>>]
  /\ sendNum = [th \in Threads |-> 0]
  /\ got = [th \in Threads |-> NoMessage]
  /\ main = [r \in Ranks |-> "idle"]
  /\ cnt = [r \in Ranks |-> 0]
  /\ thSem = [r \in Ranks |-> 0]
  /\ mainSem = [r \in Ranks |-> 0]
  /\ arrived = [r \in Ranks |-> 0]
  /\ pulling = [r \in Ranks |-> <<>>]
  /\ queue = [r \in Ranks |-> <<>>]
  /\ unfilled = [r \in Ranks |-> {}]
  /\ taken = [r \in Ranks |-> <<>>]
  /\ executed = [th \in Threads |-> 0]
  /\ replies = [r \in Ranks |-> <<>>]

-----------------------------------------------------------------------------
\* Main progresses server_worker in its loop and while it sends a reply, and
\* its callbacks run there.
MainProgresses(r) == main[r] \in {"idle", "reply"}

\* ucp_am_data_cb, eager: the data is copied and queued.
ArriveEager(r) ==
  /\ ~AmRendezvous
  /\ MainProgresses(r) /\ arrived[r] < NRequests
  /\ arrived' = [arrived EXCEPT ![r] = @ + 1]
  /\ queue' = [queue EXCEPT ![r] = Append(@, arrived[r] + 1)]
  /\ UNCHANGED <<vars, main, cnt, thSem, mainSem, pulling, unfilled, history>>

\* ucp_am_data_cb, rendezvous: the callback waits for the data in ucx_wait,
\* which progresses the worker and so may call it again for the next request.
ArriveRendezvous(r) ==
  /\ AmRendezvous
  /\ MainProgresses(r) /\ arrived[r] < NRequests
  /\ arrived' = [arrived EXCEPT ![r] = @ + 1]
  /\ pulling' = [pulling EXCEPT ![r] = Append(@, arrived[r] + 1)]
  /\ UNCHANGED <<vars, main, cnt, thSem, mainSem, queue, unfilled, history>>

\* Variant: the callback returns without queueing the request, as the one in
\* ucp_init_resource.h does.
PulledUnqueued(r) ==
  /\ pulling[r] # <<>>
  /\ pulling' = [pulling EXCEPT ![r] = SubSeq(@, 1, Len(@) - 1)]
  /\ UNCHANGED <<vars, main, cnt, thSem, mainSem, arrived, queue, unfilled, history>>

\* The innermost callback queues its buffer and returns.
PullEnds(r) ==
  /\ pulling[r] # <<>>
  /\ LET n == Len(pulling[r]) IN
       /\ queue' = [queue EXCEPT ![r] = Append(@, pulling[r][n])]
       /\ pulling' = [pulling EXCEPT ![r] = SubSeq(@, 1, n - 1)]
  /\ UNCHANGED <<vars, main, cnt, thSem, mainSem, arrived, history>>

\* The data is in it,
Pulled(r) == PullEnds(r) /\ UNCHANGED unfilled

\* or ucx_wait has returned an error, which the callback does not look at: the
\* buffer does not hold the request.
PullFails(r) ==
  /\ PullEnds(r)
  /\ LET q == pulling[r][Len(pulling[r])] IN
       /\ <<r, q>> \in FailingPulls
       /\ unfilled' = [unfilled EXCEPT ![r] = @ \cup {q}]

\* The epoch of what the buffer of request q holds.
Held(r, q) == IF q \in unfilled[r] THEN 0 ELSE q

\* Main pops a request and copies it into the input buffer.
Take(r) ==
  /\ main[r] = "idle" /\ pulling[r] = <<>> /\ queue[r] # <<>>
  /\ queue' = [queue EXCEPT ![r] = Tail(@)]
  /\ buf' = [s \in Slots |-> IF s[1] = r /\ s[2] = "i"
                             THEN Initial(s, Held(r, Head(queue[r]))) ELSE buf[s]]
  /\ taken' = [taken EXCEPT ![r] = Append(@, Head(queue[r]))]
  /\ main' = [main EXCEPT ![r] = "post"]
  /\ UNCHANGED <<step, pc, sem, reqs, sendNum, got>>
  /\ UNCHANGED <<cnt, thSem, mainSem, arrived, pulling, unfilled, executed, replies>>

\* for(i < tbs.size()) sem_post(&sem_4_th_wait)
PostToken(r) ==
  /\ main[r] = "post"
  /\ thSem' = [thSem EXCEPT ![r] = @ + 1]
  /\ IF cnt[r] + 1 = NTbs(r)
     THEN /\ cnt' = [cnt EXCEPT ![r] = 0]
          /\ main' = [main EXCEPT ![r] = "collect"]
     ELSE cnt' = [cnt EXCEPT ![r] = @ + 1] /\ UNCHANGED main
  /\ UNCHANGED <<vars, mainSem, requests, history>>

\* Variant: main waits for one thread less.
CollectAllButOne(r) ==
  /\ main[r] = "collect" /\ mainSem[r] > 0
  /\ mainSem' = [mainSem EXCEPT ![r] = @ - 1]
  /\ IF cnt[r] + 1 >= NTbs(r) - 1
     THEN /\ cnt' = [cnt EXCEPT ![r] = 0]
          /\ main' = [main EXCEPT ![r] = "reply"]
     ELSE cnt' = [cnt EXCEPT ![r] = @ + 1] /\ UNCHANGED main
  /\ UNCHANGED <<vars, thSem, requests, history>>

\* for(i < tbs.size()) sem_wait(&sem_4_main_wait)
Collect(r) ==
  /\ main[r] = "collect" /\ mainSem[r] > 0
  /\ mainSem' = [mainSem EXCEPT ![r] = @ - 1]
  /\ IF cnt[r] + 1 = NTbs(r)
     THEN /\ cnt' = [cnt EXCEPT ![r] = 0]
          /\ main' = [main EXCEPT ![r] = "reply"]
     ELSE cnt' = [cnt EXCEPT ![r] = @ + 1] /\ UNCHANGED main
  /\ UNCHANGED <<vars, thSem, requests, history>>

\* am_send_block(input_buffer) completes, and main goes back to its loop.
Reply(r) ==
  /\ main[r] = "reply" /\ pulling[r] = <<>>
  /\ replies' = [replies EXCEPT ![r] = Append(@, InputOf(r))]
  /\ main' = [main EXCEPT ![r] = "idle"]
  /\ UNCHANGED <<vars, cnt, thSem, mainSem, requests, taken, executed>>

Main(r) == \/ ArriveEager(r) \/ ArriveRendezvous(r) \/ Pulled(r) \/ PullFails(r)
           \/ Take(r) \/ PostToken(r) \/ Collect(r) \/ Reply(r)

\* sem_wait(&sem_4_th_wait), then the first step.  Requests of earlier rounds
\* are forgotten when all are done; messages nobody received stay with UCX.
Begin(th) ==
  /\ pc[th] = "done" /\ thSem[th[1]] > 0
  /\ thSem' = [thSem EXCEPT ![th[1]] = @ - 1]
  /\ step' = [step EXCEPT ![th] = 0]
  /\ pc' = [pc EXCEPT ![th] = StartPc(th, 0)]
  /\ reqs' = [reqs EXCEPT ![th] = IF \A k \in DOMAIN @ : @[k].taken /\ @[k].done
                                  THEN <<>> ELSE @]
  /\ UNCHANGED <<sem, buf, sendNum, got>>
  /\ UNCHANGED <<main, cnt, mainSem, requests, history>>

\* The drain loop ends: sem_post(&sem_4_main_wait), and round again.
Finish(th) ==
  /\ Drain(th)
  /\ mainSem' = [mainSem EXCEPT ![th[1]] = @ + 1]
  /\ executed' = [executed EXCEPT ![th] = @ + 1]
  /\ UNCHANGED <<main, cnt, thSem, requests, taken, replies>>

Work(th) ==
  /\ \/ DepWait(th) \/ Send(th)  \/ Reduce(th)    \/ Nop(th)
     \/ Receive(th) \/ Store(th) \/ RecvFails(th) \/ Forward(th)
     \/ Post(th)    \/ Flush(th) \/ SendDone(th)  \/ SendFails(th)
  /\ UNCHANGED serverVars

Thread(th) == Begin(th) \/ Work(th) \/ Finish(th)

Served == \A r \in Ranks : Len(replies[r]) = NRequests

\* The servers have answered every request and wait for another.
Quiet == Served /\ UNCHANGED allVars

ServerNext == (\E r \in Ranks : Main(r)) \/ (\E th \in Threads : Thread(th)) \/ Quiet

ServerSpec == ServerInit /\ [][ServerNext]_allVars

\* The scheduler runs every main and every thread that is not blocked, and
\* every request that a client has sent arrives.
FairServerSpec == /\ ServerSpec
                  /\ \A r \in Ranks : WF_allVars(Main(r))
                  /\ \A th \in Threads : WF_allVars(Thread(th))

-----------------------------------------------------------------------------
(* Properties. *)

\* The types of the variables of the server; those of Interpreter keep theirs.
ServerTypeOK ==
  /\ TypeOK
  /\ main \in [Ranks -> {"idle", "post", "collect", "reply"}]
  /\ \A r \in Ranks : cnt[r] \in 0 .. NTbs(r) - 1
  /\ thSem \in [Ranks -> Nat] /\ mainSem \in [Ranks -> Nat]
  /\ arrived \in [Ranks -> 0 .. NRequests]
  /\ pulling \in [Ranks -> Seq(1 .. NRequests)]
  /\ queue \in [Ranks -> Seq(1 .. NRequests)]
  /\ taken \in [Ranks -> Seq(1 .. NRequests)]
  /\ unfilled \in [Ranks -> SUBSET (1 .. NRequests)]
  /\ executed \in [Threads -> Nat]

RunningOn(r) == {th \in RankThreads(r) : pc[th] # "done"}

\* Main has the rank to itself while it progresses its worker, copies a
\* request into the input buffer and sends a reply from it: no thread
\* executes the schedule, and none will before main posts again.
MainAlone ==
  \A r \in Ranks : main[r] \in {"idle", "reply"} =>
    RunningOn(r) = {} /\ thSem[r] = 0 /\ mainSem[r] = 0

\* All threads wait at one semaphore, yet each has executed its tb exactly once
\* for every request that main has taken, whoever took the tokens; and it has
\* left the semaphores of the dependencies, which nothing resets, at zero.
EachExecutesOnce ==
  \A r \in Ranks : main[r] \in {"idle", "reply"} =>
    /\ \A th \in RankThreads(r) : executed[th] = Len(taken[r])
    /\ \A k \in Keys : k[1][1] = r => sem[k] = 0

\* The content of an input buffer that is the sum of one request of each rank.
SumOfRequests(r, q) ==
  [c \in 0 .. Sched[r].chunks["i"] - 1 |->
    [o \in Origins |-> IF o \in {<<<<p, "i", c>>, q[p]>> : p \in Ranks} THEN 1 ELSE 0]]

\* What the client waits for ("wait for one allreduce to complete"): the n-th
\* reply of each rank is the sum of the n-th requests that all the ranks took,
\* or for a request that could not be pulled, of what its buffer held.
ReplyCorrect ==
  \A r \in Ranks : \A n \in DOMAIN replies[r] :
    /\ \A p \in Ranks : n \in DOMAIN taken[p]
    /\ replies[r][n] = SumOfRequests(r, [p \in Ranks |-> Held(p, taken[p][n])])

\* No request is lost or answered twice: each that has arrived is in a
\* callback, queued, in execution, or answered.
RequestsConserved ==
  \A r \in Ranks :
    arrived[r] = Len(pulling[r]) + Len(queue[r]) + Len(replies[r])
                   + (IF main[r] = "idle" THEN 0 ELSE 1)

\* Every request is answered.
AllServed == <>Served

\* The requests that are summed in every chunk of a reply.
SummedIn(reply) ==
  {pq \in Ranks \X (1 .. NRequests) :
     \A c \in DOMAIN reply : reply[c][<<<<pq[1], "i", c>>, pq[2]>>] # 0}

\* The servers together are the service that module ReduceService describes.
Service == INSTANCE ReduceService WITH
  Ranks <- Ranks, Requests <- 1 .. NRequests, taken <- taken, lost <- unfilled,
  pool <- [r \in Ranks |-> Range(pulling[r]) \cup Range(queue[r])],
  answers <- [r \in Ranks |-> [n \in DOMAIN replies[r] |-> SummedIn(replies[r][n])]]

IsService == Service!Spec
=============================================================================
