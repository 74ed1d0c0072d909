---------------------------- MODULE Interpreter ----------------------------
(***************************************************************************)
(* One execution of a schedule: every thread of every rank runs            *)
(* interpreter() over the steps of its tb, once.  A thread waits for the   *)
(* step's dependency semaphore, executes the step, posts the semaphore of  *)
(* the steps that depend on it, and after the last step drains its sends.  *)
(*                                                                         *)
(* A chunk's content is how many times each initial chunk is summed into   *)
(* it, so that a chunk reduced twice, not at all, or at a wrong offset is  *)
(* visible.  An initial chunk is named by its slot and by the execution it *)
(* was written for (0 when there is only one).                             *)
(*                                                                         *)
(* UCX is external.  A send is a request of its sender (reqs); the         *)
(* receiver's worker can match it once it is ready.  What UCX may have     *)
(* done when ucp_tag_send_nbx returns is the parameter SendResults:        *)
(*   "ready"   the message has left (eager protocol, wired-up endpoint);   *)
(*   "queued"  the sender's worker must progress first (wire-up pending,   *)
(*             no send resources, rendezvous);                             *)
(*   "error"   an error pointer: nothing is sent and no callback will run. *)
(* A request that has not completed may still fail later (SendMayFail; the *)
(* endpoints have UCP_ERR_HANDLING_MODE_PEER): it is then "failed".        *)
(***************************************************************************)
EXTENDS Schedule

CONSTANTS BlockingDepWait,  \* TRUE: test_offload.cc (sem_wait); FALSE: mpitest.cc
          SendResults,      \* subset of {"ready", "queued", "error"}
          Rendezvous,       \* a send completes only after the peer received it
          SendMayFail,      \* a send request may complete with an error
          RecvMayFail,      \* a receive request may complete with an error
          Epochs            \* the executions whose initial chunks can occur

ASSUME EpochsAssumption == Epochs \subseteq Nat /\ 0 \in Epochs

ASSUME SendAssumption == SendResults \subseteq {"ready", "queued", "error"}

VARIABLES
  step,     \* thread -> number of the current step
  pc,       \* thread -> where in the step it is
  sem,      \* sem_hash: key -> value of the semaphore
  buf,      \* slot -> content of the chunk
  reqs,     \* thread -> its send requests, in the order they were posted
  sendNum,  \* send_num_hash: thread -> sends whose callback has not run
  got       \* thread -> the message its receive request matched

vars == <<step, pc, sem, buf, reqs, sendNum, got>>

Here(th) == <<th, step[th]>>
Cur(th)  == StepAt(Here(th))

\* Where a thread is when it comes to step s.
StartPc(th, s) == IF s = NSteps(th) THEN "drain"
                  ELSE IF StepAt(<<th, s>>).depid = -1 THEN "op" ELSE "dep"

\* Contents of a chunk: an initial chunk, a sum, and what malloc left in the
\* scratch copy where the message was shorter (never a part of a right sum).
Origins    == Slots \X Epochs
Value      == [Origins -> Nat]
Initial(s, e) == [o \in Origins |-> IF o = <<s, e>> THEN 1 ELSE 0]
Plus(v, w) == [o \in Origins |-> v[o] + w[o]]
Garbage    == [o \in Origins |-> 1]

NoMessage == [dst |-> "i", data |-> <<>>]

\* init_buffer_chunk: every chunk holds its own initial content.
Init ==
  /\ step = [th \in Threads |-> 0]
  /\ pc = [th \in Threads |-> StartPc(th, 0)]
  /\ sem = [k \in Keys |-> 0]
  /\ buf = [s \in Slots |-> Initial(s, 0)]
  /\ reqs = [th \in Threads |-> <<>>]
  /\ sendNum = [th \in Threads |-> 0]
  /\ got = [th \in Threads |-> NoMessage]

-----------------------------------------------------------------------------
\* Variant: the result of sem_trywait is ignored.
DepWaitUnchecked(th) ==
  /\ pc[th] = "dep"
  /\ sem' = [sem EXCEPT ![DepKey(Here(th))] = @ - 1]
  /\ pc' = [pc EXCEPT ![th] = "op"]
  /\ UNCHANGED <<step, buf, reqs, sendNum, got>>

\* if(step->depid != -1) sem_wait(sem_hash[hash_key])
DepWait(th) ==
  /\ pc[th] = "dep"
  /\ sem[DepKey(Here(th))] > 0
  /\ sem' = [sem EXCEPT ![DepKey(Here(th))] = @ - 1]
  /\ pc' = [pc EXCEPT ![th] = "op"]
  /\ UNCHANGED <<step, buf, reqs, sendNum, got>>

\* send_block: the chunks are copied, the request is posted with the
\* destination offset as its tag, and send_num grows whatever UCX returned.
\* (dst, the buffer the sender means, is not transmitted.)
SendBlock(th, b, off) ==
  \E result \in SendResults :
    /\ reqs' = [reqs EXCEPT ![th] = Append(@,
                 [tag |-> Cur(th).dstoff, dst |-> Cur(th).dstbuf,
                  data |-> [i \in 1 .. Cur(th).cnt |-> buf[<<th[1], b, off + i - 1>>]],
                  state |-> result, taken |-> FALSE, done |-> FALSE])]
    /\ sendNum' = [sendNum EXCEPT ![th] = @ + 1]

\* SEND: chunk_send.
Send(th) ==
  /\ pc[th] = "op" /\ Cur(th).type = "s"
  /\ SendBlock(th, Cur(th).srcbuf, Cur(th).srcoff)
  /\ pc' = [pc EXCEPT ![th] = "post"]
  /\ UNCHANGED <<step, sem, buf, got>>

ChunkOf(data, i) == IF i \in DOMAIN data THEN data[i] ELSE Garbage

\* Variant: the received chunks are copied where they should be added.
StoredUnreduced(r, b, off, data, n, add) ==
  [s \in Slots |-> IF s \in Span(r, b, off, n) THEN ChunkOf(data, s[3] - off + 1) ELSE buf[s]]

\* buf after n chunks from buffer b at off are added or copied from data.
Stored(r, b, off, data, n, add) ==
  [s \in Slots |-> IF s \in Span(r, b, off, n)
                   THEN LET d == ChunkOf(data, s[3] - off + 1)
                        IN  IF add THEN Plus(buf[s], d) ELSE d
                   ELSE buf[s]]

\* REDUCE: local_reduce of the source chunks into the destination chunks.
Reduce(th) ==
  LET st == Cur(th) IN
  /\ pc[th] = "op" /\ st.type = "re"
  /\ buf' = Stored(th[1], st.dstbuf, st.dstoff,
                   [i \in 1 .. st.cnt |-> buf[<<th[1], st.srcbuf, st.srcoff + i - 1>>]],
                   st.cnt, TRUE)
  /\ pc' = [pc EXCEPT ![th] = "post"]
  /\ UNCHANGED <<step, sem, reqs, sendNum, got>>

Nop(th) ==
  /\ pc[th] = "op" /\ Cur(th).type = "nop"
  /\ pc' = [pc EXCEPT ![th] = "post"]
  /\ UNCHANGED <<step, sem, buf, reqs, sendNum, got>>

\* UCX matches by tag alone, in the order the peer posted.
Senders(th) == {q \in DOMAIN Peer : Peer[q] = th}

Matches(q, k, tag) == /\ reqs[q][k].tag = tag
                      /\ ~reqs[q][k].taken
                      /\ reqs[q][k].state \notin {"error", "failed"}

\* Variant: any message with the tag, in whatever order.
AnyMatch(q, k, tag) == Matches(q, k, tag)

FirstMatch(q, k, tag) == /\ Matches(q, k, tag)
                         /\ \A j \in 1 .. k - 1 : ~Matches(q, j, tag)

\* Variant: the probe leaves the message in the queue.
ReceiveKept(th) ==
  /\ pc[th] = "op" /\ Cur(th).type \in Receiving
  /\ \E q \in Senders(th) : \E k \in DOMAIN reqs[q] :
       /\ FirstMatch(q, k, Cur(th).dstoff)
       /\ reqs[q][k].state = "ready"
       /\ got' = [got EXCEPT ![th] = [dst |-> reqs[q][k].dst, data |-> reqs[q][k].data]]
  /\ pc' = [pc EXCEPT ![th] = "data"]
  /\ UNCHANGED <<step, sem, buf, reqs, sendNum>>

\* receive_block: the probe finds a message with the step's destination
\* offset as its tag, and the receive request takes all of it.
Receive(th) ==
  /\ pc[th] = "op" /\ Cur(th).type \in Receiving
  /\ \E q \in Senders(th) : \E k \in DOMAIN reqs[q] :
       /\ FirstMatch(q, k, Cur(th).dstoff)
       /\ reqs[q][k].state = "ready"
       /\ reqs' = [reqs EXCEPT ![q][k].taken = TRUE]
       /\ got' = [got EXCEPT ![th] = [dst |-> reqs[q][k].dst, data |-> reqs[q][k].data]]
  /\ pc' = [pc EXCEPT ![th] = "data"]
  /\ UNCHANGED <<step, sem, buf, sendNum>>

\* The rest of a step that received: chunk_recieve writes what came, the
\* reducing steps add cnt chunks from the scratch copy; some forward.
Store(th) ==
  LET st == Cur(th) IN
  /\ pc[th] = "data"
  /\ buf' = IF st.type \in Reducing
            THEN Stored(th[1], st.dstbuf, st.dstoff, got[th].data, st.cnt, TRUE)
            ELSE Stored(th[1], st.dstbuf, st.dstoff, got[th].data, Len(got[th].data), FALSE)
  /\ got' = [got EXCEPT ![th] = NoMessage]
  /\ pc' = [pc EXCEPT ![th] = IF st.type \in Forwarding THEN "fwd" ELSE "post"]
  /\ UNCHANGED <<step, sem, reqs, sendNum>>

\* ucx_wait returns an error: the step returns -1, is logged and goes on.
RecvFails(th) ==
  /\ RecvMayFail
  /\ pc[th] = "data"
  /\ got' = [got EXCEPT ![th] = NoMessage]
  /\ pc' = [pc EXCEPT ![th] = "post"]
  /\ UNCHANGED <<step, sem, buf, reqs, sendNum>>

\* chunk_send at the end of rrs, rrcs and rcs: from where the data was put.
Forward(th) ==
  /\ pc[th] = "fwd"
  /\ SendBlock(th, Cur(th).dstbuf, Cur(th).dstoff)
  /\ pc' = [pc EXCEPT ![th] = "post"]
  /\ UNCHANGED <<step, sem, buf, got>>

\* Variant: the posting loop runs once too often (i <= hasdep).
PostOneMore(th) ==
  /\ pc[th] = "post"
  /\ sem' = IF Here(th) \in Keys
            THEN [sem EXCEPT ![Here(th)] = @ + Cur(th).hasdep + 1] ELSE sem
  /\ step' = [step EXCEPT ![th] = @ + 1]
  /\ pc' = [pc EXCEPT ![th] = StartPc(th, step[th] + 1)]
  /\ UNCHANGED <<buf, reqs, sendNum, got>>

\* if(step->hasdep != 0) sem_post hasdep times; then the next step.  The posts
\* are one step: the thread touches nothing else between them, and a post
\* disables no step of another thread.
Post(th) ==
  /\ pc[th] = "post"
  /\ sem' = IF Here(th) \in Keys
            THEN [sem EXCEPT ![Here(th)] = @ + Cur(th).hasdep] ELSE sem
  /\ step' = [step EXCEPT ![th] = @ + 1]
  /\ pc' = [pc EXCEPT ![th] = StartPc(th, step[th] + 1)]
  /\ UNCHANGED <<buf, reqs, sendNum, got>>

\* Variant: the thread ends without waiting for its sends.
DrainNothing(th) ==
  /\ pc[th] = "drain"
  /\ pc' = [pc EXCEPT ![th] = "done"]
  /\ UNCHANGED <<step, sem, buf, reqs, sendNum, got>>

\* while(send_num_hash[pthread_self()] != 0) progress; then the thread ends.
Drain(th) ==
  /\ pc[th] = "drain"
  /\ sendNum[th] = 0
  /\ pc' = [pc EXCEPT ![th] = "done"]
  /\ UNCHANGED <<step, sem, buf, reqs, sendNum, got>>

-----------------------------------------------------------------------------
\* Variant: the drain loop only watches the counter.
DrainSpins(th) ==
  \/ pc[th] = "op" /\ Cur(th).type \in Receiving
  \/ pc[th] = "data"
  \/ pc[th] = "dep" /\ ~BlockingDepWait

\* Only its own thread progresses a worker: in the probe loop, in ucx_wait,
\* in the drain loop, and in the dependency wait of mpitest.cc.
Progressing(th) ==
  \/ pc[th] = "op" /\ Cur(th).type \in Receiving
  \/ pc[th] \in {"data", "drain"}
  \/ pc[th] = "dep" /\ ~BlockingDepWait

\* ucp_worker_progress moves a queued message out.
Flush(th) ==
  /\ Progressing(th)
  /\ \E k \in DOMAIN reqs[th] :
       /\ reqs[th][k].state = "queued"
       /\ reqs' = [reqs EXCEPT ![th][k].state = "ready"]
  /\ UNCHANGED <<step, pc, sem, buf, sendNum, got>>

\* Variant: the callback frees the copy but does not count down.
SendDoneUncounted(th) ==
  /\ Progressing(th)
  /\ \E k \in DOMAIN reqs[th] :
       /\ reqs[th][k].state = "ready"
       /\ ~reqs[th][k].done
       /\ Rendezvous => reqs[th][k].taken
       /\ reqs' = [reqs EXCEPT ![th][k].done = TRUE]
  /\ UNCHANGED <<step, pc, sem, buf, sendNum, got>>

\* ucp_worker_progress runs tag_send_handler for a request UCX completed.
SendDone(th) ==
  /\ Progressing(th)
  /\ \E k \in DOMAIN reqs[th] :
       /\ reqs[th][k].state = "ready"
       /\ ~reqs[th][k].done
       /\ Rendezvous => reqs[th][k].taken
       /\ reqs' = [reqs EXCEPT ![th][k].done = TRUE]
  /\ sendNum' = [sendNum EXCEPT ![th] = @ - 1]
  /\ UNCHANGED <<step, pc, sem, buf, got>>

\* Variant: the callback counts down only what was sent.
SendFailsUncounted(th) ==
  /\ SendMayFail /\ Progressing(th)
  /\ \E k \in DOMAIN reqs[th] :
       /\ reqs[th][k].state \in {"queued", "ready"}
       /\ ~reqs[th][k].taken /\ ~reqs[th][k].done
       /\ reqs' = [reqs EXCEPT ![th][k] = [@ EXCEPT !.state = "failed", !.done = TRUE]]
  /\ UNCHANGED <<step, pc, sem, buf, sendNum, got>>

\* The request completes with an error, and its message is lost: the handler
\* does not look at its status and counts down all the same.  (If the message
\* has arrived nevertheless, that is SendDone.)
SendFails(th) ==
  /\ SendMayFail /\ Progressing(th)
  /\ \E k \in DOMAIN reqs[th] :
       /\ reqs[th][k].state \in {"queued", "ready"}
       /\ ~reqs[th][k].taken /\ ~reqs[th][k].done
       /\ reqs' = [reqs EXCEPT ![th][k] = [@ EXCEPT !.state = "failed", !.done = TRUE]]
  /\ sendNum' = [sendNum EXCEPT ![th] = @ - 1]
  /\ UNCHANGED <<step, pc, sem, buf, got>>

\* A step of interpreter(), or what a progress call in one of its loops does.
Run(th) == \/ DepWait(th)  \/ Send(th)  \/ Reduce(th)    \/ Nop(th)
           \/ Receive(th)  \/ Store(th) \/ RecvFails(th) \/ Forward(th)
           \/ Post(th)     \/ Drain(th) \/ Flush(th)     \/ SendDone(th)
           \/ SendFails(th)

Finished == \A th \in Threads : pc[th] = "done"

\* main has joined its threads on every rank; nothing more happens.
Terminated == Finished /\ UNCHANGED vars

Next == (\E th \in Threads : Run(th)) \/ Terminated

Spec == Init /\ [][Next]_vars

\* The scheduler runs every thread that is not blocked, and a worker that is
\* progressed again and again moves what is queued or complete.
FairSpec == Spec /\ \A th \in Threads : WF_vars(Run(th))

-----------------------------------------------------------------------------
(* Properties. *)

Request == [tag : Int, dst : BufferType, data : Seq(Value),
            state : {"ready", "queued", "error", "failed"}, taken : BOOLEAN, done : BOOLEAN]

\* The types of the variables.
TypeOK ==
  /\ step \in [Threads -> Nat]
  /\ pc \in [Threads -> {"dep", "op", "data", "fwd", "post", "drain", "done"}]
  /\ \A th \in Threads : IF pc[th] \in {"drain", "done"}
                          THEN step[th] = NSteps(th) ELSE step[th] < NSteps(th)
  /\ \A th \in Threads : /\ pc[th] = "dep" => Here(th) \in Waits
                         /\ pc[th] = "data" => Cur(th).type \in Receiving
                         /\ pc[th] = "fwd" => Cur(th).type \in Forwarding
  /\ sem \in [Keys -> Nat]
  /\ buf \in [Slots -> Value]
  /\ reqs \in [Threads -> Seq(Request)]
  /\ sendNum \in [Threads -> Int]
  /\ got \in [Threads -> [dst : BufferType, data : Seq(Value)]]

\* The places a thread has got past the dependency wait of, and has completed.
Entered(p) == step[p[1]] > p[2] \/ (step[p[1]] = p[2] /\ pc[p[1]] # "dep")
Passed(p)  == step[p[1]] > p[2]

\* A step with a dependency (interpreter's sem_wait) starts only after the
\* step it names has been completed by its thread.
DependencyOrder == \A p \in Waits : Entered(p) => Passed(DepKey(p))

\* No token of a dependency semaphore is lost, forged or taken twice: what
\* the step posted is what its dependents have taken and what is left.
TokensConserved ==
  \A k \in Keys : sem[k] + Cardinality({p \in Waiters[k] : Entered(p)})
                    = IF Passed(k) THEN StepAt(k).hasdep ELSE 0

\* send_num_hash counts exactly the requests whose callback has not run, so
\* that a thread that left the drain loop has none: its buffers are its own
\* again.  (A request that UCX refused is counted too, and never completes.)
SendsAccounted ==
  \A th \in Threads :
    sendNum[th] = Cardinality({k \in DOMAIN reqs[th] : ~reqs[th][k].done})

\* A thread that has ended has no send outstanding, and UCX has refused none
\* of its sends.  One that failed later does not keep it: tag_send_handler
\* counts it down, so that the message may be lost.
DrainedWhenDone ==
  \A th \in Threads : pc[th] = "done" =>
    \A k \in DOMAIN reqs[th] :
      reqs[th][k].done /\ reqs[th][k].state \in {"ready", "failed"}

\* The chunks a thread is reading and writing now, between its dependency
\* wait (or the match of its message) and its posts.
ReadsNow(th) ==
  IF pc[th] = "op" THEN Reads[Here(th)]
  ELSE IF pc[th] = "fwd" THEN Writes[Here(th)] ELSE {}

WritesNow(th) ==
  IF pc[th] = "data" \/ (pc[th] = "op" /\ Cur(th).type = "re")
  THEN Writes[Here(th)] ELSE {}

\* The dependencies of the schedule and the messages are all the
\* synchronisation there is on the chunks: two threads of a rank never
\* access a chunk at the same time with one of them writing it.
RaceFree ==
  \A a, b \in Threads :
    a # b => WritesNow(a) \cap (ReadsNow(b) \cup WritesNow(b)) = {}

\* Tags carry the destination offset only, not the buffer or the length:
\* still, a receive gets the message sent for its buffer and its length.
ReceiveMatchesSend ==
  \A th \in Threads : pc[th] = "data" =>
    /\ got[th].dst = Cur(th).dstbuf
    /\ Len(got[th].data) = Cur(th).cnt

InputOf(r)  == [c \in 0 .. Sched[r].chunks["i"] - 1 |-> buf[<<r, "i", c>>]]
SumOf(r)    == [c \in 0 .. Sched[r].chunks["i"] - 1 |->
                  [o \in Origins |-> IF o \in {<<<<q, "i", c>>, 0>> : q \in Ranks}
                                     THEN 1 ELSE 0]]
RankDone(r) == \A th \in RankThreads(r) : pc[th] = "done"

\* A rank whose threads have ended has no token left in a semaphore that its
\* next execution could take.
NoTokenLeft == \A k \in Keys : RankDone(k[1][1]) => sem[k] = 0

\* In the end no message is left that a next execution could receive (and none
\* is lost: a receiver whose message failed waits for ever).
NoMessageLeft ==
  Finished => \A th \in Threads : \A k \in DOMAIN reqs[th] : reqs[th][k].taken

\* wait_threads returns on every rank: no thread waits for ever for a
\* dependency, a message or its own sends.
Termination == <>Finished

\* One execution is an allreduce: a rank has contributed once one of its
\* threads has posted a send, and has its result once its threads have ended,
\* which is the sum (check_result_vector_buffer), whatever others still do.
Reduction == INSTANCE AllReduce WITH
  Ranks <- Ranks, NoResult <- <<>>,
  Sum <- [r \in Ranks |-> SumOf(r)],
  joined <- {r \in Ranks : \E th \in RankThreads(r) : reqs[th] # <<>>},
  result <- [r \in Ranks |-> IF RankDone(r) THEN InputOf(r) ELSE <<>>]

IsAllReduce == Reduction!Spec
=============================================================================
