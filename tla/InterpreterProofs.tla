------------------------- MODULE InterpreterProofs -------------------------
(* Theorems about Interpreter, for every schedule that meets the           *)
(* assumptions of Schedule and for every value of the other constants.     *)
EXTENDS Interpreter, FiniteSetTheorems, SequenceTheorems, TLAPS

-----------------------------------------------------------------------------
(* The schedule. *)

\* A thread names a tb of its rank, and the tb is a sequence of steps.
LEMMA ThreadFacts ==
  ASSUME NEW th \in Threads
  PROVE  /\ th[1] \in Ranks
         /\ th[2] \in Nat
         /\ Block(th) \in ThreadBlock
         /\ NSteps(th) \in Nat
<1>1. PICK r \in Ranks : th \in {<<r, t>> : t \in 0 .. Len(Sched[r].tbs) - 1}
  BY DEF Threads
<1>2. PICK t \in 0 .. Len(Sched[r].tbs) - 1 : th = <<r, t>>
  BY <1>1
<1>3. Sched[r].tbs \in Seq(ThreadBlock)
  BY SchedAssumption DEF Rank
<1>4. Block(th) = Sched[r].tbs[t + 1]
  BY <1>2 DEF Block
<1>5. t \in Nat /\ t + 1 \in 1 .. Len(Sched[r].tbs)
  BY <1>2, <1>3
<1>6. Block(th) \in ThreadBlock
  BY <1>3, <1>4, <1>5
<1>7. NSteps(th) \in Nat
  BY <1>6 DEF NSteps, ThreadBlock
<1> QED BY <1>2, <1>5, <1>6, <1>7

\* The places of a thread are its step numbers.
LEMMA PlaceFacts ==
  ASSUME NEW p \in Places
  PROVE  /\ p = <<p[1], p[2]>>
         /\ p[1] \in Threads
         /\ p[2] \in Nat /\ p[2] < NSteps(p[1])
         /\ StepAt(p) \in Step
<1>1. PICK th \in Threads : p \in {<<th, s>> : s \in 0 .. NSteps(th) - 1}
  BY DEF Places
<1>2. PICK s \in 0 .. NSteps(th) - 1 : p = <<th, s>>
  BY <1>1
<1>3. Block(th) \in ThreadBlock /\ NSteps(th) \in Nat
  BY ThreadFacts
<1>4. s \in Nat /\ s < NSteps(th) /\ s + 1 \in 1 .. NSteps(th)
  BY <1>2, <1>3
<1>5. Block(th).steps \in Seq(Step) /\ NSteps(th) = Len(Block(th).steps)
  BY <1>3 DEF ThreadBlock, NSteps
<1>6. StepAt(p) = Block(th).steps[s + 1]
  BY <1>2 DEF StepAt
<1> QED BY <1>2, <1>4, <1>5, <1>6

LEMMA IsPlace ==
  ASSUME NEW th \in Threads, NEW s \in Nat, s < NSteps(th)
  PROVE  <<th, s>> \in Places
<1>1. s \in 0 .. NSteps(th) - 1
  BY ThreadFacts
<1> QED BY <1>1 DEF Places

\* The key of a place that waits is a semaphore of the same rank.
LEMMA KeyFacts ==
  /\ \A k \in Keys : k \in Places
  /\ \A p \in Waits : p \in Places /\ DepKey(p) \in Keys
BY DepsAssumption DEF Keys, Waits

\* The image of a finite set is finite (the library's version takes an
\* operator).
LEMMA FiniteImage ==
  ASSUME NEW S, IsFiniteSet(S), NEW f
  PROVE  IsFiniteSet({f[x] : x \in S})
<1> DEFINE T == {f[x] : x \in S}
           g == [x \in S |-> f[x]]
<1>1. g \in Surjection(S, T)
  BY DEF Surjection
<1> QED BY <1>1, FS_Surjection

\* A schedule is finite.
LEMMA PlacesFinite == IsFiniteSet(Places)
<1>1. IsFiniteSet(Ranks)
  BY RanksAssumption, FS_Interval DEF Ranks
<1>2. ASSUME NEW r \in Ranks
      PROVE  IsFiniteSet({<<r, t>> : t \in 0 .. Len(Sched[r].tbs) - 1})
  <2>1. Sched[r].tbs \in Seq(ThreadBlock)
    BY SchedAssumption DEF Rank
  <2> DEFINE S == 0 .. Len(Sched[r].tbs) - 1
             f == [t \in S |-> <<r, t>>]
  <2>2. IsFiniteSet(S)
    BY <2>1, FS_Interval
  <2>3. IsFiniteSet({f[t] : t \in S})
    <3> HIDE DEF f, S
    <3> QED BY <2>2, FiniteImage
  <2>4. {f[t] : t \in S} = {<<r, t>> : t \in S}
    OBVIOUS
  <2> QED BY <2>3, <2>4
<1>3. IsFiniteSet(Threads)
  <2> DEFINE f == [r \in Ranks |-> {<<r, t>> : t \in 0 .. Len(Sched[r].tbs) - 1}]
             T == {f[r] : r \in Ranks}
  <2>1. \A r \in Ranks : f[r] = {<<r, t>> : t \in 0 .. Len(Sched[r].tbs) - 1}
    OBVIOUS
  <2>2. Threads = UNION T
    BY <2>1 DEF Threads
  <2>3. \A U \in T : IsFiniteSet(U)
    BY <1>2, <2>1
  <2>4. IsFiniteSet(T)
    <3> HIDE DEF f
    <3> QED BY <1>1, FiniteImage
  <2> HIDE DEF T
  <2> QED BY <2>2, <2>3, <2>4, FS_UNION
<1>4. ASSUME NEW th \in Threads
      PROVE  IsFiniteSet({<<th, s>> : s \in 0 .. NSteps(th) - 1})
  <2> DEFINE S == 0 .. NSteps(th) - 1
             f == [s \in S |-> <<th, s>>]
  <2>1. IsFiniteSet(S)
    BY ThreadFacts, FS_Interval
  <2>2. IsFiniteSet({f[s] : s \in S})
    <3> HIDE DEF f, S
    <3> QED BY <2>1, FiniteImage
  <2>3. {f[s] : s \in S} = {<<th, s>> : s \in S}
    OBVIOUS
  <2> QED BY <2>2, <2>3
<1> DEFINE f == [th \in Threads |-> {<<th, s>> : s \in 0 .. NSteps(th) - 1}]
           T == {f[th] : th \in Threads}
<1>5. \A th \in Threads : f[th] = {<<th, s>> : s \in 0 .. NSteps(th) - 1}
  OBVIOUS
<1>6. Places = UNION T
  BY <1>5 DEF Places
<1>7. \A U \in T : IsFiniteSet(U)
  BY <1>4, <1>5
<1>8. IsFiniteSet(T)
  <2> HIDE DEF f
  <2> QED BY <1>3, FiniteImage
<1> HIDE DEF T
<1> QED BY <1>6, <1>7, <1>8, FS_UNION

-----------------------------------------------------------------------------
(* Types. *)

USE DEF vars

\* Where a thread stands in a step it has just come to.
LEMMA StartPcFacts ==
  ASSUME NEW th \in Threads, NEW s \in Nat, s =< NSteps(th)
  PROVE  /\ StartPc(th, s) \in {"dep", "op", "drain"}
         /\ StartPc(th, s) = "drain" <=> s = NSteps(th)
         /\ StartPc(th, s) = "dep" => <<th, s>> \in Waits
<1>1. s # NSteps(th) => <<th, s>> \in Places
  BY IsPlace, ThreadFacts
<1> QED BY <1>1 DEF StartPc, Waits

\* A thread that is not at its end is at a place.
LEMMA HereIsPlace ==
  ASSUME TypeOK, NEW th \in Threads, pc[th] \notin {"drain", "done"}
  PROVE  /\ Here(th) \in Places
         /\ Cur(th) \in Step
         /\ step[th] \in Nat /\ step[th] < NSteps(th)
<1>1. step[th] \in Nat /\ step[th] < NSteps(th)
  BY DEF TypeOK
<1> QED BY <1>1, IsPlace, PlaceFacts DEF Here, Cur

\* A thread in its dependency wait waits on a semaphore that exists.
LEMMA DepWaitKey ==
  ASSUME TypeOK, NEW th \in Threads, pc[th] = "dep"
  PROVE  Here(th) \in Waits /\ DepKey(Here(th)) \in Keys
<1>1. Here(th) \in Waits
  BY DEF TypeOK, Here
<1> QED BY <1>1, KeyFacts

LEMMA FunctionIsSeq ==
  ASSUME NEW S, NEW n \in Nat, NEW f \in [1 .. n -> S]
  PROVE  f \in Seq(S)
<1>1. Seq(S) = UNION {[1 .. m -> S] : m \in Nat}
  BY SeqDef
<1>2. f \in UNION {[1 .. m -> S] : m \in Nat}
  OBVIOUS
<1> QED BY <1>1, <1>2, Zenon

LEMMA ValueFacts ==
  /\ \A s, e : Initial(s, e) \in Value
  /\ \A v, w \in Value : Plus(v, w) \in Value
  /\ Garbage \in Value
BY DEF Initial, Plus, Garbage, Value

LEMMA ChunkOfType ==
  ASSUME NEW data \in Seq(Value), NEW i
  PROVE  ChunkOf(data, i) \in Value
BY ValueFacts DEF ChunkOf

LEMMA StoredType ==
  ASSUME buf \in [Slots -> Value], NEW r, NEW b, NEW off, NEW n,
         NEW data \in Seq(Value), NEW add
  PROVE  Stored(r, b, off, data, n, add) \in [Slots -> Value]
BY ChunkOfType, ValueFacts DEF Stored

\* The slots a step reads and writes exist.
LEMMA SpanSlots ==
  ASSUME NEW p \in Places
  PROVE  /\ StepAt(p).type \in {"s", "re"} =>
              \A c \in StepAt(p).srcoff .. StepAt(p).srcoff + StepAt(p).cnt - 1 :
                <<p[1][1], StepAt(p).srcbuf, c>> \in Slots
         /\ StepAt(p).type \in Receiving \cup {"re"} =>
              \A c \in StepAt(p).dstoff .. StepAt(p).dstoff + StepAt(p).cnt - 1 :
                <<p[1][1], StepAt(p).dstbuf, c>> \in Slots
BY SlotsAssumption DEF Reads, Writes, Span

\* What a thread sends is in its own buffers, and typed.
LEMMA SendBlockType ==
  ASSUME TypeOK, NEW th \in Threads, NEW b, NEW off,
         pc[th] \notin {"drain", "done"},
         \A c \in off .. off + Cur(th).cnt - 1 : <<th[1], b, c>> \in Slots,
         off \in Int,
         SendBlock(th, b, off)
  PROVE  /\ reqs' \in [Threads -> Seq(Request)]
         /\ sendNum' \in [Threads -> Int]
<1> DEFINE data == [i \in 1 .. Cur(th).cnt |-> buf[<<th[1], b, off + i - 1>>]]
<1>1. Cur(th) \in Step
  BY HereIsPlace
<1>2. Cur(th).cnt \in Nat /\ Cur(th).dstoff \in Int /\ Cur(th).dstbuf \in BufferType
  BY <1>1 DEF Step
<1>3. \A i \in 1 .. Cur(th).cnt : <<th[1], b, off + i - 1>> \in Slots
  BY <1>2
<1>4. data \in Seq(Value)
  <2>1. data \in [1 .. Cur(th).cnt -> Value]
    BY <1>3 DEF TypeOK
  <2> HIDE DEF data
  <2> QED BY <1>2, <2>1, FunctionIsSeq
<1>5. PICK result \in SendResults :
        /\ reqs' = [reqs EXCEPT ![th] = Append(@,
                     [tag |-> Cur(th).dstoff, dst |-> Cur(th).dstbuf,
                      data |-> data, state |-> result,
                      taken |-> FALSE, done |-> FALSE])]
        /\ sendNum' = [sendNum EXCEPT ![th] = @ + 1]
  BY DEF SendBlock
<1> HIDE DEF data
<1>6. [tag |-> Cur(th).dstoff, dst |-> Cur(th).dstbuf, data |-> data,
       state |-> result, taken |-> FALSE, done |-> FALSE] \in Request
  BY <1>2, <1>4, SendAssumption DEF Request
<1> QED BY <1>5, <1>6 DEF TypeOK

\* A request keeps its type when its progress is recorded.
LEMMA RequestUpdate ==
  ASSUME TypeOK, NEW q \in Threads, NEW k \in DOMAIN reqs[q], NEW m \in Request
  PROVE  [reqs EXCEPT ![q][k] = m] \in [Threads -> Seq(Request)]
BY DEF TypeOK

LEMMA TypeInit == Init => TypeOK
<1> SUFFICES ASSUME Init PROVE TypeOK
  OBVIOUS
<1>1. \A th \in Threads : 0 =< NSteps(th) /\ 0 \in Nat
  BY ThreadFacts
<1>2. NoMessage \in [dst : BufferType, data : Seq(Value)]
  BY DEF NoMessage, BufferType
<1>3. buf \in [Slots -> Value]
  BY ValueFacts DEF Init
<1>4. \A th \in Threads : /\ pc[th] \in {"dep", "op", "drain"}
                          /\ pc[th] = "drain" <=> step[th] = NSteps(th)
                          /\ pc[th] = "dep" => Here(th) \in Waits
                          /\ step[th] = 0 /\ NSteps(th) \in Nat
  BY <1>1, StartPcFacts, ThreadFacts DEF Init, Here
<1>5. \A th \in Threads : IF pc[th] \in {"drain", "done"}
                          THEN step[th] = NSteps(th) ELSE step[th] < NSteps(th)
  BY <1>1, <1>4
<1>6. pc \in [Threads -> {"dep", "op", "data", "fwd", "post", "drain", "done"}]
  BY <1>4 DEF Init
<1>7. reqs \in [Threads -> Seq(Request)]
  BY DEF Init
<1> QED BY <1>2, <1>3, <1>4, <1>5, <1>6, <1>7 DEF Init, TypeOK

LEMMA TypeNext == TypeOK /\ [Next]_vars => TypeOK'
<1> SUFFICES ASSUME TypeOK, [Next]_vars PROVE TypeOK'
  OBVIOUS
<1>1. ASSUME NEW th \in Threads, DepWait(th) PROVE TypeOK'
  <2>1. DepKey(Here(th)) \in Keys
    BY <1>1, DepWaitKey DEF DepWait
  <2>2. sem' \in [Keys -> Nat]
    BY <1>1, <2>1 DEF DepWait, TypeOK
  <2> QED BY <1>1, <2>2 DEF DepWait, TypeOK, Here, Cur
<1>2. ASSUME NEW th \in Threads, Send(th) PROVE TypeOK'
  <2>1. Here(th) \in Places /\ Cur(th) \in Step
    BY <1>2, HereIsPlace DEF Send
  <2>2. reqs' \in [Threads -> Seq(Request)] /\ sendNum' \in [Threads -> Int]
    BY <1>2, <2>1, SpanSlots, SendBlockType DEF Send, Cur, Here, Step
  <2> QED BY <1>2, <2>2 DEF Send, TypeOK, Here, Cur
<1>3. ASSUME NEW th \in Threads, Reduce(th) PROVE TypeOK'
  <2>1. Here(th) \in Places /\ Cur(th) \in Step
    BY <1>3, HereIsPlace DEF Reduce
  <2> DEFINE data == [i \in 1 .. Cur(th).cnt |->
                        buf[<<th[1], Cur(th).srcbuf, Cur(th).srcoff + i - 1>>]]
  <2>2. Cur(th).cnt \in Nat /\ Cur(th).srcoff \in Int
    BY <2>1 DEF Step
  <2>3. \A i \in 1 .. Cur(th).cnt :
          <<th[1], Cur(th).srcbuf, Cur(th).srcoff + i - 1>> \in Slots
    <3>1. \A c \in Cur(th).srcoff .. Cur(th).srcoff + Cur(th).cnt - 1 :
            <<th[1], Cur(th).srcbuf, c>> \in Slots
      BY <1>3, <2>1, SpanSlots DEF Reduce, Cur, Here
    <3> QED BY <2>2, <3>1
  <2>4. data \in Seq(Value)
    <3>1. data \in [1 .. Cur(th).cnt -> Value]
      BY <2>3 DEF TypeOK
    <3> HIDE DEF data
    <3> QED BY <2>2, <3>1, FunctionIsSeq
  <2>5. buf' = Stored(th[1], Cur(th).dstbuf, Cur(th).dstoff, data, Cur(th).cnt, TRUE)
    BY <1>3 DEF Reduce
  <2>6. buf' \in [Slots -> Value]
    <3> HIDE DEF data
    <3> QED BY <2>4, <2>5, StoredType DEF TypeOK
  <2> QED BY <1>3, <2>6 DEF Reduce, TypeOK, Here, Cur
<1>4. ASSUME NEW th \in Threads, Nop(th) PROVE TypeOK'
  BY <1>4 DEF Nop, TypeOK, Here, Cur
<1>5. ASSUME NEW th \in Threads, Receive(th) PROVE TypeOK'
  <2>1. PICK q \in Senders(th) : \E k \in DOMAIN reqs[q] :
           /\ reqs' = [reqs EXCEPT ![q][k].taken = TRUE]
           /\ got' = [got EXCEPT ![th] = [dst |-> reqs[q][k].dst, data |-> reqs[q][k].data]]
    BY <1>5 DEF Receive
  <2>2. PICK k \in DOMAIN reqs[q] :
           /\ reqs' = [reqs EXCEPT ![q][k].taken = TRUE]
           /\ got' = [got EXCEPT ![th] = [dst |-> reqs[q][k].dst, data |-> reqs[q][k].data]]
    BY <2>1
  <2>3. q \in Threads /\ reqs[q][k] \in Request
    BY DEF Senders, Peer, TypeOK
  <2>4. [reqs[q][k] EXCEPT !.taken = TRUE] \in Request
    BY <2>3 DEF Request
  <2>5. reqs' \in [Threads -> Seq(Request)]
    BY <2>2, <2>3, <2>4, RequestUpdate
  <2>6. got' \in [Threads -> [dst : BufferType, data : Seq(Value)]]
    BY <2>2, <2>3 DEF TypeOK, Request
  <2> QED BY <1>5, <2>5, <2>6 DEF Receive, TypeOK, Here, Cur
<1>6. ASSUME NEW th \in Threads, Store(th) PROVE TypeOK'
  <2>1. got[th].data \in Seq(Value)
    BY DEF TypeOK
  <2>2. buf' \in [Slots -> Value]
    BY <1>6, <2>1, StoredType DEF Store, TypeOK
  <2>3. got' \in [Threads -> [dst : BufferType, data : Seq(Value)]]
    BY <1>6 DEF Store, TypeOK, NoMessage, BufferType
  <2> QED BY <1>6, <2>2, <2>3 DEF Store, TypeOK, Here, Cur
<1>7. ASSUME NEW th \in Threads, RecvFails(th) PROVE TypeOK'
  <2>1. got' \in [Threads -> [dst : BufferType, data : Seq(Value)]]
    BY <1>7 DEF RecvFails, TypeOK, NoMessage, BufferType
  <2> QED BY <1>7, <2>1 DEF RecvFails, TypeOK, Here, Cur
<1>8. ASSUME NEW th \in Threads, Forward(th) PROVE TypeOK'
  <2>1. Here(th) \in Places /\ Cur(th) \in Step
    BY <1>8, HereIsPlace DEF Forward
  <2>2. Cur(th).type \in Forwarding
    BY <1>8 DEF Forward, TypeOK, Cur, Here
  <2>3. reqs' \in [Threads -> Seq(Request)] /\ sendNum' \in [Threads -> Int]
    BY <1>8, <2>1, <2>2, SpanSlots, SendBlockType
       DEF Forward, Cur, Here, Step, Forwarding, Receiving
  <2> QED BY <1>8, <2>3 DEF Forward, TypeOK, Here, Cur
<1>9. ASSUME NEW th \in Threads, Post(th) PROVE TypeOK'
  <2>1. Here(th) \in Places /\ Cur(th) \in Step /\ step[th] \in Nat /\ step[th] < NSteps(th)
    BY <1>9, HereIsPlace DEF Post
  <2>2. sem' \in [Keys -> Nat]
    BY <1>9, <2>1 DEF Post, TypeOK, Step
  <2>3. /\ step[th] + 1 \in Nat /\ step[th] + 1 =< NSteps(th)
        /\ NSteps(th) \in Nat
    BY <2>1, ThreadFacts
  <2>4. /\ pc'[th] = StartPc(th, step[th] + 1)
        /\ step'[th] = step[th] + 1
        /\ pc'[th] \in {"dep", "op", "drain"}
        /\ pc'[th] = "drain" <=> step'[th] = NSteps(th)
        /\ pc'[th] = "dep" => <<th, step'[th]>> \in Waits
    BY <1>9, <2>1, <2>3, StartPcFacts DEF Post, TypeOK
  <2>5. \A t \in Threads : t # th => pc'[t] = pc[t] /\ step'[t] = step[t]
    BY <1>9 DEF Post, TypeOK
  <2>6. pc' \in [Threads -> {"dep", "op", "data", "fwd", "post", "drain", "done"}]
    BY <1>9, <2>4 DEF Post, TypeOK
  <2>7. step' \in [Threads -> Nat]
    BY <1>9, <2>3 DEF Post, TypeOK
  <2>8. \A t \in Threads : IF pc'[t] \in {"drain", "done"}
                           THEN step'[t] = NSteps(t) ELSE step'[t] < NSteps(t)
    <3>1. ASSUME NEW t \in Threads, t # th
          PROVE  IF pc'[t] \in {"drain", "done"}
                 THEN step'[t] = NSteps(t) ELSE step'[t] < NSteps(t)
      BY <2>5, <3>1 DEF TypeOK
    <3>2. IF pc'[th] \in {"drain", "done"}
          THEN step'[th] = NSteps(th) ELSE step'[th] < NSteps(th)
      BY <2>3, <2>4
    <3> QED BY <3>1, <3>2
  <2>9. \A t \in Threads : /\ pc'[t] = "dep" => <<t, step'[t]>> \in Waits
                           /\ pc'[t] = "data" => Cur(t)'.type \in Receiving
                           /\ pc'[t] = "fwd" => Cur(t)'.type \in Forwarding
    <3>1. ASSUME NEW t \in Threads, t # th
          PROVE  /\ pc'[t] = "dep" => <<t, step'[t]>> \in Waits
                 /\ pc'[t] = "data" => Cur(t)'.type \in Receiving
                 /\ pc'[t] = "fwd" => Cur(t)'.type \in Forwarding
      BY <2>5, <3>1 DEF TypeOK, Here, Cur
    <3> QED BY <2>4, <3>1
  <2> QED BY <1>9, <2>2, <2>6, <2>7, <2>8, <2>9 DEF Post, TypeOK, Here, Cur
<1>10. ASSUME NEW th \in Threads, Drain(th) PROVE TypeOK'
  BY <1>10 DEF Drain, TypeOK, Here, Cur
<1>11. ASSUME NEW th \in Threads, Flush(th) PROVE TypeOK'
  <2>1. PICK k \in DOMAIN reqs[th] :
           reqs' = [reqs EXCEPT ![th][k].state = "ready"]
    BY <1>11 DEF Flush
  <2>2. [reqs[th][k] EXCEPT !.state = "ready"] \in Request
    <3>1. reqs[th][k] \in Request
      BY DEF TypeOK
    <3> QED BY <3>1 DEF Request
  <2>3. reqs' \in [Threads -> Seq(Request)]
    BY <2>1, <2>2, RequestUpdate
  <2> QED BY <1>11, <2>3 DEF Flush, TypeOK, Here, Cur
<1>12. ASSUME NEW th \in Threads, SendDone(th) PROVE TypeOK'
  <2>1. PICK k \in DOMAIN reqs[th] :
           reqs' = [reqs EXCEPT ![th][k].done = TRUE]
    BY <1>12 DEF SendDone
  <2>2. [reqs[th][k] EXCEPT !.done = TRUE] \in Request
    <3>1. reqs[th][k] \in Request
      BY DEF TypeOK
    <3> QED BY <3>1 DEF Request
  <2>3. reqs' \in [Threads -> Seq(Request)]
    BY <2>1, <2>2, RequestUpdate
  <2> QED BY <1>12, <2>3 DEF SendDone, TypeOK, Here, Cur
<1>13. ASSUME NEW th \in Threads, SendFails(th) PROVE TypeOK'
  <2>1. PICK k \in DOMAIN reqs[th] :
           reqs' = [reqs EXCEPT ![th][k] = [@ EXCEPT !.state = "failed", !.done = TRUE]]
    BY <1>13 DEF SendFails
  <2>2. [reqs[th][k] EXCEPT !.state = "failed", !.done = TRUE] \in Request
    <3>1. reqs[th][k] \in Request
      BY DEF TypeOK
    <3> QED BY <3>1 DEF Request
  <2>3. reqs' \in [Threads -> Seq(Request)]
    BY <2>1, <2>2, RequestUpdate
  <2> QED BY <1>13, <2>3 DEF SendFails, TypeOK, Here, Cur
<1>14. CASE UNCHANGED vars
  BY <1>14 DEF TypeOK, Here, Cur
<1> QED
  BY <1>1, <1>2, <1>3, <1>4, <1>5, <1>6, <1>7, <1>8, <1>9, <1>10, <1>11, <1>12, <1>13,
     <1>14 DEF Next, Run, Terminated

\* Every variable keeps its type: a thread past its last step is draining or
\* done, semaphores are never negative, and every access is to a chunk.
THEOREM TypeCorrect == Spec => []TypeOK
BY TypeInit, TypeNext, PTL DEF Spec

-----------------------------------------------------------------------------
(* The dependency semaphores. *)

\* What has been done in an execution that the threads of B have begun: all of
\* them in Interpreter, those that have taken a token of the round in
\* OffloadServer.  The dependents of a key that are past their wait, and what
\* TokensConserved and DependencyOrder say of it.
Started(B, p)   == p[1] \in B /\ Entered(p)
Completed(B, p) == p[1] \in B /\ Passed(p)
Taken(B, k)     == {p \in Waiters[k] : Started(B, p)}

Balance(B) ==
  \A k \in Keys : sem[k] + Cardinality(Taken(B, k))
                    = IF Completed(B, k) THEN StepAt(k).hasdep ELSE 0

OrderIn(B) == \A p \in Waits : Started(B, p) => Completed(B, DepKey(p))

LEMMA AllBegun ==
  /\ TokensConserved <=> Balance(Threads)
  /\ DependencyOrder <=> OrderIn(Threads)
<1>1. \A p \in Places : (Started(Threads, p) <=> Entered(p)) /\ (Completed(Threads, p) <=> Passed(p))
  BY PlaceFacts DEF Started, Completed
<1>2. ASSUME NEW k \in Keys
      PROVE  /\ Taken(Threads, k) = {p \in Waiters[k] : Entered(p)}
             /\ Completed(Threads, k) <=> Passed(k)
  BY <1>1, KeyFacts DEF Taken, Waiters
<1>3. TokensConserved <=> Balance(Threads)
  BY <1>2 DEF TokensConserved, Balance
<1>4. DependencyOrder <=> OrderIn(Threads)
  BY <1>1, KeyFacts DEF DependencyOrder, OrderIn
<1> QED
  BY <1>3, <1>4

LEMMA WaitersFinite ==
  ASSUME NEW k \in Keys, NEW B
  PROVE  /\ Waiters[k] \subseteq Waits
         /\ IsFiniteSet(Taken(B, k))
<1>1. Waiters[k] \subseteq Waits
  BY DEF Waiters
<1>2. Taken(B, k) \in SUBSET Places
  BY <1>1, KeyFacts DEF Taken
<1> QED BY <1>1, <1>2, PlacesFinite, FS_Subset

LEMMA TokensInit == Init /\ TypeOK => TokensConserved
<1> SUFFICES ASSUME Init, TypeOK, NEW k \in Keys
             PROVE  sem[k] + Cardinality({p \in Waiters[k] : Entered(p)})
                      = IF Passed(k) THEN StepAt(k).hasdep ELSE 0
  BY DEF TokensConserved
<1>1. ASSUME NEW p \in Waits PROVE ~Entered(p)
  <2>1. p \in Places /\ p[1] \in Threads /\ p[2] \in Nat /\ p[2] < NSteps(p[1])
    BY KeyFacts, PlaceFacts
  <2>2. p = <<p[1], p[2]>> /\ StepAt(p).depid # -1
    BY <2>1, PlaceFacts DEF Waits
  <2>3. step[p[1]] = 0 /\ pc[p[1]] = StartPc(p[1], 0)
    BY <2>1 DEF Init
  <2>4. p[2] = 0 => pc[p[1]] = "dep"
    BY <2>1, <2>2, <2>3 DEF StartPc
  <2> QED BY <2>1, <2>3, <2>4 DEF Entered
<1>2. {p \in Waiters[k] : Entered(p)} = {}
  BY <1>1, WaitersFinite
<1>3. ~Passed(k)
  <2>1. k[1] \in Threads /\ k[2] \in Nat
    BY KeyFacts, PlaceFacts
  <2> QED BY <2>1 DEF Passed, Init
<1>4. sem[k] = 0
  BY DEF Init
<1> QED BY <1>2, <1>3, <1>4, FS_EmptySet

\* What does not move a thread past a wait or past a step keeps the balance.
LEMMA TokensUnmoved ==
  ASSUME NEW B, Balance(B), sem' = sem,
         \A p \in Waits : Entered(p)' <=> Entered(p),
         \A k \in Keys : Passed(k)' <=> Passed(k)
  PROVE  Balance(B)'
<1>1. \A k \in Keys : Taken(B, k)' = Taken(B, k)
  BY WaitersFinite DEF Taken, Started
<1> QED BY <1>1 DEF Balance, Completed

\* A thread that stays in its step, or leaves it at the end, moves past no wait.
LEMMA SameStep ==
  ASSUME TypeOK, NEW B, Balance(B), NEW th \in Threads,
         step' = step, sem' = sem,
         NEW v, pc' = [pc EXCEPT ![th] = v], pc[th] # "dep", v # "dep"
  PROVE  Balance(B)'
<1>1. \A p \in Waits : Entered(p)' <=> Entered(p)
  BY DEF Entered, TypeOK
<1>2. \A k \in Keys : Passed(k)' <=> Passed(k)
  BY DEF Passed
<1> QED BY <1>1, <1>2, TokensUnmoved

LEMMA TokensDepWait ==
  ASSUME TypeOK, NEW B, Balance(B), NEW th \in Threads, th \in B, DepWait(th)
  PROVE  Balance(B)'
<1> DEFINE w == Here(th)
           key == DepKey(w)
<1>1. w \in Waits /\ key \in Keys /\ w = <<th, step[th]>>
  BY DepWaitKey DEF DepWait, Here
<1>2. /\ sem' = [sem EXCEPT ![key] = @ - 1]
      /\ pc' = [pc EXCEPT ![th] = "op"] /\ step' = step
  BY DEF DepWait
<1>3. ASSUME NEW p \in Waits PROVE Started(B, p)' <=> (Started(B, p) \/ p = w)
  <2>1. p = <<p[1], p[2]>> /\ p[1] \in Threads /\ p[2] \in Nat
    BY KeyFacts, PlaceFacts
  <2> HIDE DEF key
  <2>2. CASE p[1] = th
    <3>1. step[th] \in Nat /\ pc'[th] = "op" /\ pc[th] = "dep" /\ step'[th] = step[th]
      BY <1>2 DEF DepWait, TypeOK
    <3> QED BY <1>1, <2>1, <2>2, <3>1 DEF Started, Entered
  <2>3. CASE p[1] # th
    BY <1>1, <1>2, <2>1, <2>3 DEF Started, Entered, TypeOK
  <2> QED BY <2>2, <2>3
<1>4. ~Started(B, w)
  BY <1>1 DEF Started, Entered, DepWait, TypeOK
<1>5. ASSUME NEW k \in Keys
      PROVE  sem'[k] + Cardinality(Taken(B, k)')
               = IF Completed(B, k)' THEN StepAt(k).hasdep ELSE 0
  <2>1. Completed(B, k)' <=> Completed(B, k)
    BY <1>2 DEF Completed, Passed
  <2>2. w \in Waiters[k] <=> k = key
    BY <1>1, <1>5 DEF Waiters
  <2>3. Waiters[k] \subseteq Waits /\ IsFiniteSet(Taken(B, k))
    BY <1>5, WaitersFinite
  <2>4. sem[k] + Cardinality(Taken(B, k)) = IF Completed(B, k) THEN StepAt(k).hasdep ELSE 0
    BY <1>5 DEF Balance
  <2>5. sem[k] \in Nat /\ Cardinality(Taken(B, k)) \in Nat
    BY <2>3, FS_CardinalityType DEF TypeOK
  <2>6. CASE k = key
    <3>1. Taken(B, k)' = Taken(B, k) \cup {w}
      BY <1>3, <2>2, <2>3, <2>6 DEF Taken
    <3>2. w \notin Taken(B, k)
      BY <1>4 DEF Taken
    <3>3. Cardinality(Taken(B, k) \cup {w}) = Cardinality(Taken(B, k)) + 1
      BY <2>3, <3>2, FS_AddElement
    <3>4. sem'[k] = sem[k] - 1
      BY <1>1, <1>2, <2>6 DEF TypeOK
    <3>5. sem'[k] + Cardinality(Taken(B, k)') = sem[k] + Cardinality(Taken(B, k))
      <4>1. sem'[k] + Cardinality(Taken(B, k) \cup {w}) = sem[k] + Cardinality(Taken(B, k))
        BY <2>5, <3>3, <3>4
      <4> QED BY <3>1, <4>1
    <3> QED BY <2>1, <2>4, <3>5
  <2>7. CASE k # key
    <3>1. Taken(B, k)' = Taken(B, k)
      BY <1>3, <2>2, <2>3, <2>7 DEF Taken
    <3>2. sem'[k] = sem[k]
      BY <1>1, <1>2, <2>7 DEF TypeOK
    <3> QED BY <2>1, <2>4, <3>1, <3>2
  <2> QED BY <2>6, <2>7
<1> QED BY <1>5 DEF Balance

LEMMA TokensPost ==
  ASSUME TypeOK, NEW B, Balance(B), NEW th \in Threads, th \in B, Post(th)
  PROVE  Balance(B)'
<1> DEFINE h == Here(th)
<1>1. /\ h = <<th, step[th]>> /\ h \in Places
      /\ step[th] \in Nat /\ step[th] < NSteps(th) /\ NSteps(th) \in Nat
  BY HereIsPlace, ThreadFacts DEF Post, Here
<1>2. /\ step'[th] = step[th] + 1
      /\ pc'[th] = StartPc(th, step[th] + 1)
      /\ pc[th] = "post"
      /\ \A t \in Threads : t # th => step'[t] = step[t] /\ pc'[t] = pc[t]
  BY DEF Post, TypeOK
<1>3. ASSUME NEW p \in Waits PROVE Started(B, p)' <=> Started(B, p)
  <2>1. p = <<p[1], p[2]>> /\ p[1] \in Threads /\ p[2] \in Nat /\ p[2] < NSteps(p[1])
    BY KeyFacts, PlaceFacts
  <2>2. CASE p[1] = th
    <3>1. p[2] = step[th] + 1 => pc'[th] = "dep"
      BY <1>1, <1>2, <2>1, <2>2 DEF StartPc, Waits
    <3> QED BY <1>1, <1>2, <2>1, <2>2, <3>1 DEF Started, Entered
  <2>3. CASE p[1] # th
    BY <1>2, <2>1, <2>3 DEF Started, Entered
  <2> QED BY <2>2, <2>3
<1>4. ASSUME NEW k \in Keys
      PROVE  /\ k = h => ~Completed(B, k) /\ Completed(B, k)'
             /\ k # h => (Completed(B, k)' <=> Completed(B, k))
  <2>1. k = <<k[1], k[2]>> /\ k[1] \in Threads /\ k[2] \in Nat
    BY KeyFacts, PlaceFacts
  <2>2. CASE k[1] = th
    BY <1>1, <1>2, <2>1, <2>2 DEF Completed, Passed
  <2>3. CASE k[1] # th
    BY <1>1, <1>2, <2>1, <2>3 DEF Completed, Passed
  <2> QED BY <2>2, <2>3
<1>5. ASSUME NEW k \in Keys
      PROVE  sem'[k] + Cardinality(Taken(B, k)')
               = IF Completed(B, k)' THEN StepAt(k).hasdep ELSE 0
  <2>1. Taken(B, k)' = Taken(B, k)
    BY <1>3, WaitersFinite DEF Taken
  <2>2. sem[k] + Cardinality(Taken(B, k)) = IF Completed(B, k) THEN StepAt(k).hasdep ELSE 0
    BY DEF Balance
  <2>3. sem[k] \in Nat /\ Cardinality(Taken(B, k)) \in Nat /\ StepAt(k).hasdep \in Nat
    BY WaitersFinite, FS_CardinalityType, KeyFacts, PlaceFacts DEF TypeOK, Step
  <2>4. CASE k = h
    <3>1. sem'[k] = sem[k] + StepAt(k).hasdep
      BY <2>4 DEF Post, TypeOK, Cur
    <3>2. sem[k] + Cardinality(Taken(B, k)) = 0
      BY <1>4, <2>2, <2>4
    <3>3. sem'[k] + Cardinality(Taken(B, k)) = StepAt(k).hasdep
      BY <2>3, <3>1, <3>2
    <3> QED BY <1>4, <2>1, <2>4, <3>3
  <2>5. CASE k # h
    <3>1. sem'[k] = sem[k]
      BY <2>5 DEF Post, TypeOK
    <3> QED BY <1>4, <2>1, <2>2, <2>5, <3>1
  <2> QED BY <2>4, <2>5
<1> QED BY <1>5 DEF Balance

LEMMA TokensRun ==
  ASSUME TypeOK, NEW B, Balance(B), NEW th \in Threads, th \in B, Run(th)
  PROVE  Balance(B)'
<1>1. CASE DepWait(th)
  BY <1>1, TokensDepWait
<1>2. CASE Post(th)
  BY <1>2, TokensPost
<1>3. CASE Send(th) \/ Reduce(th) \/ Nop(th) \/ Receive(th) \/ RecvFails(th)
             \/ Forward(th) \/ Drain(th)
  <2>1. /\ step' = step /\ sem' = sem /\ pc[th] # "dep"
        /\ \E v \in {"post", "data", "done"} : pc' = [pc EXCEPT ![th] = v]
    BY <1>3 DEF Send, Reduce, Nop, Receive, RecvFails, Forward, Drain
  <2> QED BY <2>1, SameStep
<1>4. CASE Store(th)
  <2>1. /\ step' = step /\ sem' = sem /\ pc[th] # "dep"
        /\ \E v \in {"fwd", "post"} : pc' = [pc EXCEPT ![th] = v]
    BY <1>4 DEF Store
  <2> QED BY <2>1, SameStep
<1>5. CASE Flush(th) \/ SendDone(th) \/ SendFails(th)
  BY <1>5, TokensUnmoved DEF Flush, SendDone, SendFails, Entered, Passed
<1> QED
  BY <1>1, <1>2, <1>3, <1>4, <1>5 DEF Run

LEMMA TokensNext == TypeOK /\ TokensConserved /\ [Next]_vars => TokensConserved'
<1> SUFFICES ASSUME TypeOK, TokensConserved, [Next]_vars PROVE TokensConserved'
  OBVIOUS
<1>1. ASSUME NEW th \in Threads, Run(th) PROVE TokensConserved'
  <2>1. Balance(Threads)'
    BY <1>1, TokensRun, AllBegun
  <2>2. TokensConserved' <=> Balance(Threads)'
    BY AllBegun, PTL
  <2> QED BY <2>1, <2>2
<1>2. CASE UNCHANGED vars
  BY <1>2 DEF TokensConserved, Entered, Passed
<1> QED
  BY <1>1, <1>2 DEF Next, Terminated

\* No schedule and no interleaving loses, forges or takes a token twice.
THEOREM TokensAreConserved == Spec => []TokensConserved
<1>1. Init => TokensConserved
  BY TypeInit, TokensInit
<1> QED BY <1>1, TypeCorrect, TokensNext, PTL DEF Spec

\* A token that was taken had been posted, so the step it stands for is done.
LEMMA OrderFromTokens ==
  ASSUME TypeOK, NEW B, Balance(B)
  PROVE  OrderIn(B)
<1> SUFFICES ASSUME NEW w \in Waits, Started(B, w)
             PROVE  Completed(B, DepKey(w))
  BY DEF OrderIn
<1> DEFINE k == DepKey(w)
<1>1. k \in Keys
  BY KeyFacts
<1>2. w \in Taken(B, k)
  BY <1>1 DEF Taken, Waiters
<1>3. sem[k] \in Nat /\ IsFiniteSet(Taken(B, k)) /\ Cardinality(Taken(B, k)) \in Nat
  BY <1>1, WaitersFinite, FS_CardinalityType DEF TypeOK
<1>4. Cardinality(Taken(B, k)) # 0
  BY <1>2, <1>3, FS_EmptySet
<1>5. sem[k] + Cardinality(Taken(B, k)) = IF Completed(B, k) THEN StepAt(k).hasdep ELSE 0
  BY <1>1 DEF Balance
<1>6. sem[k] + Cardinality(Taken(B, k)) # 0
  BY <1>3, <1>4
<1> QED BY <1>5, <1>6

LEMMA TokensOrder == TypeOK /\ TokensConserved => DependencyOrder
BY OrderFromTokens, AllBegun

\* A step that depends on another starts after it, in every execution of
\* every schedule: the semaphores order what the schedule says they order.
THEOREM DependenciesOrdered == Spec => []DependencyOrder
BY TypeCorrect, TokensAreConserved, TokensOrder, PTL

-----------------------------------------------------------------------------
(* The count of outstanding sends. *)

\* The requests of a thread whose callback has not run.
Outstanding(th) == {k \in DOMAIN reqs[th] : ~reqs[th][k].done}

LEMMA OutstandingFinite ==
  ASSUME TypeOK, NEW th \in Threads
  PROVE  /\ DOMAIN reqs[th] = 1 .. Len(reqs[th]) /\ Len(reqs[th]) \in Nat
         /\ IsFiniteSet(Outstanding(th)) /\ Cardinality(Outstanding(th)) \in Nat
<1>1. DOMAIN reqs[th] = 1 .. Len(reqs[th]) /\ Len(reqs[th]) \in Nat
  BY DEF TypeOK
<1>2. IsFiniteSet(DOMAIN reqs[th])
  BY <1>1, FS_Interval
<1>3. Outstanding(th) \in SUBSET (DOMAIN reqs[th])
  BY DEF Outstanding
<1> QED BY <1>1, <1>2, <1>3, FS_Subset, FS_CardinalityType

\* A request completes when it has left the sender, or fails; one that UCX
\* refused never does.
OnlySentComplete ==
  \A th \in Threads : \A k \in DOMAIN reqs[th] :
    reqs[th][k].done => reqs[th][k].state \in {"ready", "failed"}

SendInv == TypeOK /\ SendsAccounted /\ OnlySentComplete /\ DrainedWhenDone

\* Posting a send adds one request and counts it, whatever UCX returned.
LEMMA SendBlockCounted ==
  ASSUME SendInv, NEW th \in Threads, NEW b, NEW off, SendBlock(th, b, off)
  PROVE  SendsAccounted' /\ OnlySentComplete'
         /\ \A t \in Threads : t # th => reqs'[t] = reqs[t]
<1>1. PICK m : /\ reqs' = [reqs EXCEPT ![th] = Append(@, m)]
               /\ m.done = FALSE
               /\ sendNum' = [sendNum EXCEPT ![th] = @ + 1]
  <2> DEFINE R(result) ==
        [tag |-> Cur(th).dstoff, dst |-> Cur(th).dstbuf,
         data |-> [i \in 1 .. Cur(th).cnt |-> buf[<<th[1], b, off + i - 1>>]],
         state |-> result, taken |-> FALSE, done |-> FALSE]
  <2>1. PICK result \in SendResults :
          /\ reqs' = [reqs EXCEPT ![th] = Append(@, R(result))]
          /\ sendNum' = [sendNum EXCEPT ![th] = @ + 1]
    BY DEF SendBlock
  <2>2. R(result).done = FALSE
    OBVIOUS
  <2> HIDE DEF R
  <2> QED BY <2>1, <2>2
<1>2. \A t \in Threads : t # th => reqs'[t] = reqs[t] /\ sendNum'[t] = sendNum[t]
  BY <1>1 DEF SendInv, TypeOK
<1>3. reqs'[th] = Append(reqs[th], m) /\ sendNum'[th] = sendNum[th] + 1
  BY <1>1 DEF SendInv, TypeOK
<1> DEFINE n == Len(reqs[th])
<1>4. /\ DOMAIN reqs[th] = 1 .. n /\ n \in Nat
      /\ IsFiniteSet(Outstanding(th)) /\ Cardinality(Outstanding(th)) \in Nat
  BY OutstandingFinite DEF SendInv
<1>5. /\ DOMAIN reqs'[th] = 1 .. n + 1
      /\ reqs'[th][n + 1] = m
      /\ \A k \in 1 .. n : reqs'[th][k] = reqs[th][k]
  <2>1. reqs[th] \in Seq(Request)
    BY DEF SendInv, TypeOK
  <2> QED BY <1>3, <1>4, <2>1
<1>6. {k \in DOMAIN reqs'[th] : ~reqs'[th][k].done} = Outstanding(th) \cup {n + 1}
  BY <1>1, <1>4, <1>5 DEF Outstanding
<1>7. n + 1 \notin Outstanding(th)
  BY <1>4 DEF Outstanding
<1>8. Cardinality(Outstanding(th) \cup {n + 1}) = Cardinality(Outstanding(th)) + 1
  BY <1>4, <1>7, FS_AddElement
<1>9. sendNum'[th] = Cardinality({k \in DOMAIN reqs'[th] : ~reqs'[th][k].done})
  BY <1>3, <1>6, <1>8 DEF SendInv, SendsAccounted, Outstanding
<1>10. SendsAccounted'
  BY <1>2, <1>9 DEF SendInv, SendsAccounted
<1>11. OnlySentComplete'
  BY <1>1, <1>2, <1>4, <1>5 DEF SendInv, OnlySentComplete
<1> QED BY <1>2, <1>10, <1>11

\* A callback, whatever its status: one request less is outstanding.
LEMMA SendDoneCounted ==
  ASSUME SendInv, NEW th \in Threads, SendDone(th) \/ SendFails(th)
  PROVE  SendInv'
<1>1. PICK j \in DOMAIN reqs[th] :
        /\ ~reqs[th][j].done
        /\ \/ /\ reqs[th][j].state = "ready"
              /\ reqs' = [reqs EXCEPT ![th][j].done = TRUE]
           \/ reqs' = [reqs EXCEPT ![th][j] = [@ EXCEPT !.state = "failed", !.done = TRUE]]
  BY DEF SendDone, SendFails
<1>2. /\ \A t \in Threads : t # th => reqs'[t] = reqs[t] /\ sendNum'[t] = sendNum[t]
      /\ sendNum'[th] = sendNum[th] - 1
      /\ pc' = pc /\ pc[th] # "done"
  BY <1>1 DEF SendInv, TypeOK, SendDone, SendFails, Progressing
<1>3. /\ IsFiniteSet(Outstanding(th)) /\ Cardinality(Outstanding(th)) \in Nat
      /\ j \in Outstanding(th)
  BY <1>1, OutstandingFinite DEF SendInv, Outstanding
<1>4. /\ DOMAIN reqs'[th] = DOMAIN reqs[th]
      /\ reqs'[th][j].done /\ reqs'[th][j].state \in {"ready", "failed"}
      /\ \A k \in DOMAIN reqs[th] : k # j => reqs'[th][k] = reqs[th][k]
  <2>1. reqs[th] \in Seq(Request) /\ reqs[th][j] \in Request
    BY DEF SendInv, TypeOK
  <2>2. \/ /\ reqs[th][j].state = "ready"
           /\ reqs'[th] = [reqs[th] EXCEPT ![j].done = TRUE]
        \/ reqs'[th] = [reqs[th] EXCEPT ![j] = [@ EXCEPT !.state = "failed", !.done = TRUE]]
    BY <1>1 DEF SendInv, TypeOK
  <2>3. CASE reqs'[th] = [reqs[th] EXCEPT ![j] = [@ EXCEPT !.state = "failed", !.done = TRUE]]
    <3>1. /\ reqs'[th][j] = [reqs[th][j] EXCEPT !.state = "failed", !.done = TRUE]
          /\ DOMAIN reqs'[th] = DOMAIN reqs[th]
          /\ \A k \in DOMAIN reqs[th] : k # j => reqs'[th][k] = reqs[th][k]
      BY <2>1, <2>3
    <3> QED BY <2>1, <3>1 DEF Request
  <2>4. CASE reqs[th][j].state = "ready" /\ reqs'[th] = [reqs[th] EXCEPT ![j].done = TRUE]
    BY <2>1, <2>4 DEF Request
  <2> QED BY <2>2, <2>3, <2>4
<1>5. {k \in DOMAIN reqs'[th] : ~reqs'[th][k].done} = Outstanding(th) \ {j}
  BY <1>4 DEF Outstanding
<1>6. Cardinality(Outstanding(th) \ {j}) = Cardinality(Outstanding(th)) - 1
  BY <1>3, FS_RemoveElement
<1>7. sendNum'[th] = Cardinality({k \in DOMAIN reqs'[th] : ~reqs'[th][k].done})
  BY <1>2, <1>5, <1>6 DEF SendInv, SendsAccounted, Outstanding
<1>8. SendsAccounted'
  BY <1>2, <1>7 DEF SendInv, SendsAccounted
<1>9. OnlySentComplete'
  BY <1>2, <1>4 DEF SendInv, OnlySentComplete
<1>10. DrainedWhenDone'
  BY <1>2 DEF SendInv, DrainedWhenDone
<1>11. TypeOK'
  BY TypeNext DEF SendInv, Next, Run
<1> QED BY <1>8, <1>9, <1>10, <1>11 DEF SendInv

\* A step that completes no request, and posts none, keeps the count.
LEMMA RequestsKept ==
  ASSUME SendInv, TypeOK', sendNum' = sendNum,
         \A t \in Threads :
           /\ DOMAIN reqs'[t] = DOMAIN reqs[t]
           /\ \A k \in DOMAIN reqs[t] :
                /\ reqs'[t][k].done = reqs[t][k].done
                /\ reqs'[t][k].state \in {reqs[t][k].state, "ready"},
         \A t \in Threads : pc'[t] = "done" =>
           pc[t] = "done" \/ (pc[t] = "drain" /\ sendNum[t] = 0)
  PROVE  SendInv'
<1>1. SendsAccounted'
  <2> SUFFICES ASSUME NEW t \in Threads
               PROVE  sendNum'[t] = Cardinality({k \in DOMAIN reqs'[t] : ~reqs'[t][k].done})
    BY DEF SendsAccounted
  <2>1. {k \in DOMAIN reqs'[t] : ~reqs'[t][k].done} = {k \in DOMAIN reqs[t] : ~reqs[t][k].done}
    OBVIOUS
  <2> QED BY <2>1 DEF SendInv, SendsAccounted
<1>2. OnlySentComplete'
  BY DEF SendInv, OnlySentComplete
<1>3. DrainedWhenDone'
  <2> SUFFICES ASSUME NEW t \in Threads, pc'[t] = "done", NEW k \in DOMAIN reqs'[t]
               PROVE  reqs'[t][k].done /\ reqs'[t][k].state \in {"ready", "failed"}
    BY DEF DrainedWhenDone
  <2>1. reqs[t][k].done /\ reqs[t][k].state \in {"ready", "failed"}
    <3>1. CASE pc[t] = "done"
      BY <3>1 DEF SendInv, DrainedWhenDone
    <3>2. CASE sendNum[t] = 0
      <4>1. Cardinality(Outstanding(t)) = 0 /\ IsFiniteSet(Outstanding(t))
        BY <3>2, OutstandingFinite DEF SendInv, SendsAccounted, Outstanding
      <4>2. Outstanding(t) = {}
        BY <4>1, FS_EmptySet
      <4> QED BY <4>2 DEF Outstanding, SendInv, OnlySentComplete
    <3> QED BY <3>1, <3>2
  <2> QED BY <2>1
<1> QED BY <1>1, <1>2, <1>3 DEF SendInv

LEMMA SendInit == Init => SendInv
<1> SUFFICES ASSUME Init PROVE SendInv
  OBVIOUS
<1>1. TypeOK
  BY TypeInit
<1>2. \A th \in Threads : reqs[th] = <<>> /\ sendNum[th] = 0
  BY DEF Init
<1>3. \A th \in Threads : {k \in DOMAIN reqs[th] : ~reqs[th][k].done} = {}
  BY <1>2
<1>4. SendsAccounted
  BY <1>2, <1>3, FS_EmptySet DEF SendsAccounted
<1> QED BY <1>1, <1>2, <1>4 DEF SendInv, OnlySentComplete, DrainedWhenDone

LEMMA SendNext == SendInv /\ [Next]_vars => SendInv'
<1> SUFFICES ASSUME SendInv, [Next]_vars PROVE SendInv'
  OBVIOUS
<1>1. TypeOK /\ TypeOK'
  BY TypeNext DEF SendInv
<1>2. ASSUME NEW th \in Threads, Send(th) \/ Forward(th) PROVE SendInv'
  <2>1. PICK b, off : SendBlock(th, b, off)
    BY <1>2 DEF Send, Forward
  <2>2. /\ SendsAccounted' /\ OnlySentComplete'
        /\ \A t \in Threads : t # th => reqs'[t] = reqs[t]
    BY <2>1, SendBlockCounted
  <2>3. pc' = [pc EXCEPT ![th] = "post"]
    BY <1>2 DEF Send, Forward
  <2>4. ASSUME NEW t \in Threads, pc'[t] = "done"
        PROVE  pc[t] = "done" /\ reqs'[t] = reqs[t]
    BY <1>1, <2>2, <2>3, <2>4 DEF TypeOK
  <2>5. DrainedWhenDone'
    BY <2>4 DEF SendInv, DrainedWhenDone
  <2> QED BY <1>1, <2>2, <2>5 DEF SendInv
<1>3. ASSUME NEW th \in Threads, SendDone(th) \/ SendFails(th) PROVE SendInv'
  BY <1>3, SendDoneCounted
<1>4. ASSUME UNCHANGED <<reqs, sendNum>>,
             \A t \in Threads : pc'[t] = "done" =>
               pc[t] = "done" \/ (pc[t] = "drain" /\ sendNum[t] = 0)
      PROVE  SendInv'
  BY <1>1, <1>4, RequestsKept
<1>5. ASSUME NEW th \in Threads,
             DepWait(th) \/ Reduce(th) \/ Nop(th) \/ Store(th) \/ RecvFails(th) \/ Post(th)
      PROVE  SendInv'
  <2>1. /\ UNCHANGED <<reqs, sendNum>>
        /\ \E v \in {"op", "post", "fwd", "dep", "drain"} : pc' = [pc EXCEPT ![th] = v]
    <3>1. Post(th) => StartPc(th, step[th] + 1) \in {"op", "dep", "drain"}
      BY DEF StartPc
    <3> QED BY <1>5, <3>1 DEF DepWait, Reduce, Nop, Store, RecvFails, Post
  <2>2. \A t \in Threads : pc'[t] = "done" => pc[t] = "done"
    BY <1>1, <2>1 DEF TypeOK
  <2> QED BY <1>4, <2>1, <2>2
<1>6. ASSUME NEW th \in Threads, Drain(th) PROVE SendInv'
  <2>1. \A t \in Threads : pc'[t] = "done" =>
          pc[t] = "done" \/ (pc[t] = "drain" /\ sendNum[t] = 0)
    BY <1>1, <1>6 DEF Drain, TypeOK
  <2> QED BY <1>4, <1>6, <2>1 DEF Drain
<1>7. ASSUME NEW th \in Threads, Receive(th) PROVE SendInv'
  <2>1. PICK q \in Senders(th) : \E k \in DOMAIN reqs[q] :
          reqs' = [reqs EXCEPT ![q][k].taken = TRUE]
    BY <1>7 DEF Receive
  <2>2. PICK k \in DOMAIN reqs[q] : reqs' = [reqs EXCEPT ![q][k].taken = TRUE]
    BY <2>1
  <2>3. q \in Threads /\ reqs[q] \in Seq(Request) /\ reqs[q][k] \in Request
    BY <1>1 DEF Senders, Peer, TypeOK
  <2>4. reqs'[q] = [reqs[q] EXCEPT ![k].taken = TRUE]
        /\ \A t \in Threads : t # q => reqs'[t] = reqs[t]
    BY <1>1, <2>2, <2>3 DEF TypeOK
  <2>5. /\ DOMAIN reqs'[q] = DOMAIN reqs[q]
        /\ \A j \in DOMAIN reqs[q] : /\ reqs'[q][j].done = reqs[q][j].done
                                     /\ reqs'[q][j].state = reqs[q][j].state
    BY <2>3, <2>4 DEF Request
  <2>6. sendNum' = sendNum /\ pc' = [pc EXCEPT ![th] = "data"]
    BY <1>7 DEF Receive
  <2>7. \A t \in Threads : pc'[t] = "done" => pc[t] = "done"
    BY <1>1, <2>6 DEF TypeOK
  <2> QED BY <1>1, <2>4, <2>5, <2>6, <2>7, RequestsKept
<1>8. ASSUME NEW th \in Threads, Flush(th) PROVE SendInv'
  <2>1. PICK k \in DOMAIN reqs[th] : reqs' = [reqs EXCEPT ![th][k].state = "ready"]
    BY <1>8 DEF Flush
  <2>2. reqs[th] \in Seq(Request) /\ reqs[th][k] \in Request
    BY <1>1 DEF TypeOK
  <2>3. reqs'[th] = [reqs[th] EXCEPT ![k].state = "ready"]
        /\ \A t \in Threads : t # th => reqs'[t] = reqs[t]
    BY <1>1, <2>1 DEF TypeOK
  <2>4. /\ DOMAIN reqs'[th] = DOMAIN reqs[th]
        /\ \A j \in DOMAIN reqs[th] : /\ reqs'[th][j].done = reqs[th][j].done
                                      /\ reqs'[th][j].state \in {reqs[th][j].state, "ready"}
    BY <2>2, <2>3 DEF Request
  <2>5. sendNum' = sendNum /\ pc' = pc
    BY <1>8 DEF Flush
  <2> QED BY <1>1, <2>3, <2>4, <2>5, RequestsKept
<1>9. CASE UNCHANGED vars
  BY <1>4, <1>9
<1> QED
  BY <1>2, <1>3, <1>5, <1>6, <1>7, <1>8, <1>9 DEF Next, Run, Terminated

THEOREM SendInvariant == Spec => []SendInv
BY SendInit, SendNext, PTL DEF Spec

\* send_num_hash is exact whatever the sends return and however callbacks
\* interleave.
THEOREM SendsAreAccounted == Spec => []SendsAccounted
BY SendInvariant, PTL DEF SendInv

\* No thread ends with a send outstanding, or with one that UCX refused; one
\* that failed when it completed is counted like any other.
THEOREM DoneIsDrained == Spec => []DrainedWhenDone
BY SendInvariant, PTL DEF SendInv

-----------------------------------------------------------------------------
(* The end of an execution. *)

\* When all the threads of a rank have ended, all its waits have been passed
\* and all its posts made; if the file counts them right, they cancel out.
LEMMA BalancedEnd ==
  ASSUME Balanced, TypeOK, TokensConserved
  PROVE  NoTokenLeft
<1> SUFFICES ASSUME NEW k \in Keys, RankDone(k[1][1]) PROVE sem[k] = 0
  BY DEF NoTokenLeft
<1>1. k = <<k[1], k[2]>> /\ k[1] \in Threads /\ k[2] \in Nat /\ k[2] < NSteps(k[1])
  BY KeyFacts, PlaceFacts
<1>2. \A th \in Threads : th[1] = k[1][1] => step[th] = NSteps(th) /\ pc[th] = "done"
  BY DEF RankDone, RankThreads, TypeOK
<1>3. Passed(k)
  BY <1>1, <1>2 DEF Passed
<1>4. ASSUME NEW p \in Waiters[k] PROVE Entered(p)
  <2>1. p \in Waits /\ DepKey(p) = k
    BY DEF Waiters
  <2>2. p[1] \in Threads /\ p[2] \in Nat /\ p[2] < NSteps(p[1])
    BY <2>1, KeyFacts, PlaceFacts
  <2>3. p[1][1] = k[1][1]
    BY <2>1 DEF DepKey
  <2> QED BY <1>2, <2>2, <2>3 DEF Entered
<1>5. {p \in Waiters[k] : Entered(p)} = Waiters[k]
  BY <1>4
<1>6. Cardinality(Waiters[k]) = StepAt(k).hasdep
  BY DEF Balanced
<1>7. sem[k] + Cardinality({p \in Waiters[k] : Entered(p)}) = StepAt(k).hasdep
  BY <1>3 DEF TokensConserved
<1>8. sem[k] + Cardinality(Waiters[k]) = StepAt(k).hasdep
  BY <1>5, <1>7
<1>9. sem[k] \in Nat /\ StepAt(k).hasdep \in Nat
  BY KeyFacts, PlaceFacts DEF TypeOK, Step
<1> QED BY <1>6, <1>8, <1>9

\* A schedule whose hasdep attributes are right leaves no token behind on a
\* rank whose threads have ended, so a next execution starts as the first.
THEOREM NothingLeftInSemaphores == ASSUME Balanced PROVE Spec => []NoTokenLeft
<1>1. TypeOK /\ TokensConserved => NoTokenLeft
  BY BalancedEnd
<1> QED BY <1>1, TypeCorrect, TokensAreConserved, PTL
=============================================================================
