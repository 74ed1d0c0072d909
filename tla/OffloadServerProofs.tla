------------------------ MODULE OffloadServerProofs ------------------------
(* Theorems about OffloadServer, for every schedule, any number of ranks   *)
(* and of requests, and both ways in which requests arrive.                *)
EXTENDS OffloadServer, ScheduleProofs

USE DEF requests, history

\* The number of replies of rank r, and the types the proofs need.
Replied(r) == Len(replies[r])

Types ==
  /\ pc \in [Threads -> {"dep", "op", "data", "fwd", "post", "drain", "done"}]
  /\ main \in [Ranks -> {"idle", "post", "collect", "reply"}]
  /\ cnt \in [Ranks -> Nat]
  /\ thSem \in [Ranks -> Nat]
  /\ mainSem \in [Ranks -> Nat]
  /\ arrived \in [Ranks -> Nat]
  /\ pulling \in [Ranks -> Seq(Nat)]
  /\ queue \in [Ranks -> Seq(Nat)]

\* A token of this round is in a semaphore or with a thread that executes.
Tokens(r) == thSem[r] + mainSem[r] + Cardinality(RunningOn(r))

Round(r) ==
  /\ main[r] \in {"idle", "reply"} => Tokens(r) = 0 /\ cnt[r] = 0
  /\ main[r] = "post" => Tokens(r) = cnt[r] /\ cnt[r] < NTbs(r)
  /\ main[r] = "collect" => Tokens(r) = NTbs(r) - cnt[r] /\ cnt[r] < NTbs(r)

IInv == Types /\ \A r \in Ranks : Round(r)

LEMMA NTbsFacts == ASSUME NEW r \in Ranks PROVE NTbs(r) \in Nat /\ NTbs(r) > 0
<1>1. Sched[r].tbs \in Seq(ThreadBlock) /\ Sched[r].tbs # <<>>
  BY SchedAssumption, BlocksAssumption DEF Rank
<1> QED
  BY <1>1 DEF NTbs

LEMMA ThreadRank == ASSUME NEW th \in Threads PROVE th[1] \in Ranks
<1>1. PICK r \in Ranks : th \in {<<r, t>> : t \in 0 .. Len(Sched[r].tbs) - 1}
  BY DEF Threads
<1> QED
  BY <1>1

LEMMA RunningFinite ==
  ASSUME NEW r \in Ranks
  PROVE  IsFiniteSet(RunningOn(r)) /\ Cardinality(RunningOn(r)) \in Nat
<1> DEFINE all == {r} \X (0 .. NTbs(r) - 1)
<1>1. IsFiniteSet({r}) /\ IsFiniteSet(0 .. NTbs(r) - 1)
  <2>1. 0 \in Int /\ NTbs(r) - 1 \in Int
    BY NTbsFacts
  <2>2. IsFiniteSet(0 .. NTbs(r) - 1)
    BY <2>1, FS_Interval
  <2> QED
    BY <2>2, FS_Singleton
<1>2. IsFiniteSet(all)
  BY <1>1, FS_Product
<1>3. RunningOn(r) \subseteq all
  <2> SUFFICES ASSUME NEW th \in Threads, th[1] = r PROVE th \in all
    BY DEF RunningOn, RankThreads
  <2>1. PICK q \in Ranks : th \in {<<q, t>> : t \in 0 .. Len(Sched[q].tbs) - 1}
    BY DEF Threads
  <2> QED
    BY <2>1 DEF NTbs
<1> HIDE DEF all
<1>4. IsFiniteSet(RunningOn(r))
  BY <1>2, <1>3, FS_Subset
<1> QED
  BY <1>4, FS_CardinalityType

LEMMA OneMore ==
  ASSUME NEW S, IsFiniteSet(S), NEW x, x \notin S
  PROVE  Cardinality(S \cup {x}) = Cardinality(S) + 1
  BY FS_AddElement

LEMMA OneLess ==
  ASSUME NEW S, IsFiniteSet(S), NEW x \in S
  PROVE  Cardinality(S \ {x}) = Cardinality(S) - 1
  BY FS_RemoveElement

LEMMA InitInv == ServerInit => IInv
<1> SUFFICES ASSUME ServerInit PROVE IInv
  OBVIOUS
<1>1. Types
  BY DEF ServerInit, Types
<1>2. ASSUME NEW r \in Ranks PROVE Round(r)
  <2>1. RunningOn(r) = {}
    BY DEF ServerInit, RunningOn, RankThreads
  <2>2. Tokens(r) = 0
    BY <2>1, FS_EmptySet DEF ServerInit, Tokens
  <2> QED
    BY <2>2 DEF ServerInit, Round
<1> QED
  BY <1>1, <1>2 DEF IInv

-----------------------------------------------------------------------------
\* A thread that works stays within its execution.
LEMMA WorkRuns ==
  ASSUME Types, NEW th \in Threads, Work(th)
  PROVE  /\ pc' \in [Threads -> {"dep", "op", "data", "fwd", "post", "drain", "done"}]
         /\ \A q \in Threads : pc'[q] = "done" <=> pc[q] = "done"
<1> USE DEF Types
<1>1. CASE DepWait(th)
  BY <1>1 DEF DepWait
<1>2. CASE Send(th) \/ Nop(th) \/ Reduce(th) \/ RecvFails(th) \/ Forward(th)
  BY <1>2 DEF Send, Nop, Reduce, RecvFails, Forward
<1>3. CASE Receive(th)
  BY <1>3 DEF Receive
<1>4. CASE Store(th)
  <2>1. pc[th] = "data" /\ \E p \in {"fwd", "post"} : pc' = [pc EXCEPT ![th] = p]
    BY <1>4 DEF Store
  <2> QED
    BY <2>1
<1>5. CASE Post(th)
  <2>1. StartPc(th, step[th] + 1) \in {"dep", "op", "drain"}
    BY DEF StartPc
  <2>2. pc[th] = "post" /\ pc' = [pc EXCEPT ![th] = StartPc(th, step[th] + 1)]
    BY <1>5 DEF Post
  <2> QED
    BY <2>1, <2>2
<1>6. CASE Flush(th) \/ SendDone(th) \/ SendFails(th)
  BY <1>6 DEF Flush, SendDone, SendFails
<1> QED
  BY <1>1, <1>2, <1>3, <1>4, <1>5, <1>6 DEF Work

\* What Round speaks of.
LEMMA RoundUnmoved ==
  ASSUME NEW r \in Ranks, Round(r),
         main'[r] = main[r], cnt'[r] = cnt[r], Tokens(r)' = Tokens(r)
  PROVE  Round(r)'
  BY DEF Round, NTbs

LEMMA WorkKept == ASSUME IInv, NEW th \in Threads, Work(th) PROVE IInv'
<1>1. UNCHANGED serverVars
  BY DEF Work
<1>2. Types'
  BY <1>1, WorkRuns DEF IInv, Types, serverVars
<1>3. ASSUME NEW r \in Ranks PROVE Round(r)'
  <2>1. RunningOn(r)' = RunningOn(r)
    BY WorkRuns DEF IInv, RunningOn, RankThreads
  <2> QED
    BY <1>1, <2>1, RoundUnmoved DEF IInv, Tokens, serverVars
<1> QED
  BY <1>2, <1>3 DEF IInv

LEMMA BeginKept == ASSUME IInv, NEW th \in Threads, Begin(th) PROVE IInv'
<1> USE DEF IInv, Types
<1>1. th[1] \in Ranks /\ StartPc(th, 0) \in {"dep", "op", "drain"}
  BY ThreadRank DEF StartPc
<1>2. /\ pc[th] = "done" /\ thSem[th[1]] > 0
      /\ thSem' = [thSem EXCEPT ![th[1]] = @ - 1]
      /\ pc' = [pc EXCEPT ![th] = StartPc(th, 0)]
      /\ UNCHANGED <<main, cnt, mainSem, arrived, pulling, queue>>
  BY DEF Begin
<1>3. Types'
  <2>1. thSem' \in [Ranks -> Nat]
    BY <1>1, <1>2
  <2>2. pc' \in [Threads -> {"dep", "op", "data", "fwd", "post", "drain", "done"}]
    BY <1>1, <1>2
  <2> QED
    BY <1>2, <2>1, <2>2
<1>4. ASSUME NEW r \in Ranks PROVE Round(r)'
  <2>1. CASE r = th[1]
    <3>1. RunningOn(r)' = RunningOn(r) \cup {th} /\ th \notin RunningOn(r)
      BY <1>1, <1>2, <2>1 DEF RunningOn, RankThreads
    <3>2. Cardinality(RunningOn(r)') = Cardinality(RunningOn(r)) + 1
      BY <3>1, RunningFinite, OneMore
    <3>3. Tokens(r)' = Tokens(r)
      BY <1>1, <1>2, <2>1, <3>2, RunningFinite DEF Tokens
    <3> QED
      BY <1>2, <3>3, RoundUnmoved
  <2>2. CASE r # th[1]
    <3>1. RunningOn(r)' = RunningOn(r)
      BY <1>2, <2>2 DEF RunningOn, RankThreads
    <3> QED
      BY <1>2, <2>2, <3>1, RoundUnmoved DEF Tokens
  <2> QED
    BY <2>1, <2>2
<1> QED
  BY <1>3, <1>4

LEMMA FinishKept == ASSUME IInv, NEW th \in Threads, Finish(th) PROVE IInv'
<1> USE DEF IInv, Types
<1>1. th[1] \in Ranks
  BY ThreadRank
<1>2. /\ pc[th] = "drain" /\ pc' = [pc EXCEPT ![th] = "done"]
      /\ mainSem' = [mainSem EXCEPT ![th[1]] = @ + 1]
      /\ UNCHANGED <<main, cnt, thSem, arrived, pulling, queue>>
  BY DEF Finish, Drain
<1>3. Types'
  <2>1. mainSem' \in [Ranks -> Nat]
    BY <1>1, <1>2
  <2>2. pc' \in [Threads -> {"dep", "op", "data", "fwd", "post", "drain", "done"}]
    BY <1>2
  <2> QED
    BY <1>2, <2>1, <2>2
<1>4. ASSUME NEW r \in Ranks PROVE Round(r)'
  <2>1. CASE r = th[1]
    <3>1. RunningOn(r)' = RunningOn(r) \ {th} /\ th \in RunningOn(r)
      BY <1>1, <1>2, <2>1 DEF RunningOn, RankThreads
    <3>2. Cardinality(RunningOn(r)') = Cardinality(RunningOn(r)) - 1
      BY <3>1, RunningFinite, OneLess
    <3>3. Tokens(r)' = Tokens(r)
      BY <1>1, <1>2, <2>1, <3>2, RunningFinite DEF Tokens
    <3> QED
      BY <1>2, <3>3, RoundUnmoved
  <2>2. CASE r # th[1]
    <3>1. RunningOn(r)' = RunningOn(r)
      BY <1>2, <2>2 DEF RunningOn, RankThreads
    <3> QED
      BY <1>2, <2>2, <3>1, RoundUnmoved DEF Tokens
  <2> QED
    BY <2>1, <2>2
<1> QED
  BY <1>3, <1>4

-----------------------------------------------------------------------------
\* Main's part: the arrivals, and the round it has the threads execute.
LEMMA ArrivalKept ==
  ASSUME IInv, NEW r \in Ranks, ArriveEager(r) \/ ArriveRendezvous(r) \/ PullEnds(r)
  PROVE  IInv'
<1>1. UNCHANGED <<vars, main, cnt, thSem, mainSem>>
  BY DEF ArriveEager, ArriveRendezvous, PullEnds
<1>2. /\ arrived' \in [Ranks -> Nat]
      /\ pulling' \in [Ranks -> Seq(Nat)] /\ queue' \in [Ranks -> Seq(Nat)]
  <2> USE DEF IInv, Types
  <2>1. CASE ArriveEager(r)
    BY <2>1 DEF ArriveEager
  <2>2. CASE ArriveRendezvous(r)
    BY <2>2 DEF ArriveRendezvous
  <2>3. CASE PullEnds(r)
    <3> DEFINE n == Len(pulling[r])
    <3>1. /\ pulling[r] \in Seq(Nat) /\ pulling[r] # <<>> /\ arrived' = arrived
          /\ queue' = [queue EXCEPT ![r] = Append(@, pulling[r][n])]
          /\ pulling' = [pulling EXCEPT ![r] = SubSeq(@, 1, n - 1)]
      BY <2>3 DEF PullEnds
    <3>2. n \in 1 .. Len(pulling[r]) /\ pulling[r][n] \in Nat
      BY <3>1
    <3>3. SubSeq(pulling[r], 1, n - 1) \in Seq(Nat)
      BY <3>1
    <3> HIDE DEF n
    <3> QED
      BY <3>1, <3>2, <3>3
  <2> QED
    BY <2>1, <2>2, <2>3
<1>3. ASSUME NEW q \in Ranks PROVE Round(q)'
  BY <1>1 DEF IInv, Round, Tokens, RunningOn, RankThreads, NTbs, vars
<1> QED
  BY <1>1, <1>2, <1>3 DEF IInv, Types, vars

LEMMA MainKept ==
  ASSUME IInv, NEW r \in Ranks, Take(r) \/ PostToken(r) \/ Collect(r) \/ Reply(r)
  PROVE  IInv'
<1> USE DEF IInv, Types
<1>1. pc' = pc /\ \A q \in Ranks : RunningOn(q)' = RunningOn(q)
  BY DEF Take, PostToken, Collect, Reply, vars, RunningOn, RankThreads
<1>2. NTbs(r) \in Nat /\ NTbs(r) > 0 /\ Cardinality(RunningOn(r)) \in Nat
  BY NTbsFacts, RunningFinite
<1>3. /\ main[r] \in {"idle", "post", "collect", "reply"}
      /\ cnt[r] \in Nat /\ thSem[r] \in Nat /\ mainSem[r] \in Nat /\ Round(r)
  OBVIOUS
<1>4. ASSUME NEW q \in Ranks, q # r PROVE Round(q)'
  <2>1. /\ main'[q] = main[q] /\ cnt'[q] = cnt[q]
        /\ thSem'[q] = thSem[q] /\ mainSem'[q] = mainSem[q]
    <3>1. CASE Take(r) \/ Reply(r)
      BY <1>4, <3>1 DEF Take, Reply
    <3>2. CASE PostToken(r)
      BY <1>4, <3>2 DEF PostToken
    <3>3. CASE Collect(r)
      BY <1>4, <3>3 DEF Collect
    <3> QED
      BY <3>1, <3>2, <3>3
  <2> QED
    BY <1>1, <2>1, RoundUnmoved DEF Tokens
<1>5. CASE Take(r)
  <2>1. /\ main[r] = "idle" /\ main' = [main EXCEPT ![r] = "post"]
        /\ queue' = [queue EXCEPT ![r] = Tail(@)] /\ queue[r] # <<>>
        /\ UNCHANGED <<cnt, thSem, mainSem, arrived, pulling>>
    BY <1>5 DEF Take
  <2>2. Tail(queue[r]) \in Seq(Nat)
    BY <2>1
  <2>3. Types'
    <3>1. queue' \in [Ranks -> Seq(Nat)]
      BY <2>1, <2>2
    <3>2. main' \in [Ranks -> {"idle", "post", "collect", "reply"}]
      BY <2>1
    <3> QED
      BY <1>1, <2>1, <3>1, <3>2
  <2>4. Round(r)'
    <3>1. main'[r] = "post" /\ Tokens(r)' = Tokens(r) /\ cnt'[r] = cnt[r]
      BY <1>1, <2>1 DEF Tokens
    <3> QED
      BY <1>2, <1>3, <2>1, <3>1 DEF Round, NTbs
  <2> QED
    BY <1>4, <2>3, <2>4
<1>6. CASE PostToken(r)
  <2>1. /\ main[r] = "post" /\ thSem' = [thSem EXCEPT ![r] = @ + 1]
        /\ UNCHANGED <<mainSem, arrived, pulling, queue>>
    BY <1>6 DEF PostToken
  <2>2. \/ /\ cnt[r] + 1 = NTbs(r) /\ cnt' = [cnt EXCEPT ![r] = 0]
           /\ main' = [main EXCEPT ![r] = "collect"]
        \/ /\ cnt[r] + 1 # NTbs(r) /\ cnt' = [cnt EXCEPT ![r] = @ + 1]
           /\ main' = main
    BY <1>6 DEF PostToken
  <2>3. Types'
    <3>1. main' \in [Ranks -> {"idle", "post", "collect", "reply"}] /\ cnt' \in [Ranks -> Nat]
      <4>1. main \in [Ranks -> {"idle", "post", "collect", "reply"}] /\ cnt \in [Ranks -> Nat]
        OBVIOUS
      <4>2. \/ cnt' = [cnt EXCEPT ![r] = 0] /\ main' = [main EXCEPT ![r] = "collect"]
            \/ cnt' = [cnt EXCEPT ![r] = @ + 1] /\ main' = main
        BY <2>2
      <4> HIDE DEF IInv, Types
      <4> QED
        BY <4>1, <4>2
    <3>2. thSem' \in [Ranks -> Nat]
      BY <2>1
    <3> QED
      BY <1>1, <2>1, <3>1, <3>2
  <2>4. Round(r)'
    <3>1. Tokens(r) = cnt[r] /\ cnt[r] < NTbs(r)
      BY <1>3, <2>1 DEF Round
    <3>2. Tokens(r)' = Tokens(r) + 1
      BY <1>1, <1>2, <1>3, <2>1 DEF Tokens
    <3>3. \/ main'[r] = "collect" /\ cnt'[r] = 0 /\ cnt[r] + 1 = NTbs(r)
          \/ main'[r] = "post" /\ cnt'[r] = cnt[r] + 1 /\ cnt[r] + 1 # NTbs(r)
      BY <2>1, <2>2
    <3> QED
      BY <1>2, <1>3, <3>1, <3>2, <3>3 DEF Round, NTbs
  <2> QED
    BY <1>4, <2>3, <2>4
<1>7. CASE Collect(r)
  <2>1. /\ main[r] = "collect" /\ mainSem[r] > 0 /\ mainSem' = [mainSem EXCEPT ![r] = @ - 1]
        /\ UNCHANGED <<thSem, arrived, pulling, queue>>
    BY <1>7 DEF Collect
  <2>2. \/ /\ cnt[r] + 1 = NTbs(r) /\ cnt' = [cnt EXCEPT ![r] = 0]
           /\ main' = [main EXCEPT ![r] = "reply"]
        \/ /\ cnt[r] + 1 # NTbs(r) /\ cnt' = [cnt EXCEPT ![r] = @ + 1]
           /\ main' = main
    BY <1>7 DEF Collect
  <2>3. Types'
    <3>1. main' \in [Ranks -> {"idle", "post", "collect", "reply"}] /\ cnt' \in [Ranks -> Nat]
      <4>1. main \in [Ranks -> {"idle", "post", "collect", "reply"}] /\ cnt \in [Ranks -> Nat]
        OBVIOUS
      <4>2. \/ cnt' = [cnt EXCEPT ![r] = 0] /\ main' = [main EXCEPT ![r] = "reply"]
            \/ cnt' = [cnt EXCEPT ![r] = @ + 1] /\ main' = main
        BY <2>2
      <4> HIDE DEF IInv, Types
      <4> QED
        BY <4>1, <4>2
    <3>2. mainSem' \in [Ranks -> Nat]
      BY <2>1
    <3> QED
      BY <1>1, <2>1, <3>1, <3>2
  <2>4. Round(r)'
    <3>1. Tokens(r) = NTbs(r) - cnt[r] /\ cnt[r] < NTbs(r)
      BY <1>3, <2>1 DEF Round
    <3>2. Tokens(r)' = Tokens(r) - 1
      BY <1>1, <1>2, <1>3, <2>1 DEF Tokens
    <3>3. \/ main'[r] = "reply" /\ cnt'[r] = 0 /\ cnt[r] + 1 = NTbs(r)
          \/ main'[r] = "collect" /\ cnt'[r] = cnt[r] + 1 /\ cnt[r] + 1 # NTbs(r)
      BY <2>1, <2>2
    <3>4. NTbs(r)' = NTbs(r)
      BY DEF NTbs
    <3>5. main'[r] = "reply" => Tokens(r)' = 0 /\ cnt'[r] = 0
      BY <1>2, <1>3, <3>1, <3>2, <3>3
    <3>6. main'[r] = "collect" => Tokens(r)' = NTbs(r) - cnt'[r] /\ cnt'[r] < NTbs(r)
      BY <1>2, <1>3, <3>1, <3>2, <3>3
    <3>7. main'[r] \in {"reply", "collect"}
      BY <3>3
    <3> HIDE DEF IInv, Types
    <3> QED
      BY <3>4, <3>5, <3>6, <3>7 DEF Round
  <2> QED
    BY <1>4, <2>3, <2>4
<1>8. CASE Reply(r)
  <2>1. /\ main[r] = "reply" /\ main' = [main EXCEPT ![r] = "idle"]
        /\ UNCHANGED <<cnt, thSem, mainSem, arrived, pulling, queue>>
    BY <1>8 DEF Reply
  <2>2. Types'
    BY <1>1, <2>1
  <2>3. Round(r)'
    <3>1. main'[r] = "idle" /\ Tokens(r)' = Tokens(r) /\ cnt'[r] = cnt[r]
      BY <1>1, <2>1 DEF Tokens
    <3> QED
      BY <1>3, <2>1, <3>1 DEF Round
  <2> QED
    BY <1>4, <2>2, <2>3
<1> QED
  BY <1>5, <1>6, <1>7, <1>8

LEMMA NextInv == ASSUME IInv, [ServerNext]_allVars PROVE IInv'
<1>1. CASE UNCHANGED allVars
  BY <1>1 DEF allVars, vars, serverVars, IInv, Types, Round, Tokens, RunningOn, RankThreads, NTbs
<1> QED
  BY <1>1, ArrivalKept, MainKept, WorkKept, BeginKept, FinishKept
     DEF ServerNext, Main, Pulled, PullFails, Thread, Quiet

\* Main has the rank's buffers to itself while it takes a request into them
\* and replies from them (MainAlone), whichever threads take the tokens.
THEOREM MainIsAlone == ServerSpec => []MainAlone
<1>1. ASSUME IInv, NEW r \in Ranks, main[r] \in {"idle", "reply"}
      PROVE  RunningOn(r) = {} /\ thSem[r] = 0 /\ mainSem[r] = 0
  <2>1. Tokens(r) = 0
    BY <1>1 DEF IInv, Round
  <2>2. thSem[r] \in Nat /\ mainSem[r] \in Nat /\ Cardinality(RunningOn(r)) \in Nat
    BY <1>1, RunningFinite DEF IInv, Types
  <2>3. thSem[r] = 0 /\ mainSem[r] = 0 /\ Cardinality(RunningOn(r)) = 0
    BY <2>1, <2>2 DEF Tokens
  <2> QED
    BY <2>3, RunningFinite, FS_EmptySet
<1>2. IInv => MainAlone
  BY <1>1 DEF MainAlone
<1> QED
  BY <1>2, InitInv, NextInv, PTL DEF ServerSpec

-----------------------------------------------------------------------------
\* The replies are a sequence, whatever the contents.
Sequences == replies \in [Ranks -> {replies[r] : r \in Ranks}]
             /\ \A r \in Ranks : \E S : replies[r] \in Seq(S)

Busy(r) == IF main[r] = "idle" THEN 0 ELSE 1

Conserved(r) == arrived[r] = Len(pulling[r]) + Len(queue[r]) + Len(replies[r]) + Busy(r)

LEMMA Longer ==
  ASSUME NEW S, NEW s \in Seq(S), NEW x
  PROVE  Append(s, x) \in Seq(S \cup {x}) /\ Len(Append(s, x)) = Len(s) + 1
<1>1. s \in Seq(S \cup {x}) /\ x \in S \cup {x}
  OBVIOUS
<1> QED
  BY <1>1

LEMMA Shorter ==
  ASSUME NEW s \in Seq(Nat), s # <<>>, NEW t, t = SubSeq(s, 1, Len(s) - 1) \/ t = Tail(s)
  PROVE  Len(t) = Len(s) - 1
  OBVIOUS

LEMMA LenType == ASSUME NEW S, NEW s \in Seq(S) PROVE Len(s) \in Nat
  OBVIOUS

LEMMA RepliesKept ==
  ASSUME Sequences, NEW r \in Ranks, Main(r)
  PROVE  \E S : replies'[r] \in Seq(S)
<1>1. PICK S : replies[r] \in Seq(S)
  BY DEF Sequences
<1>2. replies' = replies \/ replies'[r] = Append(replies[r], InputOf(r))
  BY DEF Main, ArriveEager, ArriveRendezvous, Pulled, PullFails, PullEnds, Take, PostToken, Collect, Reply, Sequences
<1>3. CASE replies' = replies
  BY <1>1, <1>3
<1>4. CASE replies'[r] = Append(replies[r], InputOf(r))
  <2>1. Append(replies[r], InputOf(r)) \in Seq(S \cup {InputOf(r)})
    BY <1>1, Longer
  <2> QED
    BY <1>4, <2>1
<1> QED
  BY <1>2, <1>3, <1>4

\* An action of main that changes the lengths moves one request.
LEMMA Moved ==
  ASSUME IInv, Sequences, NEW r \in Ranks, Main(r)
  PROVE  Conserved(r) => Conserved(r)'
<1>1. /\ pulling[r] \in Seq(Nat) /\ queue[r] \in Seq(Nat) /\ arrived[r] \in Nat
      /\ main \in [Ranks -> {"idle", "post", "collect", "reply"}]
      /\ arrived \in [Ranks -> Nat]
      /\ pulling \in [Ranks -> Seq(Nat)] /\ queue \in [Ranks -> Seq(Nat)]
  BY DEF IInv, Types
<1>2. PICK S : replies[r] \in Seq(S)
  BY DEF Sequences
<1>3. /\ Len(pulling[r]) \in Nat /\ Len(queue[r]) \in Nat /\ Len(replies[r]) \in Nat
      /\ Busy(r) \in Nat
  <2>1. Busy(r) \in Nat
    BY DEF Busy
  <2> QED
    BY <1>1, <1>2, <2>1, LenType
<1> DEFINE A == arrived[r]   P == Len(pulling[r])   Q == Len(queue[r])
           R == Len(replies[r])   B == Busy(r)
           A1 == arrived'[r]  P1 == Len(pulling'[r])  Q1 == Len(queue'[r])
           R1 == Len(replies'[r])  B1 == Busy(r)'
<1>a. A \in Nat /\ P \in Nat /\ Q \in Nat /\ R \in Nat /\ B \in Nat
  BY <1>1, <1>3
<1>b. (A = P + Q + R + B => A1 = P1 + Q1 + R1 + B1) => (Conserved(r) => Conserved(r)')
  BY DEF Conserved
<1>4. CASE ArriveEager(r)
  <2>1. /\ arrived'[r] = arrived[r] + 1 /\ queue'[r] = Append(queue[r], arrived[r] + 1)
        /\ UNCHANGED <<main, pulling, replies>>
    BY <1>1, <1>4 DEF ArriveEager
  <2>2. Len(queue'[r]) = Len(queue[r]) + 1
    BY <1>1, <2>1, Longer
  <2>3. /\ Len(pulling'[r]) = Len(pulling[r]) + 0 /\ Len(replies'[r]) = Len(replies[r]) + 0
        /\ Busy(r)' = Busy(r) + 0
    BY <1>3, <2>1 DEF Busy
  <2>9. A1 = A + 1 /\ P1 = P /\ Q1 = Q + 1 /\ R1 = R /\ B1 = B
    BY <1>1, <1>3, <2>1, <2>2, <2>3
  <2> HIDE DEF A, P, Q, R, B, A1, P1, Q1, R1, B1
  <2>10. A = P + Q + R + B => A1 = P1 + Q1 + R1 + B1
    BY <1>a, <2>9
  <2> QED
    BY <1>b, <2>10
<1>5. CASE ArriveRendezvous(r)
  <2>1. /\ arrived'[r] = arrived[r] + 1 /\ pulling'[r] = Append(pulling[r], arrived[r] + 1)
        /\ UNCHANGED <<main, queue, replies>>
    BY <1>1, <1>5 DEF ArriveRendezvous
  <2>2. Len(pulling'[r]) = Len(pulling[r]) + 1
    BY <1>1, <2>1, Longer
  <2>3. /\ Len(queue'[r]) = Len(queue[r]) + 0 /\ Len(replies'[r]) = Len(replies[r]) + 0
        /\ Busy(r)' = Busy(r) + 0
    BY <1>3, <2>1 DEF Busy
  <2>9. A1 = A + 1 /\ P1 = P + 1 /\ Q1 = Q /\ R1 = R /\ B1 = B
    BY <1>1, <1>3, <2>1, <2>2, <2>3
  <2> HIDE DEF A, P, Q, R, B, A1, P1, Q1, R1, B1
  <2>10. A = P + Q + R + B => A1 = P1 + Q1 + R1 + B1
    BY <1>a, <2>9
  <2> QED
    BY <1>b, <2>10
<1>6. CASE PullEnds(r)
  <2>1. /\ pulling[r] # <<>>
        /\ queue'[r] = Append(queue[r], pulling[r][Len(pulling[r])])
        /\ pulling'[r] = SubSeq(pulling[r], 1, Len(pulling[r]) - 1)
        /\ UNCHANGED <<main, arrived, replies>>
    BY <1>1, <1>6 DEF PullEnds
  <2>2. Len(queue'[r]) = Len(queue[r]) + 1
    BY <1>1, <2>1, Longer
  <2>3. Len(pulling'[r]) = Len(pulling[r]) - 1
    BY <1>1, <2>1, Shorter
  <2>4. /\ arrived'[r] = arrived[r] + 0 /\ Len(replies'[r]) = Len(replies[r]) + 0
        /\ Busy(r)' = Busy(r) + 0
    BY <1>1, <1>3, <2>1 DEF Busy
  <2>9. A1 = A /\ P1 = P - 1 /\ Q1 = Q + 1 /\ R1 = R /\ B1 = B
    BY <1>1, <1>3, <2>2, <2>3, <2>4
  <2> HIDE DEF A, P, Q, R, B, A1, P1, Q1, R1, B1
  <2>10. A = P + Q + R + B => A1 = P1 + Q1 + R1 + B1
    BY <1>a, <2>9
  <2> QED
    BY <1>b, <2>10
<1>7. CASE Take(r)
  <2>1. /\ main[r] = "idle" /\ main'[r] = "post"
        /\ queue[r] # <<>> /\ queue'[r] = Tail(queue[r])
        /\ UNCHANGED <<arrived, pulling, replies>>
    BY <1>1, <1>7 DEF Take
  <2>2. Len(queue'[r]) = Len(queue[r]) - 1
    BY <1>1, <2>1, Shorter
  <2>3. /\ arrived'[r] = arrived[r] + 0 /\ Len(pulling'[r]) = Len(pulling[r]) + 0
        /\ Len(replies'[r]) = Len(replies[r]) + 0
    BY <1>1, <1>3, <2>1
  <2>4. Busy(r)' = Busy(r) + 1
    BY <2>1 DEF Busy
  <2>9. A1 = A /\ P1 = P /\ Q1 = Q - 1 /\ R1 = R /\ B1 = B + 1
    BY <1>1, <1>3, <2>2, <2>3, <2>4
  <2> HIDE DEF A, P, Q, R, B, A1, P1, Q1, R1, B1
  <2>10. A = P + Q + R + B => A1 = P1 + Q1 + R1 + B1
    BY <1>a, <2>9
  <2> QED
    BY <1>b, <2>10
<1>8. CASE PostToken(r) \/ Collect(r)
  <2>1. /\ main[r] # "idle" /\ main'[r] # "idle"
        /\ UNCHANGED <<arrived, pulling, queue, replies>>
    <3>1. CASE PostToken(r)
      BY <1>1, <3>1 DEF PostToken
    <3>2. CASE Collect(r)
      BY <1>1, <3>2 DEF Collect
    <3> QED
      BY <1>8, <3>1, <3>2
  <2> QED
    BY <1>2, <2>1 DEF Conserved, Busy
<1>9. CASE Reply(r)
  <2>1. /\ main[r] = "reply" /\ main'[r] = "idle"
        /\ replies'[r] = Append(replies[r], InputOf(r))
        /\ UNCHANGED <<arrived, pulling, queue>>
    BY <1>1, <1>9 DEF Reply, Sequences
  <2>2. Len(replies'[r]) = Len(replies[r]) + 1
    <3>1. Len(Append(replies[r], InputOf(r))) = Len(replies[r]) + 1
      BY <1>2, Longer
    <3> QED
      BY <2>1, <3>1
  <2>3. /\ arrived'[r] = arrived[r] + 0 /\ Len(pulling'[r]) = Len(pulling[r]) + 0
        /\ Len(queue'[r]) = Len(queue[r]) + 0
    BY <1>1, <1>3, <2>1
  <2>4. Busy(r)' = Busy(r) - 1
    BY <2>1 DEF Busy
  <2>9. A1 = A /\ P1 = P /\ Q1 = Q /\ R1 = R + 1 /\ B1 = B - 1
    BY <1>1, <1>3, <2>2, <2>3, <2>4
  <2> HIDE DEF A, P, Q, R, B, A1, P1, Q1, R1, B1
  <2>10. A = P + Q + R + B => A1 = P1 + Q1 + R1 + B1
    BY <1>a, <2>9
  <2> QED
    BY <1>b, <2>10
<1> QED
  BY <1>4, <1>5, <1>6, <1>7, <1>8, <1>9 DEF Main, Pulled, PullFails

\* An action of main leaves the other ranks alone.
LEMMA MainElsewhere ==
  ASSUME IInv, Sequences, NEW r \in Ranks, Main(r), NEW q \in Ranks, q # r
  PROVE  /\ main'[q] = main[q] /\ arrived'[q] = arrived[q]
         /\ pulling'[q] = pulling[q] /\ queue'[q] = queue[q]
         /\ replies'[q] = replies[q]
<1> USE DEF IInv, Types, Sequences
<1>1. CASE ArriveEager(r) \/ ArriveRendezvous(r)
  BY <1>1 DEF ArriveEager, ArriveRendezvous
<1>2. CASE PullEnds(r)
  BY <1>2 DEF PullEnds
<1>3. CASE Take(r)
  BY <1>3 DEF Take
<1>4. CASE PostToken(r)
  BY <1>4 DEF PostToken
<1>5. CASE Collect(r)
  BY <1>5 DEF Collect
<1>6. CASE Reply(r)
  BY <1>6 DEF Reply
<1> QED
  BY <1>1, <1>2, <1>3, <1>4, <1>5, <1>6 DEF Main, Pulled, PullFails

ConservedInv == Sequences /\ \A r \in Ranks : Conserved(r)

LEMMA ConservedInit == ServerInit => ConservedInv
  BY DEF ServerInit, ConservedInv, Sequences, Conserved, Busy

LEMMA ConservedNext ==
  ASSUME IInv, ConservedInv, [ServerNext]_allVars
  PROVE  ConservedInv'
<1> USE DEF ConservedInv
<1>1. ASSUME NEW r \in Ranks, Main(r) PROVE ConservedInv'
  <2>1. replies' = replies \/ replies' = [replies EXCEPT ![r] = Append(@, InputOf(r))]
    BY <1>1 DEF Main, ArriveEager, ArriveRendezvous, Pulled, PullFails, PullEnds, Take, PostToken, Collect, Reply
  <2>2. replies' \in [Ranks -> {replies'[q] : q \in Ranks}]
    BY <2>1 DEF Sequences
  <2>3. ASSUME NEW q \in Ranks PROVE Conserved(q)' /\ \E S : replies'[q] \in Seq(S)
    <3>1. CASE q = r
      BY <1>1, <3>1, Moved, RepliesKept
    <3>2. CASE q # r
      BY <1>1, <3>2, MainElsewhere DEF Conserved, Busy, Sequences
    <3> QED
      BY <3>1, <3>2
  <2> QED
    BY <2>2, <2>3 DEF Sequences
<1>2. CASE UNCHANGED <<main, arrived, pulling, queue, replies>>
  BY <1>2 DEF Sequences, Conserved, Busy
<1> QED
  BY <1>1, <1>2 DEF ServerNext, Thread, Begin, Work, Finish, Quiet, allVars, serverVars

\* Requests are neither lost nor answered twice (RequestsConserved), in
\* whatever order the callbacks nest.
THEOREM RequestsAreConserved == ServerSpec => []RequestsConserved
<1>1. ConservedInv => RequestsConserved
  BY DEF ConservedInv, Conserved, Busy, RequestsConserved
<1>2. IInv /\ ConservedInv /\ [ServerNext]_allVars => ConservedInv'
  BY ConservedNext
<1> QED
  BY <1>1, <1>2, ConservedInit, InitInv, NextInv, PTL DEF ServerSpec

-----------------------------------------------------------------------------
(* Types. *)

\* The queues hold requests that have arrived.
RequestTypes ==
  /\ arrived \in [Ranks -> 0 .. NRequests]
  /\ pulling \in [Ranks -> Seq(1 .. NRequests)]
  /\ queue \in [Ranks -> Seq(1 .. NRequests)]
  /\ taken \in [Ranks -> Seq(1 .. NRequests)]
  /\ unfilled \in [Ranks -> SUBSET (1 .. NRequests)]

LEMMA Parts ==
  ASSUME NEW S, NEW s \in Seq(S), s # <<>>
  PROVE  /\ Tail(s) \in Seq(S) /\ Head(s) \in S /\ s[Len(s)] \in S
         /\ SubSeq(s, 1, Len(s) - 1) \in Seq(S)
         /\ \A x \in S : \A t \in Seq(S) : Append(t, x) \in Seq(S)
<1>1. Len(s) \in Nat /\ Len(s) > 0
  OBVIOUS
<1>2. SubSeq(s, 1, Len(s) - 1) \in Seq(S)
  BY <1>1
<1> QED
  BY <1>1, <1>2

LEMMA RequestTypesKept ==
  ASSUME RequestTypes, NEW r \in Ranks, Main(r) PROVE RequestTypes'
<1> USE DEF RequestTypes
<1>1. CASE ArriveEager(r) \/ ArriveRendezvous(r)
  <2>1. arrived[r] < NRequests /\ arrived' = [arrived EXCEPT ![r] = @ + 1]
    BY <1>1 DEF ArriveEager, ArriveRendezvous
  <2>2. arrived[r] + 1 \in 1 .. NRequests
    BY <2>1, RequestsAssumption
  <2>3. arrived' \in [Ranks -> 0 .. NRequests]
    BY <2>1, <2>2
  <2>4. CASE ArriveEager(r)
    <3>1. queue' = [queue EXCEPT ![r] = Append(@, arrived[r] + 1)]
          /\ UNCHANGED <<pulling, taken, unfilled>>
      BY <2>4 DEF ArriveEager
    <3>2. Append(queue[r], arrived[r] + 1) \in Seq(1 .. NRequests)
      BY <2>2
    <3> QED
      BY <2>3, <3>1, <3>2
  <2>5. CASE ArriveRendezvous(r)
    <3>1. pulling' = [pulling EXCEPT ![r] = Append(@, arrived[r] + 1)]
          /\ UNCHANGED <<queue, taken, unfilled>>
      BY <2>5 DEF ArriveRendezvous
    <3>2. Append(pulling[r], arrived[r] + 1) \in Seq(1 .. NRequests)
      BY <2>2
    <3> QED
      BY <2>3, <3>1, <3>2
  <2> QED
    BY <1>1, <2>4, <2>5
<1>2. CASE PullEnds(r)
  <2> DEFINE n == Len(pulling[r])
  <2>1. /\ pulling[r] # <<>> /\ UNCHANGED <<arrived, taken>>
        /\ queue' = [queue EXCEPT ![r] = Append(@, pulling[r][n])]
        /\ pulling' = [pulling EXCEPT ![r] = SubSeq(@, 1, n - 1)]
    BY <1>2 DEF PullEnds
  <2>2. pulling[r] \in Seq(1 .. NRequests) /\ queue[r] \in Seq(1 .. NRequests)
    OBVIOUS
  <2>3. Append(queue[r], pulling[r][n]) \in Seq(1 .. NRequests)
    BY <2>1, <2>2, Parts
  <2>4. SubSeq(pulling[r], 1, n - 1) \in Seq(1 .. NRequests)
    BY <2>1, <2>2, Parts
  <2>5. unfilled' \in [Ranks -> SUBSET (1 .. NRequests)]
    <3>1. pulling[r][n] \in 1 .. NRequests
      BY <2>1, <2>2, Parts
    <3>2. unfilled' = unfilled \/ unfilled' = [unfilled EXCEPT ![r] = @ \cup {pulling[r][n]}]
      BY <1>2 DEF Main, Pulled, PullFails, ArriveEager, ArriveRendezvous, Take, PostToken,
                  Collect, Reply
    <3> HIDE DEF n
    <3> QED
      BY <3>1, <3>2
  <2> HIDE DEF n
  <2> QED
    BY <2>1, <2>3, <2>4, <2>5
<1>3. CASE Take(r)
  <2>1. /\ queue[r] # <<>> /\ UNCHANGED <<arrived, pulling, unfilled>>
        /\ queue' = [queue EXCEPT ![r] = Tail(@)]
        /\ taken' = [taken EXCEPT ![r] = Append(@, Head(queue[r]))]
    BY <1>3 DEF Take
  <2>2. Tail(queue[r]) \in Seq(1 .. NRequests) /\ Head(queue[r]) \in 1 .. NRequests
    <3>1. queue[r] \in Seq(1 .. NRequests)
      OBVIOUS
    <3> QED
      BY <2>1, <3>1, Parts
  <2>3. Append(taken[r], Head(queue[r])) \in Seq(1 .. NRequests)
    BY <2>2
  <2> QED
    BY <2>1, <2>2, <2>3
<1>4. CASE PostToken(r) \/ Collect(r) \/ Reply(r)
  <2>1. UNCHANGED <<arrived, pulling, queue, taken, unfilled>>
    BY <1>4 DEF PostToken, Collect, Reply
  <2> QED
    BY <2>1
<1> QED
  BY <1>1, <1>2, <1>3, <1>4 DEF Main, Pulled, PullFails

LEMMA RequestTypesInit == ServerInit => RequestTypes
<1>1. 0 \in 0 .. NRequests
  BY RequestsAssumption
<1> QED
  BY <1>1 DEF ServerInit, RequestTypes

LEMMA RequestTypesNext == ASSUME RequestTypes, [ServerNext]_allVars PROVE RequestTypes'
<1>1. CASE UNCHANGED <<arrived, pulling, queue, taken, unfilled>>
  BY <1>1 DEF RequestTypes
<1>2. ASSUME NEW th \in Threads, Thread(th) PROVE UNCHANGED <<arrived, pulling, queue, taken, unfilled>>
  BY <1>2 DEF Thread, Begin, Work, Finish, serverVars
<1>3. UNCHANGED allVars => UNCHANGED <<arrived, pulling, queue, taken, unfilled>>
  BY DEF allVars, serverVars
<1> QED
  BY <1>1, <1>2, <1>3, RequestTypesKept DEF ServerNext, Quiet

LEMMA ExecutedNext ==
  ASSUME executed \in [Threads -> Nat], [ServerNext]_allVars
  PROVE  executed' \in [Threads -> Nat]
<1>1. ASSUME NEW th \in Threads, Finish(th) PROVE executed' \in [Threads -> Nat]
  <2>1. executed' = [executed EXCEPT ![th] = @ + 1]
    BY <1>1 DEF Finish
  <2> QED
    BY <2>1
<1>2. CASE executed' = executed
  BY <1>2
<1>3. ASSUME NEW r \in Ranks, Main(r) PROVE executed' = executed
  BY <1>3 DEF Main, ArriveEager, ArriveRendezvous, Pulled, PullFails, PullEnds, Take, PostToken,
              Collect, Reply
<1> QED
  BY <1>1, <1>2, <1>3 DEF ServerNext, Thread, Begin, Work, Quiet, allVars, serverVars

\* Before the first request every thread is past its last step.
LEMMA ServerTypeInit == ServerInit => TypeOK
<1> SUFFICES ASSUME ServerInit PROVE TypeOK
  OBVIOUS
<1>1. \A th \in Threads : NSteps(th) \in Nat
  BY ThreadFacts
<1>2. NoMessage \in [dst : BufferType, data : Seq(Value)]
  BY DEF NoMessage, BufferType
<1>3. buf \in [Slots -> Value]
  BY ValueFacts DEF ServerInit
<1>4. \A th \in Threads : pc[th] = "done" /\ step[th] = NSteps(th)
  BY DEF ServerInit
<1>5. /\ step \in [Threads -> Nat] /\ reqs \in [Threads -> Seq(Request)]
      /\ pc \in [Threads -> {"dep", "op", "data", "fwd", "post", "drain", "done"}]
      /\ got \in [Threads -> [dst : BufferType, data : Seq(Value)]]
  BY <1>1, <1>2 DEF ServerInit
<1> QED
  BY <1>3, <1>4, <1>5 DEF ServerInit, TypeOK

\* A request is copied into the input buffer.
LEMMA TakeTypes == ASSUME TypeOK, NEW r \in Ranks, Take(r) PROVE TypeOK'
<1>1. UNCHANGED <<step, pc, sem, reqs, sendNum, got>>
  BY DEF Take
<1>2. buf' = [s \in Slots |-> IF s[1] = r /\ s[2] = "i"
                              THEN Initial(s, Held(r, Head(queue[r]))) ELSE buf[s]]
  BY DEF Take
<1>3. buf' \in [Slots -> Value]
  BY <1>2, ValueFacts DEF TypeOK
<1> QED
  BY <1>1, <1>3 DEF TypeOK, Here, Cur

\* A thread comes to its first step again.
LEMMA BeginTypes == ASSUME TypeOK, NEW th \in Threads, Begin(th) PROVE TypeOK'
<1>1. /\ step' = [step EXCEPT ![th] = 0] /\ pc' = [pc EXCEPT ![th] = StartPc(th, 0)]
      /\ reqs' = [reqs EXCEPT ![th] = IF \A k \in DOMAIN @ : @[k].taken /\ @[k].done
                                      THEN <<>> ELSE @]
      /\ UNCHANGED <<sem, buf, sendNum, got>>
  BY DEF Begin
<1>2. /\ StartPc(th, 0) \in {"dep", "op", "drain"}
      /\ StartPc(th, 0) = "drain" <=> 0 = NSteps(th)
      /\ StartPc(th, 0) = "dep" => <<th, 0>> \in Waits
      /\ NSteps(th) \in Nat
  BY StartPcFacts, ThreadFacts
<1>3. /\ step' \in [Threads -> Nat]
      /\ pc' \in [Threads -> {"dep", "op", "data", "fwd", "post", "drain", "done"}]
      /\ step'[th] = 0 /\ pc'[th] = StartPc(th, 0)
      /\ \A t \in Threads : t # th => step'[t] = step[t] /\ pc'[t] = pc[t]
  BY <1>1, <1>2 DEF TypeOK
<1>4. reqs' \in [Threads -> Seq(Request)]
  <2> DEFINE r == IF \A k \in DOMAIN reqs[th] : reqs[th][k].taken /\ reqs[th][k].done
                  THEN <<>> ELSE reqs[th]
  <2>1. reqs' = [reqs EXCEPT ![th] = r]
    BY <1>1
  <2>2. r = <<>> \/ r = reqs[th]
    OBVIOUS
  <2>3. r \in Seq(Request)
    BY <2>2 DEF TypeOK
  <2> HIDE DEF r
  <2> QED
    BY <2>1, <2>3 DEF TypeOK
<1>5. ASSUME NEW t \in Threads
      PROVE  /\ IF pc'[t] \in {"drain", "done"} THEN step'[t] = NSteps(t) ELSE step'[t] < NSteps(t)
             /\ pc'[t] = "dep" => Here(t)' \in Waits
             /\ pc'[t] = "data" => Cur(t)'.type \in Receiving
             /\ pc'[t] = "fwd" => Cur(t)'.type \in Forwarding
  <2>1. CASE t = th
    BY <1>2, <1>3, <2>1 DEF Here
  <2>2. CASE t # th
    BY <1>3, <2>2 DEF TypeOK, Here, Cur
  <2> QED
    BY <2>1, <2>2
<1> QED
  BY <1>1, <1>3, <1>4, <1>5 DEF TypeOK

LEMMA ServerTypeNext == ASSUME TypeOK, [ServerNext]_allVars PROVE TypeOK'
<1>1. CASE UNCHANGED vars
  BY <1>1, TypeNext
<1>2. ASSUME NEW r \in Ranks, Main(r) PROVE TypeOK'
  BY <1>1, <1>2, TakeTypes
     DEF Main, ArriveEager, ArriveRendezvous, Pulled, PullFails, PullEnds, PostToken, Collect, Reply
<1>3. ASSUME NEW th \in Threads, Work(th) \/ Finish(th) PROVE TypeOK'
  <2>1. Run(th)
    BY <1>3 DEF Work, Finish, Run
  <2> QED
    BY <2>1, TypeNext DEF Next
<1> QED
  BY <1>1, <1>2, <1>3, BeginTypes DEF ServerNext, Thread, Quiet, allVars

\* Every variable of the servers has its type: no execution leaves the
\* schedule, no semaphore goes below zero, and main never counts beyond the
\* threads of its rank.
THEOREM ServerTypeCorrect == ServerSpec => []ServerTypeOK
<1> DEFINE Executed == executed \in [Threads -> Nat]
<1>1. ServerInit => TypeOK /\ RequestTypes /\ Executed
  BY ServerTypeInit, RequestTypesInit DEF ServerInit
<1>2. TypeOK /\ RequestTypes /\ Executed /\ [ServerNext]_allVars
        => TypeOK' /\ RequestTypes' /\ Executed'
  BY ServerTypeNext, RequestTypesNext, ExecutedNext
<1>3. IInv /\ TypeOK /\ RequestTypes /\ Executed => ServerTypeOK
  <2> SUFFICES ASSUME IInv, TypeOK, RequestTypes, Executed PROVE ServerTypeOK
    OBVIOUS
  <2>1. ASSUME NEW r \in Ranks PROVE cnt[r] \in 0 .. NTbs(r) - 1
    <3>1. cnt[r] \in Nat /\ NTbs(r) \in Nat /\ NTbs(r) > 0 /\ cnt[r] < NTbs(r)
      <4>1. /\ cnt[r] \in Nat /\ NTbs(r) \in Nat /\ NTbs(r) > 0 /\ Round(r)
            /\ main[r] \in {"idle", "post", "collect", "reply"}
        BY NTbsFacts DEF IInv, Types
      <4>2. CASE main[r] \in {"idle", "reply"}
        BY <4>1, <4>2 DEF Round
      <4>3. CASE main[r] \in {"post", "collect"}
        BY <4>1, <4>3 DEF Round
      <4> QED
        BY <4>1, <4>2, <4>3
    <3> QED
      BY <3>1
  <2> QED
    BY <2>1 DEF ServerTypeOK, RequestTypes, IInv, Types
<1> HIDE DEF Executed
<1> QED
  BY <1>1, <1>2, <1>3, InitInv, NextInv, PTL DEF ServerSpec

-----------------------------------------------------------------------------
(* The tokens of a round, where the tbs of a rank all wait for each other. *)

\* How many tokens of the round main has posted (between two rounds: all).
PostedIn(r) == IF main[r] = "post" THEN cnt[r] ELSE NTbs(r)

\* B is the set of threads that have begun the round of their rank: each has
\* taken one token of those that main posted, none has taken two.
InRound(B) ==
  /\ \A th \in Threads : pc[th] # "done" => th \in B
  /\ \A r \in Ranks : thSem[r] + Cardinality(B \cap RankThreads(r)) = PostedIn(r)
  /\ Balance(B)

RoundInv == TypeOK /\ IInv /\ \E B \in SUBSET Threads : InRound(B)

LEMMA RankThreadsCount ==
  ASSUME NEW r \in Ranks
  PROVE  IsFiniteSet(RankThreads(r)) /\ Cardinality(RankThreads(r)) = NTbs(r)
<1> DEFINE n == NTbs(r)
           f == [t \in 0 .. n - 1 |-> <<r, t>>]
<1>1. n \in Nat
  BY NTbsFacts
<1>2. RankThreads(r) = {<<r, t>> : t \in 0 .. n - 1}
  <2>1. ASSUME NEW th \in Threads, th[1] = r PROVE \E t \in 0 .. n - 1 : th = <<r, t>>
    <3>1. PICK q \in Ranks : th \in {<<q, t>> : t \in 0 .. Len(Sched[q].tbs) - 1}
      BY DEF Threads
    <3> QED
      BY <2>1, <3>1 DEF NTbs
  <2>2. ASSUME NEW t \in 0 .. n - 1 PROVE <<r, t>> \in Threads
    BY DEF Threads, NTbs
  <2> HIDE DEF n
  <2> QED
    BY <2>1, <2>2 DEF RankThreads
<1>3. f \in Bijection(0 .. n - 1, RankThreads(r))
  BY <1>2 DEF Bijection, Injection, Surjection, IsInjective
<1>4. IsFiniteSet(0 .. n - 1) /\ Cardinality(0 .. n - 1) = n
  <2>1. 0 \in Int /\ n - 1 \in Int
    BY <1>1
  <2>2. /\ IsFiniteSet(0 .. n - 1)
        /\ Cardinality(0 .. n - 1) = IF 0 > n - 1 THEN 0 ELSE n - 1 - 0 + 1
    BY <2>1, FS_Interval
  <2> QED
    BY <1>1, <2>2
<1>5. ExistsBijection(0 .. n - 1, RankThreads(r))
  BY <1>3 DEF ExistsBijection
<1> HIDE DEF n, f
<1>6. IsFiniteSet(RankThreads(r)) /\ Cardinality(RankThreads(r)) = Cardinality(0 .. n - 1)
  BY <1>4, <1>5, FS_Bijection
<1> QED
  BY <1>4, <1>6 DEF n

\* The threads of a rank that are not in B.
LEMMA BegunCount ==
  ASSUME NEW r \in Ranks, NEW B
  PROVE  /\ IsFiniteSet(B \cap RankThreads(r)) /\ Cardinality(B \cap RankThreads(r)) \in Nat
         /\ Cardinality(B \cap RankThreads(r)) =< NTbs(r)
         /\ Cardinality(B \cap RankThreads(r)) = NTbs(r) => RankThreads(r) \subseteq B
<1> DEFINE S == B \cap RankThreads(r)
<1>1. S \subseteq RankThreads(r) /\ IsFiniteSet(RankThreads(r)) /\ Cardinality(RankThreads(r)) = NTbs(r)
  BY RankThreadsCount
<1>2. S \subseteq B
  OBVIOUS
<1> HIDE DEF S
<1>3. IsFiniteSet(S) /\ Cardinality(S) =< NTbs(r)
  BY <1>1, FS_Subset
<1>4. Cardinality(S) = NTbs(r) => S = RankThreads(r)
  BY <1>1, FS_Subset
<1>5. Cardinality(S) \in Nat
  BY <1>3, FS_CardinalityType
<1>6. /\ IsFiniteSet(S) /\ Cardinality(S) \in Nat /\ Cardinality(S) =< NTbs(r)
      /\ Cardinality(S) = NTbs(r) => RankThreads(r) \subseteq B
  BY <1>2, <1>3, <1>4, <1>5
<1> QED
  BY <1>6 DEF S

\* What main knows between two rounds: all threads have executed the schedule
\* once, and the semaphores of the dependencies are as they were.
LEMMA RoundIsOver ==
  ASSUME Balanced, TypeOK, IInv, NEW B, InRound(B), NEW r \in Ranks, main[r] \in {"idle", "reply"}
  PROVE  /\ thSem[r] = 0 /\ cnt[r] = 0 /\ RankThreads(r) \subseteq B
         /\ \A th \in RankThreads(r) : pc[th] = "done" /\ step[th] = NSteps(th)
         /\ \A k \in Keys : k[1][1] = r => sem[k] = 0
<1>1. thSem[r] = 0 /\ cnt[r] = 0 /\ Cardinality(RunningOn(r)) = 0
  <2>1. Tokens(r) = 0 /\ cnt[r] = 0
    BY DEF IInv, Round
  <2>2. thSem[r] \in Nat /\ mainSem[r] \in Nat /\ Cardinality(RunningOn(r)) \in Nat
    BY RunningFinite DEF IInv, Types
  <2> QED
    BY <2>1, <2>2 DEF Tokens
<1>2. RunningOn(r) = {}
  BY <1>1, RunningFinite, FS_EmptySet
<1>3. \A th \in RankThreads(r) : pc[th] = "done" /\ step[th] = NSteps(th)
  BY <1>2 DEF RunningOn, RankThreads, TypeOK
<1>4. RankThreads(r) \subseteq B
  <2>1. PostedIn(r) = NTbs(r)
    BY DEF PostedIn
  <2>2. thSem[r] + Cardinality(B \cap RankThreads(r)) = PostedIn(r)
    BY DEF InRound
  <2>3. Cardinality(B \cap RankThreads(r)) \in Nat
    BY BegunCount
  <2>4. Cardinality(B \cap RankThreads(r)) = NTbs(r)
    BY <1>1, <2>1, <2>2, <2>3
  <2> QED
    BY <2>4, BegunCount
<1>5. ASSUME NEW k \in Keys, k[1][1] = r PROVE sem[k] = 0
  <2>1. ASSUME NEW p \in Places, p[1][1] = r PROVE Started(B, p) /\ Completed(B, p)
    <3>1. p[1] \in RankThreads(r) /\ p[2] < NSteps(p[1])
      BY <2>1, PlaceFacts DEF RankThreads
    <3> QED
      BY <1>3, <1>4, <3>1 DEF Started, Completed, Entered, Passed
  <2>2. \A p \in Waiters[k] : p \in Places /\ p[1][1] = r
    BY <1>5, KeyFacts DEF Waiters, DepKey
  <2>3. Taken(B, k) = Waiters[k]
    BY <2>1, <2>2 DEF Taken
  <2>4. Completed(B, k)
    BY <1>5, <2>1, KeyFacts
  <2>5. sem[k] + Cardinality(Waiters[k]) = StepAt(k).hasdep
    BY <2>3, <2>4 DEF InRound, Balance
  <2>6. Cardinality(Waiters[k]) = StepAt(k).hasdep
    BY DEF Balanced
  <2>7. sem[k] \in Nat /\ StepAt(k).hasdep \in Nat
    BY KeyFacts, PlaceFacts DEF TypeOK, Step
  <2> QED
    BY <2>5, <2>6, <2>7
<1> QED
  BY <1>1, <1>3, <1>4, <1>5

LEMMA RoundInit == ASSUME Balanced, ServerInit, TypeOK PROVE InRound(Threads)
<1>1. ASSUME NEW r \in Ranks
      PROVE  thSem[r] + Cardinality(Threads \cap RankThreads(r)) = PostedIn(r)
  <2>1. Threads \cap RankThreads(r) = RankThreads(r)
    BY DEF RankThreads
  <2>2. Cardinality(Threads \cap RankThreads(r)) = NTbs(r) /\ NTbs(r) \in Nat
    BY <2>1, RankThreadsCount, NTbsFacts
  <2>3. thSem[r] = 0 /\ PostedIn(r) = NTbs(r)
    BY DEF ServerInit, PostedIn
  <2> QED
    BY <2>2, <2>3
<1>2. ASSUME NEW k \in Keys
      PROVE  sem[k] + Cardinality(Taken(Threads, k))
               = IF Completed(Threads, k) THEN StepAt(k).hasdep ELSE 0
  <2>1. \A p \in Places : Started(Threads, p) /\ Completed(Threads, p)
    BY PlaceFacts DEF Started, Completed, Entered, Passed, ServerInit
  <2>2. Taken(Threads, k) = Waiters[k] /\ Completed(Threads, k)
    BY <2>1, KeyFacts DEF Taken, Waiters
  <2>3. sem[k] = 0 /\ Cardinality(Waiters[k]) = StepAt(k).hasdep /\ StepAt(k).hasdep \in Nat
    BY KeyFacts, PlaceFacts DEF ServerInit, Balanced, Step
  <2> QED
    BY <2>2, <2>3
<1> QED
  BY <1>1, <1>2 DEF InRound, Balance

\* A thread that executes is in B, and stays there.
LEMMA RunInRound ==
  ASSUME TypeOK, NEW B, InRound(B), NEW th \in Threads, Run(th),
         main' = main, cnt' = cnt, thSem' = thSem
  PROVE  InRound(B)'
<1>1. pc[th] # "done" /\ \A q \in Threads : q # th => pc'[q] = pc[q]
  <2>1. pc[th] # "done" /\ (pc' = pc \/ \E v : pc' = [pc EXCEPT ![th] = v])
    BY DEF Run, DepWait, Send, Reduce, Nop, Receive, Store, RecvFails, Forward, Post, Drain,
           Flush, SendDone, SendFails, Progressing
  <2> QED
    BY <2>1 DEF TypeOK
<1>2. th \in B
  BY <1>1 DEF InRound
<1>3. Balance(B)'
  BY <1>2, TokensRun DEF InRound
<1>4. \A q \in Threads : pc'[q] # "done" => q \in B
  BY <1>1, <1>2 DEF InRound
<1> QED
  BY <1>3, <1>4 DEF InRound, PostedIn, NTbs

\* A thread that has ended the round has waited for all the others of its rank
\* to begin it, so that no token is left for it to take.
LEMMA NoneTakesTwo ==
  ASSUME Interlocked, TypeOK, IInv, NEW B, InRound(B), NEW th \in Threads,
         pc[th] = "done", thSem[th[1]] > 0
  PROVE  th \notin B
<1> SUFFICES ASSUME th \in B PROVE FALSE
  OBVIOUS
<1> DEFINE r == th[1]
<1>1. r \in Ranks /\ thSem[r] \in Nat /\ NTbs(r) \in Nat
  BY ThreadRank, NTbsFacts DEF IInv, Types
<1>2. PostedIn(r) =< NTbs(r)
  <2>1. cnt[r] \in Nat /\ Round(r)
    BY <1>1 DEF IInv, Types
  <2> QED
    BY <1>1, <2>1 DEF PostedIn, Round
<1>3. Cardinality(B \cap RankThreads(r)) # NTbs(r)
  BY <1>1, <1>2, BegunCount DEF InRound
<1>4. PICK b \in RankThreads(r) : b \notin B
  <2>1. IsFiniteSet(RankThreads(r)) /\ Cardinality(RankThreads(r)) = NTbs(r)
    BY <1>1, RankThreadsCount
  <2>2. RankThreads(r) \subseteq B => B \cap RankThreads(r) = RankThreads(r)
    OBVIOUS
  <2> QED
    BY <1>3, <2>1, <2>2
<1>5. b \in Threads /\ b[1] = r /\ b # th
  BY <1>4 DEF RankThreads
<1>6. PICK p \in Places, q \in Places : p[1] = b /\ q[1] = th /\ Before(p, q)
  BY <1>5 DEF Interlocked
<1>7. Started(B, q)
  BY <1>6, PlaceFacts DEF Started, Entered, TypeOK
<1>8. OrderIn(B)
  BY OrderFromTokens DEF InRound
<1>9. Completed(B, p)
  BY <1>6, <1>7, <1>8, BeforeIsCompleted
<1> QED
  BY <1>4, <1>6, <1>9 DEF Completed

LEMMA BeginInRound ==
  ASSUME TypeOK, IInv, NEW B \in SUBSET Threads, InRound(B), NEW th \in Threads, th \notin B,
         Begin(th)
  PROVE  InRound(B \cup {th})'
<1> DEFINE A == B \cup {th}
<1>1. /\ th[1] \in Ranks /\ thSem[th[1]] \in Nat /\ thSem[th[1]] > 0
      /\ thSem' = [thSem EXCEPT ![th[1]] = @ - 1] /\ main' = main /\ cnt' = cnt /\ sem' = sem
      /\ step'[th] = 0 /\ pc'[th] = StartPc(th, 0)
      /\ \A q \in Threads : q # th => step'[q] = step[q] /\ pc'[q] = pc[q]
  BY ThreadRank DEF Begin, IInv, Types, TypeOK
<1>2. ASSUME NEW r \in Ranks
      PROVE  thSem'[r] + Cardinality(A \cap RankThreads(r)) = PostedIn(r)'
  <2>1. PostedIn(r)' = PostedIn(r) /\ thSem[r] + Cardinality(B \cap RankThreads(r)) = PostedIn(r)
    BY <1>1 DEF PostedIn, InRound, NTbs
  <2>2. CASE r = th[1]
    <3>1. A \cap RankThreads(r) = (B \cap RankThreads(r)) \cup {th}
      BY <2>2 DEF RankThreads
    <3>2. th \notin B \cap RankThreads(r)
      OBVIOUS
    <3>3. Cardinality(A \cap RankThreads(r)) = Cardinality(B \cap RankThreads(r)) + 1
      BY <3>1, <3>2, BegunCount, OneMore
    <3>4. thSem'[r] = thSem[r] - 1
      BY <1>1, <2>2 DEF IInv, Types
    <3>5. Cardinality(B \cap RankThreads(r)) \in Nat
      BY BegunCount
    <3> QED
      BY <1>1, <2>1, <2>2, <3>3, <3>4, <3>5
  <2>3. CASE r # th[1]
    <3>1. A \cap RankThreads(r) = B \cap RankThreads(r)
      BY <2>3 DEF RankThreads
    <3>2. thSem'[r] = thSem[r]
      BY <1>1, <2>3 DEF IInv, Types
    <3> QED
      BY <2>1, <3>1, <3>2
  <2> QED
    BY <2>2, <2>3
<1>3. ASSUME NEW p \in Waits PROVE Started(A, p)' <=> Started(B, p)
  <2>1. p \in Places /\ p = <<p[1], p[2]>> /\ p[1] \in Threads /\ p[2] \in Nat /\ p[2] < NSteps(p[1])
    BY KeyFacts, PlaceFacts
  <2>2. CASE p[1] = th
    <3>1. p[2] = 0 => pc'[th] = "dep"
      BY <1>1, <2>1, <2>2 DEF StartPc, Waits
    <3> QED
      BY <1>1, <2>1, <2>2, <3>1 DEF Started, Entered
  <2>3. CASE p[1] # th
    BY <1>1, <2>1, <2>3 DEF Started, Entered
  <2> QED
    BY <2>2, <2>3
<1>4. ASSUME NEW k \in Keys PROVE Completed(A, k)' <=> Completed(B, k)
  <2>1. k[1] \in Threads /\ k[2] \in Nat
    BY KeyFacts, PlaceFacts
  <2>2. CASE k[1] = th
    BY <1>1, <2>1, <2>2 DEF Completed, Passed
  <2>3. CASE k[1] # th
    BY <1>1, <2>1, <2>3 DEF Completed, Passed
  <2> QED
    BY <2>2, <2>3
<1>5. \A k \in Keys : Taken(A, k)' = Taken(B, k)
  BY <1>3, WaitersFinite DEF Taken
<1>6. Balance(A)'
  BY <1>1, <1>4, <1>5 DEF Balance, InRound
<1>7. \A q \in Threads : pc'[q] # "done" => q \in A
  BY <1>1 DEF InRound
<1> HIDE DEF A
<1>8. InRound(A)'
  BY <1>2, <1>6, <1>7 DEF InRound
<1> QED
  BY <1>8 DEF A

LEMMA TakeInRound ==
  ASSUME Balanced, TypeOK, IInv, NEW B \in SUBSET Threads, InRound(B), NEW r \in Ranks, Take(r)
  PROVE  InRound(B \ RankThreads(r))'
<1> DEFINE A == B \ RankThreads(r)
<1>1. /\ main[r] = "idle" /\ main' = [main EXCEPT ![r] = "post"]
      /\ UNCHANGED <<step, pc, sem, cnt, thSem>>
  BY DEF Take
<1>2. /\ thSem[r] = 0 /\ cnt[r] = 0 /\ RankThreads(r) \subseteq B
      /\ \A th \in RankThreads(r) : pc[th] = "done" /\ step[th] = NSteps(th)
      /\ \A k \in Keys : k[1][1] = r => sem[k] = 0
  BY <1>1, RoundIsOver
<1>3. ASSUME NEW s \in Ranks
      PROVE  thSem'[s] + Cardinality(A \cap RankThreads(s)) = PostedIn(s)'
  <2>1. CASE s = r
    <3>1. A \cap RankThreads(s) = {} /\ main'[r] = "post"
      BY <1>1, <2>1 DEF IInv, Types
    <3> QED
      BY <1>1, <1>2, <2>1, <3>1, FS_EmptySet DEF PostedIn
  <2>2. CASE s # r
    <3>1. A \cap RankThreads(s) = B \cap RankThreads(s) /\ main'[s] = main[s]
      BY <1>1, <2>2 DEF RankThreads, IInv, Types
    <3> QED
      BY <1>1, <3>1 DEF PostedIn, InRound, NTbs
  <2> QED
    BY <2>1, <2>2
<1>4. ASSUME NEW k \in Keys
      PROVE  sem'[k] + Cardinality(Taken(A, k)') = IF Completed(A, k)' THEN StepAt(k).hasdep ELSE 0
  <2>1. k[1] \in Threads /\ \A p \in Waiters[k] : p[1] \in Threads /\ p[1][1] = k[1][1]
    BY KeyFacts, PlaceFacts DEF Waiters, DepKey
  <2>2. CASE k[1][1] = r
    <3>1. Taken(A, k)' = {} /\ ~Completed(A, k)'
      BY <2>1, <2>2 DEF Taken, Started, Completed, RankThreads
    <3>2. sem'[k] = 0
      BY <1>1, <1>2, <2>2
    <3>3. Cardinality({}) = 0
      BY FS_EmptySet
    <3>4. Cardinality(Taken(A, k)') = 0
      BY <3>1, <3>3
    <3> QED
      BY <3>1, <3>2, <3>4
  <2>3. CASE k[1][1] # r
    <3>1. Taken(A, k)' = Taken(B, k) /\ (Completed(A, k)' <=> Completed(B, k))
      BY <1>1, <2>1, <2>3 DEF Taken, Started, Completed, RankThreads, Entered, Passed
    <3> QED
      BY <1>1, <3>1 DEF InRound, Balance
  <2> QED
    BY <2>2, <2>3
<1>5. \A q \in Threads : pc'[q] # "done" => q \in A
  BY <1>1, <1>2 DEF InRound
<1> HIDE DEF A
<1>6. InRound(A)'
  BY <1>3, <1>4, <1>5 DEF InRound, Balance
<1> QED
  BY <1>6 DEF A

\* The other steps of main, which leave the threads and their semaphores alone.
LEMMA MainInRound ==
  ASSUME IInv, NEW B, InRound(B), NEW r \in Ranks,
         \/ ArriveEager(r) \/ ArriveRendezvous(r) \/ PullEnds(r)
         \/ PostToken(r) \/ Collect(r) \/ Reply(r)
  PROVE  InRound(B)'
<1>1. UNCHANGED vars
  BY DEF ArriveEager, ArriveRendezvous, PullEnds, PostToken, Collect, Reply
<1>2. Balance(B)' /\ \A q \in Threads : pc'[q] # "done" => q \in B
  BY <1>1 DEF InRound, Balance, Taken, Started, Completed, Entered, Passed, vars
<1>3. ASSUME NEW s \in Ranks
      PROVE  thSem'[s] + Cardinality(B \cap RankThreads(s)) = PostedIn(s)'
  <2>1. /\ thSem[s] + Cardinality(B \cap RankThreads(s)) = PostedIn(s)
        /\ Cardinality(B \cap RankThreads(s)) \in Nat /\ thSem[s] \in Nat /\ cnt[s] \in Nat
        /\ NTbs(s) \in Nat
    BY BegunCount, NTbsFacts DEF InRound, IInv, Types
  <2>2. CASE PostToken(r) /\ s = r
    <3>1. main[r] = "post" /\ thSem'[r] = thSem[r] + 1
      BY <2>2 DEF PostToken, IInv, Types
    <3>2. PostedIn(r)' = cnt[r] + 1
      <4>1. CASE cnt[r] + 1 = NTbs(r)
        BY <2>2, <4>1 DEF PostToken, PostedIn, NTbs, IInv, Types
      <4>2. CASE cnt[r] + 1 # NTbs(r)
        BY <2>2, <3>1, <4>2 DEF PostToken, PostedIn, NTbs, IInv, Types
      <4> QED
        BY <4>1, <4>2
    <3> QED
      BY <2>1, <2>2, <3>1, <3>2 DEF PostedIn
  <2>3. CASE ~(PostToken(r) /\ s = r)
    <3>1. thSem'[s] = thSem[s]
      BY <2>3 DEF ArriveEager, ArriveRendezvous, PullEnds, PostToken, Collect, Reply, IInv, Types
    <3>2. \/ main'[s] = main[s] /\ cnt'[s] = cnt[s]
          \/ main'[s] # "post" /\ main[s] # "post"
      <4>1. CASE s # r \/ ArriveEager(r) \/ ArriveRendezvous(r) \/ PullEnds(r)
        BY <4>1 DEF ArriveEager, ArriveRendezvous, PullEnds, PostToken, Collect, Reply, IInv, Types
      <4>2. CASE s = r /\ Collect(r)
        BY <4>2 DEF Collect, IInv, Types
      <4>3. CASE s = r /\ Reply(r)
        BY <4>3 DEF Reply, IInv, Types
      <4> QED
        BY <2>3, <4>1, <4>2, <4>3
    <3>3. PostedIn(s)' = PostedIn(s)
      BY <3>2 DEF PostedIn, NTbs
    <3> QED
      BY <2>1, <3>1, <3>3
  <2> QED
    BY <2>2, <2>3
<1> QED
  BY <1>2, <1>3 DEF InRound

LEMMA RoundInvInit == ASSUME Balanced, ServerInit PROVE RoundInv
<1>1. TypeOK /\ IInv
  BY ServerTypeInit, InitInv
<1>2. InRound(Threads)
  BY <1>1, RoundInit
<1> QED
  BY <1>1, <1>2 DEF RoundInv

LEMMA RoundInvNext ==
  ASSUME Balanced, Interlocked, RoundInv, [ServerNext]_allVars
  PROVE  RoundInv'
<1>1. TypeOK /\ IInv /\ TypeOK' /\ IInv'
  BY ServerTypeNext, NextInv DEF RoundInv
<1>2. PICK B \in SUBSET Threads : InRound(B)
  BY DEF RoundInv
<1>3. ASSUME NEW r \in Ranks, Main(r) PROVE \E A \in SUBSET Threads : InRound(A)'
  <2>1. CASE Take(r)
    <3>1. B \ RankThreads(r) \in SUBSET Threads
      OBVIOUS
    <3> QED
      BY <1>1, <1>2, <2>1, <3>1, TakeInRound
  <2>2. CASE ~Take(r)
    <3>1. InRound(B)'
      BY <1>1, <1>2, <1>3, <2>2, MainInRound DEF Main, Pulled, PullFails
    <3> QED
      BY <3>1
  <2> QED
    BY <2>1, <2>2
<1>4. ASSUME NEW th \in Threads, Thread(th) PROVE \E A \in SUBSET Threads : InRound(A)'
  <2>1. CASE Begin(th)
    <3>1. pc[th] = "done" /\ thSem[th[1]] > 0
      BY <2>1 DEF Begin
    <3>2. th \notin B
      BY <1>1, <1>2, <3>1, NoneTakesTwo
    <3>3. InRound(B \cup {th})'
      BY <1>1, <1>2, <2>1, <3>2, BeginInRound
    <3>4. B \cup {th} \in SUBSET Threads
      OBVIOUS
    <3> QED
      BY <3>3, <3>4
  <2>2. CASE Work(th) \/ Finish(th)
    <3>1. Run(th) /\ main' = main /\ cnt' = cnt /\ thSem' = thSem
      BY <2>2 DEF Work, Finish, Run, serverVars
    <3>2. InRound(B)'
      BY <1>1, <1>2, <3>1, RunInRound
    <3> QED
      BY <3>2
  <2> QED
    BY <1>4, <2>1, <2>2 DEF Thread
<1>5. ASSUME UNCHANGED allVars PROVE \E A \in SUBSET Threads : InRound(A)'
  <2>1. InRound(B)'
    BY <1>2, <1>5 DEF InRound, PostedIn, Balance, Taken, Started, Completed, Entered, Passed,
                      NTbs, allVars, vars, serverVars
  <2> QED
    BY <2>1
<1>6. \E A \in SUBSET Threads : InRound(A)'
  BY <1>3, <1>4, <1>5 DEF ServerNext, Quiet
<1> QED
  BY <1>1, <1>6 DEF RoundInv

\* However the rounds of the ranks overlap, two threads of a rank never access
\* a chunk at once with one of them writing it (RaceFree): the dependencies
\* order the conflicting steps in every round as they do in the first, because
\* no thread takes the token of another (finding offload_stealing).
THEOREM ServerIsRaceFree ==
  ASSUME Balanced, Interlocked, ConflictsOrdered
  PROVE  ServerSpec => []RaceFree
<1>1. ServerInit => RoundInv
  BY RoundInvInit
<1>2. RoundInv /\ [ServerNext]_allVars => RoundInv'
  BY RoundInvNext
<1>3. RoundInv => RaceFree
  <2> SUFFICES ASSUME RoundInv PROVE RaceFree
    OBVIOUS
  <2>1. PICK B \in SUBSET Threads : InRound(B)
    BY DEF RoundInv
  <2>2. TypeOK /\ OrderIn(B)
    BY <2>1, OrderFromTokens DEF RoundInv, InRound
  <2>3. \A th \in Threads : pc[th] \in {"op", "data", "fwd"} => th \in B
    BY <2>1 DEF InRound
  <2> QED
    BY <2>2, <2>3, NoRace
<1> QED
  BY <1>1, <1>2, <1>3, PTL DEF ServerSpec

\* Main takes the next request of its rank.
LEMMA TakenNext ==
  ASSUME RequestTypes, NEW r \in Ranks, Take(r)
  PROVE  /\ Len(taken[r]) \in Nat /\ Len(taken'[r]) = Len(taken[r]) + 1
         /\ taken'[r][Len(taken[r]) + 1] = Head(queue[r])
         /\ DOMAIN taken[r] \subseteq DOMAIN taken'[r]
         /\ \A n \in DOMAIN taken[r] : taken'[r][n] = taken[r][n]
         /\ Len(taken[r]) + 1 \in DOMAIN taken'[r]
         /\ \A q \in Ranks : q # r => taken'[q] = taken[q]
<1>1. /\ taken \in [Ranks -> Seq(1 .. NRequests)] /\ queue[r] \in Seq(1 .. NRequests)
      /\ queue[r] # <<>> /\ taken' = [taken EXCEPT ![r] = Append(@, Head(queue[r]))]
  BY DEF RequestTypes, Take
<1>2. Head(queue[r]) \in 1 .. NRequests /\ taken[r] \in Seq(1 .. NRequests)
  BY <1>1, Parts
<1>3. taken'[r] = Append(taken[r], Head(queue[r])) /\ \A q \in Ranks : q # r => taken'[q] = taken[q]
  BY <1>1
<1> QED
  BY <1>2, <1>3

\* The round that a thread executes, or has executed last.
RoundsOf(B, th) == Len(taken[th[1]]) - (IF th \in B THEN 0 ELSE 1)

\* A thread has executed its tb in the rounds before, and in this one when it
\* waits again.
ExecutedIn(B) ==
  \A th \in Threads : executed[th] = RoundsOf(B, th) - (IF pc[th] = "done" THEN 0 ELSE 1)

ExecutedInv ==
  /\ TypeOK /\ IInv /\ RequestTypes /\ executed \in [Threads -> Nat]
  /\ \E B \in SUBSET Threads : InRound(B) /\ ExecutedIn(B)

LEMMA ExecutedInit == ASSUME Balanced, ServerInit PROVE ExecutedInv
<1>1. TypeOK /\ IInv /\ RequestTypes
  BY ServerTypeInit, InitInv, RequestTypesInit
<1>2. InRound(Threads)
  BY <1>1, RoundInit
<1>3. ASSUME NEW th \in Threads PROVE RoundsOf(Threads, th) = 0
  BY ThreadRank DEF ServerInit, RoundsOf
<1>4. ExecutedIn(Threads)
  BY <1>3 DEF ServerInit, ExecutedIn
<1>5. executed \in [Threads -> Nat]
  BY DEF ServerInit
<1> QED
  BY <1>1, <1>2, <1>4, <1>5 DEF ExecutedInv

LEMMA ExecutedInvNext ==
  ASSUME Balanced, Interlocked, ExecutedInv, [ServerNext]_allVars
  PROVE  ExecutedInv'
<1>1. /\ TypeOK /\ IInv /\ RequestTypes /\ executed \in [Threads -> Nat]
      /\ TypeOK' /\ IInv' /\ RequestTypes' /\ executed' \in [Threads -> Nat]
  BY ServerTypeNext, NextInv, RequestTypesNext, ExecutedNext DEF ExecutedInv
<1>2. PICK B \in SUBSET Threads : InRound(B) /\ ExecutedIn(B)
  BY DEF ExecutedInv
<1>3. ASSUME NEW th \in Threads PROVE Len(taken[th[1]]) \in Nat
  <2>1. taken[th[1]] \in Seq(1 .. NRequests)
    BY <1>1, ThreadRank DEF RequestTypes
  <2> QED
    BY <2>1
<1>4. ASSUME UNCHANGED <<pc, taken, executed>> PROVE ExecutedIn(B)'
  BY <1>2, <1>4 DEF ExecutedIn, RoundsOf
<1>5. ASSUME NEW r \in Ranks, Main(r)
      PROVE  \E A \in SUBSET Threads : InRound(A)' /\ ExecutedIn(A)'
  <2>1. CASE Take(r)
    <3> DEFINE A == B \ RankThreads(r)
    <3>1. InRound(A)'
      BY <1>1, <1>2, <2>1, TakeInRound
    <3>2. main[r] = "idle" /\ pc' = pc /\ executed' = executed
      BY <2>1 DEF Take
    <3>3. RankThreads(r) \subseteq B
      BY <1>1, <1>2, <3>2, RoundIsOver
    <3>4. ASSUME NEW th \in Threads PROVE RoundsOf(A, th)' = RoundsOf(B, th)
      <4>1. CASE th[1] = r
        <5>1. th \in B /\ th \notin A
          BY <3>3, <4>1 DEF RankThreads
        <5>2. Len(taken'[r]) = Len(taken[r]) + 1 /\ Len(taken[r]) \in Nat
          BY <1>1, <2>1, TakenNext
        <5>3. RoundsOf(A, th)' = Len(taken'[r]) - 1 /\ RoundsOf(B, th) = Len(taken[r]) - 0
          BY <4>1, <5>1 DEF RoundsOf
        <5> QED
          BY <5>2, <5>3
      <4>2. CASE th[1] # r
        <5>1. th \in A <=> th \in B
          BY <4>2 DEF RankThreads
        <5>2. taken'[th[1]] = taken[th[1]]
          BY <1>1, <2>1, <4>2, ThreadRank, TakenNext
        <5> QED
          BY <5>1, <5>2 DEF RoundsOf
      <4> QED
        BY <4>1, <4>2
    <3> HIDE DEF A
    <3>5. ExecutedIn(A)'
      BY <1>2, <3>2, <3>4 DEF ExecutedIn
    <3>6. A \in SUBSET Threads
      BY DEF A
    <3> QED
      BY <3>1, <3>5, <3>6
  <2>2. CASE ~Take(r)
    <3>1. UNCHANGED <<pc, taken, executed>>
      BY <1>5, <2>2 DEF Main, ArriveEager, ArriveRendezvous, Pulled, PullFails, PullEnds,
                        PostToken, Collect, Reply, vars
    <3>2. InRound(B)'
      BY <1>1, <1>2, <1>5, <2>2, MainInRound DEF Main, Pulled, PullFails
    <3> QED
      BY <1>4, <3>1, <3>2
  <2> QED
    BY <2>1, <2>2
<1>6. ASSUME NEW th \in Threads, Thread(th)
      PROVE  \E A \in SUBSET Threads : InRound(A)' /\ ExecutedIn(A)'
  <2>1. CASE Begin(th)
    <3> DEFINE A == B \cup {th}
    <3>1. /\ pc[th] = "done" /\ thSem[th[1]] > 0 /\ pc' = [pc EXCEPT ![th] = StartPc(th, 0)]
          /\ taken' = taken /\ executed' = executed
      BY <2>1 DEF Begin
    <3>2. th \notin B
      BY <1>1, <1>2, <3>1, NoneTakesTwo
    <3>3. InRound(A)'
      BY <1>1, <1>2, <2>1, <3>2, BeginInRound
    <3>4. ASSUME NEW q \in Threads
          PROVE  executed'[q] = RoundsOf(A, q)' - (IF pc'[q] = "done" THEN 0 ELSE 1)
      <4>1. executed[q] = RoundsOf(B, q) - (IF pc[q] = "done" THEN 0 ELSE 1)
        BY <1>2 DEF ExecutedIn
      <4>2. CASE q = th
        <5>1. pc'[q] # "done"
          BY <1>1, <3>1, <4>2 DEF StartPc, TypeOK
        <5>2. RoundsOf(A, q)' = Len(taken[q[1]]) - 0 /\ RoundsOf(B, q) = Len(taken[q[1]]) - 1
          BY <3>1, <3>2, <4>2 DEF RoundsOf
        <5>3. executed[q] = Len(taken[q[1]]) - 1 - 0
          BY <3>1, <4>1, <4>2, <5>2
        <5> QED
          BY <1>3, <3>1, <5>1, <5>2, <5>3
      <4>3. CASE q # th
        <5>1. pc'[q] = pc[q]
          BY <1>1, <3>1, <4>3 DEF TypeOK
        <5>2. RoundsOf(A, q)' = RoundsOf(B, q)
          BY <3>1, <4>3 DEF RoundsOf
        <5> QED
          BY <3>1, <4>1, <5>1, <5>2
      <4> QED
        BY <4>2, <4>3
    <3> HIDE DEF A
    <3>5. ExecutedIn(A)'
      BY <3>4 DEF ExecutedIn
    <3>6. A \in SUBSET Threads
      BY DEF A
    <3> QED
      BY <3>3, <3>5, <3>6
  <2>2. CASE Work(th) \/ Finish(th)
    <3>1. Run(th) /\ main' = main /\ cnt' = cnt /\ thSem' = thSem /\ taken' = taken
      BY <2>2 DEF Work, Finish, Run, serverVars
    <3>2. InRound(B)'
      BY <1>1, <1>2, <3>1, RunInRound
    <3>3. RoundsOf(B, th)' = RoundsOf(B, th) /\ \A q \in Threads : RoundsOf(B, q)' = RoundsOf(B, q)
      BY <3>1 DEF RoundsOf
    <3>4. CASE Work(th)
      <4>1. \A q \in Threads : pc'[q] = "done" <=> pc[q] = "done"
        BY <1>1, <3>4, WorkRuns DEF IInv
      <4>2. executed' = executed
        BY <3>4 DEF Work, serverVars
      <4>3. ExecutedIn(B)'
        BY <1>2, <3>3, <4>1, <4>2 DEF ExecutedIn
      <4> QED
        BY <3>2, <4>3
    <3>5. CASE Finish(th)
      <4>1. /\ pc[th] = "drain" /\ pc' = [pc EXCEPT ![th] = "done"]
            /\ executed' = [executed EXCEPT ![th] = @ + 1]
        BY <3>5 DEF Finish, Drain
      <4>2. ASSUME NEW q \in Threads
            PROVE  executed'[q] = RoundsOf(B, q)' - (IF pc'[q] = "done" THEN 0 ELSE 1)
        <5>1. executed[q] = RoundsOf(B, q) - (IF pc[q] = "done" THEN 0 ELSE 1)
          BY <1>2 DEF ExecutedIn
        <5>2. CASE q = th
          <6>1. pc'[q] = "done" /\ executed'[q] = executed[q] + 1 /\ pc[q] # "done"
            BY <1>1, <4>1, <5>2 DEF TypeOK
          <6>2. RoundsOf(B, q) \in Int
            BY <1>3 DEF RoundsOf
          <6> QED
            BY <3>3, <5>1, <6>1, <6>2
        <5>3. CASE q # th
          <6>1. pc'[q] = pc[q] /\ executed'[q] = executed[q]
            BY <1>1, <4>1, <5>3 DEF TypeOK
          <6> QED
            BY <3>3, <5>1, <6>1
        <5> QED
          BY <5>2, <5>3
      <4>3. ExecutedIn(B)'
        BY <4>2 DEF ExecutedIn
      <4> QED
        BY <3>2, <4>3
    <3> QED
      BY <2>2, <3>4, <3>5
  <2> QED
    BY <1>6, <2>1, <2>2 DEF Thread
<1>7. ASSUME UNCHANGED allVars PROVE \E A \in SUBSET Threads : InRound(A)' /\ ExecutedIn(A)'
  <2>1. InRound(B)'
    BY <1>2, <1>7 DEF InRound, PostedIn, Balance, Taken, Started, Completed, Entered, Passed,
                      NTbs, allVars, vars, serverVars
  <2>2. UNCHANGED <<pc, taken, executed>>
    BY <1>7 DEF allVars, vars, serverVars
  <2> QED
    BY <1>4, <2>1, <2>2
<1>8. \E A \in SUBSET Threads : InRound(A)' /\ ExecutedIn(A)'
  BY <1>5, <1>6, <1>7 DEF ServerNext, Quiet
<1> QED
  BY <1>1, <1>8 DEF ExecutedInv

\* The threads of a rank take their tokens from one semaphore, yet every thread
\* executes its tb once for each request, and leaves the semaphores of the
\* dependencies, which no code sets back, at zero (EachExecutesOnce): where the
\* tbs of a rank all wait for each other, no thread comes back for the token of
\* another (finding offload_stealing is such a rank where they do not).
THEOREM EachThreadExecutesOnce ==
  ASSUME Balanced, Interlocked
  PROVE  ServerSpec => []EachExecutesOnce
<1>1. ServerInit => ExecutedInv
  BY ExecutedInit
<1>2. ExecutedInv /\ [ServerNext]_allVars => ExecutedInv'
  BY ExecutedInvNext
<1>3. ExecutedInv => EachExecutesOnce
  <2> SUFFICES ASSUME ExecutedInv, NEW r \in Ranks, main[r] \in {"idle", "reply"}
               PROVE  /\ \A th \in RankThreads(r) : executed[th] = Len(taken[r])
                      /\ \A k \in Keys : k[1][1] = r => sem[k] = 0
    BY DEF EachExecutesOnce
  <2>1. PICK B \in SUBSET Threads : InRound(B) /\ ExecutedIn(B)
    BY DEF ExecutedInv
  <2>2. /\ RankThreads(r) \subseteq B
        /\ \A th \in RankThreads(r) : pc[th] = "done"
        /\ \A k \in Keys : k[1][1] = r => sem[k] = 0
    BY <2>1, RoundIsOver DEF ExecutedInv
  <2>3. ASSUME NEW th \in RankThreads(r) PROVE executed[th] = Len(taken[r])
    <3>1. th \in Threads /\ th[1] = r
      BY DEF RankThreads
    <3>2. executed[th] = Len(taken[r]) - 0 - 0
      BY <2>1, <2>2, <3>1 DEF ExecutedIn, RoundsOf
    <3>3. taken[r] \in Seq(1 .. NRequests)
      BY DEF ExecutedInv, RequestTypes
    <3>4. Len(taken[r]) \in Nat
      BY <3>3
    <3> QED
      BY <3>2, <3>4
  <2> QED
    BY <2>2, <2>3
<1> QED
  BY <1>1, <1>2, <1>3, PTL DEF ServerSpec

-----------------------------------------------------------------------------
(* What the chunks contain, round by round. *)

\* L names what the buffer of the request holds that a rank takes in each round;
\* for those that it has not taken yet it is anybody's guess.
Labels     == [Ranks -> [Nat -> Epochs]]
Extends(L) == \A r \in Ranks : \A n \in DOMAIN taken[r] : L[r][n] = Held(r, taken[r][n])

\* A content of module Contents (where the requests of all are 0) in round m.
Relabel(L, m, v)  == [o \in Origins |-> IF o[2] = L[o[1][1]][m] THEN v[<<o[1], 0>>] ELSE 0]
RelabelAll(L, m, data, n) == [i \in 1 .. n |-> Relabel(L, m, data[i])]

\* How often a thread has sent and received a tag, in all its rounds.
AllSent(B, q, t)      == (RoundsOf(B, q) - 1) * Cardinality(Sends(q, t))
                           + Cardinality(SentFor(q, t))
AllReceived(B, th, t) == (RoundsOf(B, th) - 1) * Cardinality(Receives(th, t))
                           + Cardinality(ReceivedFor(th, t))

\* The requests that are not matched, and those of a tag from k on.
Waiting(q, t)  == {k \in Posted(q, t) : ~reqs[q][k].taken}
From(q, t, k)  == {j \in Posted(q, t) : k =< j}

\* A message more is on its way for each that was sent and not received.
RoundsCounted(B) ==
  /\ TakenInOrder
  /\ \A q \in DOMAIN Peer, t \in Int :
       Cardinality(Waiting(q, t)) = AllSent(B, q, t) - AllReceived(B, Peer[q], t)

\* Request k of q is the one that step s of round m has posted.
PostedBy(B, L, q, t, k, m, s) ==
  /\ AllSent(B, q, t) - Cardinality(From(q, t, k))
       = (m - 1) * Cardinality(Sends(q, t)) + NumberIn(Sends(q, t), s)
  /\ reqs[q][k].data = RelabelAll(L, m, Sent(Computed, s), StepAt(s).cnt)

RequestsAre(B, L) ==
  \A q \in Threads, t \in Int : \A k \in Waiting(q, t) :
    \E m \in Nat \ {0} : \E s \in Sends(q, t) : PostedBy(B, L, q, t, k, m, s)

MatchesAre(L) ==
  \A th \in Threads : pc[th] = "data" =>
    got[th].data = RelabelAll(L, Len(taken[th[1]]), Operand(Computed, Here(th)), Cur(th).cnt)

\* A chunk of the input holds the request, and any other chunk what an earlier
\* round has left, until a step of this round writes it.
ChunksAre(B, L) ==
  \A x \in Slots :
    taken[x[1]] # <<>> /\ (x[2] = "i" \/ WrittenBy(B, x) # {}) =>
      buf[x] = Relabel(L, Len(taken[x[1]]), LeftIn(Computed, WrittenBy(B, x), x))

RepliesAre(L) ==
  \A r \in Ranks : \A n \in DOMAIN replies[r] :
    replies[r][n] = [c \in 0 .. Sched[r].chunks["i"] - 1 |-> Relabel(L, n, SumOf(r)[c])]

HoldsIn(B, L) == RequestsAre(B, L) /\ MatchesAre(L) /\ ChunksAre(B, L) /\ RepliesAre(L)

ContentsAre(B) == \A L \in Labels : Extends(L) => HoldsIn(B, L)

\* The n-th reply is of the n-th request.
RepliesCounted == \A r \in Ranks : Len(taken[r]) = Replied(r) + Busy(r)

\* A sum is relabelled as its parts are, and the initial content of a chunk is
\* that of the request.
LEMMA RelabelPlus ==
  ASSUME NEW L, NEW m, NEW v, NEW w
  PROVE  Relabel(L, m, Plus(v, w)) = Plus(Relabel(L, m, v), Relabel(L, m, w))
<1>1. ASSUME NEW o \in Origins
      PROVE  Relabel(L, m, Plus(v, w))[o] = Plus(Relabel(L, m, v), Relabel(L, m, w))[o]
  <2>1. <<o[1], 0>> \in Origins
    BY EpochsAssumption DEF Origins
  <2>2. Relabel(L, m, Plus(v, w))[o]
          = IF o[2] = L[o[1][1]][m] THEN v[<<o[1], 0>>] + w[<<o[1], 0>>] ELSE 0
    BY <2>1 DEF Relabel, Plus
  <2>3. Plus(Relabel(L, m, v), Relabel(L, m, w))[o]
          = IF o[2] = L[o[1][1]][m] THEN v[<<o[1], 0>>] + w[<<o[1], 0>>] ELSE 0 + 0
    BY DEF Relabel, Plus
  <2> QED
    BY <2>2, <2>3
<1> QED
  BY <1>1 DEF Relabel, Plus

LEMMA RelabelInitial ==
  ASSUME NEW L \in Labels, NEW m \in Nat, NEW x \in Slots
  PROVE  Relabel(L, m, Initial(x, 0)) = Initial(x, L[x[1]][m])
<1>1. ASSUME NEW o \in Origins
      PROVE  Relabel(L, m, Initial(x, 0))[o] = Initial(x, L[x[1]][m])[o]
  <2>1. <<o[1], 0>> \in Origins /\ o = <<o[1], o[2]>>
    BY EpochsAssumption DEF Origins
  <2>2. Initial(x, 0)[<<o[1], 0>>] = IF o[1] = x THEN 1 ELSE 0
    BY <2>1 DEF Initial
  <2>3. Relabel(L, m, Initial(x, 0))[o]
          = IF o[2] = L[o[1][1]][m] THEN (IF o[1] = x THEN 1 ELSE 0) ELSE 0
    BY <2>2 DEF Relabel
  <2>4. Initial(x, L[x[1]][m])[o] = IF o = <<x, L[x[1]][m]>> THEN 1 ELSE 0
    BY DEF Initial
  <2>5. o = <<x, L[x[1]][m]>> <=> o[1] = x /\ o[2] = L[o[1][1]][m]
    BY <2>1
  <2> QED
    BY <2>3, <2>4, <2>5
<1> QED
  BY <1>1 DEF Relabel, Initial

\* The chunks of a step are those of its rank.
LEMMA SlotsOfStep ==
  ASSUME NEW p \in Places, NEW x \in Reads[p] \cup Writes[p]
  PROVE  x \in Slots /\ x[1] = p[1][1]
<1>1. x \in Slots
  BY SlotsAssumption
<1>2. x \in Span(p[1][1], StepAt(p).srcbuf, StepAt(p).srcoff, StepAt(p).cnt)
        \cup Span(p[1][1], StepAt(p).dstbuf, StepAt(p).dstoff, StepAt(p).cnt)
  BY DEF Reads, Writes
<1> QED
  BY <1>1, <1>2 DEF Span

\* A step finds what the steps before it leave, of this round.
LEMMA FoundInRound ==
  ASSUME TypeOK, NEW B, OrderIn(B), ConflictsOrdered, Fresh, NEW L, ChunksAre(B, L),
         NEW th \in Threads, th \in B, taken[th[1]] # <<>>, pc[th] \in {"op", "data"},
         NEW x \in Needs(Here(th))
  PROVE  buf[x] = Relabel(L, Len(taken[th[1]]), Found(Computed, Here(th), x))
<1>1. PICK p \in Places : p = Here(th) /\ p[1] = th /\ ~Passed(p)
  BY AccessIsHere
<1>2. x \in Reads[p] \cup Writes[p]
  BY <1>1 DEF Needs
<1>3. x \in Slots /\ x[1] = th[1]
  BY <1>1, <1>2, SlotsOfStep
<1>4. WrittenBy(B, x) = {w \in Writers(x) : Before(w, p)}
  <2>1. \A w \in WrittenBy(B, x) \ {p} : Before(w, p)
    BY <1>1, <1>2, WrittenUntil
  <2>2. \A w \in Writers(x) : Before(w, p) => w \in WrittenBy(B, x)
    BY <1>1, <1>2, WrittenUntil
  <2>3. p \notin WrittenBy(B, x)
    BY <1>1 DEF WrittenBy, WrittenTo, Written
  <2>4. \A w \in WrittenBy(B, x) : w \in Writers(x)
    BY DEF WrittenBy, WrittenTo
  <2> QED
    BY <2>1, <2>2, <2>3, <2>4
<1>5. x[2] = "i" \/ WrittenBy(B, x) # {}
  BY <1>1, <1>4 DEF Fresh
<1> QED
  BY <1>1, <1>3, <1>4, <1>5 DEF ChunksAre, Found

LEMMA LeftInRound ==
  ASSUME TypeOK, NEW B, OrderIn(B), ConflictsOrdered,
         NEW th \in Threads, th \in B, pc[th] \in {"op", "data", "fwd"},
         NEW x \in Writes[Here(th)]
  PROVE  LeftIn(Computed, WrittenBy(B, x) \cup {Here(th)}, x) = Computed[Here(th)][x]
<1>1. \A w \in WrittenBy(B, x) \ {Here(th)} : Before(w, Here(th)) /\ ~Before(Here(th), w)
  BY WrittenUntil
<1>2. LastOf(WrittenBy(B, x) \cup {Here(th)}) = Here(th)
  BY <1>1, LastIs
<1> QED
  BY <1>2 DEF LeftIn

LEMMA SourceInRound ==
  ASSUME TypeOK, NEW B, OrderIn(B), ConflictsOrdered, Fresh, NEW L, ChunksAre(B, L),
         NEW th \in Threads, th \in B, taken[th[1]] # <<>>,
         pc[th] = "op", Cur(th).type \in {"s", "re"}
  PROVE  [i \in 1 .. Cur(th).cnt |-> buf[<<th[1], Cur(th).srcbuf, Cur(th).srcoff + i - 1>>]]
           = RelabelAll(L, Len(taken[th[1]]), SourceData(Computed, Here(th)), Cur(th).cnt)
<1>1. PICK p \in Places : p = Here(th) /\ Cur(th) = StepAt(p) /\ p[1] = th
  BY AccessIsHere DEF Cur
<1>2. ASSUME NEW i \in 1 .. StepAt(p).cnt
      PROVE  buf[<<th[1], Cur(th).srcbuf, Cur(th).srcoff + i - 1>>]
               = Relabel(L, Len(taken[th[1]]), SourceData(Computed, p)[i])
  <2>1. Source(p, i) \in Reads[p]
    BY <1>1, Indices
  <2>2. buf[Source(p, i)] = Relabel(L, Len(taken[th[1]]), Found(Computed, p, Source(p, i)))
    BY <1>1, <2>1, FoundInRound DEF Needs
  <2>3. SourceData(Computed, p)[i] = Found(Computed, p, Source(p, i))
    BY DEF SourceData
  <2> QED
    BY <1>1, <2>2, <2>3 DEF Source
<1> QED
  BY <1>1, <1>2 DEF RelabelAll

LEMMA StoredInRound ==
  ASSUME TypeOK, NEW B, OrderIn(B), ConflictsOrdered, Fresh, NEW L, ChunksAre(B, L),
         NEW th \in Threads, th \in B, taken[th[1]] # <<>>,
         pc[th] \in {"op", "data"}, Cur(th).type \in Receiving \cup {"re"},
         NEW data, data = RelabelAll(L, Len(taken[th[1]]), Operand(Computed, Here(th)), Cur(th).cnt),
         NEW add \in BOOLEAN, add <=> Cur(th).type \in Reducing \cup {"re"},
         buf' = Stored(th[1], Cur(th).dstbuf, Cur(th).dstoff, data, Cur(th).cnt, add)
  PROVE  \A x \in Slots :
           buf'[x] = IF x \in Writes[Here(th)]
                     THEN Relabel(L, Len(taken[th[1]]), Result(Computed, Here(th))[x]) ELSE buf[x]
<1>1. PICK p \in Places : p = Here(th) /\ Cur(th) = StepAt(p) /\ p[1] = th
  BY AccessIsHere DEF Cur
<1>m. PICK m : m = Len(taken[th[1]])
  OBVIOUS
<1>2. Writes[p] = Span(th[1], Cur(th).dstbuf, Cur(th).dstoff, Cur(th).cnt)
  BY <1>1, Indices
<1> SUFFICES ASSUME NEW x \in Slots
             PROVE  buf'[x] = IF x \in Writes[p] THEN Relabel(L, m, Result(Computed, p)[x])
                              ELSE buf[x]
  BY <1>1, <1>m
<1>3. CASE x \in Writes[p]
  <2>1. PICK i \in 1 .. Cur(th).cnt : i = x[3] - Cur(th).dstoff + 1
    BY <1>1, <1>3, Indices
  <2>2. ChunkOf(data, i) = Relabel(L, m, Operand(Computed, p)[i])
    BY <1>1, <1>m, <2>1 DEF ChunkOf, RelabelAll
  <2>3. buf'[x] = IF add THEN Plus(buf[x], ChunkOf(data, i)) ELSE ChunkOf(data, i)
    BY <1>2, <1>3, <2>1 DEF Stored
  <2>4. Result(Computed, p)[x] = IF add THEN Plus(Found(Computed, p, x), Operand(Computed, p)[i])
                                 ELSE Operand(Computed, p)[i]
    BY <1>1, <1>3, <2>1 DEF Result
  <2>5. CASE add
    <3>1. buf[x] = Relabel(L, m, Found(Computed, p, x))
      <4>1. x \in Needs(p)
        BY <1>1, <1>3, <2>5 DEF Needs
      <4> QED
        BY <1>1, <1>m, <4>1, FoundInRound
    <3> QED
      BY <1>3, <2>2, <2>3, <2>4, <2>5, <3>1, RelabelPlus
  <2>6. CASE ~add
    BY <1>3, <2>2, <2>3, <2>4, <2>6
  <2> QED
    BY <2>5, <2>6
<1>4. CASE x \notin Writes[p]
  BY <1>2, <1>4 DEF Stored
<1> QED
  BY <1>3, <1>4

\* Steps that write nothing, or have written already.
LEMMA ChunksInRoundKept ==
  ASSUME NEW B, NEW L, ChunksAre(B, L), buf' = buf, taken' = taken,
         \A p \in Places : Writes[p] # {} => (Written(p)' <=> Written(p))
  PROVE  ChunksAre(B, L)'
<1>1. ASSUME NEW x \in Slots PROVE WrittenBy(B, x)' = WrittenBy(B, x)
  BY DEF WrittenBy, WrittenTo, Writers
<1> QED
  BY <1>1 DEF ChunksAre

LEMMA ChunksInRoundStored ==
  ASSUME TypeOK, NEW B, OrderIn(B), ConflictsOrdered, WellFounded, NEW L, ChunksAre(B, L),
         NEW th \in Threads, th \in B, taken' = taken, pc[th] \in {"op", "data"},
         NEW v \in {"fwd", "post"}, step' = step, pc' = [pc EXCEPT ![th] = v],
         \A x \in Slots :
           buf'[x] = IF x \in Writes[Here(th)]
                     THEN Relabel(L, Len(taken[th[1]]), Result(Computed, Here(th))[x]) ELSE buf[x]
  PROVE  ChunksAre(B, L)'
<1>1. PICK p \in Places : p = Here(th) /\ p[1] = th
  BY AccessIsHere
<1>2. \A w \in Places : Written(w)' <=> Written(w) \/ w = p
  BY <1>1, WrittenWithin
<1> SUFFICES ASSUME NEW x \in Slots, taken[x[1]] # <<>>, x[2] = "i" \/ WrittenBy(B, x)' # {}
             PROVE  buf'[x] = Relabel(L, Len(taken[x[1]]), LeftIn(Computed, WrittenBy(B, x)', x))
  BY DEF ChunksAre
<1>3. CASE x \in Writes[p]
  <2>1. WrittenBy(B, x)' = WrittenBy(B, x) \cup {p}
    BY <1>1, <1>2, <1>3 DEF WrittenBy, WrittenTo, Writers
  <2>2. LeftIn(Computed, WrittenBy(B, x) \cup {p}, x) = Computed[p][x]
    BY <1>1, <1>3, LeftInRound
  <2>3. Computed[p] = Result(Computed, p)
    BY DEF WellFounded
  <2>4. x[1] = th[1]
    BY <1>1, <1>3, SlotsOfStep
  <2> QED
    BY <1>1, <1>3, <2>1, <2>2, <2>3, <2>4
<1>4. CASE x \notin Writes[p]
  <2>1. WrittenBy(B, x)' = WrittenBy(B, x)
    BY <1>2, <1>4 DEF WrittenBy, WrittenTo, Writers
  <2> QED
    BY <1>1, <1>4, <2>1 DEF ChunksAre
<1> QED
  BY <1>3, <1>4

-----------------------------------------------------------------------------
\* A thread that posts a send has sent one step more.
LEMMA OneSent ==
  ASSUME TypeOK, NEW th \in Threads, pc[th] \in {"op", "fwd"},
         Cur(th).type \in Forwarding \cup {"s"},
         pc[th] = "op" => Cur(th).type \notin Receiving,
         step' = step, pc' = [pc EXCEPT ![th] = "post"]
  PROVE  /\ Here(th) \notin SentFor(th, Cur(th).dstoff)
         /\ \A q \in Threads, t \in Int :
              /\ SentFor(q, t)' = IF q = th /\ t = Cur(th).dstoff
                                  THEN SentFor(q, t) \cup {Here(th)} ELSE SentFor(q, t)
              /\ ReceivedFor(q, t)' = ReceivedFor(q, t)
<1>1. Here(th) \in Places
  BY HereIsPlace
<1>2. \A p \in Places :
         /\ p # Here(th) => /\ HasSent(p)' <=> HasSent(p)
                            /\ HasReceived(p)' <=> HasReceived(p)
         /\ p = Here(th) => /\ HasSent(p) <=> pc[th] = "post"
                            /\ HasSent(p)'
                            /\ HasReceived(p) <=> pc[th] \in {"data", "fwd", "post"}
                            /\ HasReceived(p)'
  BY <1>1, WithinStep
<1>3. \A p \in Places :
        /\ HasSent(p)' <=> HasSent(p) \/ p = Here(th)
        /\ StepAt(p).type \in Receiving => (HasReceived(p)' <=> HasReceived(p))
        /\ p = Here(th) => ~HasSent(p)
  BY <1>2 DEF Cur
<1> QED
  BY <1>1, <1>3 DEF SentFor, ReceivedFor, Sends, Receives, Cur, Here

\* A thread that matches a message has received one step more.
LEMMA OneReceived ==
  ASSUME TypeOK, NEW th \in Threads, Receive(th)
  PROVE  /\ Here(th) \notin ReceivedFor(th, Cur(th).dstoff)
         /\ \A q \in Threads, t \in Int :
              /\ SentFor(q, t)' = SentFor(q, t)
              /\ ReceivedFor(q, t)' = IF q = th /\ t = Cur(th).dstoff
                                      THEN ReceivedFor(q, t) \cup {Here(th)} ELSE ReceivedFor(q, t)
<1>1. /\ Cur(th).type \in Receiving /\ pc[th] = "op" /\ step' = step
      /\ pc' = [pc EXCEPT ![th] = "data"] /\ Here(th) \in Places
  BY HereIsPlace DEF Receive
<1>2. \A p \in Places :
         /\ p # Here(th) => /\ HasSent(p)' <=> HasSent(p)
                            /\ HasReceived(p)' <=> HasReceived(p)
         /\ p = Here(th) => /\ HasSent(p) <=> pc[th] = "post"
                            /\ HasSent(p)' <=> "data" = "post"
                            /\ HasReceived(p) <=> pc[th] \in {"data", "fwd", "post"}
                            /\ HasReceived(p)' <=> "data" \in {"data", "fwd", "post"}
  BY <1>1, WithinStep
<1>3. \A p \in Places :
        /\ HasSent(p)' <=> HasSent(p)
        /\ HasReceived(p)' <=> HasReceived(p) \/ p = Here(th)
        /\ p = Here(th) => ~HasReceived(p)
  BY <1>1, <1>2
<1> QED
  BY <1>1, <1>3 DEF SentFor, ReceivedFor, Sends, Receives, Cur, Here

LEMMA CountTypes ==
  ASSUME TypeOK, RequestTypes, NEW B, NEW q \in Threads, NEW t \in Int
  PROVE  /\ RoundsOf(B, q) \in Int /\ AllSent(B, q, t) \in Int /\ AllReceived(B, q, t) \in Int
         /\ Cardinality(Sends(q, t)) \in Nat /\ Cardinality(SentFor(q, t)) \in Nat
         /\ Cardinality(Receives(q, t)) \in Nat /\ Cardinality(ReceivedFor(q, t)) \in Nat
<1>1. /\ Cardinality(Sends(q, t)) \in Nat /\ Cardinality(SentFor(q, t)) \in Nat
      /\ Cardinality(Receives(q, t)) \in Nat /\ Cardinality(ReceivedFor(q, t)) \in Nat
  BY FiniteCounts, FS_CardinalityType
<1>2. RoundsOf(B, q) \in Int
  <2>1. taken[q[1]] \in Seq(1 .. NRequests)
    BY ThreadRank DEF RequestTypes
  <2>2. Len(taken[q[1]]) \in Nat
    BY <2>1
  <2> QED
    BY <2>2 DEF RoundsOf
<1>3. \A a \in Int, n, m \in Nat : (a - 1) * n + m \in Int
  OBVIOUS
<1> QED
  BY <1>1, <1>2, <1>3 DEF AllSent, AllReceived

\* The numbers of messages where the rounds stay as they are.
LEMMA SentOneMore ==
  ASSUME TypeOK, RequestTypes, NEW B, NEW q \in Threads, NEW t \in Int, taken' = taken, NEW x
  PROVE  /\ SentFor(q, t)' = SentFor(q, t) => AllSent(B, q, t)' = AllSent(B, q, t)
         /\ ReceivedFor(q, t)' = ReceivedFor(q, t) => AllReceived(B, q, t)' = AllReceived(B, q, t)
         /\ x \notin SentFor(q, t) /\ SentFor(q, t)' = SentFor(q, t) \cup {x} =>
              AllSent(B, q, t)' = AllSent(B, q, t) + 1
         /\ x \notin ReceivedFor(q, t) /\ ReceivedFor(q, t)' = ReceivedFor(q, t) \cup {x} =>
              AllReceived(B, q, t)' = AllReceived(B, q, t) + 1
<1>1. RoundsOf(B, q)' = RoundsOf(B, q) /\ Sends(q, t)' = Sends(q, t) /\ Receives(q, t)' = Receives(q, t)
  BY DEF RoundsOf, Sends, Receives
<1>2. SentFor(q, t)' = SentFor(q, t) => AllSent(B, q, t)' = AllSent(B, q, t)
  BY <1>1 DEF AllSent
<1>3. ReceivedFor(q, t)' = ReceivedFor(q, t) => AllReceived(B, q, t)' = AllReceived(B, q, t)
  BY <1>1 DEF AllReceived
<1> DEFINE s == (RoundsOf(B, q) - 1) * Cardinality(Sends(q, t))
           r == (RoundsOf(B, q) - 1) * Cardinality(Receives(q, t))
<1>4. s \in Int /\ r \in Int
  <2>1. \A a \in Int, n \in Nat : (a - 1) * n \in Int
    OBVIOUS
  <2> QED
    BY <2>1, CountTypes
<1>5. /\ AllSent(B, q, t) = s + Cardinality(SentFor(q, t))
      /\ AllSent(B, q, t)' = s + Cardinality(SentFor(q, t)')
      /\ AllReceived(B, q, t) = r + Cardinality(ReceivedFor(q, t))
      /\ AllReceived(B, q, t)' = r + Cardinality(ReceivedFor(q, t)')
  BY <1>1 DEF AllSent, AllReceived
<1>6. ASSUME x \notin SentFor(q, t), SentFor(q, t)' = SentFor(q, t) \cup {x}
      PROVE  Cardinality(SentFor(q, t)') = Cardinality(SentFor(q, t)) + 1
  BY <1>6, FiniteCounts, FS_AddElement
<1>7. ASSUME x \notin ReceivedFor(q, t), ReceivedFor(q, t)' = ReceivedFor(q, t) \cup {x}
      PROVE  Cardinality(ReceivedFor(q, t)') = Cardinality(ReceivedFor(q, t)) + 1
  BY <1>7, FiniteCounts, FS_AddElement
<1> HIDE DEF s, r
<1>8. Cardinality(SentFor(q, t)) \in Nat /\ Cardinality(ReceivedFor(q, t)) \in Nat
  BY CountTypes
<1> QED
  BY <1>2, <1>3, <1>4, <1>5, <1>6, <1>7, <1>8

\* The messages on their way stay so where none is sent or received.
LEMMA MessagesUnmoved ==
  ASSUME NEW A, NEW B, RoundsCounted(B), TakenInOrder',
         \A q \in Threads, t \in Int :
           /\ AllSent(A, q, t)' = AllSent(B, q, t) /\ AllReceived(A, q, t)' = AllReceived(B, q, t)
           /\ Waiting(q, t)' = Waiting(q, t)
           /\ \A k \in Waiting(q, t) : /\ reqs'[q][k].data = reqs[q][k].data
                                       /\ From(q, t, k)' = From(q, t, k)
  PROVE  /\ RoundsCounted(A)'
         /\ \A L : RequestsAre(B, L) => RequestsAre(A, L)'
<1>1. RoundsCounted(A)'
  <2> SUFFICES ASSUME NEW q \in DOMAIN Peer, NEW t \in Int
               PROVE  Cardinality(Waiting(q, t)') = AllSent(A, q, t)' - AllReceived(A, Peer[q], t)'
    BY DEF RoundsCounted
  <2>1. q \in Threads /\ Peer[q] \in Threads
    BY PeerIsThread
  <2> QED
    BY <2>1 DEF RoundsCounted
<1>2. ASSUME NEW L, RequestsAre(B, L) PROVE RequestsAre(A, L)'
  <2> SUFFICES ASSUME NEW q \in Threads, NEW t \in Int, NEW k \in Waiting(q, t)'
               PROVE  \E m \in Nat \ {0} : \E s \in Sends(q, t) : PostedBy(A, L, q, t, k, m, s)'
    BY DEF RequestsAre
  <2>1. k \in Waiting(q, t)
    OBVIOUS
  <2>2. PICK m \in Nat \ {0} : \E s \in Sends(q, t) : PostedBy(B, L, q, t, k, m, s)
    BY <1>2, <2>1 DEF RequestsAre
  <2>3. PICK s \in Sends(q, t) : PostedBy(B, L, q, t, k, m, s)
    BY <2>2
  <2>4. PostedBy(A, L, q, t, k, m, s)'
    BY <2>1, <2>3 DEF PostedBy
  <2> QED
    BY <2>4
<1> QED
  BY <1>1, <1>2

LEMMA QueueUnmoved ==
  ASSUME TakenInOrder, \A q \in Threads : Kept(q),
         \A q \in Threads : \A k \in DOMAIN reqs[q] :
           reqs'[q][k].state \in {reqs[q][k].state, "ready"}
  PROVE  /\ TakenInOrder'
         /\ \A q \in Threads, t \in Int :
              /\ Waiting(q, t)' = Waiting(q, t)
              /\ \A k \in Waiting(q, t) : /\ reqs'[q][k].data = reqs[q][k].data
                                          /\ From(q, t, k)' = From(q, t, k)
<1>1. \A q \in Threads, t \in Int : Posted(q, t)' = Posted(q, t)
  BY CountsKept
<1>2. \A q \in Threads, t \in Int : \A k \in Posted(q, t) :
        /\ k \in DOMAIN reqs[q] /\ reqs'[q][k].taken = reqs[q][k].taken
        /\ reqs'[q][k].data = reqs[q][k].data
  BY DEF Kept, Posted
<1>3. TakenInOrder'
  <2> SUFFICES ASSUME NEW q \in Threads, NEW t \in Int, NEW k \in Posted(q, t)'
               PROVE  /\ reqs'[q][k].state \notin {"error", "failed"}
                      /\ reqs'[q][k].taken => \A j \in Posted(q, t)' : j < k => reqs'[q][j].taken
    BY DEF TakenInOrder
  <2> QED
    BY <1>1, <1>2 DEF TakenInOrder
<1>4. \A q \in Threads, t \in Int : Waiting(q, t)' = Waiting(q, t)
  BY <1>1, <1>2 DEF Waiting
<1>5. \A q \in Threads, t \in Int : \A k \in Waiting(q, t) : From(q, t, k)' = From(q, t, k)
  BY <1>1 DEF From
<1> QED
  BY <1>2, <1>3, <1>4, <1>5 DEF Waiting

LEMMA WaitingFinite ==
  ASSUME TypeOK, NEW q \in Threads, NEW t, NEW k
  PROVE  /\ IsFiniteSet(Waiting(q, t)) /\ Cardinality(Waiting(q, t)) \in Nat
         /\ IsFiniteSet(From(q, t, k)) /\ Cardinality(From(q, t, k)) \in Nat
<1>1. Waiting(q, t) \subseteq Posted(q, t) /\ From(q, t, k) \subseteq Posted(q, t)
  BY DEF Waiting, From
<1> QED
  BY <1>1, FiniteCounts, FS_Subset, FS_CardinalityType

\* What send_block copies.
CopyOf(th, b, off) == [i \in 1 .. Cur(th).cnt |-> buf[<<th[1], b, off + i - 1>>]]

\* A request that is posted is counted by its sender's rounds.
LEMMA RequestInRound ==
  ASSUME TypeOK, RequestTypes, "error" \notin SendResults, NEW B, RoundsCounted(B),
         NEW th \in Threads, th \in B, taken[th[1]] # <<>>, taken' = taken,
         NEW b, NEW off, SendBlock(th, b, off),
         pc[th] \in {"op", "fwd"}, Cur(th).type \in Forwarding \cup {"s"},
         pc[th] = "op" => Cur(th).type \notin Receiving,
         step' = step, pc' = [pc EXCEPT ![th] = "post"]
  PROVE  /\ RoundsCounted(B)'
         /\ \A L : RequestsAre(B, L)
                     /\ CopyOf(th, b, off)
                          = RelabelAll(L, Len(taken[th[1]]), Sent(Computed, Here(th)), Cur(th).cnt)
                     => RequestsAre(B, L)'
<1>1. PICK tag \in Int : \E n : Appended(th, b, off, tag, n)
  BY RequestAppended
<1>2. PICK n : Appended(th, b, off, tag, n)
  BY <1>1
<1>3. PICK here : here = Here(th) /\ Cur(th) = StepAt(here)
  BY DEF Cur
<1>4. /\ tag = Cur(th).dstoff /\ here \in Sends(th, tag) /\ n \in Nat \ {0}
      /\ reqs'[th][n].taken = FALSE /\ reqs'[th][n].state \notin {"error", "failed"}
      /\ reqs'[th][n].data = [i \in 1 .. Cur(th).cnt |-> buf[<<th[1], b, off + i - 1>>]]
  BY <1>2, <1>3 DEF Appended
<1>5. \A q \in Threads, t \in Int :
        /\ Posted(q, t)' = IF q = th /\ t = tag THEN Posted(q, t) \cup {n} ELSE Posted(q, t)
        /\ \A k \in Posted(q, t) : reqs'[q][k] = reqs[q][k] /\ (q = th => k < n /\ ~(n < k))
  BY <1>2 DEF Appended
<1>6. \A q \in Threads, t \in Int : \A k \in Posted(q, t) : k \in Nat
  BY DEF Posted, TypeOK
<1>7. \A t \in Int : n \notin Posted(th, t)
  BY <1>4, <1>5
<1>8. \A q \in Threads, t \in Int :
        Waiting(q, t)' = IF q = th /\ t = tag THEN Waiting(q, t) \cup {n} ELSE Waiting(q, t)
  <2> SUFFICES ASSUME NEW q \in Threads, NEW t \in Int
               PROVE  Waiting(q, t)' = IF q = th /\ t = tag THEN Waiting(q, t) \cup {n}
                                       ELSE Waiting(q, t)
    OBVIOUS
  <2>1. CASE q = th /\ t = tag
    <3>1. Waiting(q, t)' = Waiting(q, t) \cup {n}
      BY <1>4, <1>5, <2>1 DEF Waiting
    <3> QED
      BY <2>1, <3>1
  <2>2. CASE ~(q = th /\ t = tag)
    <3>1. Waiting(q, t)' = Waiting(q, t)
      BY <1>5, <2>2 DEF Waiting
    <3> QED
      BY <2>2, <3>1
  <2> QED
    BY <2>1, <2>2
<1>9. /\ here \notin SentFor(th, tag)
      /\ \A q \in Threads, t \in Int :
           /\ SentFor(q, t)' = IF q = th /\ t = tag THEN SentFor(q, t) \cup {here}
                               ELSE SentFor(q, t)
           /\ ReceivedFor(q, t)' = ReceivedFor(q, t)
  BY <1>3, <1>4, OneSent
<1>10. ASSUME NEW q \in Threads, NEW t \in Int
       PROVE  /\ AllSent(B, q, t)' = IF q = th /\ t = tag THEN AllSent(B, q, t) + 1
                                     ELSE AllSent(B, q, t)
              /\ AllReceived(B, q, t)' = AllReceived(B, q, t)
  BY <1>9, SentOneMore
<1>11. TakenInOrder'
  <2> SUFFICES ASSUME NEW q \in Threads, NEW t \in Int, NEW k \in Posted(q, t)'
               PROVE  /\ reqs'[q][k].state \notin {"error", "failed"}
                      /\ reqs'[q][k].taken => \A j \in Posted(q, t)' : j < k => reqs'[q][j].taken
    BY DEF TakenInOrder
  <2>1. CASE k \in Posted(q, t)
    <3>1. reqs'[q][k] = reqs[q][k]
      BY <1>5, <2>1
    <3>2. ASSUME NEW j \in Posted(q, t)', j < k PROVE j \in Posted(q, t) /\ reqs'[q][j] = reqs[q][j]
      BY <1>5, <2>1, <3>2
    <3> QED
      BY <2>1, <3>1, <3>2 DEF RoundsCounted, TakenInOrder
  <2>2. CASE k \notin Posted(q, t)
    <3>1. q = th /\ k = n
      BY <1>5, <2>2
    <3> QED
      BY <1>4, <3>1
  <2> QED
    BY <2>1, <2>2
<1>12. ASSUME NEW q \in DOMAIN Peer, NEW t \in Int
       PROVE  Cardinality(Waiting(q, t)') = AllSent(B, q, t)' - AllReceived(B, Peer[q], t)'
  <2>1. q \in Threads /\ Peer[q] \in Threads
    BY PeerIsThread
  <2>2. Cardinality(Waiting(q, t)) = AllSent(B, q, t) - AllReceived(B, Peer[q], t)
    BY DEF RoundsCounted
  <2>3. CASE q = th /\ t = tag
    <3>1. n \notin Waiting(q, t)
      BY <1>7, <2>3 DEF Waiting
    <3>2. Cardinality(Waiting(q, t) \cup {n}) = Cardinality(Waiting(q, t)) + 1
      BY <2>1, <3>1, WaitingFinite, FS_AddElement
    <3>3. AllSent(B, q, t) \in Int /\ AllReceived(B, Peer[q], t) \in Int
      BY <2>1, CountTypes
    <3>4. /\ Waiting(q, t)' = Waiting(q, t) \cup {n} /\ AllSent(B, q, t)' = AllSent(B, q, t) + 1
          /\ AllReceived(B, Peer[q], t)' = AllReceived(B, Peer[q], t)
      BY <1>8, <1>10, <2>1, <2>3
    <3> QED
      BY <2>2, <3>2, <3>3, <3>4
  <2>4. CASE ~(q = th /\ t = tag)
    <3>1. /\ Waiting(q, t)' = Waiting(q, t) /\ AllSent(B, q, t)' = AllSent(B, q, t)
          /\ AllReceived(B, Peer[q], t)' = AllReceived(B, Peer[q], t)
      BY <1>8, <1>10, <2>1, <2>4
    <3> QED
      BY <2>2, <3>1
  <2> QED
    BY <2>3, <2>4
<1>13. RoundsCounted(B)'
  BY <1>11, <1>12 DEF RoundsCounted
<1>14. ASSUME NEW L, RequestsAre(B, L),
              CopyOf(th, b, off)
                = RelabelAll(L, Len(taken[th[1]]), Sent(Computed, Here(th)), Cur(th).cnt)
       PROVE  RequestsAre(B, L)'
  <2> SUFFICES ASSUME NEW q \in Threads, NEW t \in Int, NEW k \in Waiting(q, t)'
               PROVE  \E m \in Nat \ {0} : \E s \in Sends(q, t) : PostedBy(B, L, q, t, k, m, s)'
    BY DEF RequestsAre
  <2>1. CASE k \in Waiting(q, t)
    <3>1. PICK m \in Nat \ {0} : \E s \in Sends(q, t) : PostedBy(B, L, q, t, k, m, s)
      BY <1>14, <2>1 DEF RequestsAre
    <3>2. PICK s \in Sends(q, t) : PostedBy(B, L, q, t, k, m, s)
      BY <3>1
    <3>3. k \in Posted(q, t) /\ k \in Nat /\ reqs'[q][k] = reqs[q][k]
      BY <1>5, <1>6, <2>1 DEF Waiting
    <3>4. AllSent(B, q, t)' - Cardinality(From(q, t, k)') = AllSent(B, q, t) - Cardinality(From(q, t, k))
      <4>1. CASE q = th /\ t = tag
        <5>1. From(q, t, k)' = From(q, t, k) \cup {n}
          BY <1>4, <1>5, <3>3, <4>1 DEF From
        <5>2. n \notin From(q, t, k)
          BY <1>7, <4>1 DEF From
        <5>3. Cardinality(From(q, t, k)') = Cardinality(From(q, t, k)) + 1
          BY <5>1, <5>2, WaitingFinite, FS_AddElement
        <5>4. AllSent(B, q, t) \in Int /\ Cardinality(From(q, t, k)) \in Nat
          BY CountTypes, WaitingFinite
        <5>5. AllSent(B, q, t)' = AllSent(B, q, t) + 1
          BY <1>10, <4>1
        <5> QED
          BY <5>3, <5>4, <5>5
      <4>2. CASE ~(q = th /\ t = tag)
        <5>1. From(q, t, k)' = From(q, t, k)
          BY <1>5, <4>2 DEF From
        <5> QED
          BY <1>10, <4>2, <5>1
      <4> QED
        BY <4>1, <4>2
    <3>5. PostedBy(B, L, q, t, k, m, s)'
      BY <3>2, <3>3, <3>4 DEF PostedBy
    <3> QED
      BY <3>5
  <2>2. CASE k \notin Waiting(q, t)
    <3>1. q = th /\ t = tag /\ k = n
      BY <1>8, <2>2
    <3>2. Cardinality(From(th, tag, n)') = 1
      <4>1. From(th, tag, n)' = {n}
        <5>1. \A j \in Posted(th, tag) : j \in Nat /\ j < n
          BY <1>5, <1>6
        <5>2. \A j : j \in Posted(th, tag)' <=> j \in Posted(th, tag) \/ j = n
          BY <1>5
        <5>3. \A j : j \in Posted(th, tag)' /\ n =< j <=> j = n
          BY <1>4, <5>1, <5>2
        <5> QED
          BY <5>3 DEF From
      <4> QED
        BY <4>1, FS_Singleton
    <3>3. SentFor(th, tag) = {x \in Sends(th, tag) : x[2] < here[2]}
      BY <1>3, SentBefore DEF Here
    <3>4. RoundsOf(B, th) = Len(taken[th[1]]) /\ Len(taken[th[1]]) \in Nat \ {0}
      <4>1. taken[th[1]] \in Seq(1 .. NRequests)
        BY ThreadRank DEF RequestTypes
      <4>2. Len(taken[th[1]]) \in Nat \ {0}
        BY <4>1
      <4> QED
        BY <4>2 DEF RoundsOf
    <3>5. PICK m \in Nat \ {0} : m = Len(taken[th[1]]) /\ m = RoundsOf(B, th)
      BY <3>4
    <3>6. AllSent(B, th, tag) = (m - 1) * Cardinality(Sends(th, tag)) + NumberIn(Sends(th, tag), here)
      BY <3>3, <3>5 DEF AllSent, NumberIn
    <3>7. AllSent(B, th, tag)' = AllSent(B, th, tag) + 1 /\ AllSent(B, th, tag) \in Int
      BY <1>10, CountTypes
    <3>8. AllSent(B, th, tag)' - Cardinality(From(th, tag, n)')
            = (m - 1) * Cardinality(Sends(th, tag)) + NumberIn(Sends(th, tag), here)
      BY <3>2, <3>6, <3>7
    <3>9. reqs'[th][n].data = RelabelAll(L, m, Sent(Computed, here), StepAt(here).cnt)
      BY <1>3, <1>4, <1>14, <3>5 DEF CopyOf
    <3>10. PostedBy(B, L, th, tag, n, m, here)'
      BY <3>8, <3>9 DEF PostedBy
    <3> QED
      BY <1>4, <3>1, <3>10
  <2> QED
    BY <2>1, <2>2
<1> QED
  BY <1>13, <1>14

\* A number of rounds and a number in a round are told from their sum.
LEMMA Digits ==
  ASSUME NEW N \in Nat, NEW a \in Nat \ {0}, NEW b \in Nat \ {0}, NEW i \in Nat, NEW j \in Nat,
         i < N, j < N, (a - 1) * N + i = (b - 1) * N + j
  PROVE  a = b /\ i = j
<1>1. ASSUME NEW x \in Nat, NEW d \in Nat \ {0} PROVE (x + d) * N >= x * N + N
  <2>1. (x + d) * N = x * N + (d - 1) * N + N
    <3>1. \A y, z \in Int : (y + z) * N = y * N + z * N
      OBVIOUS
    <3>2. x + d = x + (d - 1) + 1
      OBVIOUS
    <3>3. (x + (d - 1) + 1) * N = (x + (d - 1)) * N + 1 * N
      BY <3>1
    <3>4. (x + (d - 1)) * N = x * N + (d - 1) * N
      BY <3>1
    <3> QED
      BY <3>2, <3>3, <3>4
  <2>2. (d - 1) * N \in Nat /\ x * N \in Nat
    <3>1. \A y \in Nat : y * N \in Nat
      OBVIOUS
    <3>2. d - 1 \in Nat
      OBVIOUS
    <3> QED
      BY <3>1, <3>2
  <2> QED
    BY <2>1, <2>2
<1>2. ASSUME NEW x \in Nat, NEW y \in Nat, NEW k \in Nat, NEW l \in Nat, k < N, x < y
      PROVE  x * N + k # y * N + l
  <2>1. PICK d \in Nat \ {0} : y = x + d
    <3>1. y - x \in Nat \ {0} /\ y = x + (y - x)
      BY <1>2
    <3> QED
      BY <3>1
  <2>2. y * N >= x * N + N
    BY <1>1, <2>1
  <2>3. x * N \in Nat /\ y * N \in Nat
    OBVIOUS
  <2> QED
    BY <1>2, <2>2, <2>3
<1>3. a - 1 \in Nat /\ b - 1 \in Nat
  OBVIOUS
<1>4. ~(a - 1 < b - 1) /\ ~(b - 1 < a - 1)
  BY <1>2, <1>3
<1>5. a = b
  BY <1>3, <1>4
<1>6. (a - 1) * N \in Nat
  BY <1>3
<1> QED
  BY <1>5, <1>6

LEMMA NumberBound ==
  ASSUME NEW S \in SUBSET Places, NEW s \in S
  PROVE  /\ NumberIn(S, s) \in Nat /\ Cardinality(S) \in Nat
         /\ NumberIn(S, s) < Cardinality(S)
<1> DEFINE A == {x \in S : x[2] < s[2]}
<1>1. s \notin A /\ A \cup {s} \subseteq S /\ IsFiniteSet(S) /\ IsFiniteSet(A)
  <2>1. s[2] \in Nat
    BY PlaceFacts
  <2> QED
    BY <2>1, PlacesFinite, FS_Subset
<1> HIDE DEF A
<1>2. /\ Cardinality(A \cup {s}) = Cardinality(A) + 1
      /\ Cardinality(A) \in Nat /\ Cardinality(S) \in Nat
  BY <1>1, FS_AddElement, FS_CardinalityType
<1>3. Cardinality(A \cup {s}) =< Cardinality(S)
  BY <1>1, FS_Subset
<1>4. NumberIn(S, s) = Cardinality(A)
  BY DEF NumberIn, A
<1> QED
  BY <1>2, <1>3, <1>4

\* The first request of a tag that waits is the next that its receiver is to
\* have, of the round in which that is: this is what RoundsCounted is for.
LEMMA FirstIsNext ==
  ASSUME TypeOK, RequestTypes, MessagesPaired, NEW B, RoundsCounted(B),
         NEW th \in Threads, th \in B, taken[th[1]] # <<>>, pc[th] = "op",
         Cur(th).type \in Receiving, NEW tag \in Int, NEW q, NEW k, FirstTaken(th, tag, q, k),
         NEW L, NEW m \in Nat \ {0}, NEW s \in Sends(q, tag), PostedBy(B, L, q, tag, k, m, s)
  PROVE  /\ m = Len(taken[th[1]])
         /\ NumberIn(Sends(q, tag), s) = NumberIn(Receives(th, tag), Here(th))
         /\ StepAt(s).cnt = Cur(th).cnt
<1>1. PICK here \in Places : here = Here(th) /\ Cur(th) = StepAt(here) /\ here[1] = th
  BY AccessIsHere DEF Cur
<1>2. /\ tag = StepAt(here).dstoff /\ q \in Threads /\ q \in DOMAIN Peer /\ Peer[q] = th
      /\ k \in Posted(q, tag) /\ \A j \in Posted(q, tag) : reqs[q][j].taken <=> j < k
  BY <1>1 DEF FirstTaken
<1>3. \A j \in Posted(q, tag) : j \in Nat
  BY <1>2 DEF Posted, TypeOK
<1>4. From(q, tag, k) = Waiting(q, tag)
  <2>1. \A j \in Posted(q, tag) : k =< j <=> ~reqs[q][j].taken
    BY <1>2, <1>3
  <2> QED
    BY <2>1 DEF From, Waiting
<1>5. here \in Receives(th, tag)
  BY <1>1, <1>2 DEF Receives
<1>6. /\ Cardinality(Sends(q, tag)) = Cardinality(Receives(th, tag))
      /\ NumberIn(Sends(q, tag), s) = NumberIn(Receives(th, tag), here) => StepAt(s).cnt = StepAt(here).cnt
  <2>1. tag \in {StepAt(p).dstoff : p \in Places}
    BY <1>2
  <2> QED
    BY <1>2, <1>5, <2>1 DEF MessagesPaired
<1>7. PICK N \in Nat : N = Cardinality(Sends(q, tag)) /\ N = Cardinality(Receives(th, tag))
  BY <1>2, <1>6, CountTypes
<1>8. PICK R \in Nat \ {0} : R = Len(taken[th[1]]) /\ R = RoundsOf(B, th)
  <2>1. taken[th[1]] \in Seq(1 .. NRequests)
    BY ThreadRank DEF RequestTypes
  <2>2. Len(taken[th[1]]) \in Nat \ {0}
    BY <2>1
  <2> QED
    BY <2>2 DEF RoundsOf
<1>9. AllReceived(B, th, tag) = (R - 1) * N + NumberIn(Receives(th, tag), here)
  <2>1. ReceivedFor(th, tag) = {x \in Receives(th, tag) : x[2] < here[2]}
    BY <1>1, ReceivedBefore DEF Here
  <2> QED
    BY <1>7, <1>8, <2>1 DEF AllReceived, NumberIn
<1>10. AllSent(B, q, tag) - Cardinality(From(q, tag, k)) = AllReceived(B, th, tag)
  <2>1. Cardinality(Waiting(q, tag)) = AllSent(B, q, tag) - AllReceived(B, th, tag)
    BY <1>2 DEF RoundsCounted
  <2>2. AllSent(B, q, tag) \in Int /\ AllReceived(B, th, tag) \in Int
    BY <1>2, CountTypes
  <2> QED
    BY <1>4, <2>1, <2>2
<1>11. (m - 1) * N + NumberIn(Sends(q, tag), s) = (R - 1) * N + NumberIn(Receives(th, tag), here)
  BY <1>7, <1>9, <1>10 DEF PostedBy
<1>12. /\ NumberIn(Sends(q, tag), s) \in Nat /\ NumberIn(Sends(q, tag), s) < N
       /\ NumberIn(Receives(th, tag), here) \in Nat /\ NumberIn(Receives(th, tag), here) < N
  <2>1. Sends(q, tag) \in SUBSET Places /\ Receives(th, tag) \in SUBSET Places
    BY DEF Sends, Receives
  <2> QED
    BY <1>5, <1>7, <2>1, NumberBound
<1>13. m = R /\ NumberIn(Sends(q, tag), s) = NumberIn(Receives(th, tag), here)
  BY <1>11, <1>12, Digits
<1> QED
  BY <1>1, <1>6, <1>8, <1>13

\* The message that a step sends for another to receive is its operand.
LEMMA PartnerIsFound ==
  ASSUME MessagesPaired, NEW here \in Places, StepAt(here).type \in Receiving,
         NEW q \in DOMAIN Peer, Peer[q] = here[1], NEW tag, tag = StepAt(here).dstoff,
         NEW s \in Sends(q, tag),
         NumberIn(Sends(q, tag), s) = NumberIn(Receives(here[1], tag), here)
  PROVE  Operand(Computed, here) = Sent(Computed, s)
<1>1. s \in Partners(here)
  BY DEF Partners, Senders, Sends
<1>2. ASSUME NEW x \in Partners(here) PROVE x = s
  <2>1. /\ x[1] \in Senders(here[1]) /\ x \in Sends(x[1], tag)
        /\ NumberIn(Sends(x[1], tag), x) = NumberIn(Receives(here[1], tag), here)
    BY DEF Partners
  <2>2. x[1] = q
    BY <2>1 DEF Senders, MessagesPaired
  <2>3. Sends(q, tag) \in SUBSET Places /\ \A y \in Sends(q, tag) : y[1] = q
    BY DEF Sends
  <2>4. x \in Sends(q, tag) /\ NumberIn(Sends(q, tag), x) = NumberIn(Sends(q, tag), s)
    BY <2>1, <2>2
  <2> QED
    BY <2>3, <2>4, NumberInjective
<1>3. (CHOOSE x \in Partners(here) : TRUE) = s
  BY <1>1, <1>2
<1>4. StepAt(here).type # "re"
  BY DEF Receiving
<1> QED
  BY <1>3, <1>4 DEF Operand

\* A message that is matched is of the round of the thread that matches it.
LEMMA MatchInRound ==
  ASSUME TypeOK, RequestTypes, MessagesPaired, NEW B, RoundsCounted(B),
         NEW th \in Threads, th \in B, taken[th[1]] # <<>>, taken' = taken, Receive(th)
  PROVE  /\ RoundsCounted(B)'
         /\ \A L : RequestsAre(B, L) /\ MatchesAre(L) => RequestsAre(B, L)' /\ MatchesAre(L)'
<1>1. /\ Cur(th).type \in Receiving /\ pc[th] = "op" /\ step' = step
      /\ pc' = [pc EXCEPT ![th] = "data"]
  BY DEF Receive
<1>2. PICK here \in Places : here = Here(th) /\ Cur(th) = StepAt(here) /\ here[1] = th
  BY <1>1, AccessIsHere DEF Cur
<1>3. PICK tag \in Int : \E q, k : FirstTaken(th, tag, q, k)
  BY FirstIsTaken DEF RoundsCounted
<1>4. PICK q, k : FirstTaken(th, tag, q, k)
  BY <1>3
<1>5. /\ tag = StepAt(here).dstoff /\ q \in Threads /\ q \in DOMAIN Peer /\ Peer[q] = th
      /\ k \in Posted(q, tag) /\ ~reqs[q][k].taken /\ OnlyMatched(q, k)
      /\ \A j \in Posted(q, tag) : reqs[q][j].taken <=> j < k
      /\ got' = [got EXCEPT ![th] = [dst |-> reqs[q][k].dst, data |-> reqs[q][k].data]]
  BY <1>2, <1>4 DEF FirstTaken
<1>6. \A p \in Threads, t \in Int :
        /\ Posted(p, t)' = Posted(p, t)
        /\ \A j \in Posted(p, t) :
             /\ reqs'[p][j].data = reqs[p][j].data /\ reqs'[p][j].state = reqs[p][j].state
             /\ reqs'[p][j].taken <=> reqs[p][j].taken \/ (p = q /\ j = k)
  <2> SUFFICES ASSUME NEW p \in Threads, NEW t \in Int
               PROVE  /\ Posted(p, t)' = Posted(p, t)
                      /\ \A j \in Posted(p, t) :
                           /\ reqs'[p][j].data = reqs[p][j].data
                           /\ reqs'[p][j].state = reqs[p][j].state
                           /\ reqs'[p][j].taken <=> reqs[p][j].taken \/ (p = q /\ j = k)
    OBVIOUS
  <2>1. /\ DOMAIN reqs'[p] = DOMAIN reqs[p]
        /\ \A j \in DOMAIN reqs[p] :
             /\ reqs'[p][j].tag = reqs[p][j].tag
             /\ reqs'[p][j].data = reqs[p][j].data /\ reqs'[p][j].state = reqs[p][j].state
             /\ reqs'[p][j].taken <=> reqs[p][j].taken \/ (p = q /\ j = k)
    BY <1>5 DEF OnlyMatched
  <2>2. Posted(p, t)' = Posted(p, t)
    BY <2>1 DEF Posted
  <2>3. \A j \in Posted(p, t) : j \in DOMAIN reqs[p]
    BY DEF Posted
  <2> QED
    BY <2>1, <2>2, <2>3
<1>7. \A t \in Int : k \in Posted(q, t) => t = tag
  BY <1>5 DEF Posted
<1>8. \A p \in Threads, t \in Int :
        Waiting(p, t)' = IF p = q /\ t = tag THEN Waiting(p, t) \ {k} ELSE Waiting(p, t)
  <2> SUFFICES ASSUME NEW p \in Threads, NEW t \in Int
               PROVE  Waiting(p, t)' = IF p = q /\ t = tag THEN Waiting(p, t) \ {k}
                                       ELSE Waiting(p, t)
    OBVIOUS
  <2>1. CASE p = q /\ t = tag
    <3>1. Waiting(p, t)' = Waiting(p, t) \ {k}
      BY <1>6, <2>1 DEF Waiting
    <3> QED
      BY <2>1, <3>1
  <2>2. CASE ~(p = q /\ t = tag)
    <3>1. Waiting(p, t)' = Waiting(p, t)
      BY <1>6, <1>7, <2>2 DEF Waiting
    <3> QED
      BY <2>2, <3>1
  <2> QED
    BY <2>1, <2>2
<1>9. /\ here \notin ReceivedFor(th, tag)
      /\ \A p \in Threads, t \in Int :
           /\ SentFor(p, t)' = SentFor(p, t)
           /\ ReceivedFor(p, t)' = IF p = th /\ t = tag THEN ReceivedFor(p, t) \cup {here}
                                   ELSE ReceivedFor(p, t)
  BY <1>2, <1>5, OneReceived
<1>10. ASSUME NEW p \in Threads, NEW t \in Int
       PROVE  /\ AllSent(B, p, t)' = AllSent(B, p, t)
              /\ AllReceived(B, p, t)' = IF p = th /\ t = tag THEN AllReceived(B, p, t) + 1
                                         ELSE AllReceived(B, p, t)
  BY <1>9, SentOneMore
<1>11. TakenInOrder'
  <2> SUFFICES ASSUME NEW p \in Threads, NEW t \in Int, NEW i \in Posted(p, t)'
               PROVE  /\ reqs'[p][i].state \notin {"error", "failed"}
                      /\ reqs'[p][i].taken => \A j \in Posted(p, t)' : j < i => reqs'[p][j].taken
    BY DEF TakenInOrder
  <2>1. reqs'[p][i].state \notin {"error", "failed"}
    BY <1>6 DEF RoundsCounted, TakenInOrder
  <2>2. ASSUME reqs'[p][i].taken, NEW j \in Posted(p, t)', j < i PROVE reqs'[p][j].taken
    <3>1. i \in Posted(p, t) /\ j \in Posted(p, t)
      BY <1>6, <2>2
    <3>2. CASE reqs[p][i].taken
      BY <1>6, <2>2, <3>1, <3>2 DEF RoundsCounted, TakenInOrder
    <3>3. CASE ~reqs[p][i].taken
      <4>1. p = q /\ i = k /\ t = tag
        BY <1>6, <1>7, <2>2, <3>1, <3>3
      <4> QED
        BY <1>5, <1>6, <2>2, <3>1, <4>1
    <3> QED
      BY <3>2, <3>3
  <2> QED
    BY <2>1, <2>2
<1>12. ASSUME NEW p \in DOMAIN Peer, NEW t \in Int
       PROVE  Cardinality(Waiting(p, t)') = AllSent(B, p, t)' - AllReceived(B, Peer[p], t)'
  <2>1. p \in Threads /\ Peer[p] \in Threads /\ (p = q <=> Peer[p] = th)
    BY <1>5, PeerIsThread DEF MessagesPaired
  <2>2. Cardinality(Waiting(p, t)) = AllSent(B, p, t) - AllReceived(B, Peer[p], t)
    BY DEF RoundsCounted
  <2>3. CASE p = q /\ t = tag
    <3>1. k \in Waiting(p, t)
      BY <1>5, <2>3 DEF Waiting
    <3>2. Cardinality(Waiting(p, t) \ {k}) = Cardinality(Waiting(p, t)) - 1
      BY <2>1, <3>1, WaitingFinite, FS_RemoveElement
    <3>3. /\ AllSent(B, p, t) \in Int /\ AllReceived(B, Peer[p], t) \in Int
          /\ Cardinality(Waiting(p, t)) \in Nat
      BY <2>1, CountTypes, WaitingFinite
    <3>4. /\ Waiting(p, t)' = Waiting(p, t) \ {k} /\ AllSent(B, p, t)' = AllSent(B, p, t)
          /\ AllReceived(B, Peer[p], t)' = AllReceived(B, Peer[p], t) + 1
      BY <1>8, <1>10, <2>1, <2>3
    <3> QED
      BY <2>2, <3>2, <3>3, <3>4
  <2>4. CASE ~(p = q /\ t = tag)
    <3>1. /\ Waiting(p, t)' = Waiting(p, t) /\ AllSent(B, p, t)' = AllSent(B, p, t)
          /\ AllReceived(B, Peer[p], t)' = AllReceived(B, Peer[p], t)
      BY <1>8, <1>10, <2>1, <2>4
    <3> QED
      BY <2>2, <3>1
  <2> QED
    BY <2>3, <2>4
<1>13. RoundsCounted(B)'
  BY <1>11, <1>12 DEF RoundsCounted
<1>14. ASSUME NEW L, RequestsAre(B, L) PROVE RequestsAre(B, L)'
  <2> SUFFICES ASSUME NEW p \in Threads, NEW t \in Int, NEW i \in Waiting(p, t)'
               PROVE  \E m \in Nat \ {0} : \E s \in Sends(p, t) : PostedBy(B, L, p, t, i, m, s)'
    BY DEF RequestsAre
  <2>1. i \in Waiting(p, t) /\ i \in Posted(p, t)
    BY <1>8 DEF Waiting
  <2>2. PICK m \in Nat \ {0} : \E s \in Sends(p, t) : PostedBy(B, L, p, t, i, m, s)
    BY <1>14, <2>1 DEF RequestsAre
  <2>3. PICK s \in Sends(p, t) : PostedBy(B, L, p, t, i, m, s)
    BY <2>2
  <2>4. From(p, t, i)' = From(p, t, i)
    BY <1>6 DEF From
  <2>5. reqs'[p][i].data = reqs[p][i].data /\ AllSent(B, p, t)' = AllSent(B, p, t)
    BY <1>6, <1>10, <2>1
  <2>6. PostedBy(B, L, p, t, i, m, s)'
    BY <2>3, <2>4, <2>5 DEF PostedBy
  <2> QED
    BY <2>6
<1>15. ASSUME NEW L, RequestsAre(B, L), MatchesAre(L) PROVE MatchesAre(L)'
  <2>1. k \in Waiting(q, tag)
    BY <1>5 DEF Waiting
  <2>2. PICK m \in Nat \ {0} : \E s \in Sends(q, tag) : PostedBy(B, L, q, tag, k, m, s)
    BY <1>5, <1>15, <2>1 DEF RequestsAre
  <2>3. PICK s \in Sends(q, tag) : PostedBy(B, L, q, tag, k, m, s)
    BY <2>2
  <2>4. /\ m = Len(taken[th[1]]) /\ StepAt(s).cnt = Cur(th).cnt
        /\ NumberIn(Sends(q, tag), s) = NumberIn(Receives(th, tag), here)
    BY <1>1, <1>2, <1>4, <2>3, FirstIsNext
  <2>5. Operand(Computed, here) = Sent(Computed, s)
    BY <1>1, <1>2, <1>5, <2>4, PartnerIsFound
  <2>6. reqs[q][k].data = RelabelAll(L, Len(taken[th[1]]), Operand(Computed, here), Cur(th).cnt)
    BY <2>3, <2>4, <2>5 DEF PostedBy
  <2> SUFFICES ASSUME NEW p \in Threads, pc'[p] = "data"
               PROVE  got'[p].data
                        = RelabelAll(L, Len(taken'[p[1]]), Operand(Computed, Here(p)'), Cur(p)'.cnt)
    BY DEF MatchesAre
  <2>7. Here(p)' = Here(p) /\ Cur(p)' = Cur(p)
    BY <1>1 DEF Here, Cur
  <2>8. CASE p = th
    <3>1. got'[th].data = reqs[q][k].data
      BY <1>5 DEF TypeOK
    <3> QED
      BY <1>2, <2>6, <2>7, <2>8, <3>1
  <2>9. CASE p # th
    <3>1. pc[p] = "data" /\ got'[p] = got[p]
      BY <1>1, <1>5, <2>9 DEF TypeOK
    <3> QED
      BY <1>15, <2>7, <3>1 DEF MatchesAre
  <2> QED
    BY <2>8, <2>9
<1> QED
  BY <1>13, <1>14, <1>15

-----------------------------------------------------------------------------
\* The steps that write, and what a step sends.
LEMMA ReduceInRound ==
  ASSUME TypeOK, NEW B, OrderIn(B), ConflictsOrdered, WellFounded, Fresh, NEW L, ChunksAre(B, L),
         NEW th \in Threads, th \in B, taken[th[1]] # <<>>, taken' = taken, Reduce(th)
  PROVE  ChunksAre(B, L)'
<1> DEFINE data == [i \in 1 .. Cur(th).cnt |->
                      buf[<<th[1], Cur(th).srcbuf, Cur(th).srcoff + i - 1>>]]
<1>1. /\ pc[th] = "op" /\ Cur(th).type = "re" /\ step' = step /\ pc' = [pc EXCEPT ![th] = "post"]
      /\ buf' = Stored(th[1], Cur(th).dstbuf, Cur(th).dstoff, data, Cur(th).cnt, TRUE)
  BY DEF Reduce
<1>2. data = RelabelAll(L, Len(taken[th[1]]), SourceData(Computed, Here(th)), Cur(th).cnt)
  BY <1>1, SourceInRound
<1>3. data = RelabelAll(L, Len(taken[th[1]]), Operand(Computed, Here(th)), Cur(th).cnt)
  <2>1. Operand(Computed, Here(th)) = SourceData(Computed, Here(th))
    BY <1>1 DEF Operand, Cur
  <2> QED
    BY <1>2, <2>1
<1>5. PICK add \in BOOLEAN : add = TRUE
  OBVIOUS
<1>6. /\ buf' = Stored(th[1], Cur(th).dstbuf, Cur(th).dstoff, data, Cur(th).cnt, add)
      /\ add <=> Cur(th).type \in Reducing \cup {"re"}
      /\ pc[th] \in {"op", "data"} /\ Cur(th).type \in Receiving \cup {"re"}
  BY <1>1, <1>5
<1> HIDE DEF data
<1>4. \A x \in Slots :
        buf'[x] = IF x \in Writes[Here(th)]
                  THEN Relabel(L, Len(taken[th[1]]), Result(Computed, Here(th))[x]) ELSE buf[x]
  BY <1>3, <1>6, StoredInRound
<1> QED
  BY <1>1, <1>4, ChunksInRoundStored

LEMMA StoreInRound ==
  ASSUME TypeOK, NEW B, OrderIn(B), ConflictsOrdered, WellFounded, Fresh, NEW L, ChunksAre(B, L),
         MatchesAre(L), NEW th \in Threads, th \in B, taken[th[1]] # <<>>, taken' = taken, Store(th)
  PROVE  ChunksAre(B, L)'
<1> DEFINE data == got[th].data
<1>1. /\ pc[th] = "data" /\ Cur(th).type \in Receiving /\ step' = step
      /\ \E v \in {"fwd", "post"} : pc' = [pc EXCEPT ![th] = v]
  BY DEF Store, TypeOK
<1>2. data = RelabelAll(L, Len(taken[th[1]]), Operand(Computed, Here(th)), Cur(th).cnt)
  BY <1>1 DEF MatchesAre
<1>3. Len(data) = Cur(th).cnt
  <2>1. Cur(th).cnt \in Nat
    BY <1>1, HereIsPlace DEF Step
  <2>2. data \in Seq(Value)
    BY DEF TypeOK
  <2>3. DOMAIN data = 1 .. Cur(th).cnt
    BY <1>2 DEF RelabelAll
  <2> QED
    BY <2>1, <2>2, <2>3
<1>4. PICK add \in BOOLEAN : add <=> Cur(th).type \in Reducing
  OBVIOUS
<1>5. buf' = Stored(th[1], Cur(th).dstbuf, Cur(th).dstoff, data, Cur(th).cnt, add)
  <2>1. CASE Cur(th).type \in Reducing
    <3>1. buf' = Stored(th[1], Cur(th).dstbuf, Cur(th).dstoff, data, Cur(th).cnt, TRUE)
      BY <2>1 DEF Store
    <3>2. add = TRUE
      BY <1>4, <2>1
    <3> QED
      BY <3>1, <3>2
  <2>2. CASE Cur(th).type \notin Reducing
    <3>1. buf' = Stored(th[1], Cur(th).dstbuf, Cur(th).dstoff, data, Cur(th).cnt, FALSE)
      BY <1>3, <2>2 DEF Store
    <3>2. add = FALSE
      BY <1>4, <2>2
    <3> QED
      BY <3>1, <3>2
  <2> QED
    BY <2>1, <2>2
<1>6. add <=> Cur(th).type \in Reducing \cup {"re"}
  BY <1>1, <1>4 DEF Receiving
<1> HIDE DEF data
<1>7. \A x \in Slots :
        buf'[x] = IF x \in Writes[Here(th)]
                  THEN Relabel(L, Len(taken[th[1]]), Result(Computed, Here(th))[x]) ELSE buf[x]
  BY <1>1, <1>2, <1>5, <1>6, StoredInRound
<1> QED
  BY <1>1, <1>7, ChunksInRoundStored

LEMMA SentInRound ==
  ASSUME TypeOK, NEW B, OrderIn(B), ConflictsOrdered, Fresh, NEW L, ChunksAre(B, L),
         NEW th \in Threads, th \in B, taken[th[1]] # <<>>
  PROVE  /\ Send(th) =>
              [i \in 1 .. Cur(th).cnt |-> buf[<<th[1], Cur(th).srcbuf, Cur(th).srcoff + i - 1>>]]
                = RelabelAll(L, Len(taken[th[1]]), Sent(Computed, Here(th)), Cur(th).cnt)
         /\ Forward(th) =>
              [i \in 1 .. Cur(th).cnt |-> buf[<<th[1], Cur(th).dstbuf, Cur(th).dstoff + i - 1>>]]
                = RelabelAll(L, Len(taken[th[1]]), Sent(Computed, Here(th)), Cur(th).cnt)
<1>1. ASSUME Send(th)
      PROVE  [i \in 1 .. Cur(th).cnt |-> buf[<<th[1], Cur(th).srcbuf, Cur(th).srcoff + i - 1>>]]
               = RelabelAll(L, Len(taken[th[1]]), Sent(Computed, Here(th)), Cur(th).cnt)
  <2>1. pc[th] = "op" /\ Cur(th).type = "s"
    BY <1>1 DEF Send
  <2>2. Sent(Computed, Here(th)) = SourceData(Computed, Here(th))
    BY <2>1 DEF Sent, Cur
  <2> QED
    BY <2>1, <2>2, SourceInRound
<1>2. ASSUME Forward(th)
      PROVE  [i \in 1 .. Cur(th).cnt |-> buf[<<th[1], Cur(th).dstbuf, Cur(th).dstoff + i - 1>>]]
               = RelabelAll(L, Len(taken[th[1]]), Sent(Computed, Here(th)), Cur(th).cnt)
  <2>1. pc[th] = "fwd" /\ Cur(th).type \in Forwarding
    BY <1>2 DEF Forward, TypeOK
  <2>2. PICK p \in Places : p = Here(th) /\ Cur(th) = StepAt(p) /\ p[1] = th
    BY <2>1, AccessIsHere DEF Cur
  <2>3. StepAt(p).type # "s" /\ StepAt(p).type \in Receiving
    BY <2>1, <2>2 DEF Forwarding, Receiving
  <2>m. PICK m : m = Len(taken[th[1]])
    OBVIOUS
  <2>4. ASSUME NEW i \in 1 .. StepAt(p).cnt
        PROVE  buf[<<th[1], Cur(th).dstbuf, Cur(th).dstoff + i - 1>>]
                 = Relabel(L, m, Sent(Computed, p)[i])
    <3>1. Target(p, i) \in Writes[p] /\ Target(p, i) \in Slots /\ Target(p, i)[1] = th[1]
      BY <2>2, <2>3, Indices, SlotsAssumption DEF Target
    <3>2. p \in WrittenBy(B, Target(p, i))
      BY <2>1, <2>2, <3>1 DEF WrittenBy, WrittenTo, Writers, Written
    <3>3. WrittenBy(B, Target(p, i)) \cup {p} = WrittenBy(B, Target(p, i))
      BY <3>2
    <3>4. LeftIn(Computed, WrittenBy(B, Target(p, i)), Target(p, i)) = Computed[p][Target(p, i)]
      BY <2>1, <2>2, <3>1, <3>3, LeftInRound
    <3>5. buf[Target(p, i)] = Relabel(L, m, Computed[p][Target(p, i)])
      BY <2>2, <2>m, <3>1, <3>2, <3>4 DEF ChunksAre
    <3>6. Sent(Computed, p)[i] = Computed[p][Target(p, i)]
      BY <2>3 DEF Sent
    <3> QED
      BY <2>2, <3>5, <3>6 DEF Target
  <2> QED
    BY <2>2, <2>4, <2>m DEF RelabelAll
<1> QED
  BY <1>1, <1>2

\* The messages where none is sent or received, and no round begins.
LEMMA QuietRound ==
  ASSUME TypeOK, RequestTypes, NEW B, RoundsCounted(B), taken' = taken,
         \A q, t : SentFor(q, t)' = SentFor(q, t) /\ ReceivedFor(q, t)' = ReceivedFor(q, t),
         \A q \in Threads : Kept(q),
         \A q \in Threads : \A k \in DOMAIN reqs[q] :
           reqs'[q][k].state \in {reqs[q][k].state, "ready"}
  PROVE  /\ RoundsCounted(B)'
         /\ \A L : RequestsAre(B, L) => RequestsAre(B, L)'
<1>1. \A q \in Threads, t \in Int :
        AllSent(B, q, t)' = AllSent(B, q, t) /\ AllReceived(B, q, t)' = AllReceived(B, q, t)
  BY SentOneMore
<1>2. /\ TakenInOrder'
      /\ \A q \in Threads, t \in Int :
           /\ Waiting(q, t)' = Waiting(q, t)
           /\ \A k \in Waiting(q, t) : /\ reqs'[q][k].data = reqs[q][k].data
                                       /\ From(q, t, k)' = From(q, t, k)
  BY QueueUnmoved DEF RoundsCounted
<1> QED
  BY <1>1, <1>2, MessagesUnmoved

LEMMA MatchesInRoundKept ==
  ASSUME NEW L, MatchesAre(L), taken' = taken,
         \A th \in Threads : pc'[th] = "data" =>
           pc[th] = "data" /\ got'[th] = got[th] /\ step'[th] = step[th]
  PROVE  MatchesAre(L)'
BY DEF MatchesAre, Here, Cur

\* What a step that neither posts nor matches a message leaves as it is.
LEMMA QuietSteps ==
  ASSUME TypeOK, NEW th \in Threads,
         \/ DepWait(th) \/ Drain(th) \/ Nop(th) \/ Reduce(th)
         \/ Store(th) \/ Post(th) \/ Flush(th) \/ SendDone(th)
  PROVE  /\ \A q, t : SentFor(q, t)' = SentFor(q, t) /\ ReceivedFor(q, t)' = ReceivedFor(q, t)
         /\ \A q \in Threads : Kept(q)
         /\ \A q \in Threads : \A k \in DOMAIN reqs[q] :
              reqs'[q][k].state \in {reqs[q][k].state, "ready"}
<1>1. \A p \in Places : /\ StepAt(p).type \in Forwarding \cup {"s"} =>
                              (HasSent(p)' <=> HasSent(p))
                        /\ StepAt(p).type \in Receiving =>
                              (HasReceived(p)' <=> HasReceived(p))
  <2>1. CASE DepWait(th) \/ Drain(th)
    <3>1. /\ step' = step /\ pc[th] \notin {"data", "fwd", "post"}
          /\ \E v \in {"op", "done"} : pc' = [pc EXCEPT ![th] = v]
      BY <2>1 DEF DepWait, Drain
    <3> QED
      BY <3>1, WithinStep
  <2>2. CASE Reduce(th) \/ Nop(th)
    <3>1. step' = step /\ pc' = [pc EXCEPT ![th] = "post"] /\ Cur(th).type \in {"re", "nop"}
      BY <2>2 DEF Reduce, Nop
    <3>2. StepAt(Here(th)).type \notin Receiving \cup Forwarding \cup {"s"}
      BY <3>1 DEF Cur, Receiving, Forwarding
    <3>3. \A p \in Places : p # Here(th) => /\ HasSent(p)' <=> HasSent(p)
                                            /\ HasReceived(p)' <=> HasReceived(p)
      BY <3>1, WithinStep
    <3> QED
      BY <3>2, <3>3
  <2>3. CASE Store(th)
    <3>1. PICK v : /\ step' = step /\ pc' = [pc EXCEPT ![th] = v]
                   /\ v = IF Cur(th).type \in Forwarding THEN "fwd" ELSE "post"
      BY <2>3 DEF Store
    <3>2. pc[th] = "data" /\ StepAt(Here(th)).type \in Receiving
      BY <2>3 DEF Store, TypeOK, Cur
    <3>3. v \in {"fwd", "post"} /\ (StepAt(Here(th)).type \in Forwarding \cup {"s"} => v = "fwd")
      BY <3>1, <3>2 DEF Cur, Receiving
    <3>4. \A p \in Places :
             /\ p # Here(th) => /\ HasSent(p)' <=> HasSent(p)
                                /\ HasReceived(p)' <=> HasReceived(p)
             /\ p = Here(th) => /\ HasSent(p) <=> pc[th] = "post"
                                /\ HasSent(p)' <=> v = "post"
                                /\ HasReceived(p) <=> pc[th] \in {"data", "fwd", "post"}
                                /\ HasReceived(p)' <=> v \in {"data", "fwd", "post"}
      BY <3>1, WithinStep
    <3> QED
      BY <3>2, <3>3, <3>4
  <2>4. CASE Post(th)
    BY <2>4, CompletedStep
  <2>5. CASE Flush(th) \/ SendDone(th)
    <3>1. step' = step /\ pc' = pc
      BY <2>5 DEF Flush, SendDone
    <3> QED
      BY <3>1 DEF HasSent, HasReceived, Passed
  <2> QED
    BY <2>1, <2>2, <2>3, <2>4, <2>5
<1>2. CASE Flush(th) \/ SendDone(th)
  BY <1>1, <1>2, FlushKeeps, PlacesKept
<1>3. CASE ~(Flush(th) \/ SendDone(th))
  <2>1. reqs' = reqs
    BY <1>3 DEF DepWait, Drain, Nop, Reduce, Store, Post
  <2> QED
    BY <1>1, <2>1, PlacesKept DEF Kept
<1> QED
  BY <1>2, <1>3

LEMMA StartsElsewhere ==
  ASSUME TypeOK, NEW th \in Threads, Post(th)
  PROVE  \A p \in Threads : pc'[p] = "data" => pc[p] = "data" /\ step'[p] = step[p]
<1> SUFFICES ASSUME NEW p \in Threads, pc'[p] = "data" PROVE pc[p] = "data" /\ step'[p] = step[p]
  OBVIOUS
<1>1. CASE p = th
  <2>1. pc'[th] = StartPc(th, step[th] + 1)
    BY DEF Post, TypeOK
  <2>2. step[th] \in Nat /\ NSteps(th) \in Nat /\ step[th] < NSteps(th)
    BY ThreadFacts DEF Post, TypeOK
  <2>3. step[th] + 1 \in Nat /\ step[th] + 1 =< NSteps(th)
    BY <2>2
  <2>4. pc'[th] \in {"dep", "op", "drain"}
    BY <2>1, <2>3, StartPcFacts
  <2> QED
    BY <1>1, <2>4
<1>2. CASE p # th
  BY <1>2 DEF Post, TypeOK
<1> QED
  BY <1>1, <1>2

\* A step of a thread, in whatever round it is.
LEMMA RunHolds ==
  ASSUME MessagesPaired, ConflictsOrdered, WellFounded, Fresh,
         ~RecvMayFail, ~SendMayFail, "error" \notin SendResults,
         TypeOK, RequestTypes, NEW B, OrderIn(B), RoundsCounted(B),
         NEW th \in Threads, th \in B, taken[th[1]] # <<>>,
         Run(th), taken' = taken, replies' = replies
  PROVE  /\ RoundsCounted(B)'
         /\ \A L : HoldsIn(B, L) => HoldsIn(B, L)'
<1>1. \A L : RepliesAre(L) => RepliesAre(L)'
  BY DEF RepliesAre
<1>2. ASSUME NEW v, v # "data", step' = step, pc' = [pc EXCEPT ![th] = v],
             \A p \in Threads : p # th => got'[p] = got[p]
      PROVE  \A L : MatchesAre(L) => MatchesAre(L)'
  <2>1. \A p \in Threads : pc'[p] = "data" => pc[p] = "data" /\ got'[p] = got[p] /\ step'[p] = step[p]
    BY <1>2 DEF TypeOK
  <2> QED
    BY <2>1, MatchesInRoundKept
<1>3. ASSUME NEW v, step' = step, pc' = [pc EXCEPT ![th] = v], buf' = buf,
             Here(th) \in Places /\ Writes[Here(th)] # {} =>
               (pc[th] \in {"fwd", "post"} <=> v \in {"fwd", "post"})
      PROVE  \A L : ChunksAre(B, L) => ChunksAre(B, L)'
  <2>1. \A p \in Places : Writes[p] # {} => (Written(p)' <=> Written(p))
    BY <1>3, WrittenWithin
  <2> QED
    BY <1>3, <2>1, ChunksInRoundKept
<1>4. ASSUME \/ DepWait(th) \/ Drain(th) \/ Nop(th) \/ Reduce(th)
             \/ Store(th) \/ Post(th) \/ Flush(th) \/ SendDone(th)
      PROVE  /\ RoundsCounted(B)'
             /\ \A L : RequestsAre(B, L) => RequestsAre(B, L)'
  BY <1>4, QuietSteps, QuietRound
<1>5. CASE DepWait(th) \/ Drain(th)
  <2>1. /\ got' = got /\ step' = step /\ buf' = buf /\ pc[th] \notin {"fwd", "post"}
        /\ \E v \in {"op", "done"} : pc' = [pc EXCEPT ![th] = v]
    BY <1>5 DEF DepWait, Drain
  <2>2. \A L : MatchesAre(L) => MatchesAre(L)'
    BY <1>2, <2>1
  <2>3. \A L : ChunksAre(B, L) => ChunksAre(B, L)'
    BY <1>3, <2>1
  <2> QED
    BY <1>1, <1>4, <1>5, <2>2, <2>3 DEF HoldsIn
<1>6. CASE Nop(th)
  <2>1. got' = got /\ step' = step /\ buf' = buf /\ pc' = [pc EXCEPT ![th] = "post"]
    BY <1>6 DEF Nop
  <2>2. Here(th) \in Places => Writes[Here(th)] = {}
    BY <1>6 DEF Nop, Cur, Writes, Receiving
  <2>3. \A L : MatchesAre(L) => MatchesAre(L)'
    BY <1>2, <2>1
  <2>4. \A L : ChunksAre(B, L) => ChunksAre(B, L)'
    BY <1>3, <2>1, <2>2
  <2> QED
    BY <1>1, <1>4, <1>6, <2>3, <2>4 DEF HoldsIn
<1>7. CASE Reduce(th)
  <2>1. got' = got /\ step' = step /\ pc' = [pc EXCEPT ![th] = "post"]
    BY <1>7 DEF Reduce
  <2>2. \A L : MatchesAre(L) => MatchesAre(L)'
    BY <1>2, <2>1
  <2>3. \A L : ChunksAre(B, L) => ChunksAre(B, L)'
    BY <1>7, ReduceInRound
  <2> QED
    BY <1>1, <1>4, <1>7, <2>2, <2>3 DEF HoldsIn
<1>8. CASE Send(th) \/ Forward(th)
  <2>1. PICK b, off : /\ SendBlock(th, b, off)
                      /\ \/ Send(th) /\ b = Cur(th).srcbuf /\ off = Cur(th).srcoff
                         \/ Forward(th) /\ b = Cur(th).dstbuf /\ off = Cur(th).dstoff
    BY <1>8 DEF Send, Forward
  <2>2. /\ pc[th] \in {"op", "fwd"} /\ step' = step /\ got' = got /\ buf' = buf
        /\ pc' = [pc EXCEPT ![th] = "post"]
    BY <1>8 DEF Send, Forward
  <2>3. /\ Cur(th).type \in Forwarding \cup {"s"} /\ (pc[th] = "op" => Cur(th).type = "s")
        /\ pc[th] = "op" => Cur(th).type \notin Receiving
    BY <1>8 DEF Send, Forward, TypeOK, Receiving
  <2>4. ASSUME NEW L, ChunksAre(B, L)
        PROVE  CopyOf(th, b, off)
                 = RelabelAll(L, Len(taken[th[1]]), Sent(Computed, Here(th)), Cur(th).cnt)
    <3>1. CASE Send(th) /\ b = Cur(th).srcbuf /\ off = Cur(th).srcoff
      BY <2>4, <3>1, SentInRound DEF CopyOf
    <3>2. CASE Forward(th) /\ b = Cur(th).dstbuf /\ off = Cur(th).dstoff
      BY <2>4, <3>2, SentInRound DEF CopyOf
    <3> QED
      BY <2>1, <3>1, <3>2
  <2>5. /\ RoundsCounted(B)'
        /\ \A L : RequestsAre(B, L) /\ ChunksAre(B, L) => RequestsAre(B, L)'
    BY <2>1, <2>2, <2>3, <2>4, RequestInRound
  <2>6. \A L : MatchesAre(L) => MatchesAre(L)'
    BY <1>2, <2>2
  <2>7. Here(th) \in Places /\ Writes[Here(th)] # {} => pc[th] = "fwd"
    BY <2>2, <2>3 DEF Cur, Writes, Receiving
  <2>8. \A L : ChunksAre(B, L) => ChunksAre(B, L)'
    BY <1>3, <2>2, <2>7
  <2> QED
    BY <1>1, <2>5, <2>6, <2>8 DEF HoldsIn
<1>9. CASE Receive(th)
  <2>1. /\ pc[th] = "op" /\ step' = step /\ buf' = buf /\ pc' = [pc EXCEPT ![th] = "data"]
    BY <1>9 DEF Receive
  <2>2. \A L : ChunksAre(B, L) => ChunksAre(B, L)'
    BY <1>3, <2>1
  <2>3. /\ RoundsCounted(B)'
        /\ \A L : RequestsAre(B, L) /\ MatchesAre(L) => RequestsAre(B, L)' /\ MatchesAre(L)'
    BY <1>9, MatchInRound
  <2> QED
    BY <1>1, <2>2, <2>3 DEF HoldsIn
<1>10. CASE Store(th)
  <2>1. PICK v \in {"fwd", "post"} : pc' = [pc EXCEPT ![th] = v]
    BY <1>10 DEF Store
  <2>2. /\ step' = step /\ \A p \in Threads : p # th => got'[p] = got[p]
    BY <1>10 DEF Store, TypeOK
  <2>3. \A L : MatchesAre(L) => MatchesAre(L)'
    BY <1>2, <2>1, <2>2
  <2>4. \A L : ChunksAre(B, L) /\ MatchesAre(L) => ChunksAre(B, L)'
    BY <1>10, StoreInRound
  <2> QED
    BY <1>1, <1>4, <1>10, <2>3, <2>4 DEF HoldsIn
<1>11. CASE Post(th)
  <2>1. got' = got /\ buf' = buf
    BY <1>11 DEF Post
  <2>2. \A L : MatchesAre(L) => MatchesAre(L)'
    BY <1>11, <2>1, StartsElsewhere, MatchesInRoundKept
  <2>3. \A L : ChunksAre(B, L) => ChunksAre(B, L)'
    BY <1>11, <2>1, WrittenCompleted, ChunksInRoundKept
  <2> QED
    BY <1>1, <1>4, <1>11, <2>2, <2>3 DEF HoldsIn
<1>12. CASE Flush(th) \/ SendDone(th)
  <2>1. step' = step /\ pc' = pc /\ got' = got /\ buf' = buf
    BY <1>12 DEF Flush, SendDone
  <2>2. \A L : MatchesAre(L) => MatchesAre(L)'
    BY <2>1, MatchesInRoundKept
  <2>3. \A p \in Places : Written(p)' <=> Written(p)
    BY <2>1 DEF Written, Passed, Here
  <2>4. \A L : ChunksAre(B, L) => ChunksAre(B, L)'
    BY <2>1, <2>3, ChunksInRoundKept
  <2> QED
    BY <1>1, <1>4, <1>12, <2>2, <2>4 DEF HoldsIn
<1>13. ~RecvFails(th) /\ ~SendFails(th)
  BY DEF RecvFails, SendFails
<1> QED
  BY <1>5, <1>6, <1>7, <1>8, <1>9, <1>10, <1>11, <1>12, <1>13 DEF Run

-----------------------------------------------------------------------------
\* A thread that begins a round has sent and received in the rounds before all
\* that its tb sends and receives in one.
LEMMA ThreadOver ==
  ASSUME TypeOK, NEW th \in Threads, pc[th] = "done", NEW t
  PROVE  SentFor(th, t) = Sends(th, t) /\ ReceivedFor(th, t) = Receives(th, t)
<1>1. step[th] = NSteps(th)
  BY DEF TypeOK
<1>2. \A p \in Places : p[1] = th => Passed(p)
  BY <1>1, PlaceFacts DEF Passed
<1> QED
  BY <1>2 DEF SentFor, ReceivedFor, Sends, Receives, HasSent, HasReceived

LEMMA ThreadAnew ==
  ASSUME TypeOK, NEW th \in Threads, Begin(th)
  PROVE  /\ step'[th] = 0 /\ pc'[th] \in {"dep", "op", "drain"}
         /\ \A q \in Threads : q # th =>
              step'[q] = step[q] /\ pc'[q] = pc[q] /\ reqs'[q] = reqs[q]
         /\ \A p \in Places : p[1] = th => ~HasSent(p)' /\ ~HasReceived(p)' /\ ~Written(p)'
         /\ \A p \in Places : p[1] # th => /\ HasSent(p)' <=> HasSent(p)
                                           /\ HasReceived(p)' <=> HasReceived(p)
                                           /\ Written(p)' <=> Written(p)
<1>1. /\ step' = [step EXCEPT ![th] = 0] /\ pc' = [pc EXCEPT ![th] = StartPc(th, 0)]
      /\ \A q \in Threads : q # th => reqs'[q] = reqs[q]
  BY DEF Begin, TypeOK
<1>2. StartPc(th, 0) \in {"dep", "op", "drain"}
  <2>1. 0 \in Nat /\ 0 =< NSteps(th)
    BY ThreadFacts
  <2> QED
    BY <2>1, StartPcFacts
<1>3. /\ step'[th] = 0 /\ pc'[th] \in {"dep", "op", "drain"}
      /\ \A q \in Threads : q # th => step'[q] = step[q] /\ pc'[q] = pc[q]
  BY <1>1, <1>2 DEF TypeOK
<1>4. ASSUME NEW p \in Places, p[1] = th PROVE ~HasSent(p)' /\ ~HasReceived(p)' /\ ~Written(p)'
  <2>1. p[2] \in Nat
    BY PlaceFacts
  <2> QED
    BY <1>3, <1>4, <2>1 DEF HasSent, HasReceived, Written, Passed
<1>5. ASSUME NEW p \in Places, p[1] # th
      PROVE  /\ HasSent(p)' <=> HasSent(p)
             /\ HasReceived(p)' <=> HasReceived(p)
             /\ Written(p)' <=> Written(p)
  <2>1. step'[p[1]] = step[p[1]] /\ pc'[p[1]] = pc[p[1]]
    BY <1>3, <1>5, PlaceFacts
  <2> QED
    BY <2>1 DEF HasSent, HasReceived, Written, Passed, Here
<1> QED
  BY <1>1, <1>3, <1>4, <1>5

\* Requests that are forgotten have been matched.
LEMMA BeginQueue ==
  ASSUME TypeOK, TakenInOrder, NEW th \in Threads, Begin(th)
  PROVE  /\ TakenInOrder'
         /\ \A q \in Threads, t \in Int :
              /\ Waiting(q, t)' = Waiting(q, t)
              /\ \A k \in Waiting(q, t) : /\ reqs'[q][k].data = reqs[q][k].data
                                          /\ From(q, t, k)' = From(q, t, k)
<1>1. \A q \in Threads : q # th => reqs'[q] = reqs[q]
  BY ThreadAnew
<1>2. \/ reqs'[th] = reqs[th]
      \/ reqs'[th] = <<>> /\ \A k \in DOMAIN reqs[th] : reqs[th][k].taken
  BY DEF Begin, TypeOK
<1>3. ASSUME NEW q \in Threads, reqs'[q] = reqs[q]
      PROVE  \A t : /\ Posted(q, t)' = Posted(q, t) /\ Waiting(q, t)' = Waiting(q, t)
                    /\ \A k : From(q, t, k)' = From(q, t, k)
  BY <1>3 DEF Posted, Waiting, From
<1>4. ASSUME reqs'[th] = <<>>, \A k \in DOMAIN reqs[th] : reqs[th][k].taken
      PROVE  \A t : Posted(th, t)' = {} /\ Waiting(th, t)' = {} /\ Waiting(th, t) = {}
  <2>1. \A t : Posted(th, t)' = {}
    BY <1>4 DEF Posted
  <2>2. \A t : Waiting(th, t)' = {} /\ Waiting(th, t) = {}
    BY <1>4, <2>1 DEF Waiting, Posted
  <2> QED
    BY <2>1, <2>2
<1>5. TakenInOrder'
  <2> SUFFICES ASSUME NEW q \in Threads, NEW t \in Int, NEW k \in Posted(q, t)'
               PROVE  /\ reqs'[q][k].state \notin {"error", "failed"}
                      /\ reqs'[q][k].taken => \A j \in Posted(q, t)' : j < k => reqs'[q][j].taken
    BY DEF TakenInOrder
  <2>1. reqs'[q] = reqs[q]
    BY <1>1, <1>2, <1>4
  <2> QED
    BY <1>3, <2>1 DEF TakenInOrder
<1> QED
  BY <1>1, <1>2, <1>3, <1>4, <1>5

\* A thread that begins its round leaves every message and every chunk as it is.
LEMMA BeginHolds ==
  ASSUME TypeOK, RequestTypes, NEW B, RoundsCounted(B),
         NEW th \in Threads, th \notin B, Begin(th)
  PROVE  /\ RoundsCounted(B \cup {th})'
         /\ \A L : HoldsIn(B, L) => HoldsIn(B \cup {th}, L)'
<1> DEFINE A == B \cup {th}
<1>1. pc[th] = "done" /\ taken' = taken /\ replies' = replies /\ buf' = buf /\ got' = got
  BY DEF Begin
<1>2. ASSUME NEW q \in Threads, NEW t \in Int
      PROVE  AllSent(A, q, t)' = AllSent(B, q, t) /\ AllReceived(A, q, t)' = AllReceived(B, q, t)
  <2>1. CASE q = th
    <3>1. SentFor(th, t)' = {} /\ ReceivedFor(th, t)' = {}
      BY ThreadAnew DEF SentFor, ReceivedFor, Sends, Receives
    <3>2. SentFor(th, t) = Sends(th, t) /\ ReceivedFor(th, t) = Receives(th, t)
      BY <1>1, ThreadOver
    <3>3. PICK m : m = Len(taken[th[1]])
      OBVIOUS
    <3>4. m \in Nat
      <4>1. taken[th[1]] \in Seq(1 .. NRequests)
        BY ThreadRank DEF RequestTypes
      <4> QED
        BY <3>3, <4>1
    <3>5. RoundsOf(B, th) = m - 1 /\ RoundsOf(A, th)' = m - 0
      BY <1>1, <3>3 DEF RoundsOf
    <3>6. PICK n \in Nat : n = Cardinality(Sends(th, t))
      BY CountTypes
    <3>7. PICK k \in Nat : k = Cardinality(Receives(th, t))
      BY CountTypes
    <3>8. /\ AllSent(B, th, t) = (m - 1 - 1) * n + n /\ AllSent(A, th, t)' = (m - 0 - 1) * n + 0
          /\ AllReceived(B, th, t) = (m - 1 - 1) * k + k
          /\ AllReceived(A, th, t)' = (m - 0 - 1) * k + 0
      <4>1. Cardinality({}) = 0
        BY FS_EmptySet
      <4> QED
        BY <3>1, <3>2, <3>5, <3>6, <3>7, <4>1 DEF AllSent, AllReceived
    <3>9. \A i \in Nat : (m - 1 - 1) * i + i = (m - 0 - 1) * i + 0
      BY <3>4
    <3> QED
      BY <2>1, <3>8, <3>9
  <2>2. CASE q # th
    <3>1. SentFor(q, t)' = SentFor(q, t) /\ ReceivedFor(q, t)' = ReceivedFor(q, t)
      BY <2>2, ThreadAnew DEF SentFor, ReceivedFor, Sends, Receives
    <3>2. RoundsOf(A, q)' = RoundsOf(B, q)
      BY <1>1, <2>2 DEF RoundsOf
    <3> QED
      BY <3>1, <3>2 DEF AllSent, AllReceived
  <2> QED
    BY <2>1, <2>2
<1>3. ASSUME NEW x PROVE WrittenBy(A, x)' = WrittenBy(B, x)
  BY ThreadAnew DEF WrittenBy, WrittenTo, Writers
<1>4. \A p \in Threads : pc'[p] = "data" => pc[p] = "data" /\ got'[p] = got[p] /\ step'[p] = step[p]
  BY <1>1, ThreadAnew
<1> HIDE DEF A
<1>5. /\ RoundsCounted(A)'
      /\ \A L : RequestsAre(B, L) => RequestsAre(A, L)'
  BY <1>2, BeginQueue, MessagesUnmoved DEF RoundsCounted
<1>6. \A L : MatchesAre(L) => MatchesAre(L)'
  BY <1>1, <1>4, MatchesInRoundKept
<1>7. \A L : ChunksAre(B, L) => ChunksAre(A, L)'
  BY <1>1, <1>3 DEF ChunksAre
<1>8. \A L : RepliesAre(L) => RepliesAre(L)'
  BY <1>1 DEF RepliesAre
<1> QED
  BY <1>5, <1>6, <1>7, <1>8 DEF HoldsIn, A

LEMMA RankOfWriter ==
  ASSUME NEW x, NEW w \in Writers(x) PROVE w \in Places /\ w[1] \in Threads /\ w[1][1] = x[1]
BY SlotsOfStep, PlaceFacts DEF Writers

LEMMA TakeHolds ==
  ASSUME Balanced, TypeOK, IInv, RequestTypes, NEW B, InRound(B), RoundsCounted(B),
         NEW r \in Ranks, Take(r)
  PROVE  /\ RoundsCounted(B \ RankThreads(r))'
         /\ \A L \in Labels :
              L[r][Len(taken[r]) + 1] = Held(r, Head(queue[r])) /\ HoldsIn(B, L) =>
                HoldsIn(B \ RankThreads(r), L)'
<1> DEFINE A == B \ RankThreads(r)
<1>1. /\ main[r] = "idle" /\ UNCHANGED <<step, pc, reqs, got, replies>>
      /\ buf' = [s \in Slots |-> IF s[1] = r /\ s[2] = "i"
                                 THEN Initial(s, Held(r, Head(queue[r]))) ELSE buf[s]]
  BY DEF Take
<1>2. /\ RankThreads(r) \subseteq B
      /\ \A th \in RankThreads(r) : pc[th] = "done"
  BY <1>1, RoundIsOver
<1>3. ASSUME NEW q \in Threads PROVE RoundsOf(A, q)' = RoundsOf(B, q)
  <2>1. CASE q[1] = r
    <3>1. q \in B /\ q \notin A
      BY <1>2, <2>1 DEF RankThreads
    <3>2. RoundsOf(A, q)' = Len(taken'[r]) - 1 /\ RoundsOf(B, q) = Len(taken[r]) - 0
      BY <2>1, <3>1 DEF RoundsOf
    <3>3. Len(taken'[r]) = Len(taken[r]) + 1 /\ Len(taken[r]) \in Nat
      BY TakenNext
    <3> QED
      BY <3>2, <3>3
  <2>2. CASE q[1] # r
    <3>1. q \in A <=> q \in B
      BY <2>2 DEF RankThreads
    <3>2. taken'[q[1]] = taken[q[1]]
      BY <2>2, ThreadRank, TakenNext
    <3> QED
      BY <3>1, <3>2 DEF RoundsOf
  <2> QED
    BY <2>1, <2>2
<1>4. ASSUME NEW q \in Threads, NEW t \in Int
      PROVE  AllSent(A, q, t)' = AllSent(B, q, t) /\ AllReceived(A, q, t)' = AllReceived(B, q, t)
  <2>1. SentFor(q, t)' = SentFor(q, t) /\ ReceivedFor(q, t)' = ReceivedFor(q, t)
    BY <1>1 DEF SentFor, ReceivedFor, Sends, Receives, HasSent, HasReceived, Passed
  <2> QED
    BY <1>3, <2>1 DEF AllSent, AllReceived
<1>5. /\ TakenInOrder'
      /\ \A q \in Threads, t \in Int :
           /\ Waiting(q, t)' = Waiting(q, t)
           /\ \A k \in Waiting(q, t) : /\ reqs'[q][k].data = reqs[q][k].data
                                       /\ From(q, t, k)' = From(q, t, k)
  BY <1>1, QueueUnmoved DEF RoundsCounted, Kept
<1>6. ASSUME NEW x, x[1] = r PROVE WrittenBy(A, x)' = {}
  <2>1. \A w \in Writers(x) : w[1] \in RankThreads(r)
    BY <1>6, RankOfWriter DEF RankThreads
  <2> QED
    BY <2>1 DEF WrittenBy, WrittenTo
<1>7. ASSUME NEW x, x[1] # r PROVE WrittenBy(A, x)' = WrittenBy(B, x)
  <2>1. \A w \in Writers(x) : w[1] \notin RankThreads(r)
    BY <1>7, RankOfWriter DEF RankThreads
  <2>2. \A w : Written(w)' <=> Written(w)
    BY <1>1 DEF Written, Passed, Here
  <2> QED
    BY <2>1, <2>2 DEF WrittenBy, WrittenTo, Writers
<1> HIDE DEF A
<1>8. RoundsCounted(A)' /\ \A L : RequestsAre(B, L) => RequestsAre(A, L)'
  BY <1>4, <1>5, MessagesUnmoved
<1>9. ASSUME NEW L, MatchesAre(L) PROVE MatchesAre(L)'
  <2> SUFFICES ASSUME NEW th \in Threads, pc'[th] = "data"
               PROVE  got'[th].data = RelabelAll(L, Len(taken'[th[1]]),
                                                 Operand(Computed, Here(th)'), Cur(th)'.cnt)
    BY DEF MatchesAre
  <2>1. th[1] # r
    BY <1>1, <1>2 DEF RankThreads
  <2>2. taken'[th[1]] = taken[th[1]]
    BY <2>1, ThreadRank, TakenNext
  <2>3. got'[th] = got[th] /\ Here(th)' = Here(th) /\ Cur(th)' = Cur(th) /\ pc[th] = "data"
    BY <1>1 DEF Here, Cur
  <2> QED
    BY <1>9, <2>2, <2>3 DEF MatchesAre
<1>10. ASSUME NEW L \in Labels, L[r][Len(taken[r]) + 1] = Held(r, Head(queue[r])), ChunksAre(B, L)
       PROVE  ChunksAre(A, L)'
  <2> SUFFICES ASSUME NEW x \in Slots, taken'[x[1]] # <<>>, x[2] = "i" \/ WrittenBy(A, x)' # {}
               PROVE  buf'[x] = Relabel(L, Len(taken'[x[1]]),
                                        LeftIn(Computed, WrittenBy(A, x)', x))
    BY DEF ChunksAre
  <2>1. CASE x[1] = r
    <3>1. WrittenBy(A, x)' = {} /\ x[2] = "i"
      BY <1>6, <2>1
    <3>2. buf'[x] = Initial(x, Held(r, Head(queue[r])))
      BY <1>1, <2>1, <3>1
    <3>3. PICK m \in Nat : m = Len(taken'[x[1]]) /\ m = Len(taken[r]) + 1
      BY <2>1, TakenNext
    <3>4. Relabel(L, m, Initial(x, 0)) = Initial(x, L[x[1]][m])
      BY RelabelInitial
    <3> QED
      BY <1>10, <2>1, <3>1, <3>2, <3>3, <3>4 DEF LeftIn
  <2>2. CASE x[1] # r
    <3>1. buf'[x] = buf[x] /\ WrittenBy(A, x)' = WrittenBy(B, x)
      BY <1>1, <1>7, <2>2
    <3>2. x[1] \in Ranks
      BY DEF Slots
    <3>3. taken'[x[1]] = taken[x[1]]
      BY <2>2, <3>2, TakenNext
    <3> QED
      BY <1>10, <3>1, <3>3 DEF ChunksAre
  <2> QED
    BY <2>1, <2>2
<1>11. \A L : RepliesAre(L) => RepliesAre(L)'
  BY <1>1 DEF RepliesAre
<1> QED
  BY <1>8, <1>9, <1>10, <1>11 DEF HoldsIn, A

-----------------------------------------------------------------------------
\* As many requests are answered as were taken, but for the one in execution.
LEMMA RepliesCountedInit == ServerInit => RepliesCounted
BY DEF ServerInit, RepliesCounted, Replied, Busy

LEMMA RepliesCountedNext ==
  ASSUME IInv, Sequences, RequestTypes, RepliesCounted, [ServerNext]_allVars
  PROVE  RepliesCounted'
<1>1. ASSUME UNCHANGED <<main, taken, replies>> PROVE RepliesCounted'
  BY <1>1 DEF RepliesCounted, Replied, Busy
<1>2. ASSUME NEW r \in Ranks, Main(r) PROVE RepliesCounted'
  <2>1. PICK S : replies[r] \in Seq(S)
    BY DEF Sequences
  <2>2. /\ Len(taken[r]) = Replied(r) + Busy(r) /\ Replied(r) \in Nat /\ Busy(r) \in Nat
        /\ main \in [Ranks -> {"idle", "post", "collect", "reply"}]
    BY <2>1, LenType DEF RepliesCounted, Replied, Busy, IInv, Types
  <2>3. ASSUME NEW q \in Ranks, q # r PROVE Len(taken'[q]) = Replied(q)' + Busy(q)'
    <3>1. main'[q] = main[q] /\ replies'[q] = replies[q]
      BY <1>2, <2>3, MainElsewhere
    <3>2. taken'[q] = taken[q]
      BY <1>2, <2>3, TakenNext
         DEF Main, ArriveEager, ArriveRendezvous, Pulled, PullFails, PullEnds, PostToken, Collect, Reply
    <3> QED
      BY <3>1, <3>2 DEF RepliesCounted, Replied, Busy
  <2>4. Len(taken'[r]) = Replied(r)' + Busy(r)'
    <3>1. CASE Take(r)
      <4>1. main[r] = "idle" /\ main'[r] = "post" /\ replies' = replies
        BY <2>2, <3>1 DEF Take
      <4>2. Busy(r) = 0 /\ Busy(r)' = 1 /\ Replied(r)' = Replied(r)
        BY <4>1 DEF Busy, Replied
      <4>3. Len(taken'[r]) = Len(taken[r]) + 1
        BY <3>1, TakenNext
      <4> QED
        BY <2>2, <4>2, <4>3
    <3>2. CASE Reply(r)
      <4>1. /\ main[r] = "reply" /\ main'[r] = "idle" /\ taken' = taken
            /\ replies'[r] = Append(replies[r], InputOf(r))
        BY <2>2, <3>2 DEF Reply, Sequences
      <4>2. Len(Append(replies[r], InputOf(r))) = Len(replies[r]) + 1
        BY <2>1, Longer
      <4>3. Busy(r) = 1 /\ Busy(r)' = 0 /\ Replied(r)' = Replied(r) + 1
        BY <4>1, <4>2 DEF Busy, Replied
      <4>4. Len(taken'[r]) = Len(taken[r])
        BY <4>1
      <4> QED
        BY <2>2, <4>3, <4>4
    <3>3. CASE PostToken(r) \/ Collect(r)
      <4>1. main[r] # "idle" /\ main'[r] # "idle" /\ taken' = taken /\ replies' = replies
        <5>1. CASE PostToken(r)
          BY <2>2, <5>1 DEF PostToken
        <5>2. CASE Collect(r)
          BY <2>2, <5>2 DEF Collect
        <5> QED
          BY <3>3, <5>1, <5>2
      <4> QED
        BY <2>2, <4>1 DEF Busy, Replied
    <3>4. CASE ArriveEager(r) \/ ArriveRendezvous(r) \/ PullEnds(r)
      <4>1. UNCHANGED <<main, taken, replies>>
        BY <3>4 DEF ArriveEager, ArriveRendezvous, PullEnds
      <4> QED
        BY <2>2, <4>1 DEF Busy, Replied
    <3> QED
      BY <1>2, <3>1, <3>2, <3>3, <3>4 DEF Main, Pulled, PullFails
  <2> QED
    BY <2>3, <2>4 DEF RepliesCounted
<1> QED
  BY <1>1, <1>2 DEF ServerNext, Thread, Begin, Work, Finish, Quiet, allVars, serverVars

\* A thread executes the request that its rank has taken.
LEMMA RunningHasTaken ==
  ASSUME IInv, Sequences, RequestTypes, RepliesCounted, NEW th \in Threads, pc[th] # "done"
  PROVE  taken[th[1]] # <<>>
<1> DEFINE r == th[1]
<1>1. r \in Ranks /\ th \in RunningOn(r)
  BY ThreadRank DEF RunningOn, RankThreads
<1>2. main[r] # "idle"
  <2> SUFFICES ASSUME main[r] = "idle" PROVE FALSE
    OBVIOUS
  <2>1. Tokens(r) = 0
    BY <1>1 DEF IInv, Round
  <2>2. thSem[r] \in Nat /\ mainSem[r] \in Nat /\ Cardinality(RunningOn(r)) \in Nat
    BY <1>1, RunningFinite DEF IInv, Types
  <2>3. Cardinality(RunningOn(r)) = 0
    BY <2>1, <2>2 DEF Tokens
  <2> QED
    BY <1>1, <2>3, RunningFinite, FS_EmptySet
<1>3. PICK S : replies[r] \in Seq(S)
  BY <1>1 DEF Sequences
<1>4. Len(taken[r]) = Replied(r) + 1 /\ Replied(r) \in Nat
  BY <1>1, <1>2, <1>3, LenType DEF RepliesCounted, Busy, Replied
<1>5. taken[r] \in Seq(1 .. NRequests)
  BY <1>1 DEF RequestTypes
<1> QED
  BY <1>4, <1>5

\* Steps that leave the threads, the chunks and the messages alone.
LEMMA ContentsUnmoved ==
  ASSUME NEW B, RoundsCounted(B), UNCHANGED vars, taken' = taken
  PROVE  /\ RoundsCounted(B)'
         /\ \A L : /\ RequestsAre(B, L) => RequestsAre(B, L)'
                   /\ MatchesAre(L) => MatchesAre(L)'
                   /\ ChunksAre(B, L) => ChunksAre(B, L)'
<1>1. step' = step /\ pc' = pc /\ reqs' = reqs /\ buf' = buf /\ got' = got
  BY DEF vars
<1>2. \A q, t : /\ SentFor(q, t)' = SentFor(q, t) /\ ReceivedFor(q, t)' = ReceivedFor(q, t)
                /\ RoundsOf(B, q)' = RoundsOf(B, q)
  BY <1>1 DEF SentFor, ReceivedFor, Sends, Receives, HasSent, HasReceived, Passed, RoundsOf
<1>3. \A q \in Threads, t \in Int :
        AllSent(B, q, t)' = AllSent(B, q, t) /\ AllReceived(B, q, t)' = AllReceived(B, q, t)
  BY <1>2 DEF AllSent, AllReceived
<1>4. /\ TakenInOrder'
      /\ \A q \in Threads, t \in Int :
           /\ Waiting(q, t)' = Waiting(q, t)
           /\ \A k \in Waiting(q, t) : /\ reqs'[q][k].data = reqs[q][k].data
                                       /\ From(q, t, k)' = From(q, t, k)
  BY <1>1, QueueUnmoved DEF RoundsCounted, Kept
<1>5. RoundsCounted(B)' /\ \A L : RequestsAre(B, L) => RequestsAre(B, L)'
  BY <1>3, <1>4, MessagesUnmoved
<1>6. ASSUME NEW L PROVE MatchesAre(L) => MatchesAre(L)'
  BY <1>1, MatchesInRoundKept
<1>7. ASSUME NEW L PROVE ChunksAre(B, L) => ChunksAre(B, L)'
  <2>1. \A p \in Places : Written(p)' <=> Written(p)
    BY <1>1 DEF Written, Passed, Here
  <2> QED
    BY <1>1, <2>1, ChunksInRoundKept
<1> QED
  BY <1>5, <1>6, <1>7

\* Main replies with the sums: all the steps that write the chunks of the input
\* buffer have been executed, and the last of each has left the sum.
LEMMA SumsInReply ==
  ASSUME Balanced, SumsUp, TypeOK, IInv, RequestTypes, NEW B, InRound(B),
         NEW r \in Ranks, main[r] = "reply", taken[r] # <<>>, NEW L, ChunksAre(B, L)
  PROVE  InputOf(r) = [c \in 0 .. Sched[r].chunks["i"] - 1 |->
                         Relabel(L, Len(taken[r]), SumOf(r)[c])]
<1>1. ASSUME NEW c \in 0 .. Sched[r].chunks["i"] - 1
      PROVE  buf[<<r, "i", c>>] = Relabel(L, Len(taken[r]), SumOf(r)[c])
  <2> DEFINE x == <<r, "i", c>>
  <2>1. x \in Slots /\ x[1] = r /\ x[2] = "i"
    BY InputSlots
  <2>2. ASSUME NEW w \in Writers(x) PROVE Written(w) /\ w[1] \in B
    <3>1. w \in Places /\ w[1] \in RankThreads(r)
      BY <2>1, RankOfWriter DEF RankThreads
    <3>2. w[1] \in B /\ step[w[1]] = NSteps(w[1])
      BY <3>1, RoundIsOver
    <3>3. w[2] < NSteps(w[1])
      BY <3>1, PlaceFacts
    <3> QED
      BY <3>2, <3>3 DEF Written, Passed
  <2>3. WrittenBy(B, x) = Writers(x)
    BY <2>2 DEF WrittenBy, WrittenTo
  <2>4. buf[x] = Relabel(L, Len(taken[r]), LeftIn(Computed, Writers(x), x))
    BY <2>1, <2>3 DEF ChunksAre
  <2> QED
    BY <2>4 DEF SumsUp
<1> QED
  BY <1>1 DEF InputOf

LEMMA ReplyHolds ==
  ASSUME Balanced, SumsUp, TypeOK, IInv, RequestTypes, Sequences, RepliesCounted,
         NEW B, InRound(B), NEW r \in Ranks, Reply(r), NEW L, ChunksAre(B, L), RepliesAre(L)
  PROVE  RepliesAre(L)'
<1> DEFINE sums(n) == [c \in 0 .. Sched[r].chunks["i"] - 1 |-> Relabel(L, n, SumOf(r)[c])]
<1>1. main[r] = "reply" /\ replies' = [replies EXCEPT ![r] = Append(@, InputOf(r))]
  BY DEF Reply
<1>2. PICK S : replies[r] \in Seq(S)
  BY DEF Sequences
<1>3. Len(taken[r]) = Len(replies[r]) + 1 /\ Len(replies[r]) \in Nat
  BY <1>1, <1>2, LenType DEF RepliesCounted, Busy, Replied
<1>4. taken[r] # <<>>
  <2>1. taken[r] \in Seq(1 .. NRequests)
    BY DEF RequestTypes
  <2> QED
    BY <1>3, <2>1
<1>5. InputOf(r) = sums(Len(taken[r]))
  BY <1>1, <1>4, SumsInReply
<1> HIDE DEF sums
<1>6. ASSUME NEW n \in DOMAIN replies'[r] PROVE replies'[r][n] = sums(n)
  <2>1. replies'[r] = Append(replies[r], sums(Len(replies[r]) + 1))
    BY <1>1, <1>3, <1>5 DEF Sequences
  <2>2. \A m \in DOMAIN replies[r] : replies[r][m] = sums(m)
    BY DEF RepliesAre, sums
  <2>3. PICK T : replies[r] \in Seq(T) /\ sums(Len(replies[r]) + 1) \in T
    <3>1. replies[r] \in Seq(S \cup {sums(Len(replies[r]) + 1)})
      BY <1>2
    <3> QED
      BY <3>1
  <2>4. PICK m : m = Len(replies[r]) + 1
    OBVIOUS
  <2>5. n \in 1 .. m
    BY <1>3, <2>1, <2>3, <2>4
  <2>6. n # m => n \in DOMAIN replies[r] /\ replies'[r][n] = replies[r][n]
    BY <1>3, <2>1, <2>3, <2>4, <2>5
  <2>7. n = m => replies'[r][n] = sums(m)
    BY <1>3, <2>1, <2>3, <2>4
  <2> QED
    BY <2>2, <2>6, <2>7
<1>7. \A q \in Ranks : q # r => replies'[q] = replies[q]
  BY <1>1 DEF Sequences
<1>8. ASSUME NEW q \in Ranks, NEW n \in DOMAIN replies'[q]
      PROVE  replies'[q][n]
               = [c \in 0 .. Sched[q].chunks["i"] - 1 |-> Relabel(L, n, SumOf(q)[c])]
  <2>1. CASE q = r
    BY <1>6, <2>1 DEF sums
  <2>2. CASE q # r
    BY <1>7, <2>2 DEF RepliesAre
  <2> QED
    BY <2>1, <2>2
<1> QED
  BY <1>8 DEF RepliesAre

-----------------------------------------------------------------------------
(* Where a request is. *)

Apart(s, t) == \A i \in DOMAIN s : \A j \in DOMAIN t : s[i] # t[j]

\* The requests of p, of q and of t are all different, and none is later than a.
Separate(p, q, t, a) ==
  /\ IsInjective(p) /\ IsInjective(q) /\ IsInjective(t)
  /\ Apart(p, q) /\ Apart(p, t) /\ Apart(q, t)
  /\ \A s \in {p, q, t} : \A i \in DOMAIN s : s[i] <= a

\* A request that has arrived is in one place, once.
InOnePlace == \A r \in Ranks : Separate(pulling[r], queue[r], taken[r], arrived[r])

\* What the moves of a request do to the sequences it leaves and joins.
LEMMA JoinsAtEnd ==
  ASSUME NEW s \in Seq(Nat), NEW x \in Nat
  PROVE  /\ Range(Append(s, x)) = Range(s) \cup {x}
         /\ IsInjective(s) /\ x \notin Range(s) => IsInjective(Append(s, x))
<1>1. PICK u : u = Append(s, x)
  OBVIOUS
<1>2. /\ DOMAIN u = DOMAIN s \cup {Len(s) + 1}
      /\ \A i \in DOMAIN s : u[i] = s[i]
      /\ u[Len(s) + 1] = x
  BY <1>1
<1>3. /\ Range(u) = Range(s) \cup {x}
      /\ IsInjective(s) /\ x \notin Range(s) => IsInjective(u)
  BY <1>2 DEF IsInjective, Range
<1> QED
  BY <1>1, <1>3

LEMMA LeavesEnd ==
  ASSUME NEW s \in Seq(Nat), s # <<>>, IsInjective(s), NEW u, u = SubSeq(s, 1, Len(s) - 1)
  PROVE  IsInjective(u) /\ Range(u) = Range(s) \ {s[Len(s)]} /\ s[Len(s)] \in Range(s)
<1>1. Len(s) \in Nat \ {0} /\ DOMAIN s = 1 .. Len(s)
  OBVIOUS
<1>2. DOMAIN u = 1 .. Len(s) - 1 /\ \A i \in DOMAIN u : u[i] = s[i]
  BY <1>1
<1>3. DOMAIN s = DOMAIN u \cup {Len(s)} /\ Len(s) \notin DOMAIN u
  BY <1>1, <1>2
<1>4. IsInjective(u)
  BY <1>2, <1>3 DEF IsInjective
<1>5. ASSUME NEW i \in DOMAIN u PROVE u[i] \in Range(s) \ {s[Len(s)]}
  <2>1. i \in DOMAIN s /\ Len(s) \in DOMAIN s /\ i # Len(s)
    BY <1>3
  <2> QED
    BY <1>2, <2>1 DEF IsInjective, Range
<1>6. ASSUME NEW i \in DOMAIN s, s[i] # s[Len(s)] PROVE s[i] \in Range(u)
  <2>1. i \in DOMAIN u
    BY <1>3, <1>6
  <2>2. u[i] = s[i]
    BY <1>2, <2>1
  <2> QED
    BY <2>1, <2>2 DEF Range
<1>7. Range(u) = Range(s) \ {s[Len(s)]}
  <2>1. \A y \in Range(u) : y \in Range(s) \ {s[Len(s)]}
    BY <1>5 DEF Range
  <2>2. \A y \in Range(s) \ {s[Len(s)]} : y \in Range(u)
    BY <1>6 DEF Range
  <2> QED
    BY <2>1, <2>2
<1> QED
  BY <1>3, <1>4, <1>7 DEF Range

LEMMA LeavesHead ==
  ASSUME NEW s \in Seq(Nat), s # <<>>, IsInjective(s), NEW u, u = Tail(s)
  PROVE  IsInjective(u) /\ Range(u) = Range(s) \ {Head(s)} /\ Head(s) \in Range(s)
<1>1. Len(s) \in Nat \ {0} /\ DOMAIN s = 1 .. Len(s) /\ Head(s) = s[1]
  OBVIOUS
<1>2. DOMAIN u = 1 .. Len(s) - 1 /\ \A i \in DOMAIN u : u[i] = s[i + 1]
  BY <1>1
<1>3. IsInjective(u)
  <2> SUFFICES ASSUME NEW i \in DOMAIN u, NEW j \in DOMAIN u, u[i] = u[j] PROVE i = j
    BY DEF IsInjective
  <2>1. i + 1 \in DOMAIN s /\ j + 1 \in DOMAIN s /\ s[i + 1] = s[j + 1]
    BY <1>1, <1>2
  <2>2. i + 1 = j + 1
    BY <2>1 DEF IsInjective
  <2> QED
    BY <1>1, <1>2, <2>2
<1>4. ASSUME NEW i \in DOMAIN u PROVE u[i] \in Range(s) \ {Head(s)}
  <2>1. i + 1 \in DOMAIN s /\ 1 \in DOMAIN s /\ i + 1 # 1
    BY <1>1, <1>2
  <2>2. s[i + 1] # s[1]
    BY <2>1 DEF IsInjective
  <2> QED
    BY <1>1, <1>2, <2>1, <2>2 DEF Range
<1>5. ASSUME NEW i \in DOMAIN s, s[i] # Head(s) PROVE s[i] \in Range(u)
  <2>1. i # 1
    BY <1>1, <1>5
  <2>2. i - 1 \in DOMAIN u /\ (i - 1) + 1 = i
    BY <1>1, <1>2, <2>1
  <2>3. u[i - 1] = s[i]
    BY <1>2, <2>2
  <2> QED
    BY <2>2, <2>3 DEF Range
<1>6. Range(u) = Range(s) \ {Head(s)}
  <2>1. \A y \in Range(u) : y \in Range(s) \ {Head(s)}
    BY <1>4 DEF Range
  <2>2. \A y \in Range(s) \ {Head(s)} : y \in Range(u)
    BY <1>5 DEF Range
  <2> QED
    BY <2>1, <2>2
<1>7. Head(s) \in Range(s)
  <2>1. 1 \in DOMAIN s /\ s[1] = Head(s)
    BY <1>1
  <2> QED
    BY <2>1 DEF Range
<1> QED
  BY <1>3, <1>6, <1>7

\* An eager request joins the queue, one by rendezvous those that are pulled;
\* the innermost of these moves to the queue, and its head is taken.
LEMMA Moves ==
  ASSUME NEW p \in Seq(Nat), NEW q \in Seq(Nat), NEW t \in Seq(Nat), NEW a \in Nat,
         Separate(p, q, t, a),
         NEW p1, NEW q1, NEW t1, NEW a1,
         \/ /\ q1 = Append(q, a + 1) /\ p1 = p /\ t1 = t /\ a1 = a + 1
         \/ /\ p1 = Append(p, a + 1) /\ q1 = q /\ t1 = t /\ a1 = a + 1
         \/ /\ p # <<>> /\ p1 = SubSeq(p, 1, Len(p) - 1) /\ q1 = Append(q, p[Len(p)])
            /\ t1 = t /\ a1 = a
         \/ /\ q # <<>> /\ q1 = Tail(q) /\ t1 = Append(t, Head(q)) /\ p1 = p /\ a1 = a
  PROVE  Separate(p1, q1, t1, a1)
<1>1. /\ \A s \in {p, q, t} : IsInjective(s) /\ \A x \in Range(s) : x <= a /\ x \in Nat
      /\ Range(p) \cap Range(q) = {} /\ Range(p) \cap Range(t) = {} /\ Range(q) \cap Range(t) = {}
  BY DEF Separate, Apart, Range
<1>2. ASSUME /\ \A s \in {p1, q1, t1} : IsInjective(s) /\ \A x \in Range(s) : x <= a1
             /\ Range(p1) \cap Range(q1) = {} /\ Range(p1) \cap Range(t1) = {}
             /\ Range(q1) \cap Range(t1) = {}
      PROVE  Separate(p1, q1, t1, a1)
  BY <1>2 DEF Separate, Apart, Range
<1>3. a + 1 \in Nat /\ \A s \in {p, q, t} : a + 1 \notin Range(s) /\ \A x \in Range(s) : x <= a + 1
  BY <1>1
<1>4. CASE q1 = Append(q, a + 1) /\ p1 = p /\ t1 = t /\ a1 = a + 1
  <2>1. Range(q1) = Range(q) \cup {a + 1} /\ IsInjective(q1)
    <3>1. IsInjective(q) /\ a + 1 \in Nat /\ a + 1 \notin Range(q) /\ q1 = Append(q, a + 1)
      BY <1>1, <1>3, <1>4
    <3> QED
      BY <3>1, JoinsAtEnd
  <2> QED
    BY <1>1, <1>2, <1>3, <1>4, <2>1
<1>5. CASE p1 = Append(p, a + 1) /\ q1 = q /\ t1 = t /\ a1 = a + 1
  <2>1. Range(p1) = Range(p) \cup {a + 1} /\ IsInjective(p1)
    <3>1. IsInjective(p) /\ a + 1 \in Nat /\ a + 1 \notin Range(p) /\ p1 = Append(p, a + 1)
      BY <1>1, <1>3, <1>5
    <3> QED
      BY <3>1, JoinsAtEnd
  <2> QED
    BY <1>1, <1>2, <1>3, <1>5, <2>1
<1>6. CASE /\ p # <<>> /\ p1 = SubSeq(p, 1, Len(p) - 1) /\ q1 = Append(q, p[Len(p)])
           /\ t1 = t /\ a1 = a
  <2>1. IsInjective(p1) /\ Range(p1) = Range(p) \ {p[Len(p)]} /\ p[Len(p)] \in Range(p)
    BY <1>1, <1>6, LeavesEnd
  <2>2. p[Len(p)] \in Nat /\ p[Len(p)] \notin Range(q)
    BY <1>1, <2>1
  <2>3. Range(q1) = Range(q) \cup {p[Len(p)]} /\ IsInjective(q1)
    <3>1. IsInjective(q) /\ q1 = Append(q, p[Len(p)])
      BY <1>1, <1>6
    <3> QED
      BY <2>2, <3>1, JoinsAtEnd
  <2> QED
    BY <1>1, <1>2, <1>6, <2>1, <2>3
<1>7. CASE q # <<>> /\ q1 = Tail(q) /\ t1 = Append(t, Head(q)) /\ p1 = p /\ a1 = a
  <2>1. IsInjective(q1) /\ Range(q1) = Range(q) \ {Head(q)} /\ Head(q) \in Range(q)
    BY <1>1, <1>7, LeavesHead
  <2>2. Head(q) \in Nat /\ Head(q) \notin Range(t)
    BY <1>1, <2>1
  <2>3. Range(t1) = Range(t) \cup {Head(q)} /\ IsInjective(t1)
    <3>1. IsInjective(t) /\ t1 = Append(t, Head(q))
      BY <1>1, <1>7
    <3> QED
      BY <2>2, <3>1, JoinsAtEnd
  <2> QED
    BY <1>1, <1>2, <1>7, <2>1, <2>3
<1> QED
  BY <1>4, <1>5, <1>6, <1>7

LEMMA InOnePlaceInit == ServerInit => InOnePlace
BY DEF ServerInit, InOnePlace, Separate, Apart, IsInjective

LEMMA InOnePlaceNext ==
  ASSUME IInv, Sequences, RequestTypes, InOnePlace, [ServerNext]_allVars
  PROVE  InOnePlace'
<1>1. ASSUME UNCHANGED <<pulling, queue, taken, arrived>> PROVE InOnePlace'
  BY <1>1 DEF InOnePlace
<1>2. ASSUME NEW r \in Ranks, Main(r) PROVE InOnePlace'
  <2>1. /\ pulling[r] \in Seq(Nat) /\ queue[r] \in Seq(Nat) /\ taken[r] \in Seq(Nat)
        /\ arrived[r] \in Nat
        /\ pulling \in [Ranks -> Seq(Nat)] /\ queue \in [Ranks -> Seq(Nat)]
        /\ taken \in [Ranks -> Seq(Nat)] /\ arrived \in [Ranks -> Nat]
    BY RequestsAssumption DEF RequestTypes
  <2>2. ASSUME NEW q \in Ranks, q # r
        PROVE  Separate(pulling'[q], queue'[q], taken'[q], arrived'[q])
    <3>1. pulling'[q] = pulling[q] /\ queue'[q] = queue[q] /\ arrived'[q] = arrived[q]
      BY <1>2, <2>2, MainElsewhere
    <3>2. taken'[q] = taken[q]
      BY <1>2, <2>2, TakenNext
         DEF Main, ArriveEager, ArriveRendezvous, Pulled, PullFails, PullEnds, PostToken, Collect, Reply
    <3> QED
      BY <3>1, <3>2 DEF InOnePlace
  <2>3. CASE PostToken(r) \/ Collect(r) \/ Reply(r)
    BY <1>1, <2>3 DEF PostToken, Collect, Reply
  <2>4. CASE ArriveEager(r)
    BY <2>1, <2>2, <2>4, Moves DEF ArriveEager, InOnePlace
  <2>5. CASE ArriveRendezvous(r)
    BY <2>1, <2>2, <2>5, Moves DEF ArriveRendezvous, InOnePlace
  <2>6. CASE PullEnds(r)
    BY <2>1, <2>2, <2>6, Moves DEF PullEnds, InOnePlace
  <2>7. CASE Take(r)
    BY <2>1, <2>2, <2>7, Moves DEF Take, InOnePlace
  <2> QED
    BY <1>2, <2>3, <2>4, <2>5, <2>6, <2>7 DEF Main, Pulled, PullFails
<1> QED
  BY <1>1, <1>2 DEF ServerNext, Thread, Begin, Work, Finish, Quiet, allVars, serverVars

\* Each request that has arrived is in one place, once: none is queued or taken
\* twice, and none is taken that has not arrived, however the callbacks nest
\* and whatever the schedule (RequestsConserved only counts them).
THEOREM RequestsInOnePlace == ServerSpec => []InOnePlace
<1> DEFINE Inv == IInv /\ ConservedInv /\ RequestTypes /\ InOnePlace
<1>1. ServerInit => Inv
  BY InitInv, ConservedInit, RequestTypesInit, InOnePlaceInit
<1>2. Inv /\ [ServerNext]_allVars => Inv'
  BY NextInv, ConservedNext, RequestTypesNext, InOnePlaceNext DEF ConservedInv
<1>3. Inv => InOnePlace
  OBVIOUS
<1> HIDE DEF Inv
<1> QED
  BY <1>1, <1>2, <1>3, PTL DEF ServerSpec

\* A request that main has taken is in no callback any more, so its buffer holds
\* what it held when main copied it.
LEMMA HeldKept ==
  ASSUME RequestTypes, InOnePlace, NEW r \in Ranks, Main(r),
         NEW q \in Ranks, NEW n \in DOMAIN taken[q]
  PROVE  \A x : x = taken[q][n] => Held(q, x)' = Held(q, x)
<1>1. CASE unfilled' = unfilled
  BY <1>1 DEF Held
<1>2. CASE PullFails(r)
  <2>1. PICK x : x = pulling[r][Len(pulling[r])]
    OBVIOUS
  <2>2. unfilled' = [unfilled EXCEPT ![r] = @ \cup {x}] /\ pulling[r] # <<>>
    BY <1>2, <2>1 DEF PullFails, PullEnds
  <2>3. CASE q # r
    BY <2>2, <2>3 DEF Held, RequestTypes
  <2>4. CASE q = r
    <3>1. Len(pulling[r]) \in DOMAIN pulling[r]
      <4>1. pulling[r] \in Seq(1 .. NRequests)
        BY DEF RequestTypes
      <4> QED
        BY <2>2, <4>1
    <3>2. x # taken[q][n]
      BY <2>1, <2>4, <3>1 DEF InOnePlace, Separate, Apart
    <3>3. unfilled'[r] = unfilled[r] \cup {x}
      BY <2>2 DEF RequestTypes
    <3> QED
      BY <2>4, <3>2, <3>3 DEF Held
  <2> QED
    BY <2>3, <2>4
<1> QED
  BY <1>1, <1>2
     DEF Main, ArriveEager, ArriveRendezvous, Pulled, Take, PostToken, Collect, Reply

-----------------------------------------------------------------------------
(* All steps of the servers. *)

RoundHolds(B) == InRound(B) /\ RoundsCounted(B) /\ ContentsAre(B)

ServiceInv ==
  /\ TypeOK /\ IInv /\ RequestTypes /\ ConservedInv /\ RepliesCounted /\ InOnePlace
  /\ \E B \in SUBSET Threads : RoundHolds(B)

LEMMA ContentsCarried ==
  ASSUME NEW A, NEW B, taken' = taken, ContentsAre(B),
         \A q \in Ranks : \A n \in DOMAIN taken[q] :
           \A x : x = taken[q][n] => Held(q, x)' = Held(q, x),
         \A L \in Labels : HoldsIn(B, L) => HoldsIn(A, L)'
  PROVE  ContentsAre(A)'
<1> SUFFICES ASSUME NEW L \in Labels, Extends(L)' PROVE HoldsIn(A, L)'
  BY DEF ContentsAre, Labels
<1>1. Extends(L)
  BY DEF Extends
<1> QED
  BY <1>1 DEF ContentsAre

LEMMA TakeCarried ==
  ASSUME RequestTypes, NEW A, NEW B, NEW r \in Ranks, Take(r), ContentsAre(B),
         \A L \in Labels :
           L[r][Len(taken[r]) + 1] = Held(r, Head(queue[r])) /\ HoldsIn(B, L) => HoldsIn(A, L)'
  PROVE  ContentsAre(A)'
<1> SUFFICES ASSUME NEW L \in Labels, Extends(L)' PROVE HoldsIn(A, L)'
  BY DEF ContentsAre, Labels
<1>0. unfilled' = unfilled
  BY DEF Take
<1>1. Extends(L)
  <2> SUFFICES ASSUME NEW q \in Ranks, NEW n \in DOMAIN taken[q]
               PROVE  L[q][n] = Held(q, taken[q][n])
    BY DEF Extends
  <2>1. n \in DOMAIN taken'[q] /\ taken'[q][n] = taken[q][n]
    BY TakenNext
  <2> QED
    BY <1>0, <2>1 DEF Extends, Held
<1>2. L[r][Len(taken[r]) + 1] = Held(r, Head(queue[r]))
  BY <1>0, TakenNext DEF Extends, Held
<1> QED
  BY <1>1, <1>2 DEF ContentsAre

LEMMA MainHolds ==
  ASSUME Balanced, SumsUp, TypeOK, IInv, RequestTypes, Sequences, RepliesCounted, InOnePlace,
         NEW B \in SUBSET Threads, RoundHolds(B), NEW r \in Ranks, Main(r)
  PROVE  \E A \in SUBSET Threads : RoundHolds(A)'
<1>1. InRound(B) /\ RoundsCounted(B) /\ ContentsAre(B)
  BY DEF RoundHolds
<1>2. CASE Take(r)
  <2> DEFINE A == B \ RankThreads(r)
  <2>1. InRound(A)'
    BY <1>1, <1>2, TakeInRound
  <2>2. /\ RoundsCounted(A)'
        /\ \A L \in Labels :
             L[r][Len(taken[r]) + 1] = Held(r, Head(queue[r])) /\ HoldsIn(B, L) => HoldsIn(A, L)'
    BY <1>1, <1>2, TakeHolds
  <2>3. A \in SUBSET Threads
    OBVIOUS
  <2> HIDE DEF A
  <2>4. ContentsAre(A)'
    BY <1>1, <1>2, <2>2, TakeCarried
  <2>5. RoundHolds(A)'
    BY <2>1, <2>2, <2>4 DEF RoundHolds
  <2> QED
    BY <2>3, <2>5
<1>3. CASE ~Take(r)
  <2>1. /\ UNCHANGED vars /\ taken' = taken
        /\ replies' = replies \/ Reply(r)
    BY <1>3 DEF Main, ArriveEager, ArriveRendezvous, Pulled, PullFails, PullEnds, PostToken, Collect, Reply
  <2>2. InRound(B)'
    BY <1>1, <1>3, MainInRound DEF Main, Pulled, PullFails
  <2>3. RoundsCounted(B)'
    BY <1>1, <2>1, ContentsUnmoved
  <2>4. ASSUME NEW L \in Labels, HoldsIn(B, L) PROVE HoldsIn(B, L)'
    <3>1. RequestsAre(B, L)' /\ MatchesAre(L)' /\ ChunksAre(B, L)'
      BY <1>1, <2>1, <2>4, ContentsUnmoved DEF HoldsIn
    <3>2. RepliesAre(L)'
      <4>1. CASE Reply(r)
        BY <1>1, <2>4, <4>1, ReplyHolds DEF HoldsIn
      <4>2. CASE replies' = replies
        BY <2>4, <4>2 DEF HoldsIn, RepliesAre
      <4> QED
        BY <2>1, <4>1, <4>2
    <3> QED
      BY <3>1, <3>2 DEF HoldsIn
  <2>5. ContentsAre(B)'
    BY <1>1, <2>1, <2>4, HeldKept, ContentsCarried
  <2>6. RoundHolds(B)'
    BY <2>2, <2>3, <2>5 DEF RoundHolds
  <2> QED
    BY <2>6
<1> QED
  BY <1>2, <1>3

LEMMA ThreadHolds ==
  ASSUME MessagesPaired, ConflictsOrdered, WellFounded, Fresh, Interlocked,
         ~RecvMayFail, ~SendMayFail, "error" \notin SendResults,
         TypeOK, IInv, RequestTypes, Sequences, RepliesCounted,
         NEW B \in SUBSET Threads, RoundHolds(B), NEW th \in Threads, Thread(th)
  PROVE  \E A \in SUBSET Threads : RoundHolds(A)'
<1>1. InRound(B) /\ RoundsCounted(B) /\ ContentsAre(B)
  BY DEF RoundHolds
<1>2. CASE Begin(th)
  <2> DEFINE A == B \cup {th}
  <2>1. th \notin B
    <3>1. pc[th] = "done" /\ thSem[th[1]] > 0
      BY <1>2 DEF Begin
    <3> QED
      BY <1>1, <3>1, NoneTakesTwo
  <2>2. InRound(A)'
    BY <1>1, <1>2, <2>1, BeginInRound
  <2>3. RoundsCounted(A)' /\ \A L : HoldsIn(B, L) => HoldsIn(A, L)'
    BY <1>1, <1>2, <2>1, BeginHolds
  <2>4. A \in SUBSET Threads /\ taken' = taken /\ unfilled' = unfilled
    BY <1>2 DEF Begin
  <2> HIDE DEF A
  <2>5. ContentsAre(A)'
    BY <1>1, <2>3, <2>4, ContentsCarried DEF Held
  <2>6. RoundHolds(A)'
    BY <2>2, <2>3, <2>5 DEF RoundHolds
  <2> QED
    BY <2>4, <2>6
<1>3. CASE Work(th) \/ Finish(th)
  <2>1. /\ Run(th) /\ main' = main /\ cnt' = cnt /\ thSem' = thSem
        /\ taken' = taken /\ replies' = replies /\ unfilled' = unfilled
    BY <1>3 DEF Work, Finish, Run, serverVars
  <2>2. InRound(B)'
    BY <1>1, <2>1, RunInRound
  <2>3. th \in B /\ taken[th[1]] # <<>>
    <3>1. pc[th] # "done"
      BY <2>1 DEF Run, DepWait, Send, Reduce, Nop, Receive, Store, RecvFails, Forward, Post,
                  Drain, Flush, SendDone, SendFails, Progressing
    <3> QED
      BY <1>1, <3>1, RunningHasTaken DEF InRound
  <2>4. OrderIn(B)
    BY <1>1, OrderFromTokens DEF InRound
  <2>5. RoundsCounted(B)' /\ \A L : HoldsIn(B, L) => HoldsIn(B, L)'
    BY <1>1, <2>1, <2>3, <2>4, RunHolds
  <2>6. ContentsAre(B)'
    BY <1>1, <2>1, <2>5, ContentsCarried DEF Held
  <2>7. RoundHolds(B)'
    BY <2>2, <2>5, <2>6 DEF RoundHolds
  <2> QED
    BY <2>7
<1> QED
  BY <1>2, <1>3 DEF Thread

LEMMA ServiceNext ==
  ASSUME Balanced, MessagesPaired, ConflictsOrdered, WellFounded, SumsUp, Fresh, Interlocked,
         ~RecvMayFail, ~SendMayFail, "error" \notin SendResults, ServiceInv, [ServerNext]_allVars
  PROVE  ServiceInv'
<1>1. /\ TypeOK /\ IInv /\ RequestTypes /\ ConservedInv /\ Sequences /\ RepliesCounted
      /\ InOnePlace
  BY DEF ServiceInv, ConservedInv
<1>2. TypeOK' /\ IInv' /\ RequestTypes' /\ ConservedInv' /\ RepliesCounted' /\ InOnePlace'
  BY <1>1, ServerTypeNext, NextInv, RequestTypesNext, ConservedNext, RepliesCountedNext,
     InOnePlaceNext
<1>3. PICK B \in SUBSET Threads : RoundHolds(B)
  BY DEF ServiceInv
<1>4. ASSUME NEW r \in Ranks, Main(r) PROVE \E A \in SUBSET Threads : RoundHolds(A)'
  BY <1>1, <1>3, <1>4, MainHolds
<1>5. ASSUME NEW th \in Threads, Thread(th) PROVE \E A \in SUBSET Threads : RoundHolds(A)'
  BY <1>1, <1>3, <1>5, ThreadHolds
<1>6. ASSUME UNCHANGED allVars PROVE \E A \in SUBSET Threads : RoundHolds(A)'
  <2>1. UNCHANGED vars /\ taken' = taken /\ replies' = replies /\ unfilled' = unfilled
    BY <1>6 DEF allVars, serverVars
  <2>2. InRound(B) /\ RoundsCounted(B) /\ ContentsAre(B)
    BY <1>3 DEF RoundHolds
  <2>3. InRound(B)'
    BY <1>6, <2>2 DEF InRound, PostedIn, Balance, Taken, Started, Completed, Entered, Passed,
                      NTbs, allVars, vars, serverVars
  <2>4. RoundsCounted(B)' /\ \A L \in Labels : HoldsIn(B, L) => HoldsIn(B, L)'
    BY <2>1, <2>2, ContentsUnmoved DEF HoldsIn, RepliesAre
  <2>5. ContentsAre(B)'
    BY <2>1, <2>2, <2>4, ContentsCarried DEF Held
  <2>6. RoundHolds(B)'
    BY <2>3, <2>4, <2>5 DEF RoundHolds
  <2> QED
    BY <2>6
<1> QED
  BY <1>2, <1>4, <1>5, <1>6 DEF ServiceInv, ServerNext, Quiet

LEMMA ServiceInit == ASSUME Balanced, ServerInit PROVE ServiceInv
<1>1. TypeOK /\ IInv /\ RequestTypes /\ ConservedInv /\ RepliesCounted /\ InOnePlace
  BY ServerTypeInit, InitInv, RequestTypesInit, ConservedInit, RepliesCountedInit,
     InOnePlaceInit
<1>2. InRound(Threads)
  BY <1>1, RoundInit
<1>3. /\ \A q \in Threads : pc[q] = "done" /\ reqs[q] = <<>>
      /\ \A r \in Ranks : taken[r] = <<>> /\ replies[r] = <<>>
  BY DEF ServerInit
<1>4. \A q \in Threads : \A t : Posted(q, t) = {} /\ Waiting(q, t) = {}
  BY <1>3 DEF Posted, Waiting
<1>5. ASSUME NEW q \in Threads, NEW t \in Int
      PROVE  AllSent(Threads, q, t) = 0 /\ AllReceived(Threads, q, t) = 0
  <2>1. SentFor(q, t) = Sends(q, t) /\ ReceivedFor(q, t) = Receives(q, t)
    BY <1>1, <1>3, ThreadOver
  <2>2. PICK n \in Nat : n = Cardinality(Sends(q, t))
    BY <1>1, CountTypes
  <2>3. PICK k \in Nat : k = Cardinality(Receives(q, t))
    BY <1>1, CountTypes
  <2>4. RoundsOf(Threads, q) = 0
    BY <1>3, ThreadRank DEF RoundsOf
  <2>5. AllSent(Threads, q, t) = (0 - 1) * n + n /\ AllReceived(Threads, q, t) = (0 - 1) * k + k
    BY <2>1, <2>2, <2>3, <2>4 DEF AllSent, AllReceived
  <2>6. \A i \in Nat : (0 - 1) * i + i = 0
    OBVIOUS
  <2> QED
    BY <2>5, <2>6
<1>6. RoundsCounted(Threads)
  <2>1. TakenInOrder
    BY <1>4 DEF TakenInOrder
  <2>2. ASSUME NEW q \in DOMAIN Peer, NEW t \in Int
        PROVE  Cardinality(Waiting(q, t)) = AllSent(Threads, q, t) - AllReceived(Threads, Peer[q], t)
    <3>1. q \in Threads /\ Peer[q] \in Threads
      BY PeerIsThread
    <3>2. Cardinality(Waiting(q, t)) = 0
      BY <1>4, <3>1, FS_EmptySet
    <3>3. AllSent(Threads, q, t) = 0 /\ AllReceived(Threads, Peer[q], t) = 0
      BY <1>5, <3>1
    <3> QED
      BY <3>2, <3>3
  <2> QED
    BY <2>1, <2>2 DEF RoundsCounted
<1>7. ASSUME NEW L PROVE HoldsIn(Threads, L)
  <2>1. RequestsAre(Threads, L)
    BY <1>4 DEF RequestsAre
  <2>2. MatchesAre(L)
    BY <1>3 DEF MatchesAre
  <2>3. \A x \in Slots : x[1] \in Ranks
    BY DEF Slots
  <2>4. ChunksAre(Threads, L)
    BY <1>3, <2>3 DEF ChunksAre
  <2>5. RepliesAre(L)
    BY <1>3 DEF RepliesAre
  <2> QED
    BY <2>1, <2>2, <2>4, <2>5 DEF HoldsIn
<1> QED
  BY <1>1, <1>2, <1>6, <1>7 DEF ServiceInv, RoundHolds, ContentsAre

-----------------------------------------------------------------------------
(* What a client reads in a reply. *)

\* The labelling by what the requests taken hold, with e for those that are not.
TakenOr(e) ==
  [r \in Ranks |-> [n \in Nat |-> IF n \in DOMAIN taken[r] THEN Held(r, taken[r][n]) ELSE e]]

LEMMA TakenLabels ==
  ASSUME RequestTypes, NEW e \in Epochs
  PROVE  TakenOr(e) \in Labels /\ Extends(TakenOr(e))
<1>1. ASSUME NEW r \in Ranks, NEW n \in DOMAIN taken[r]
      PROVE  n \in Nat /\ Held(r, taken[r][n]) \in Epochs
  <2>1. taken[r] \in Seq(1 .. NRequests)
    BY DEF RequestTypes
  <2>2. n \in Nat /\ taken[r][n] \in Epochs /\ 0 \in Epochs
    BY <2>1, RequestsAssumption
  <2> QED
    BY <2>2 DEF Held
<1> QED
  BY <1>1 DEF TakenOr, Labels, Extends

LEMMA RelabelSum ==
  ASSUME NEW L \in Labels, NEW r \in Ranks, NEW n \in Nat,
         NEW c \in 0 .. Sched[r].chunks["i"] - 1, NEW o \in Origins
  PROVE  Relabel(L, n, SumOf(r)[c])[o]
           = IF \E p \in Ranks : o = <<<<p, "i", c>>, L[p][n]>> THEN 1 ELSE 0
<1>1. <<o[1], 0>> \in Origins /\ o = <<o[1], o[2]>>
  BY EpochsAssumption DEF Origins
<1>2. SumOf(r)[c][<<o[1], 0>>] = IF \E p \in Ranks : o[1] = <<p, "i", c>> THEN 1 ELSE 0
  BY <1>1 DEF SumOf
<1>3. Relabel(L, n, SumOf(r)[c])[o]
        = IF o[2] = L[o[1][1]][n] /\ (\E p \in Ranks : o[1] = <<p, "i", c>>) THEN 1 ELSE 0
  BY <1>2 DEF Relabel
<1>4. (o[2] = L[o[1][1]][n] /\ (\E p \in Ranks : o[1] = <<p, "i", c>>))
        <=> \E p \in Ranks : o = <<<<p, "i", c>>, L[p][n]>>
  <2>1. ASSUME NEW p \in Ranks, o[1] = <<p, "i", c>>, o[2] = L[o[1][1]][n]
        PROVE  o = <<<<p, "i", c>>, L[p][n]>>
    <3>1. o[1][1] = p
      BY <2>1
    <3> QED
      BY <1>1, <2>1, <3>1
  <2>2. ASSUME NEW p \in Ranks, o = <<<<p, "i", c>>, L[p][n]>>
        PROVE  o[1] = <<p, "i", c>> /\ o[2] = L[o[1][1]][n]
    BY <2>2
  <2> QED
    BY <2>1, <2>2
<1> QED
  BY <1>3, <1>4

\* Two labellings that differ in a request that no rank has taken would give a
\* reply two contents: when a rank replies, all have taken.
LEMMA AllHaveTaken ==
  ASSUME ServiceInv, EachTakesPart,
         NEW r \in Ranks, NEW n \in DOMAIN replies[r], NEW p \in Ranks
  PROVE  n \in DOMAIN taken[p]
<1> SUFFICES ASSUME n \notin DOMAIN taken[p] PROVE FALSE
  OBVIOUS
<1>1. RequestTypes /\ RepliesCounted /\ Sequences
  BY DEF ServiceInv, ConservedInv
<1>2. PICK B : ContentsAre(B)
  BY DEF ServiceInv, RoundHolds
<1>3. n \in Nat /\ Len(taken[r]) > 0
  <2>1. PICK S : replies[r] \in Seq(S)
    BY <1>1 DEF Sequences
  <2>2. n \in Nat /\ Replied(r) \in Nat /\ Replied(r) > 0
    BY <2>1 DEF Replied
  <2>3. Len(taken[r]) = Replied(r) + Busy(r) /\ Busy(r) \in Nat
    BY <1>1 DEF RepliesCounted, Busy
  <2> QED
    BY <2>2, <2>3
<1>4. 0 \in Epochs /\ 1 \in Epochs
  <2>1. taken[r] \in Seq(1 .. NRequests)
    BY <1>1 DEF RequestTypes
  <2>2. taken[r] # <<>>
    BY <1>3
  <2>3. Head(taken[r]) \in 1 .. NRequests
    BY <2>1, <2>2, Parts
  <2> QED
    BY <2>3, RequestsAssumption
<1>5. ASSUME NEW q \in Ranks PROVE 0 \in 0 .. Sched[q].chunks["i"] - 1
  <2>1. Sched[q].chunks["i"] \in Nat /\ Sched[q].chunks["i"] > 0
    BY SchedAssumption DEF EachTakesPart, Rank, BufferType
  <2> QED
    BY <2>1
<1> DEFINE o == <<<<p, "i", 0>>, 0>>
<1>6. o \in Origins
  BY <1>4, <1>5, InputSlots DEF Origins
<1>7. ASSUME NEW e \in Epochs
      PROVE  replies[r][n][0][o] = IF e = 0 THEN 1 ELSE 0
  <2>1. TakenOr(e) \in Labels /\ Extends(TakenOr(e))
    BY <1>1, TakenLabels
  <2>2. PICK L \in Labels : L = TakenOr(e) /\ RepliesAre(L)
    BY <1>2, <2>1 DEF ContentsAre, HoldsIn
  <2>7. replies[r][n] = [c \in 0 .. Sched[r].chunks["i"] - 1 |-> Relabel(L, n, SumOf(r)[c])]
    BY <2>2 DEF RepliesAre
  <2>3. replies[r][n][0] = Relabel(L, n, SumOf(r)[0])
    BY <1>5, <2>7
  <2>4. L[p][n] = e
    BY <1>3, <2>2 DEF TakenOr
  <2>5. Relabel(L, n, SumOf(r)[0])[o]
          = IF \E q \in Ranks : o = <<<<q, "i", 0>>, L[q][n]>> THEN 1 ELSE 0
    <3> HIDE DEF o
    <3> QED
      BY <1>3, <1>5, <1>6, RelabelSum
  <2>6. (\E q \in Ranks : o = <<<<q, "i", 0>>, L[q][n]>>) <=> e = 0
    BY <2>4
  <2> QED
    BY <2>3, <2>5, <2>6
<1> HIDE DEF o
<1> QED
  BY <1>4, <1>7

LEMMA RepliesSum == ASSUME ServiceInv, EachTakesPart PROVE ReplyCorrect
<1> SUFFICES ASSUME NEW r \in Ranks, NEW n \in DOMAIN replies[r]
             PROVE  replies[r][n] = SumOfRequests(r, [p \in Ranks |-> Held(p, taken[p][n])])
  BY AllHaveTaken DEF ReplyCorrect
<1>1. RequestTypes /\ Sequences /\ 0 \in Epochs
  BY EpochsAssumption DEF ServiceInv, ConservedInv
<1>2. PICK B : ContentsAre(B)
  BY DEF ServiceInv, RoundHolds
<1>3. n \in Nat
  <2>1. PICK S : replies[r] \in Seq(S)
    BY <1>1 DEF Sequences
  <2> QED
    BY <2>1
<1>4. PICK L \in Labels : L = TakenOr(0) /\ RepliesAre(L)
  <2>1. TakenOr(0) \in Labels /\ Extends(TakenOr(0))
    BY <1>1, TakenLabels
  <2> QED
    BY <1>2, <2>1 DEF ContentsAre, HoldsIn
<1>5. \A p \in Ranks : L[p][n] = Held(p, taken[p][n])
  BY <1>3, <1>4, AllHaveTaken DEF TakenOr
<1>6. ASSUME NEW c \in 0 .. Sched[r].chunks["i"] - 1
      PROVE  Relabel(L, n, SumOf(r)[c])
               = [o \in Origins |-> IF o \in {<<<<p, "i", c>>, Held(p, taken[p][n])>> : p \in Ranks}
                                    THEN 1 ELSE 0]
  <2>1. ASSUME NEW o \in Origins
        PROVE  Relabel(L, n, SumOf(r)[c])[o]
                 = IF o \in {<<<<p, "i", c>>, Held(p, taken[p][n])>> : p \in Ranks} THEN 1 ELSE 0
    <3>1. Relabel(L, n, SumOf(r)[c])[o]
            = IF \E p \in Ranks : o = <<<<p, "i", c>>, L[p][n]>> THEN 1 ELSE 0
      BY <1>3, RelabelSum
    <3>2. (\E p \in Ranks : o = <<<<p, "i", c>>, L[p][n]>>)
            <=> o \in {<<<<p, "i", c>>, Held(p, taken[p][n])>> : p \in Ranks}
      BY <1>5
    <3> QED
      BY <3>1, <3>2
  <2> QED
    BY <2>1 DEF Relabel
<1>7. replies[r][n] = [c \in 0 .. Sched[r].chunks["i"] - 1 |-> Relabel(L, n, SumOf(r)[c])]
  BY <1>4 DEF RepliesAre
<1> QED
  BY <1>6, <1>7 DEF SumOfRequests

\* Every reply is the sum of the requests of its round, one of each rank
\* (ReplyCorrect): however far the rounds of the ranks overlap, whichever
\* messages of a round are still unmatched when its sender begins the next, and
\* though no round clears the buffers, no request is ever mixed into a reply of
\* another round.
THEOREM RepliesAreSums ==
  ASSUME Balanced, Interlocked, ConflictsOrdered, MessagesPaired, Computes, Fresh,
         ~RecvMayFail, ~SendMayFail, "error" \notin SendResults
  PROVE  ServerSpec => []ReplyCorrect
<1>1. ServerInit => ServiceInv
  BY ServiceInit
<1>2. ServiceInv /\ [ServerNext]_allVars => ServiceInv'
  BY ServiceNext DEF Computes
<1>3. ServiceInv => ReplyCorrect
  BY RepliesSum DEF Computes
<1> QED
  BY <1>1, <1>2, <1>3, PTL DEF ServerSpec

-----------------------------------------------------------------------------
(* The servers implement ReduceService. *)

\* The rank's part of the state of ReduceService.
PoolOf(r) == Range(pulling[r]) \cup Range(queue[r])

AnswersOf(r) == [n \in DOMAIN replies[r] |-> SummedIn(replies[r][n])]

LEMMA AnswersCount ==
  ASSUME Sequences, NEW r \in Ranks
  PROVE  /\ AnswersOf(r) \in Seq(SUBSET (Ranks \X (1 .. NRequests)))
         /\ Len(AnswersOf(r)) = Len(replies[r]) /\ Len(replies[r]) \in Nat
<1>1. PICK S : replies[r] \in Seq(S)
  BY DEF Sequences
<1>2. PICK n \in Nat : DOMAIN replies[r] = 1 .. n /\ Len(replies[r]) = n
  BY <1>1
<1>3. AnswersOf(r) \in [1 .. n -> SUBSET (Ranks \X (1 .. NRequests))]
  BY <1>2 DEF AnswersOf, SummedIn
<1> QED
  BY <1>2, <1>3

\* The requests in a sum are those of which it is the sum; 0 is none.
LEMMA SummedInSum ==
  ASSUME EachTakesPart, SameInputs, NEW r \in Ranks, NEW q \in [Ranks -> 0 .. NRequests]
  PROVE  SummedIn(SumOfRequests(r, q)) = {<<p, q[p]>> : p \in {x \in Ranks : q[x] # 0}}
<1> DEFINE sum == SumOfRequests(r, q)   C == 0 .. Sched[r].chunks["i"] - 1
<1>1. 0 \in C /\ DOMAIN sum = C
  <2>1. Sched[r].chunks["i"] \in Nat /\ Sched[r].chunks["i"] > 0
    BY SchedAssumption DEF EachTakesPart, Rank, BufferType
  <2> QED
    BY <2>1 DEF SumOfRequests
<1>2. ASSUME NEW p \in Ranks, NEW e \in 1 .. NRequests, NEW c \in C
      PROVE  sum[c][<<<<p, "i", c>>, e>>] # 0 <=> e = q[p]
  <2>1. <<<<p, "i", c>>, e>> \in Origins
    <3>1. c \in 0 .. Sched[p].chunks["i"] - 1
      BY DEF SameInputs
    <3> QED
      BY <3>1, InputSlots, RequestsAssumption DEF Origins
  <2>2. sum[c][<<<<p, "i", c>>, e>>]
          = IF <<<<p, "i", c>>, e>> \in {<<<<x, "i", c>>, q[x]>> : x \in Ranks} THEN 1 ELSE 0
    BY <2>1 DEF SumOfRequests
  <2>3. <<<<p, "i", c>>, e>> \in {<<<<x, "i", c>>, q[x]>> : x \in Ranks} <=> e = q[p]
    OBVIOUS
  <2> QED
    BY <2>2, <2>3
<1>3. ASSUME NEW p \in Ranks, NEW e \in 1 .. NRequests
      PROVE  <<p, e>> \in SummedIn(sum) <=> e = q[p]
  <2>1. <<p, e>>[1] = p /\ <<p, e>>[2] = e /\ <<p, e>> \in Ranks \X (1 .. NRequests)
    OBVIOUS
  <2>2. <<p, e>> \in SummedIn(sum) <=> \A c \in C : sum[c][<<<<p, "i", c>>, e>>] # 0
    BY <1>1, <2>1 DEF SummedIn
  <2> QED
    BY <1>1, <1>2, <2>2
<1> HIDE DEF sum, C
<1>4. ASSUME NEW x \in SummedIn(sum) PROVE x \in {<<p, q[p]>> : p \in {y \in Ranks : q[y] # 0}}
  <2>1. x \in Ranks \X (1 .. NRequests)
    BY DEF SummedIn
  <2>2. PICK p \in Ranks, e \in 1 .. NRequests : x = <<p, e>>
    BY <2>1
  <2>3. e = q[p] /\ e # 0
    BY <1>3, <2>2
  <2> QED
    BY <2>2, <2>3
<1>5. ASSUME NEW p \in Ranks, q[p] # 0 PROVE <<p, q[p]>> \in SummedIn(sum)
  <2>1. q[p] \in 1 .. NRequests
    BY <1>5, RequestsAssumption
  <2> QED
    BY <1>3, <2>1
<1> QED
  BY <1>4, <1>5 DEF sum

\* Where the pool and the answers of one rank change, the service's do.
LEMMA MappedAlone ==
  ASSUME IInv, Sequences, RequestTypes, NEW r \in Ranks, Main(r), NEW q \in Ranks, q # r
  PROVE  PoolOf(q)' = PoolOf(q) /\ AnswersOf(q)' = AnswersOf(q)
BY MainElsewhere DEF PoolOf, AnswersOf

LEMMA MappedArrive ==
  ASSUME IInv, Sequences, RequestTypes, InOnePlace, NEW r \in Ranks, Main(r),
         ArriveEager(r) \/ ArriveRendezvous(r)
  PROVE  Service!Next
<1>1. /\ pulling[r] \in Seq(Nat) /\ queue[r] \in Seq(Nat) /\ arrived[r] \in Nat
      /\ arrived[r] + 1 \in 1 .. NRequests /\ arrived[r] + 1 \in Nat
      /\ pulling \in [Ranks -> Seq(1 .. NRequests)] /\ queue \in [Ranks -> Seq(1 .. NRequests)]
  BY RequestsAssumption DEF RequestTypes, ArriveEager, ArriveRendezvous
<1>2. taken' = taken /\ replies' = replies /\ unfilled' = unfilled
  BY DEF ArriveEager, ArriveRendezvous
<1>3. PoolOf(r)' = PoolOf(r) \cup {arrived[r] + 1}
  <2>1. CASE ArriveEager(r)
    <3>1. pulling'[r] = pulling[r] /\ queue'[r] = Append(queue[r], arrived[r] + 1)
      BY <1>1, <2>1 DEF ArriveEager
    <3>2. Range(queue'[r]) = Range(queue[r]) \cup {arrived[r] + 1}
      BY <1>1, <3>1, JoinsAtEnd
    <3> QED
      BY <3>1, <3>2 DEF PoolOf
  <2>2. CASE ArriveRendezvous(r)
    <3>1. queue'[r] = queue[r] /\ pulling'[r] = Append(pulling[r], arrived[r] + 1)
      BY <1>1, <2>2 DEF ArriveRendezvous
    <3>2. Range(pulling'[r]) = Range(pulling[r]) \cup {arrived[r] + 1}
      BY <1>1, <3>1, JoinsAtEnd
    <3> QED
      BY <3>1, <3>2 DEF PoolOf
  <2> QED
    BY <2>1, <2>2
<1>4. arrived[r] + 1 \notin PoolOf(r) /\ \A n \in DOMAIN taken[r] : taken[r][n] # arrived[r] + 1
  <2>1. \A s \in {pulling[r], queue[r], taken[r]} : \A i \in DOMAIN s : s[i] <= arrived[r]
    BY DEF InOnePlace, Separate
  <2>2. ~(arrived[r] + 1 <= arrived[r])
    BY <1>1
  <2> QED
    BY <2>1, <2>2 DEF PoolOf, Range
<1>5. Service!Arrive(r, arrived[r] + 1)
  BY <1>2, <1>3, <1>4, MappedAlone DEF PoolOf, Service!Arrive
<1> QED
  BY <1>1, <1>5 DEF Service!Next

LEMMA MappedPullEnds ==
  ASSUME IInv, Sequences, RequestTypes, InOnePlace, NEW r \in Ranks, Main(r), PullEnds(r)
  PROVE  \/ Service!Next \/ UNCHANGED Service!vars
<1>1. /\ pulling[r] \in Seq(Nat) /\ queue[r] \in Seq(Nat) /\ pulling[r] # <<>>
      /\ pulling \in [Ranks -> Seq(1 .. NRequests)] /\ queue \in [Ranks -> Seq(1 .. NRequests)]
  BY RequestsAssumption DEF RequestTypes, PullEnds
<1>2. /\ taken' = taken /\ replies' = replies
      /\ pulling'[r] = SubSeq(pulling[r], 1, Len(pulling[r]) - 1)
      /\ queue'[r] = Append(queue[r], pulling[r][Len(pulling[r])])
  BY <1>1 DEF PullEnds
<1>3. IsInjective(pulling[r])
  BY DEF InOnePlace, Separate
<1>4. /\ Range(pulling'[r]) = Range(pulling[r]) \ {pulling[r][Len(pulling[r])]}
      /\ pulling[r][Len(pulling[r])] \in Range(pulling[r])
  BY <1>1, <1>2, <1>3, LeavesEnd
<1>5. Range(queue'[r]) = Range(queue[r]) \cup {pulling[r][Len(pulling[r])]}
  <2>1. pulling[r][Len(pulling[r])] \in Nat
    BY <1>1
  <2> QED
    BY <1>1, <1>2, <2>1, JoinsAtEnd
<1>6. PoolOf(r)' = PoolOf(r)
  BY <1>4, <1>5 DEF PoolOf
<1>7. CASE unfilled' = unfilled
  BY <1>2, <1>6, <1>7, MappedAlone DEF PoolOf, Service!vars
<1>8. CASE PullFails(r)
  <2>1. PICK q : q = pulling[r][Len(pulling[r])]
    OBVIOUS
  <2>2. unfilled' = [unfilled EXCEPT ![r] = @ \cup {q}]
    BY <1>8, <2>1 DEF PullFails
  <2>3. q \in [x \in Ranks |-> PoolOf(x)][r]
    BY <1>4, <2>1 DEF PoolOf
  <2>4. UNCHANGED [x \in Ranks |-> PoolOf(x)]
    BY <1>6, MappedAlone
  <2>5. UNCHANGED [x \in Ranks |-> AnswersOf(x)]
    BY <1>2 DEF AnswersOf
  <2>6. Service!Lose(r) <=>
          /\ \E x \in [y \in Ranks |-> PoolOf(y)][r] :
               unfilled' = [unfilled EXCEPT ![r] = @ \cup {x}]
          /\ UNCHANGED <<[y \in Ranks |-> PoolOf(y)], taken, [y \in Ranks |-> AnswersOf(y)]>>
    BY DEF PoolOf, AnswersOf, Service!Lose
  <2>7. Service!Lose(r)
    BY <1>2, <2>2, <2>3, <2>4, <2>5, <2>6
  <2> QED
    BY <2>7 DEF Service!Next
<1>9. unfilled' = unfilled \/ PullFails(r)
  BY DEF Main, ArriveEager, ArriveRendezvous, Pulled, Take, PostToken, Collect, Reply
<1> QED
  BY <1>7, <1>8, <1>9

LEMMA MappedTake ==
  ASSUME IInv, Sequences, RequestTypes, InOnePlace, RepliesCounted,
         NEW r \in Ranks, Main(r), Take(r)
  PROVE  Service!Next
<1>1. /\ pulling[r] \in Seq(Nat) /\ queue[r] \in Seq(Nat) /\ queue[r] # <<>>
      /\ pulling \in [Ranks -> Seq(1 .. NRequests)] /\ queue \in [Ranks -> Seq(1 .. NRequests)]
  BY RequestsAssumption DEF RequestTypes, Take
<1>2. /\ replies' = replies /\ unfilled' = unfilled /\ main[r] = "idle"
      /\ taken' = [taken EXCEPT ![r] = Append(@, Head(queue[r]))]
      /\ pulling'[r] = pulling[r] /\ queue'[r] = Tail(queue[r])
  BY <1>1 DEF Take
<1>3. IsInjective(queue[r]) /\ Range(pulling[r]) \cap Range(queue[r]) = {}
  BY DEF InOnePlace, Separate, Apart, Range
<1>4. Range(queue'[r]) = Range(queue[r]) \ {Head(queue[r])} /\ Head(queue[r]) \in Range(queue[r])
  BY <1>1, <1>2, <1>3, LeavesHead
<1>5. PoolOf(r)' = PoolOf(r) \ {Head(queue[r])} /\ Head(queue[r]) \in PoolOf(r)
  BY <1>2, <1>3, <1>4 DEF PoolOf
<1>6. Len(taken[r]) = Len(AnswersOf(r))
  <2>1. Len(taken[r]) = Replied(r) + Busy(r) /\ Busy(r) = 0 /\ Replied(r) = Len(replies[r])
    BY <1>2 DEF RepliesCounted, Busy, Replied
  <2> QED
    BY <2>1, AnswersCount
<1>7. Service!Take(r)
  <2>1. [x \in Ranks |-> PoolOf(x)]'
          = [[x \in Ranks |-> PoolOf(x)] EXCEPT ![r] = @ \ {Head(queue[r])}]
    BY <1>5, MappedAlone
  <2>2. Len(taken[r]) = Len([x \in Ranks |-> AnswersOf(x)][r])
    BY <1>6
  <2>3. Head(queue[r]) \in [x \in Ranks |-> PoolOf(x)][r]
    BY <1>5
  <2>4. Service!Take(r) <=>
          /\ Len(taken[r]) = Len([x \in Ranks |-> AnswersOf(x)][r])
          /\ \E q \in [x \in Ranks |-> PoolOf(x)][r] :
               /\ taken' = [taken EXCEPT ![r] = Append(@, q)]
               /\ [x \in Ranks |-> PoolOf(x)]'
                    = [[x \in Ranks |-> PoolOf(x)] EXCEPT ![r] = @ \ {q}]
          /\ UNCHANGED <<unfilled, [x \in Ranks |-> AnswersOf(x)]>>
    BY DEF PoolOf, AnswersOf, Service!Take
  <2>5. UNCHANGED [x \in Ranks |-> AnswersOf(x)]
    BY <1>2 DEF AnswersOf
  <2> QED
    BY <1>2, <2>1, <2>2, <2>3, <2>4, <2>5
<1> QED
  BY <1>7 DEF Service!Next, Service!Serve

LEMMA ElementType ==
  ASSUME NEW S, NEW s \in Seq(S), NEW i \in 1 .. Len(s)
  PROVE  s[i] \in S
OBVIOUS

LEMMA MappedReply ==
  ASSUME EachTakesPart, SameInputs, IInv, Sequences, RequestTypes, RepliesCounted, ReplyCorrect',
         NEW r \in Ranks, Main(r), Reply(r)
  PROVE  Service!Next
<1> DEFINE n == Len(taken[r])   sum == {<<p, taken[p][n]>> : p \in {x \in Ranks : taken[x][n] \notin unfilled[x]}}
<1>1. /\ taken' = taken /\ unfilled' = unfilled /\ pulling' = pulling /\ queue' = queue /\ main[r] = "reply"
      /\ replies' = [replies EXCEPT ![r] = Append(@, InputOf(r))]
      /\ replies'[r] = Append(replies[r], InputOf(r))
      /\ taken \in [Ranks -> Seq(1 .. NRequests)]
  BY DEF Reply, Sequences, RequestTypes
<1>2. n = Len(replies[r]) + 1 /\ Len(replies[r]) \in Nat /\ n \in Nat
  <2>1. n = Replied(r) + Busy(r) /\ Busy(r) = 1 /\ Replied(r) = Len(replies[r])
    BY <1>1 DEF RepliesCounted, Busy, Replied
  <2> QED
    BY <2>1, AnswersCount
<1> HIDE DEF n
<1>3. /\ DOMAIN replies'[r] = DOMAIN replies[r] \cup {n} /\ n \notin DOMAIN replies[r]
      /\ DOMAIN replies[r] = 1 .. n - 1
      /\ \A i \in DOMAIN replies[r] : replies'[r][i] = replies[r][i]
  <2>1. PICK S : replies[r] \in Seq(S)
    BY DEF Sequences
  <2>2. replies[r] \in Seq(S \cup {InputOf(r)}) /\ InputOf(r) \in S \cup {InputOf(r)}
    BY <2>1
  <2> QED
    BY <1>1, <1>2, <2>2
<1>4. ASSUME NEW p \in Ranks
      PROVE  n \in DOMAIN taken[p] /\ taken[p][n] \in 1 .. NRequests /\ Len(taken[p]) >= n
  <2>1. n \in DOMAIN taken'[p]
    BY <1>3 DEF ReplyCorrect
  <2>2. taken[p] \in Seq(1 .. NRequests) /\ n \in DOMAIN taken[p]
    BY <1>1, <2>1
  <2>3. n \in 1 .. Len(taken[p]) /\ Len(taken[p]) \in Nat
    BY <2>2
  <2>4. Len(taken[p]) >= n
    BY <1>2, <2>3
  <2>5. taken[p][n] \in 1 .. NRequests
    BY <2>2, <2>3, ElementType
  <2> QED
    BY <2>2, <2>4, <2>5
<1>5. SummedIn(replies'[r][n]) = sum
  <2>0. \A p \in Ranks : Held(p, taken[p][n]) \in 0 .. NRequests
    BY <1>4, RequestsAssumption DEF Held
  <2>1. PICK q \in [Ranks -> 0 .. NRequests] : q = [p \in Ranks |-> Held(p, taken[p][n])]
    BY <2>0
  <2>m. PICK m : m = n
    OBVIOUS
  <2>a. m \in DOMAIN replies'[r]
    BY <1>3, <2>m
  <2>b. \A i \in DOMAIN replies'[r] :
          replies'[r][i] = SumOfRequests(r, [p \in Ranks |-> Held(p, taken[p][i])])'
    BY DEF ReplyCorrect
  <2>2. replies'[r][m] = SumOfRequests(r, [p \in Ranks |-> Held(p, taken[p][m])])'
    BY <2>a, <2>b
  <2>3. \A p \in Ranks : Held(p, taken[p][m])' = Held(p, taken[p][m])
    BY <1>1 DEF Held
  <2>4. replies'[r][n] = SumOfRequests(r, q)
    BY <2>1, <2>m, <2>2, <2>3
  <2>5. \A p \in Ranks : /\ q[p] # 0 <=> taken[p][n] \notin unfilled[p]
                         /\ q[p] # 0 => q[p] = taken[p][n]
    BY <1>4, <2>1, RequestsAssumption DEF Held
  <2>6. {<<p, q[p]>> : p \in {x \in Ranks : q[x] # 0}} = sum
    BY <2>5
  <2> HIDE DEF sum
  <2> QED
    BY <2>1, <2>4, <2>6, SummedInSum
<1> HIDE DEF sum
<1>6. AnswersOf(r)' = Append(AnswersOf(r), sum)
  <2>1. AnswersOf(r)' = [i \in 1 .. n |-> SummedIn(replies'[r][i])]
    <3>1. DOMAIN replies'[r] = 1 .. n
      BY <1>2, <1>3
    <3> QED
      BY <3>1 DEF AnswersOf, SummedIn
  <2>2. AnswersOf(r) = [i \in 1 .. n - 1 |-> SummedIn(replies[r][i])]
    BY <1>3 DEF AnswersOf
  <2>3. \A i \in 1 .. n - 1 : SummedIn(replies'[r][i]) = SummedIn(replies[r][i])
    BY <1>3
  <2>4. \A i \in 1 .. n : SummedIn(replies'[r][i])
                            = IF i = n THEN sum ELSE SummedIn(replies[r][i])
    BY <1>2, <1>5, <2>3
  <2>5. Len(AnswersOf(r)) = n - 1 /\ AnswersOf(r) \in Seq(SUBSET (Ranks \X (1 .. NRequests)))
    BY <1>2, AnswersCount
  <2>6. sum \in SUBSET (Ranks \X (1 .. NRequests))
    BY <1>5 DEF SummedIn
  <2>7. /\ Append(AnswersOf(r), sum) \in Seq(SUBSET (Ranks \X (1 .. NRequests)))
        /\ Len(Append(AnswersOf(r), sum)) = n
        /\ \A i \in 1 .. n : Append(AnswersOf(r), sum)[i]
                               = IF i = n THEN sum ELSE AnswersOf(r)[i]
    BY <1>2, <2>5, <2>6
  <2>8. Append(AnswersOf(r), sum) = [i \in 1 .. n |-> IF i = n THEN sum ELSE AnswersOf(r)[i]]
    <3>1. PICK u : u = Append(AnswersOf(r), sum)
      OBVIOUS
    <3>2. u \in Seq(SUBSET (Ranks \X (1 .. NRequests))) /\ Len(u) = n
      BY <2>7, <3>1
    <3>3. u = [i \in 1 .. n |-> u[i]]
      BY <3>2
    <3>4. \A i \in 1 .. n : u[i] = IF i = n THEN sum ELSE AnswersOf(r)[i]
      BY <2>7, <3>1
    <3> QED
      BY <3>1, <3>3, <3>4
  <2>9. \A i \in 1 .. n : i # n => AnswersOf(r)[i] = SummedIn(replies[r][i])
    BY <1>2, <2>2
  <2> QED
    BY <2>1, <2>4, <2>8, <2>9
<1>7. Service!Answer(r)
  <2>1. [x \in Ranks |-> AnswersOf(x)]'
          = [[x \in Ranks |-> AnswersOf(x)] EXCEPT ![r] = Append(@, sum)]
    BY <1>6, MappedAlone
  <2>2. Len([x \in Ranks |-> AnswersOf(x)][r]) = n - 1
    BY <1>2, AnswersCount
  <2>3. UNCHANGED [x \in Ranks |-> PoolOf(x)]
    BY <1>1 DEF PoolOf
  <2>4. Service!Answer(r) <=>
          /\ Len([x \in Ranks |-> AnswersOf(x)][r]) = n - 1
          /\ \A p \in Ranks : Len(taken[p]) >= n
          /\ [x \in Ranks |-> AnswersOf(x)]'
               = [[x \in Ranks |-> AnswersOf(x)] EXCEPT ![r] = Append(@, sum)]
          /\ UNCHANGED <<[x \in Ranks |-> PoolOf(x)], unfilled, taken>>
    BY DEF PoolOf, AnswersOf, Service!Answer, n, sum
  <2> QED
    BY <1>1, <1>4, <2>1, <2>2, <2>3, <2>4
<1> QED
  BY <1>7 DEF Service!Next, Service!Serve

LEMMA MappedMain ==
  ASSUME EachTakesPart, SameInputs, IInv, Sequences, RequestTypes, InOnePlace, RepliesCounted,
         ReplyCorrect', NEW r \in Ranks, Main(r)
  PROVE  [Service!Next]_(Service!vars)
<1>1. CASE ArriveEager(r) \/ ArriveRendezvous(r)
  BY <1>1, MappedArrive
<1>2. CASE PullEnds(r)
  BY <1>2, MappedPullEnds
<1>3. CASE Take(r)
  BY <1>3, MappedTake
<1>4. CASE Reply(r)
  BY <1>4, MappedReply
<1>5. CASE PostToken(r) \/ Collect(r)
  BY <1>5 DEF PostToken, Collect, Service!vars
<1> QED
  BY <1>1, <1>2, <1>3, <1>4, <1>5 DEF Main, Pulled, PullFails

\* The servers together are the service that their clients are promised
\* (the safety part of IsService): each rank takes the requests that have
\* arrived, one at a time, and the n-th reply of a rank is the sum of the n-th
\* requests that the ranks have taken.
THEOREM ServersImplementService ==
  ASSUME Balanced, Interlocked, ConflictsOrdered, MessagesPaired, Computes, Fresh, SameInputs,
         ~RecvMayFail, ~SendMayFail, "error" \notin SendResults
  PROVE  ServerSpec => Service!Init /\ [][Service!Next]_(Service!vars)
<1>1. ServerInit => ServiceInv
  BY ServiceInit
<1>2. ServiceInv /\ [ServerNext]_allVars => ServiceInv'
  BY ServiceNext DEF Computes
<1>3. ServerInit => Service!Init
  BY DEF ServerInit, Service!Init, Range
<1>4. ServiceInv => ReplyCorrect
  BY RepliesSum DEF Computes
<1>5. ServiceInv /\ ReplyCorrect' /\ [ServerNext]_allVars => [Service!Next]_(Service!vars)
  <2> SUFFICES ASSUME ServiceInv, ReplyCorrect', [ServerNext]_allVars
               PROVE  [Service!Next]_(Service!vars)
    OBVIOUS
  <2>1. ASSUME NEW r \in Ranks, Main(r) PROVE [Service!Next]_(Service!vars)
    BY <2>1, MappedMain DEF ServiceInv, ConservedInv, Computes
  <2>2. CASE UNCHANGED <<taken, pulling, queue, unfilled, replies>>
    BY <2>2 DEF Service!vars
  <2> QED
    BY <2>1, <2>2 DEF ServerNext, Thread, Begin, Work, Finish, Quiet, allVars, serverVars
<1> QED
  BY <1>1, <1>2, <1>3, <1>4, <1>5, PTL DEF ServerSpec
=============================================================================
