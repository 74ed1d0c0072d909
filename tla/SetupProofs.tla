---------------------------- MODULE SetupProofs ----------------------------
(* What the set-up of mpitest.cc keeps of the executions of Interpreter.   *)
EXTENDS Setup, ScheduleProofs

\* The threads that main starts and that connect first are those of
\* Interpreter, so that each of its safety theorems is one of mpitest.cc.
THEOREM SetupIsInterpreter == SetupSpec => Spec
<1>1. SetupInit => Init
  BY DEF SetupInit
<1>2. [SetupNext]_allVars => [Next]_vars
  <2> SUFFICES ASSUME [SetupNext]_allVars PROVE [Next]_vars
    OBVIOUS
  <2>1. ASSUME NEW r \in Ranks, InitWorkers(r) \/ StartThreads(r) PROVE UNCHANGED vars
    BY <2>1 DEF InitWorkers, StartThreads
  <2>2. CASE AllgatherAddresses
    BY <2>2 DEF AllgatherAddresses
  <2>3. ASSUME NEW th \in Threads, Connect(th) PROVE UNCHANGED vars
    BY <2>3 DEF Connect
  <2>4. ASSUME NEW th \in Threads, Execute(th) PROVE Next
    BY <2>4 DEF Execute, Next
  <2>5. CASE UNCHANGED allVars
    BY <2>5 DEF allVars
  <2> QED
    BY <2>1, <2>2, <2>3, <2>4, <2>5 DEF SetupNext
<1> QED
  BY <1>1, <1>2, PTL DEF SetupSpec, Spec

\* So, whatever the lengths of the addresses and whoever starts first, the
\* executions of mpitest.cc, from main on, keep the dependency tokens of
\* sem_hash balanced, and a thread that has ended has no send outstanding.
THEOREM ExecutionsAreSafe == SetupSpec => [](TypeOK /\ TokensConserved /\ DrainedWhenDone)
  BY SetupIsInterpreter, TypeCorrect, TokensAreConserved, DoneIsDrained, PTL

\* And where the schedule orders its conflicts and pairs its messages, as the
\* shipped ones do, and UCX fails nothing, the chunks of a rank are accessed
\* without races, each receive gets the message meant for it, and nothing is
\* left in a semaphore or a queue for the next execution to take.
THEOREM ExecutionsAreClean ==
  ASSUME Balanced, ConflictsOrdered, MessagesPaired, ~RecvMayFail, ~SendMayFail, "error" \notin SendResults
  PROVE  SetupSpec => [](RaceFree /\ ReceiveMatchesSend /\ NoTokenLeft /\ NoMessageLeft)
<1>1. Spec => []RaceFree
  BY ChunksAreRaceFree
<1>2. Spec => []ReceiveMatchesSend
  BY EachReceivesItsMessage
<1>3. Spec => []NoTokenLeft
  BY NothingLeftInSemaphores
<1>4. Spec => []NoMessageLeft
  BY AllMessagesReceived
<1> QED
  BY <1>1, <1>2, <1>3, <1>4, SetupIsInterpreter, PTL

\* And where what the schedule's steps write adds up to the sums besides, a run
\* of mpitest.cc from main on is an allreduce: no rank has its result before
\* every rank has contributed, and it has the sum then, and keeps it.
THEOREM ExecutionsAreAllReduces ==
  ASSUME ConflictsOrdered, MessagesPaired, Computes, ~RecvMayFail, ~SendMayFail, "error" \notin SendResults
  PROVE  SetupSpec => Reduction!Init /\ [][Reduction!Next]_(Reduction!vars)
<1>1. Spec => Reduction!Init /\ [][Reduction!Next]_(Reduction!vars)
  BY SchedulesAreAllReduces
<1> QED
  BY <1>1, SetupIsInterpreter, PTL

-----------------------------------------------------------------------------
(* Running sums. *)

\* The first n + 1 values of a running sum.
SumsTo(h, f, n) ==
  h = [i \in 0 .. n |-> IF i = 0 THEN 0 ELSE h[i - 1] + f[i - 1]]

LEMMA SumsAgree ==
  ASSUME NEW f, NEW n \in Nat, NEW m \in Nat, NEW h, NEW g, SumsTo(h, f, n), SumsTo(g, f, m),
         NEW i \in Nat, i <= n, i <= m
  PROVE  h[i] = g[i]
<1> DEFINE N == {j \in Nat : j <= n /\ j <= m /\ h[j] # g[j]}
<1>1. SUFFICES ASSUME N # {} PROVE FALSE
  OBVIOUS
<1>2. PICK j \in N : \A k \in N : j =< k
  BY <1>1, SmallestNat
<1>3. CASE j = 0
  <2>1. h[j] = 0 /\ g[j] = 0
    BY <1>3 DEF SumsTo
  <2> QED
    BY <1>2, <2>1
<1>4. CASE j # 0
  <2>1. j - 1 \in Nat /\ j - 1 <= n /\ j - 1 <= m /\ j - 1 \notin N
    BY <1>2, <1>4
  <2>2. h[j - 1] = g[j - 1]
    BY <2>1
  <2>3. h[j] = h[j - 1] + f[j - 1] /\ g[j] = g[j - 1] + f[j - 1]
    BY <1>2, <1>4 DEF SumsTo
  <2> QED
    BY <1>2, <2>2, <2>3
<1> QED
  BY <1>3, <1>4

LEMMA SumsExist ==
  ASSUME NEW f, NEW n \in Nat
  PROVE  \E h : SumsTo(h, f, n)
<1> DEFINE N == {j \in Nat : ~ \E h : SumsTo(h, f, j)}
<1>1. SUFFICES ASSUME N # {} PROVE FALSE
  OBVIOUS
<1>2. PICK j \in N : \A k \in N : j =< k
  BY <1>1, SmallestNat
<1>3. CASE j = 0
  <2>1. SumsTo([i \in 0 .. 0 |-> 0], f, 0)
    BY DEF SumsTo
  <2> QED
    BY <1>2, <1>3, <2>1
<1>4. CASE j # 0
  <2>1. j - 1 \in Nat /\ j - 1 \notin N
    BY <1>2, <1>4
  <2>2. PICK h : SumsTo(h, f, j - 1)
    BY <2>1
  <2> DEFINE g == [i \in 0 .. j |-> IF i = j THEN h[j - 1] + f[j - 1] ELSE h[i]]
  <2>3. ASSUME NEW i \in 0 .. j
        PROVE  g[i] = IF i = 0 THEN 0 ELSE g[i - 1] + f[i - 1]
    <3>1. CASE i = j
      BY <1>4, <3>1
    <3>2. CASE i # j
      <4>1. i \in 0 .. j - 1
        BY <3>2
      <4>2. h[i] = IF i = 0 THEN 0 ELSE h[i - 1] + f[i - 1]
        BY <2>2, <4>1 DEF SumsTo
      <4> QED
        BY <3>2, <4>2
    <3> QED
      BY <3>1, <3>2
  <2>4. SumsTo(g, f, j)
    <3>1. g = [i \in 0 .. j |-> g[i]]
      OBVIOUS
    <3> QED
      BY <2>3, <3>1 DEF SumsTo
  <2> HIDE DEF g
  <2> QED
    BY <1>2, <2>4
<1> QED
  BY <1>3, <1>4

\* What a step of the loop does.
LEMMA RunningSumStep ==
  ASSUME NEW f
  PROVE  /\ RunningSum(f, 0) = 0
         /\ \A n \in Nat : RunningSum(f, n + 1) = RunningSum(f, n) + f[n]
<1> DEFINE IsSum(s) == s = [m \in Nat |-> IF m = 0 THEN 0 ELSE s[m - 1] + f[m - 1]]
           H(n) == CHOOSE h : SumsTo(h, f, n)
           s0 == [n \in Nat |-> H(n)[n]]
           sum == CHOOSE s : IsSum(s)
<1>1. \A n \in Nat : SumsTo(H(n), f, n)
  BY SumsExist
<1>2. ASSUME NEW n \in Nat PROVE s0[n] = IF n = 0 THEN 0 ELSE s0[n - 1] + f[n - 1]
  <2>1. SumsTo(H(n), f, n) /\ s0[n] = H(n)[n]
    BY <1>1
  <2>2. CASE n = 0
    BY <2>1, <2>2 DEF SumsTo
  <2>3. CASE n # 0
    <3>1. n - 1 \in Nat /\ SumsTo(H(n - 1), f, n - 1) /\ s0[n - 1] = H(n - 1)[n - 1]
      BY <1>1, <2>3
    <3> HIDE DEF H, s0
    <3>2. H(n)[n - 1] = H(n - 1)[n - 1]
      BY <2>1, <3>1, SumsAgree
    <3>3. H(n)[n] = H(n)[n - 1] + f[n - 1]
      BY <2>1, <2>3 DEF SumsTo
    <3> QED
      BY <2>1, <2>3, <3>1, <3>2, <3>3
  <2> QED
    BY <2>2, <2>3
<1>3. IsSum(s0)
  <2>1. s0 = [n \in Nat |-> s0[n]]
    OBVIOUS
  <2> HIDE DEF s0
  <2> QED
    BY <1>2, <2>1
<1>4. IsSum(sum)
  <2> HIDE DEF IsSum, s0
  <2> QED
    BY <1>3
<1>5. \A n \in Nat : RunningSum(f, n) = sum[n]
  BY DEF RunningSum
<1> HIDE DEF sum
<1>6. \A n \in Nat : sum[n] = IF n = 0 THEN 0 ELSE sum[n - 1] + f[n - 1]
  BY <1>4
<1> QED
  BY <1>5, <1>6

LEMMA RunningSumType ==
  ASSUME NEW f, NEW m \in Nat, \A i \in 0 .. m - 1 : f[i] \in Nat
  PROVE  \A n \in 0 .. m : RunningSum(f, n) \in Nat
<1> DEFINE N == {n \in 0 .. m : RunningSum(f, n) \notin Nat}
<1>1. SUFFICES ASSUME N # {} PROVE FALSE
  OBVIOUS
<1>2. N \in SUBSET Nat
  OBVIOUS
<1>3. PICK n \in N : \A k \in N : n =< k
  BY <1>1, <1>2, SmallestNat
<1>4. CASE n = 0
  BY <1>3, <1>4, RunningSumStep
<1>5. CASE n # 0
  <2>1. n - 1 \in 0 .. m - 1 /\ n - 1 \notin N
    BY <1>3, <1>5
  <2>2. RunningSum(f, n - 1) \in Nat /\ f[n - 1] \in Nat
    BY <2>1
  <2>3. RunningSum(f, (n - 1) + 1) = RunningSum(f, n - 1) + f[n - 1]
    BY <2>1, RunningSumStep
  <2>4. (n - 1) + 1 = n
    BY <1>3
  <2> QED
    BY <1>3, <2>2, <2>3, <2>4
<1> QED
  BY <1>4, <1>5

LEMMA RunningSumGrows ==
  ASSUME NEW f, NEW m \in Nat, \A i \in 0 .. m - 1 : f[i] \in Nat,
         NEW i \in 0 .. m, NEW j \in 0 .. m, i =< j
  PROVE  RunningSum(f, i) =< RunningSum(f, j)
<1> DEFINE N == {n \in 0 .. m : i =< n /\ ~(RunningSum(f, i) =< RunningSum(f, n))}
<1>1. SUFFICES ASSUME N # {} PROVE FALSE
  OBVIOUS
<1>2. N \in SUBSET Nat
  OBVIOUS
<1>3. PICK n \in N : \A k \in N : n =< k
  BY <1>1, <1>2, SmallestNat
<1>4. \A k \in 0 .. m : RunningSum(f, k) \in Nat
  BY RunningSumType
<1>5. n # i
  BY <1>3, <1>4
<1>6. n - 1 \in 0 .. m - 1 /\ i =< n - 1 /\ n - 1 \notin N
  BY <1>3, <1>5
<1>7. RunningSum(f, i) =< RunningSum(f, n - 1) /\ f[n - 1] \in Nat
  BY <1>6
<1>8. RunningSum(f, (n - 1) + 1) = RunningSum(f, n - 1) + f[n - 1]
  BY <1>6, RunningSumStep
<1>9. (n - 1) + 1 = n /\ n - 1 \in 0 .. m
  BY <1>3, <1>6
<1> QED
  BY <1>3, <1>4, <1>7, <1>8, <1>9

-----------------------------------------------------------------------------
(* Where the addresses are. *)

\* The lengths that the ranks have exchanged.
Sized(all) == \A k \in 0 .. NRanks * TbNum - 1 : all[k] \in Nat \ {0}

LEMMA TbNumType == TbNum \in Nat
<1>1. 0 \in Ranks
  BY RanksAssumption DEF Ranks
<1>2. Sched[0].tbs \in Seq(ThreadBlock)
  BY <1>1, SchedAssumption DEF Rank
<1> QED
  BY <1>2 DEF TbNum

LEMMA IndexInRange ==
  ASSUME NEW q \in Ranks, NEW w \in WorkerIds
  PROVE  q * TbNum + w \in 0 .. NRanks * TbNum - 1
<1> DEFINE t == TbNum  n == NRanks
<1>1. t \in Nat /\ n \in Nat /\ q \in 0 .. n - 1 /\ w \in 0 .. t - 1
  BY TbNumType, RanksAssumption DEF Ranks, WorkerIds
<1> HIDE DEF t, n
<1>2. (n - 1) * t = n * t - t
  BY <1>1
<1>3. q * t =< (n - 1) * t /\ q * t \in Nat
  BY <1>1
<1>4. q * t + w \in 0 .. n * t - 1
  BY <1>1, <1>2, <1>3
<1> QED
  BY <1>4 DEF t, n

\* The addresses of a rank are one after the other.
LEMMA OffsetStep ==
  ASSUME NEW all, Sized(all), NEW q \in Ranks
  PROVE  /\ \A v \in 0 .. TbNum : Offset(all, q, v) \in Nat
         /\ \A w \in WorkerIds : \A v \in 0 .. TbNum :
              w < v => Offset(all, q, w) + all[q * TbNum + w] =< Offset(all, q, v)
<1> DEFINE f == [w \in WorkerIds |-> all[q * TbNum + w]]
<1>1. \A w \in 0 .. TbNum - 1 : f[w] = all[q * TbNum + w] /\ f[w] \in Nat
  BY IndexInRange DEF Sized, WorkerIds
<1>2. \A v \in 0 .. TbNum : Offset(all, q, v) = RunningSum(f, v)
  BY DEF Offset
<1> HIDE DEF f
<1>3. \A v \in 0 .. TbNum : RunningSum(f, v) \in Nat
  BY <1>1, TbNumType, RunningSumType
<1>4. ASSUME NEW w \in WorkerIds, NEW v \in 0 .. TbNum, w < v
      PROVE  RunningSum(f, w) + f[w] =< RunningSum(f, v)
  <2>1. w \in Nat /\ w + 1 \in 0 .. TbNum /\ w + 1 =< v
    BY <1>4, TbNumType DEF WorkerIds
  <2>2. RunningSum(f, w + 1) = RunningSum(f, w) + f[w]
    BY <2>1, RunningSumStep
  <2>3. RunningSum(f, w + 1) =< RunningSum(f, v)
    BY <1>1, <2>1, TbNumType, RunningSumGrows
  <2> QED
    BY <2>2, <2>3
<1>5. \A w \in WorkerIds : w \in 0 .. TbNum - 1 /\ w \in 0 .. TbNum
  BY TbNumType DEF WorkerIds
<1> QED
  BY <1>1, <1>2, <1>3, <1>4, <1>5

\* And those of the ranks too.
LEMMA DisplsStep ==
  ASSUME NEW all, Sized(all)
  PROVE  /\ \A q \in Ranks : Displs(all, q) \in Nat /\ RecvCount(all, q) \in Nat
         /\ \A p, q \in Ranks : p < q => Displs(all, p) + RecvCount(all, p) =< Displs(all, q)
<1> DEFINE f == [p \in Ranks |-> RecvCount(all, p)]
<1>0. NRanks \in Nat /\ Ranks = 0 .. NRanks - 1
  BY RanksAssumption DEF Ranks
<1>1. \A p \in 0 .. NRanks - 1 : f[p] = RecvCount(all, p) /\ f[p] \in Nat
  <2>1. TbNum \in 0 .. TbNum
    BY TbNumType
  <2> QED
    BY <1>0, <2>1, OffsetStep DEF RecvCount
<1>2. \A q \in Ranks : Displs(all, q) = RunningSum(f, q)
  BY DEF Displs
<1> HIDE DEF f
<1>3. \A q \in 0 .. NRanks : RunningSum(f, q) \in Nat
  BY <1>0, <1>1, RunningSumType
<1>4. ASSUME NEW p \in Ranks, NEW q \in Ranks, p < q
      PROVE  RunningSum(f, p) + f[p] =< RunningSum(f, q)
  <2>1. p \in Nat /\ p + 1 \in 0 .. NRanks /\ p + 1 =< q /\ q \in 0 .. NRanks
    BY <1>0, <1>4
  <2>2. RunningSum(f, p + 1) = RunningSum(f, p) + f[p]
    BY <2>1, RunningSumStep
  <2>3. RunningSum(f, p + 1) =< RunningSum(f, q)
    BY <1>0, <1>1, <2>1, RunningSumGrows
  <2> QED
    BY <2>2, <2>3
<1>5. \A q \in Ranks : q \in 0 .. NRanks - 1 /\ q \in 0 .. NRanks
  BY <1>0
<1> QED
  BY <1>1, <1>2, <1>3, <1>4, <1>5

\* No byte of an address is written where another one is.
LEMMA PositionsDiffer ==
  ASSUME NEW all, Sized(all),
         NEW q \in Ranks, NEW w \in WorkerIds, NEW i \in 0 .. all[q * TbNum + w] - 1,
         NEW p \in Ranks, NEW v \in WorkerIds, NEW j \in 0 .. all[p * TbNum + v] - 1,
         Position(all, <<q, w, i>>) = Position(all, <<p, v, j>>)
  PROVE  q = p /\ w = v /\ i = j
<1> DEFINE D(r) == Displs(all, r)
           R(r) == RecvCount(all, r)
           O(r, u) == Offset(all, r, u)
           L(r, u) == all[r * TbNum + u]
<1>1. D(q) + O(q, w) + i = D(p) + O(p, v) + j
  BY DEF Position
<1>2. \A r \in Ranks : D(r) \in Nat /\ R(r) \in Nat
  BY DisplsStep
<1>3. \A r, r1 \in Ranks : r < r1 => D(r) + R(r) =< D(r1)
  BY DisplsStep
<1>4. \A r \in Ranks : \A u \in WorkerIds :
        O(r, u) \in Nat /\ L(r, u) \in Nat /\ O(r, u) + L(r, u) =< R(r)
  <2>1. ASSUME NEW r \in Ranks, NEW u \in WorkerIds
        PROVE  O(r, u) \in Nat /\ L(r, u) \in Nat /\ O(r, u) + L(r, u) =< R(r)
    <3>1. u \in 0 .. TbNum /\ TbNum \in 0 .. TbNum /\ u < TbNum
      BY TbNumType DEF WorkerIds
    <3>2. L(r, u) \in Nat
      BY IndexInRange DEF Sized
    <3> QED
      BY <3>1, <3>2, OffsetStep DEF RecvCount
  <2> QED
    BY <2>1
<1>5. \A r \in Ranks : \A u, u1 \in WorkerIds : u < u1 => O(r, u) + L(r, u) =< O(r, u1)
  <2>1. \A u \in WorkerIds : u \in 0 .. TbNum
    BY TbNumType DEF WorkerIds
  <2> QED
    BY <2>1, OffsetStep
<1>6. i \in Nat /\ i < L(q, w) /\ j \in Nat /\ j < L(p, v)
  BY <1>4
<1>7. q \in Int /\ p \in Int /\ w \in Int /\ v \in Int
  BY DEF Ranks, WorkerIds
<1> HIDE DEF D, R, O, L
<1>8. CASE q < p
  <2>1. D(q) + R(q) =< D(p) /\ O(q, w) + L(q, w) =< R(q) /\ O(p, v) \in Nat
    BY <1>3, <1>4, <1>8
  <2> QED
    BY <1>1, <1>2, <1>4, <1>6, <2>1
<1>9. CASE p < q
  <2>1. D(p) + R(p) =< D(q) /\ O(p, v) + L(p, v) =< R(p) /\ O(q, w) \in Nat
    BY <1>3, <1>4, <1>9
  <2> QED
    BY <1>1, <1>2, <1>4, <1>6, <2>1
<1>10. CASE q = p
  <2>1. O(q, w) + i = O(q, v) + j
    BY <1>1, <1>2, <1>4, <1>6, <1>10
  <2>2. ~(w < v)
    <3>1. w < v => O(q, w) + L(q, w) =< O(q, v)
      BY <1>5
    <3> QED
      BY <1>4, <1>6, <2>1, <3>1
  <2>3. ~(v < w)
    <3>1. v < w => O(q, v) + L(q, v) =< O(q, w)
      BY <1>5
    <3> QED
      BY <1>4, <1>6, <1>10, <2>1, <3>1
  <2>4. w = v
    BY <1>7, <2>2, <2>3
  <2> QED
    BY <1>4, <1>6, <1>10, <2>1, <2>4
<1> QED
  BY <1>7, <1>8, <1>9, <1>10

\* What a rank reads as the address of worker w of rank q is that address.
LEMMA AddressFound ==
  ASSUME NEW all, Sized(all), NEW q \in Ranks, NEW w \in WorkerIds
  PROVE  AddressAt(all, Displs(all, q) + Offset(all, q, w)) = <<q, w>>
<1> DEFINE o == Displs(all, q) + Offset(all, q, w)
           there == {x \in Workers : Position(all, <<x[1], x[2], 0>>) = o}
           lost == {y \in Bytes(all) : \E z \in Bytes(all) \ {y} : Position(all, y) = Position(all, z)}
<1>1. ASSUME NEW y \in Bytes(all)
      PROVE  \E r \in Ranks : \E u \in WorkerIds : \E i \in 0 .. all[r * TbNum + u] - 1 :
               y = <<r, u, i>>
  BY DEF Bytes, Workers
<1>2. lost = {}
  <2>1. ASSUME NEW y \in Bytes(all), NEW z \in Bytes(all), Position(all, y) = Position(all, z)
        PROVE  y = z
    <3>1. PICK r \in Ranks, u \in WorkerIds : \E i \in 0 .. all[r * TbNum + u] - 1 : y = <<r, u, i>>
      BY <1>1
    <3>2. PICK i \in 0 .. all[r * TbNum + u] - 1 : y = <<r, u, i>>
      BY <3>1
    <3>3. PICK p \in Ranks, v \in WorkerIds : \E j \in 0 .. all[p * TbNum + v] - 1 : z = <<p, v, j>>
      BY <1>1
    <3>4. PICK j \in 0 .. all[p * TbNum + v] - 1 : z = <<p, v, j>>
      BY <3>3
    <3> QED
      BY <2>1, <3>2, <3>4, PositionsDiffer
  <2> QED
    BY <2>1
<1>3. \A x \in Workers : Position(all, <<x[1], x[2], 0>>) = Displs(all, x[1]) + Offset(all, x[1], x[2])
  <2>1. ASSUME NEW x \in Workers
        PROVE  Position(all, <<x[1], x[2], 0>>) = Displs(all, x[1]) + Offset(all, x[1], x[2])
    <3>1. x[1] \in Ranks /\ x[2] \in WorkerIds /\ x[2] \in 0 .. TbNum
      BY TbNumType DEF Workers, WorkerIds
    <3>2. Displs(all, x[1]) \in Nat /\ Offset(all, x[1], x[2]) \in Nat
      BY <3>1, DisplsStep, OffsetStep
    <3>3. Position(all, <<x[1], x[2], 0>>) = Displs(all, x[1]) + Offset(all, x[1], x[2]) + 0
      BY DEF Position
    <3> QED
      BY <3>2, <3>3
  <2> QED
    BY <2>1
<1>4. <<q, w>> \in there
  <2>1. <<q, w>> \in Workers
    BY DEF Workers
  <2> QED
    BY <1>3, <2>1
<1>5. ASSUME NEW x \in there PROVE x = <<q, w>>
  <2>1. PICK r \in Ranks, u \in WorkerIds : x = <<r, u>>
    BY DEF Workers
  <2>2. 0 \in 0 .. all[r * TbNum + u] - 1 /\ 0 \in 0 .. all[q * TbNum + w] - 1
    <3>1. all[r * TbNum + u] \in Nat \ {0} /\ all[q * TbNum + w] \in Nat \ {0}
      BY IndexInRange DEF Sized
    <3> QED
      BY <3>1
  <2>3. Position(all, <<r, u, 0>>) = Position(all, <<q, w, 0>>)
    BY <1>4, <2>1
  <2> HIDE DEF there, lost, o
  <2> QED
    BY <2>1, <2>2, <2>3, PositionsDiffer
<1>6. there = {<<q, w>>}
  BY <1>4, <1>5
<1>7. AddressAt(all, o) = IF \E x \in there : \A y \in lost : <<y[1], y[2]>> # x
        THEN CHOOSE x \in there : \A y \in lost : <<y[1], y[2]>> # x ELSE NoWorker
  BY DEF AddressAt
<1> HIDE DEF there, lost
<1>8. AddressAt(all, o) = <<q, w>>
  BY <1>2, <1>6, <1>7
<1> QED
  BY <1>8

LEMMA LengthsSized ==
  ASSUME \A r \in Ranks : lengths[r] \in [WorkerIds -> AddressLengths]
  PROVE  Sized(AllLengths)
<1> DEFINE t == TbNum  n == NRanks
<1>1. SUFFICES ASSUME NEW k \in 0 .. n * t - 1 PROVE AllLengths[k] \in Nat \ {0}
  BY DEF Sized
<1>2. AllLengths[k] = lengths[k \div t][k % t]
  BY DEF AllLengths
<1>3. t \in Nat /\ n \in Nat /\ Ranks = 0 .. n - 1 /\ WorkerIds = 0 .. t - 1
  BY TbNumType, RanksAssumption DEF Ranks, WorkerIds
<1> HIDE DEF t, n
<1>4. k \in Nat /\ k < n * t /\ t > 0
  BY <1>3
<1>5. k % t \in 0 .. t - 1 /\ k \div t \in Nat /\ k = (k \div t) * t + (k % t)
  BY <1>3, <1>4
<1>6. k \div t < n
  <2> DEFINE d == k \div t  m == k % t
  <2>1. d \in Nat /\ m \in 0 .. t - 1 /\ d * t + m < n * t
    BY <1>3, <1>4, <1>5
  <2> HIDE DEF d, m
  <2>2. SUFFICES ASSUME d >= n PROVE FALSE
    BY <1>3, <2>1 DEF d
  <2>3. d * t >= n * t
    BY <1>3, <1>4, <2>1, <2>2
  <2>4. d * t \in Nat /\ n * t \in Nat
    BY <1>3, <2>1
  <2> QED
    BY <2>1, <2>3, <2>4
<1>7. k \div t \in Ranks /\ k % t \in WorkerIds
  BY <1>3, <1>5, <1>6
<1>8. lengths[k \div t][k % t] \in AddressLengths
  BY <1>7
<1> QED
  BY <1>2, <1>8, LengthsAssumption

-----------------------------------------------------------------------------
(* The endpoints. *)

\* Once a rank has built its table, it has every address where it looks; an
\* endpoint is to the peer.
Gathered(r) ==
  /\ main[r] = "gather" => lengths[r] \in [WorkerIds -> AddressLengths]
  /\ main[r] \in {"buffers", "started"} =>
       \A q \in Ranks : \A w \in WorkerIds : table[r][q][w] = <<q, w>>

Linked(th) == ep[th] # Unconnected => th \in DOMAIN Peer /\ ep[th] = Peer[th]

SetupInv ==
  /\ main \in [Ranks -> {"workers", "gather", "buffers", "started"}]
  /\ lengths \in [Ranks -> {<<>>} \cup [WorkerIds -> AddressLengths]]
  /\ DOMAIN ep = Threads
  /\ \A r \in Ranks : Gathered(r)
  /\ \A th \in Threads : Linked(th)

LEMMA InitSetupInv == SetupInit => SetupInv
  BY DEF SetupInit, SetupInv, Gathered, Linked

\* The tb that connect_to_peer takes is the peer.
LEMMA FirstIsPeer ==
  ASSUME NEW th \in Threads, NEW t \in PeerTb(th), \A u \in PeerTb(th) : t =< u,
         Block(th).send \in Ranks
  PROVE  /\ t \in WorkerIds
         /\ th \in DOMAIN Peer /\ Peer[th] = <<Block(th).send, t>>
<1> DEFINE r == Block(th).send
           C == PeerCandidates(th)
<1>0. r \in Ranks /\ Sched[r].tbs \in Seq(ThreadBlock)
  BY SchedAssumption DEF Rank
<1>1. t \in 0 .. Len(Sched[r].tbs) - 1 /\ t \in Nat
  BY DEF PeerTb
<1>2. t \in WorkerIds
  <2>1. Len(Sched[r].tbs) =< TbNum /\ Len(Sched[r].tbs) \in Nat
    BY <1>0, TbNumAssumption
  <2> QED
    BY <1>1, <2>1, TbNumType DEF WorkerIds
<1>3. <<r, t>> \in C
  <2>1. <<r, t>> \in Threads
    BY <1>0, <1>1 DEF Threads
  <2> QED
    BY <2>1 DEF PeerTb, PeerCandidates
<1>4. ASSUME NEW q \in C
      PROVE  /\ q = <<r, q[2]>> /\ q[2] \in PeerTb(th) /\ q[2] \in Nat
  <2>1. q \in Threads /\ q[1] = r /\ Block(q).recv = th[1] /\ Block(q).chan = Block(th).chan
    BY DEF PeerCandidates
  <2>2. PICK r1 \in Ranks : q \in {<<r1, u>> : u \in 0 .. Len(Sched[r1].tbs) - 1}
    BY <2>1 DEF Threads
  <2>3. PICK u \in 0 .. Len(Sched[r1].tbs) - 1 : q = <<r1, u>>
    BY <2>2
  <2>4. r1 = r /\ q[2] = u
    BY <2>1, <2>3
  <2> QED
    BY <2>1, <2>3, <2>4 DEF PeerTb
<1>5. th \in DOMAIN Peer /\ Peer[th] = CHOOSE q \in C : \A p \in C : q[2] =< p[2]
  BY <1>3 DEF Peer
<1> HIDE DEF C, r
<1>6. \A p \in C : <<r, t>>[2] =< p[2]
  BY <1>4
<1>7. Peer[th] \in C /\ \A p \in C : Peer[th][2] =< p[2]
  BY <1>3, <1>5, <1>6
<1>8. Peer[th][2] =< t /\ t =< Peer[th][2] /\ Peer[th][2] \in Nat /\ Peer[th] = <<r, Peer[th][2]>>
  <2>1. Peer[th][2] =< <<r, t>>[2]
    BY <1>3, <1>7
  <2> QED
    BY <1>4, <1>7, <2>1
<1>9. Peer[th] = <<r, t>>
  BY <1>1, <1>8
<1> QED
  BY <1>2, <1>5, <1>9 DEF r

LEMMA NextSetupInv ==
  ASSUME PeersFound, SetupInv, [SetupNext]_allVars
  PROVE  SetupInv'
<1> USE DEF SetupInv
<1>1. ASSUME NEW r \in Ranks, InitWorkers(r) PROVE SetupInv'
  <2>1. PICK l \in [WorkerIds -> AddressLengths] : lengths' = [lengths EXCEPT ![r] = l]
    BY <1>1 DEF InitWorkers
  <2>2. main' = [main EXCEPT ![r] = "gather"] /\ table' = table /\ ep' = ep
    BY <1>1 DEF InitWorkers
  <2>3. ASSUME NEW q \in Ranks PROVE Gathered(q)'
    BY <2>1, <2>2 DEF Gathered
  <2> QED
    BY <2>1, <2>2, <2>3 DEF Linked
<1>2. ASSUME NEW r \in Ranks, StartThreads(r) PROVE SetupInv'
  <2>1. /\ main[r] = "buffers" /\ main' = [main EXCEPT ![r] = "started"]
        /\ lengths' = lengths /\ table' = table /\ ep' = ep
    BY <1>2 DEF StartThreads
  <2>2. ASSUME NEW q \in Ranks PROVE Gathered(q)'
    BY <2>1 DEF Gathered
  <2> QED
    BY <2>1, <2>2 DEF Linked
<1>3. CASE AllgatherAddresses
  <2> DEFINE all == AllLengths
  <2>1. /\ table' = [r \in Ranks |-> [q \in Ranks |-> [w \in WorkerIds |->
                        AddressAt(all, Displs(all, q) + Offset(all, q, w))]]]
        /\ lengths' = [r \in Ranks |-> <<>>]
        /\ main' = [r \in Ranks |-> "buffers"]
        /\ ep' = ep
    BY <1>3 DEF AllgatherAddresses
  <2>2. Sized(all)
    <3>1. \A r \in Ranks : lengths[r] \in [WorkerIds -> AddressLengths]
      BY <1>3 DEF AllgatherAddresses, Gathered
    <3> QED
      BY <3>1, LengthsSized
  <2> HIDE DEF all
  <2>3. ASSUME NEW r \in Ranks, NEW q \in Ranks, NEW w \in WorkerIds
        PROVE  table'[r][q][w] = <<q, w>>
    BY <2>1, <2>2, AddressFound
  <2>4. ASSUME NEW r \in Ranks PROVE Gathered(r)'
    BY <2>1, <2>3 DEF Gathered
  <2> QED
    BY <2>1, <2>4 DEF Linked
<1>4. ASSUME NEW th \in Threads, Connect(th) PROVE SetupInv'
  <2>1. /\ main[th[1]] = "started" /\ Block(th).send # -1
        /\ UNCHANGED <<main, lengths, table>>
    BY <1>4 DEF Connect
  <2>2. PeerCandidates(th) # {}
    BY <2>1 DEF PeersFound
  <2>3. PICK c \in Threads : /\ c[1] = Block(th).send /\ Block(c).recv = th[1]
                             /\ Block(c).chan = Block(th).chan
    BY <2>2 DEF PeerCandidates
  <2>4. c[1] \in Ranks /\ c[2] \in 0 .. Len(Sched[c[1]].tbs) - 1 /\ c = <<c[1], c[2]>>
    BY DEF Threads
  <2>5. c[2] \in PeerTb(th)
    BY <2>3, <2>4 DEF PeerTb
  <2>6. PICK t \in PeerTb(th) : /\ \A u \in PeerTb(th) : t =< u
                                /\ ep' = [ep EXCEPT ![th] = table[th[1]][Block(th).send][t]]
    BY <1>4, <2>5 DEF Connect
  <2>7. /\ t \in WorkerIds /\ th \in DOMAIN Peer /\ Peer[th] = <<Block(th).send, t>>
    BY <2>3, <2>4, <2>6, FirstIsPeer
  <2>8. th[1] \in Ranks
    BY DEF Threads
  <2>9. table[th[1]][Block(th).send][t] = <<Block(th).send, t>>
    BY <2>1, <2>3, <2>4, <2>7, <2>8 DEF Gathered
  <2>10. ep'[th] = Peer[th] /\ \A q \in Threads \ {th} : ep'[q] = ep[q]
    BY <2>6, <2>7, <2>9
  <2>11. ASSUME NEW q \in Threads PROVE Linked(q)'
    BY <2>7, <2>10 DEF Linked
  <2>12. ASSUME NEW r \in Ranks PROVE Gathered(r)'
    BY <2>1 DEF Gathered
  <2> QED
    BY <2>1, <2>6, <2>11, <2>12
<1>5. ASSUME UNCHANGED setupVars PROVE SetupInv'
  BY <1>5 DEF setupVars, Gathered, Linked
<1> QED
  BY <1>1, <1>2, <1>3, <1>4, <1>5 DEF SetupNext, Execute, allVars

\* Whatever the lengths of the addresses that the ranks have exchanged, each
\* thread is connected to the tb that receives from it, and to that of no
\* other thread (EndpointsRight), where every sending tb is received from, by
\* a tb of its own.
THEOREM EndpointsAreRight ==
  ASSUME PeersFound, MessagesPaired
  PROVE  SetupSpec => []EndpointsRight
<1>1. SetupInv => EndpointsRight
  <2> SUFFICES ASSUME SetupInv, NEW th \in Threads, ep[th] # Unconnected
               PROVE  /\ ep[th] = Peer[th]
                      /\ \A q \in Threads \ {th} : ep[q] # ep[th]
    BY DEF EndpointsRight
  <2>1. th \in DOMAIN Peer /\ ep[th] = Peer[th]
    BY DEF SetupInv, Linked
  <2>2. ASSUME NEW q \in Threads \ {th}, ep[q] = ep[th] PROVE FALSE
    <3>1. q \in DOMAIN Peer /\ ep[q] = Peer[q]
      BY <2>2 DEF SetupInv, Linked
    <3> QED
      BY <2>1, <2>2, <3>1 DEF MessagesPaired
  <2> QED
    BY <2>1, <2>2
<1> QED
  BY <1>1, InitSetupInv, NextSetupInv, PTL DEF SetupSpec
=============================================================================
