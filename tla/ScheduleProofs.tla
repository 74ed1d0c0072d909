--------------------------- MODULE ScheduleProofs ---------------------------
(* What the conditions of Schedule on a schedule are good for: theorems     *)
(* about the chunks and the messages of Interpreter, for every schedule     *)
(* that meets them.                                                         *)
EXTENDS InterpreterProofs, Contents, WellFoundedInduction

-----------------------------------------------------------------------------
(* The dependencies of a schedule order what its threads do. *)

\* A step that has started has all that comes before it behind it.
LEMMA BeforeIsCompleted ==
  ASSUME TypeOK, NEW B, OrderIn(B), NEW p, NEW q \in Places, Started(B, q), Before(p, q)
  PROVE  Completed(B, p)
<1> DEFINE C == {x \in Places : x[1][1] = q[1][1] /\ Completed(B, x)}
<1>1. ASSUME NEW x \in Places, x[1][1] = q[1][1], Started(B, x)
      PROVE  Predecessors(x) \subseteq C
  <2>1. ASSUME NEW s \in 0 .. x[2] - 1 PROVE <<x[1], s>> \in C
    <3>1. x[1] \in Threads /\ x[2] \in Nat /\ x[2] < NSteps(x[1]) /\ NSteps(x[1]) \in Nat
      BY PlaceFacts, ThreadFacts
    <3>2. <<x[1], s>> \in Places
      BY <3>1, IsPlace
    <3>3. step[x[1]] > s /\ x[1] \in B
      BY <1>1, <3>1 DEF Started, Entered, TypeOK
    <3> QED
      BY <1>1, <3>2, <3>3 DEF Completed, Passed
  <2>2. x \in Waits => DepKey(x) \in C
    <3>1. x \in Waits => DepKey(x) \in Places /\ Completed(B, DepKey(x))
      BY <1>1, KeyFacts DEF OrderIn
    <3>2. DepKey(x)[1][1] = x[1][1]
      BY DEF DepKey
    <3> QED
      BY <1>1, <3>1, <3>2
  <2> HIDE DEF C
  <2> QED
    BY <2>1, <2>2 DEF Predecessors
<1>2. \A x \in C : Started(B, x)
  BY DEF Started, Completed, Entered, Passed
<1>3. Predecessors(q) \subseteq C /\ \A x \in C : Predecessors(x) \subseteq C
  BY <1>1, <1>2
<1>4. C \in SUBSET {x \in Places : x[1][1] = q[1][1]}
  OBVIOUS
<1>5. p \in C
  <2> HIDE DEF C
  <2> QED
    BY <1>3, <1>4 DEF Before
<1> QED
  BY <1>5

LEMMA BeforeIsPassed ==
  ASSUME TypeOK, DependencyOrder, NEW p, NEW q \in Places, Entered(q), Before(p, q)
  PROVE  Passed(p)
<1>1. OrderIn(Threads) /\ Started(Threads, q)
  BY AllBegun, PlaceFacts DEF Started
<1> QED
  BY <1>1, BeforeIsCompleted DEF Completed

\* The place of a thread that accesses chunks: it has started its step and
\* has not completed it.
LEMMA AccessIsHere ==
  ASSUME TypeOK, NEW th \in Threads, pc[th] \in {"op", "data", "fwd"}
  PROVE  /\ Here(th) \in Places /\ Here(th)[1] = th
         /\ Entered(Here(th)) /\ ~Passed(Here(th))
BY HereIsPlace DEF Entered, Passed, Here

\* Two threads that access a chunk, of which one writes it, are at steps of
\* which one comes before the other, and that is completed.
LEMMA NoRace ==
  ASSUME ConflictsOrdered, TypeOK, NEW B, OrderIn(B),
         \A th \in Threads : pc[th] \in {"op", "data", "fwd"} => th \in B
  PROVE  RaceFree
<1> SUFFICES ASSUME NEW a \in Threads, NEW b \in Threads, a # b,
                    WritesNow(a) \cap (ReadsNow(b) \cup WritesNow(b)) # {}
             PROVE  FALSE
  BY DEF RaceFree
<1>1. pc[a] \in {"op", "data", "fwd"} /\ pc[b] \in {"op", "data", "fwd"}
  BY DEF WritesNow, ReadsNow
<1>2. /\ WritesNow(a) \subseteq Writes[Here(a)]
      /\ ReadsNow(b) \cup WritesNow(b) \subseteq Reads[Here(b)] \cup Writes[Here(b)]
  BY DEF WritesNow, ReadsNow
<1>3. Writes[Here(a)] \cap (Reads[Here(b)] \cup Writes[Here(b)]) # {}
  BY <1>2
<1>4. Before(Here(a), Here(b)) \/ Before(Here(b), Here(a))
  BY <1>1, <1>3, AccessIsHere DEF ConflictsOrdered
<1>5. Started(B, Here(a)) /\ Started(B, Here(b))
  BY <1>1, AccessIsHere DEF Started
<1>6. ~Completed(B, Here(a)) /\ ~Completed(B, Here(b))
  BY <1>1, AccessIsHere DEF Completed
<1> QED
  BY <1>1, <1>4, <1>5, <1>6, AccessIsHere, BeforeIsCompleted

\* If the dependencies of the schedule order the steps of a rank that conflict
\* (ConflictsOrdered), no two of its threads ever access a chunk at the same
\* time with one of them writing it (RaceFree): the semaphores of sem_hash are
\* all the synchronisation that chunks need, whatever messages do.
THEOREM ChunksAreRaceFree == ASSUME ConflictsOrdered PROVE Spec => []RaceFree
<1>1. TypeOK /\ DependencyOrder => RaceFree
  BY AllBegun, NoRace
<1> QED
  BY <1>1, TypeCorrect, DependenciesOrdered, PTL
-----------------------------------------------------------------------------
(* The schedule. *)

LEMMA SmallestNat ==
  ASSUME NEW N \in SUBSET Nat, N # {}
  PROVE  \E n \in N : \A m \in N : n =< m
<1> DEFINE R == StrictSubsetOrdering(Nat)
           F == FiniteSubsetsOf(Nat)
           T == {0 .. n : n \in N}
<1>1. IsWellFoundedOn(R, F)
  BY FS_StrictSubsetOrderingWellFounded
<1>2. T \subseteq F
  <2>1. \A n \in N : IsFiniteSet(0 .. n) /\ 0 .. n \in SUBSET Nat
    BY FS_Interval
  <2> QED
    BY <2>1 DEF FiniteSubsetsOf
<1>3. T # {}
  OBVIOUS
<1>4. PICK x \in T : \A y \in T : ~ (<<y, x>> \in R)
  <2> HIDE DEF R, F, T
  <2> QED
    BY <1>1, <1>2, <1>3, WFMin
<1>5. PICK n \in N : x = 0 .. n
  BY <1>4
<1>6. ASSUME NEW m \in N PROVE n =< m
  <2>1. ~ (<<0 .. m, 0 .. n>> \in R)
    BY <1>4, <1>5
  <2>2. 0 .. m \in SUBSET Nat /\ 0 .. n \in SUBSET Nat
    OBVIOUS
  <2>3. ~ (0 .. m \subseteq 0 .. n /\ 0 .. m # 0 .. n)
    BY <2>1, <2>2 DEF StrictSubsetOrdering
  <2>4. CASE m < n
    <3>1. 0 .. m \subseteq 0 .. n /\ n \in 0 .. n /\ n \notin 0 .. m
      BY <2>4
    <3> QED
      BY <2>3, <3>1
  <2> QED
    BY <2>4
<1> QED
  BY <1>6

\* connect_to_peer finds a thread.
LEMMA PeerIsThread ==
  ASSUME NEW q \in DOMAIN Peer
  PROVE  q \in Threads /\ Peer[q] \in Threads
<1>1. q \in Threads /\ PeerCandidates(q) # {} /\ PeerCandidates(q) \subseteq Threads
  BY DEF Peer, PeerCandidates
<1>2. PICK s \in PeerCandidates(q) : \A r \in PeerCandidates(q) : s[2] =< r[2]
  <2> DEFINE N == {p[2] : p \in PeerCandidates(q)}
  <2>1. N \in SUBSET Nat /\ N # {}
    BY <1>1, ThreadFacts
  <2>2. PICK n \in N : \A m \in N : n =< m
    <3> HIDE DEF N
    <3> QED
      BY <2>1, SmallestNat
  <2> QED
    BY <2>2
<1>3. Peer[q] = CHOOSE p \in PeerCandidates(q) : \A r \in PeerCandidates(q) : p[2] =< r[2]
  BY DEF Peer
<1> QED
  BY <1>1, <1>2, <1>3

-----------------------------------------------------------------------------
(* Messages, counted for each sender and each tag. *)

\* A step whose send has been posted, and one whose receive has matched.
HasSent(p)     == Passed(p) \/ (p[2] = step[p[1]] /\ pc[p[1]] = "post")
HasReceived(p) == Passed(p) \/ (p[2] = step[p[1]] /\ pc[p[1]] \in {"data", "fwd", "post"})

SentFor(q, t)      == {p \in Sends(q, t) : HasSent(p)}
ReceivedFor(th, t) == {p \in Receives(th, t) : HasReceived(p)}

\* The requests of a thread with a tag, and those that have been matched.
Posted(q, t) == {k \in DOMAIN reqs[q] : reqs[q][k].tag = t}
Gone(q, t)   == {k \in Posted(q, t) : reqs[q][k].taken}

\* Each request belongs to a step that has sent (or would have, had its
\* receive not failed), and each message that is gone to a step that matched.
CountInv ==
  /\ TypeOK
  /\ \A q \in Threads : \A t \in Int :
       /\ Cardinality(Posted(q, t)) =< Cardinality(SentFor(q, t))
       /\ ~RecvMayFail => Cardinality(Posted(q, t)) = Cardinality(SentFor(q, t))
  /\ \A q \in DOMAIN Peer : \A t \in Int :
       Cardinality(Gone(q, t)) = Cardinality(ReceivedFor(Peer[q], t))

\* The n-th request of a tag is that of the n-th step that sends it.
MeantBy(q, t, k, s) ==
  /\ Cardinality({j \in Posted(q, t) : j < k}) = NumberIn(Sends(q, t), s)
  /\ reqs[q][k].dst = StepAt(s).dstbuf
  /\ Len(reqs[q][k].data) = StepAt(s).cnt

\* Without failures, messages of a tag are matched in the order of the steps.
QueueOrder ==
  \A q \in Threads, t \in Int : \A k \in Posted(q, t) :
    /\ reqs[q][k].state \notin {"error", "failed"}
    /\ \E s \in Sends(q, t) : MeantBy(q, t, k, s)
    /\ reqs[q][k].taken => \A j \in Posted(q, t) : j < k => reqs[q][j].taken

OrderInv == CountInv /\ QueueOrder /\ ReceiveMatchesSend

LEMMA FiniteCounts ==
  ASSUME TypeOK, NEW q \in Threads, NEW t
  PROVE  /\ IsFiniteSet(Sends(q, t)) /\ IsFiniteSet(SentFor(q, t))
         /\ IsFiniteSet(Receives(q, t)) /\ IsFiniteSet(ReceivedFor(q, t))
         /\ IsFiniteSet(Posted(q, t)) /\ IsFiniteSet(Gone(q, t))
<1>1. Sends(q, t) \subseteq Places /\ Receives(q, t) \subseteq Places
  BY DEF Sends, Receives
<1>2. IsFiniteSet(Sends(q, t)) /\ IsFiniteSet(Receives(q, t))
  BY <1>1, PlacesFinite, FS_Subset
<1>3. IsFiniteSet(SentFor(q, t)) /\ IsFiniteSet(ReceivedFor(q, t))
  <2>1. SentFor(q, t) \subseteq Sends(q, t) /\ ReceivedFor(q, t) \subseteq Receives(q, t)
    BY DEF SentFor, ReceivedFor
  <2> QED
    BY <1>2, <2>1, FS_Subset
<1>4. DOMAIN reqs[q] = 1 .. Len(reqs[q]) /\ Len(reqs[q]) \in Nat
  BY DEF TypeOK
<1>5. IsFiniteSet(DOMAIN reqs[q])
  BY <1>4, FS_Interval
<1>6. IsFiniteSet(Posted(q, t)) /\ IsFiniteSet(Gone(q, t))
  <2>1. Posted(q, t) \subseteq DOMAIN reqs[q] /\ Gone(q, t) \subseteq DOMAIN reqs[q]
    BY DEF Posted, Gone
  <2> QED
    BY <1>5, <2>1, FS_Subset
<1> QED
  BY <1>2, <1>3, <1>6

\* What a thread that moves within its step, and one that completes it, has
\* sent and received.
LEMMA WithinStep ==
  ASSUME TypeOK, NEW th \in Threads, NEW v, step' = step, pc' = [pc EXCEPT ![th] = v]
  PROVE  \A p \in Places :
           /\ p # Here(th) => /\ HasSent(p)' <=> HasSent(p)
                              /\ HasReceived(p)' <=> HasReceived(p)
           /\ p = Here(th) => /\ HasSent(p) <=> pc[th] = "post"
                              /\ HasSent(p)' <=> v = "post"
                              /\ HasReceived(p) <=> pc[th] \in {"data", "fwd", "post"}
                              /\ HasReceived(p)' <=> v \in {"data", "fwd", "post"}
<1> SUFFICES ASSUME NEW p \in Places
             PROVE  /\ p # Here(th) => /\ HasSent(p)' <=> HasSent(p)
                                       /\ HasReceived(p)' <=> HasReceived(p)
                    /\ p = Here(th) => /\ HasSent(p) <=> pc[th] = "post"
                                       /\ HasSent(p)' <=> v = "post"
                                       /\ HasReceived(p) <=> pc[th] \in {"data", "fwd", "post"}
                                       /\ HasReceived(p)' <=> v \in {"data", "fwd", "post"}
  OBVIOUS
<1>1. p = <<p[1], p[2]>> /\ p[1] \in Threads
  BY PlaceFacts
<1>2. pc'[th] = v /\ \A q \in Threads : q # th => pc'[q] = pc[q]
  BY DEF TypeOK
<1>3. step[th] \in Nat
  BY DEF TypeOK
<1>4. CASE p[1] = th /\ p[2] = step[th]
  BY <1>1, <1>2, <1>3, <1>4 DEF HasSent, HasReceived, Passed, Here
<1>5. CASE p[1] = th /\ p[2] # step[th]
  BY <1>1, <1>2, <1>3, <1>5 DEF HasSent, HasReceived, Passed, Here
<1>6. CASE p[1] # th
  BY <1>1, <1>2, <1>6 DEF HasSent, HasReceived, Passed, Here
<1> QED
  BY <1>4, <1>5, <1>6

LEMMA CompletedStep ==
  ASSUME TypeOK, NEW th \in Threads, Post(th)
  PROVE  \A p \in Places : /\ HasSent(p)' <=> HasSent(p)
                           /\ HasReceived(p)' <=> HasReceived(p)
<1> SUFFICES ASSUME NEW p \in Places
             PROVE  /\ HasSent(p)' <=> HasSent(p)
                    /\ HasReceived(p)' <=> HasReceived(p)
  OBVIOUS
<1>1. p[1] \in Threads /\ p[2] \in Nat
  BY PlaceFacts
<1>2. CASE p[1] = th
  <2>1. pc[th] = "post" /\ step[th] \in Nat /\ step'[th] = step[th] + 1
    BY DEF Post, TypeOK
  <2>2. step[th] < NSteps(th) /\ NSteps(th) \in Nat
    BY <2>1, ThreadFacts DEF TypeOK
  <2>3. pc'[th] \in {"dep", "op", "drain"}
    <3>1. pc'[th] = StartPc(th, step[th] + 1)
      BY DEF Post, TypeOK
    <3>2. step[th] + 1 \in Nat /\ step[th] + 1 =< NSteps(th)
      BY <2>1, <2>2
    <3> QED
      BY <3>1, <3>2, StartPcFacts
  <2> QED
    BY <1>1, <1>2, <2>1, <2>3 DEF HasSent, HasReceived, Passed
<1>3. CASE p[1] # th
  <2>1. pc'[p[1]] = pc[p[1]] /\ step'[p[1]] = step[p[1]]
    BY <1>1, <1>3 DEF Post, TypeOK
  <2> QED
    BY <2>1 DEF HasSent, HasReceived, Passed
<1> QED
  BY <1>2, <1>3

\* A move that neither sends nor receives leaves the places counted as they are.
LEMMA PlacesKept ==
  ASSUME \A p \in Places : /\ StepAt(p).type \in Forwarding \cup {"s"} =>
                                (HasSent(p)' <=> HasSent(p))
                           /\ StepAt(p).type \in Receiving =>
                                (HasReceived(p)' <=> HasReceived(p))
  PROVE  \A q, t : SentFor(q, t)' = SentFor(q, t) /\ ReceivedFor(q, t)' = ReceivedFor(q, t)
BY DEF SentFor, ReceivedFor, Sends, Receives

\* The requests keep what is counted of them, and the content of a message.
Kept(q) ==
  /\ DOMAIN reqs'[q] = DOMAIN reqs[q]
  /\ \A k \in DOMAIN reqs[q] : /\ reqs'[q][k].tag = reqs[q][k].tag
                               /\ reqs'[q][k].dst = reqs[q][k].dst
                               /\ reqs'[q][k].data = reqs[q][k].data
                               /\ reqs'[q][k].taken = reqs[q][k].taken

LEMMA CountsKept ==
  ASSUME NEW q, NEW t, Kept(q)
  PROVE  Posted(q, t)' = Posted(q, t) /\ Gone(q, t)' = Gone(q, t)
<1>1. Posted(q, t)' = Posted(q, t)
  BY DEF Kept, Posted
<1>3. \A k \in Posted(q, t) : k \in DOMAIN reqs[q]
  BY DEF Posted
<1>4. Gone(q, t)' = Gone(q, t)
  BY <1>1, <1>3 DEF Kept, Gone
<1> QED
  BY <1>1, <1>4

LEMMA CountKept ==
  ASSUME CountInv, TypeOK', \A q \in Threads : Kept(q),
         \A q, t : SentFor(q, t)' = SentFor(q, t) /\ ReceivedFor(q, t)' = ReceivedFor(q, t)
  PROVE  CountInv'
<1>1. ASSUME NEW q \in Threads, NEW t \in Int
      PROVE  Posted(q, t)' = Posted(q, t) /\ Gone(q, t)' = Gone(q, t)
  BY CountsKept
<1>2. \A q \in DOMAIN Peer : q \in Threads
  BY PeerIsThread
<1> QED
  BY <1>1, <1>2 DEF CountInv

\* A thread that posts a send has sent one step more.
LEMMA CountSend ==
  ASSUME CountInv, TypeOK', NEW th \in Threads, NEW b, NEW off, SendBlock(th, b, off),
         pc[th] \in {"op", "fwd"}, Cur(th).type \in Forwarding \cup {"s"},
         pc[th] = "op" => Cur(th).type \notin Receiving,
         step' = step, pc' = [pc EXCEPT ![th] = "post"]
  PROVE  CountInv'
<1> DEFINE tag == Cur(th).dstoff
           n == Len(reqs[th])
<1>1. TypeOK /\ Here(th) \in Places /\ Cur(th) \in Step /\ tag \in Int
  BY HereIsPlace DEF CountInv, Step
<1>2. /\ Len(reqs'[th]) = n + 1 /\ n \in Nat
      /\ \A k \in 1 .. n : reqs'[th][k] = reqs[th][k]
      /\ reqs'[th][n + 1].tag = tag /\ reqs'[th][n + 1].taken = FALSE
      /\ \A q \in Threads : q # th => reqs'[q] = reqs[q]
      /\ DOMAIN reqs[th] = 1 .. n /\ DOMAIN reqs'[th] = 1 .. n + 1
  <2>1. PICK result \in SendResults :
           reqs' = [reqs EXCEPT ![th] = Append(@,
                 [tag |-> Cur(th).dstoff, dst |-> Cur(th).dstbuf,
                  data |-> [i \in 1 .. Cur(th).cnt |-> buf[<<th[1], b, off + i - 1>>]],
                  state |-> result, taken |-> FALSE, done |-> FALSE])]
    BY DEF SendBlock
  <2> DEFINE r == [tag |-> Cur(th).dstoff, dst |-> Cur(th).dstbuf,
                   data |-> [i \in 1 .. Cur(th).cnt |-> buf[<<th[1], b, off + i - 1>>]],
                   state |-> result, taken |-> FALSE, done |-> FALSE]
  <2>2. reqs \in [Threads -> Seq(Request)] /\ reqs' \in [Threads -> Seq(Request)]
    BY <1>1 DEF TypeOK
  <2>3. reqs[th] \in Seq(Request) /\ reqs'[th] = Append(reqs[th], r)
    BY <2>1, <2>2
  <2>4. \A q \in Threads : q # th => reqs'[q] = reqs[q]
    BY <2>1, <2>2
  <2>5. r.tag = tag /\ r.taken = FALSE
    OBVIOUS
  <2> HIDE DEF r
  <2> QED
    BY <2>2, <2>3, <2>4, <2>5
<1>3. \A q \in Threads, t \in Int :
        /\ Posted(q, t)' = IF q = th /\ t = tag THEN Posted(q, t) \cup {n + 1}
                           ELSE Posted(q, t)
        /\ Gone(q, t)' = Gone(q, t)
  <2> SUFFICES ASSUME NEW q \in Threads, NEW t \in Int
               PROVE  /\ Posted(q, t)' = IF q = th /\ t = tag THEN Posted(q, t) \cup {n + 1}
                                         ELSE Posted(q, t)
                      /\ Gone(q, t)' = Gone(q, t)
    OBVIOUS
  <2>4. \A k : k \in 1 .. n + 1 <=> k \in 1 .. n \/ k = n + 1
    BY <1>2
  <2> HIDE DEF tag, n
  <2>1. CASE q # th
    BY <1>2, <2>1 DEF Posted, Gone
  <2>2. CASE q = th /\ t = tag
    <3>1. Posted(q, t)' = Posted(q, t) \cup {n + 1}
      BY <1>2, <2>2, <2>4 DEF Posted
    <3>2. Gone(q, t)' = Gone(q, t)
      BY <1>2, <2>2, <3>1 DEF Gone, Posted
    <3> QED
      BY <2>2, <3>1, <3>2
  <2>3. CASE q = th /\ t # tag
    <3>1. Posted(q, t)' = Posted(q, t)
      BY <1>2, <2>3, <2>4 DEF Posted
    <3>2. Gone(q, t)' = Gone(q, t)
      BY <1>2, <2>3, <3>1 DEF Gone, Posted
    <3> QED
      BY <2>3, <3>1, <3>2
  <2> QED
    BY <2>1, <2>2, <2>3
<1>4. \A p \in Places :
        /\ HasSent(p)' <=> HasSent(p) \/ p = Here(th)
        /\ StepAt(p).type \in Receiving => (HasReceived(p)' <=> HasReceived(p))
        /\ p = Here(th) => ~HasSent(p)
  <2>1. \A p \in Places :
           /\ p # Here(th) => /\ HasSent(p)' <=> HasSent(p)
                              /\ HasReceived(p)' <=> HasReceived(p)
           /\ p = Here(th) => /\ HasSent(p) <=> pc[th] = "post"
                              /\ HasSent(p)'
                              /\ HasReceived(p) <=> pc[th] \in {"data", "fwd", "post"}
                              /\ HasReceived(p)'
    BY <1>1, WithinStep
  <2> QED
    BY <2>1 DEF Cur
<1>5. \A q \in Threads, t \in Int :
        /\ SentFor(q, t)' = IF q = th /\ t = tag THEN SentFor(q, t) \cup {Here(th)}
                            ELSE SentFor(q, t)
        /\ ReceivedFor(q, t)' = ReceivedFor(q, t)
  BY <1>1, <1>4 DEF SentFor, ReceivedFor, Sends, Receives, Cur, Here
<1>6. Here(th) \notin SentFor(th, tag) /\ n + 1 \notin Posted(th, tag)
  BY <1>1, <1>2, <1>4 DEF SentFor, Posted
<1>7. /\ Cardinality(Posted(th, tag) \cup {n + 1}) = Cardinality(Posted(th, tag)) + 1
      /\ Cardinality(SentFor(th, tag) \cup {Here(th)}) = Cardinality(SentFor(th, tag)) + 1
      /\ Cardinality(Posted(th, tag)) \in Nat /\ Cardinality(SentFor(th, tag)) \in Nat
  <2>1. IsFiniteSet(Posted(th, tag)) /\ IsFiniteSet(SentFor(th, tag))
    BY <1>1, FiniteCounts
  <2> HIDE DEF tag, n
  <2> QED
    BY <1>6, <2>1, FS_AddElement, FS_CardinalityType
<1> HIDE DEF tag, n
<1>8. ASSUME NEW q \in Threads, NEW t \in Int
      PROVE  /\ Cardinality(Posted(q, t)') =< Cardinality(SentFor(q, t)')
             /\ ~RecvMayFail => Cardinality(Posted(q, t)') = Cardinality(SentFor(q, t)')
  <2>1. CASE q = th /\ t = tag
    <3>1. /\ Cardinality(Posted(th, tag)) =< Cardinality(SentFor(th, tag))
          /\ ~RecvMayFail => Cardinality(Posted(th, tag)) = Cardinality(SentFor(th, tag))
      BY <2>1 DEF CountInv
    <3>2. /\ Posted(q, t)' = Posted(th, tag) \cup {n + 1}
          /\ SentFor(q, t)' = SentFor(th, tag) \cup {Here(th)}
      BY <1>3, <1>5, <2>1
    <3> QED
      BY <1>7, <3>1, <3>2
  <2>2. CASE ~(q = th /\ t = tag)
    <3>1. Posted(q, t)' = Posted(q, t) /\ SentFor(q, t)' = SentFor(q, t)
      BY <1>3, <1>5, <2>2
    <3> QED
      BY <3>1 DEF CountInv
  <2> QED
    BY <2>1, <2>2
<1>9. ASSUME NEW q \in DOMAIN Peer, NEW t \in Int
      PROVE  Cardinality(Gone(q, t)') = Cardinality(ReceivedFor(Peer[q], t)')
  <2>1. Gone(q, t)' = Gone(q, t) /\ ReceivedFor(Peer[q], t)' = ReceivedFor(Peer[q], t)
    BY <1>3, <1>5, PeerIsThread
  <2> QED
    BY <2>1 DEF CountInv
<1> QED
  BY <1>8, <1>9 DEF CountInv

\* A thread that matches a message has received one step more.
LEMMA CountReceive ==
  ASSUME MessagesPaired, CountInv, TypeOK', NEW th \in Threads, Receive(th)
  PROVE  CountInv'
<1> DEFINE tag == Cur(th).dstoff
<1>1. TypeOK /\ Here(th) \in Places /\ Cur(th) \in Step /\ tag \in Int
  BY HereIsPlace DEF CountInv, Step, Receive
<1>2. PICK q \in Senders(th) : \E k \in DOMAIN reqs[q] :
         /\ FirstMatch(q, k, Cur(th).dstoff)
         /\ reqs[q][k].state = "ready"
         /\ reqs' = [reqs EXCEPT ![q][k].taken = TRUE]
  BY DEF Receive
<1>3. PICK k \in DOMAIN reqs[q] :
         /\ FirstMatch(q, k, Cur(th).dstoff)
         /\ reqs' = [reqs EXCEPT ![q][k].taken = TRUE]
  BY <1>2
<1>4. q \in DOMAIN Peer /\ Peer[q] = th /\ q \in Threads
  BY PeerIsThread DEF Senders
<1>5. reqs[q][k].tag = tag /\ ~reqs[q][k].taken
  BY <1>3 DEF FirstMatch, Matches
<1>6. /\ \A p \in Threads : DOMAIN reqs'[p] = DOMAIN reqs[p]
      /\ \A p \in Threads : \A j \in DOMAIN reqs[p] :
           /\ reqs'[p][j].tag = reqs[p][j].tag
           /\ reqs'[p][j].taken = IF p = q /\ j = k THEN TRUE ELSE reqs[p][j].taken
  <2>1. reqs[q] \in Seq(Request) /\ reqs[q][k] \in Request
    BY <1>1, <1>4 DEF TypeOK
  <2>2. \A p \in Threads : p # q => reqs'[p] = reqs[p]
    BY <1>1, <1>3 DEF TypeOK
  <2>3. /\ reqs'[q] = [reqs[q] EXCEPT ![k] = [reqs[q][k] EXCEPT !.taken = TRUE]]
        /\ DOMAIN reqs'[q] = DOMAIN reqs[q]
    BY <1>1, <1>3, <1>4 DEF TypeOK
  <2>4. reqs'[q][k] = [reqs[q][k] EXCEPT !.taken = TRUE]
    BY <2>1, <2>3
  <2>5. reqs'[q][k].tag = reqs[q][k].tag /\ reqs'[q][k].taken = TRUE
    BY <2>1, <2>4 DEF Request
  <2>6. \A j \in DOMAIN reqs[q] : j # k => reqs'[q][j] = reqs[q][j]
    BY <2>1, <2>3
  <2> QED
    BY <2>2, <2>3, <2>5, <2>6
<1>7. \A p \in Threads, t \in Int :
        /\ Posted(p, t)' = Posted(p, t)
        /\ Gone(p, t)' = IF p = q /\ t = tag THEN Gone(p, t) \cup {k} ELSE Gone(p, t)
  <2> SUFFICES ASSUME NEW p \in Threads, NEW t \in Int
               PROVE  /\ Posted(p, t)' = Posted(p, t)
                      /\ Gone(p, t)' = IF p = q /\ t = tag THEN Gone(p, t) \cup {k}
                                      ELSE Gone(p, t)
    OBVIOUS
  <2> HIDE DEF tag
  <2>1. Posted(p, t)' = Posted(p, t)
    BY <1>6 DEF Posted
  <2>2. \A j \in Posted(p, t) : j \in DOMAIN reqs[p]
    BY DEF Posted
  <2>3. CASE p = q /\ t = tag
    <3>1. k \in Posted(p, t)
      BY <1>5, <2>3 DEF Posted
    <3>2. \A j \in Posted(p, t) : reqs'[p][j].taken <=> reqs[p][j].taken \/ j = k
      BY <1>6, <2>2, <2>3
    <3>3. Gone(p, t)' = Gone(p, t) \cup {k}
      BY <2>1, <3>1, <3>2 DEF Gone
    <3> QED
      BY <2>1, <2>3, <3>3
  <2>4. CASE ~(p = q /\ t = tag)
    <3>1. p = q => k \notin Posted(p, t)
      BY <1>5, <2>4 DEF Posted
    <3>2. Gone(p, t)' = Gone(p, t)
      BY <1>6, <2>1, <2>2, <3>1 DEF Gone
    <3> QED
      BY <2>1, <2>4, <3>2
  <2> QED
    BY <2>3, <2>4
<1>8. Cur(th).type \in Receiving /\ pc[th] = "op" /\ step' = step /\ pc' = [pc EXCEPT ![th] = "data"]
  BY DEF Receive
<1>9. \A p \in Places :
        /\ HasSent(p)' <=> HasSent(p)
        /\ HasReceived(p)' <=> HasReceived(p) \/ p = Here(th)
        /\ p = Here(th) => ~HasReceived(p)
  <2>1. \A p \in Places :
           /\ p # Here(th) => /\ HasSent(p)' <=> HasSent(p)
                              /\ HasReceived(p)' <=> HasReceived(p)
           /\ p = Here(th) => /\ HasSent(p) <=> pc[th] = "post"
                              /\ HasSent(p)' <=> "data" = "post"
                              /\ HasReceived(p) <=> pc[th] \in {"data", "fwd", "post"}
                              /\ HasReceived(p)' <=> "data" \in {"data", "fwd", "post"}
    BY <1>1, <1>8, WithinStep
  <2> QED
    BY <1>8, <2>1
<1>10. \A p \in Threads, t \in Int :
         /\ SentFor(p, t)' = SentFor(p, t)
         /\ ReceivedFor(p, t)' = IF p = th /\ t = tag THEN ReceivedFor(p, t) \cup {Here(th)}
                                 ELSE ReceivedFor(p, t)
  BY <1>1, <1>8, <1>9 DEF SentFor, ReceivedFor, Sends, Receives, Cur, Here
<1>11. Here(th) \notin ReceivedFor(th, tag) /\ k \notin Gone(q, tag)
  BY <1>1, <1>5, <1>9 DEF ReceivedFor, Gone
<1>12. /\ Cardinality(Gone(q, tag) \cup {k}) = Cardinality(Gone(q, tag)) + 1
       /\ Cardinality(ReceivedFor(th, tag) \cup {Here(th)}) = Cardinality(ReceivedFor(th, tag)) + 1
  <2>1. IsFiniteSet(Gone(q, tag)) /\ IsFiniteSet(ReceivedFor(th, tag))
    BY <1>1, <1>4, FiniteCounts
  <2> HIDE DEF tag
  <2> QED
    BY <1>11, <2>1, FS_AddElement
<1> HIDE DEF tag
<1>13. ASSUME NEW p \in Threads, NEW t \in Int
       PROVE  /\ Cardinality(Posted(p, t)') =< Cardinality(SentFor(p, t)')
              /\ ~RecvMayFail => Cardinality(Posted(p, t)') = Cardinality(SentFor(p, t)')
  <2>1. Posted(p, t)' = Posted(p, t) /\ SentFor(p, t)' = SentFor(p, t)
    BY <1>7, <1>10
  <2> QED
    BY <2>1 DEF CountInv
<1>14. ASSUME NEW p \in DOMAIN Peer, NEW t \in Int
       PROVE  Cardinality(Gone(p, t)') = Cardinality(ReceivedFor(Peer[p], t)')
  <2>1. p \in Threads /\ Peer[p] \in Threads /\ (p = q <=> Peer[p] = th)
    BY <1>4, PeerIsThread DEF MessagesPaired
  <2>2. Cardinality(Gone(p, t)) = Cardinality(ReceivedFor(Peer[p], t))
    BY DEF CountInv
  <2>3. CASE p = q /\ t = tag
    <3>1. /\ Gone(p, t)' = Gone(q, tag) \cup {k}
          /\ ReceivedFor(Peer[p], t)' = ReceivedFor(th, tag) \cup {Here(th)}
      BY <1>7, <1>10, <2>1, <2>3
    <3> QED
      BY <1>12, <2>1, <2>2, <2>3, <3>1
  <2>4. CASE ~(p = q /\ t = tag)
    <3>1. /\ Gone(p, t)' = Gone(p, t)
          /\ ReceivedFor(Peer[p], t)' = ReceivedFor(Peer[p], t)
      BY <1>7, <1>10, <2>1, <2>4
    <3> QED
      BY <2>2, <3>1
  <2> QED
    BY <2>3, <2>4
<1> QED
  BY <1>13, <1>14 DEF CountInv

LEMMA CountInit == Init => CountInv
<1> SUFFICES ASSUME Init PROVE CountInv
  OBVIOUS
<1>1. TypeOK
  BY TypeInit
<1>2. \A p \in Places : ~HasSent(p) /\ ~HasReceived(p)
  <2> SUFFICES ASSUME NEW p \in Places PROVE ~HasSent(p) /\ ~HasReceived(p)
    OBVIOUS
  <2>1. p[1] \in Threads /\ p[2] \in Nat
    BY PlaceFacts
  <2>2. step[p[1]] = 0 /\ pc[p[1]] = StartPc(p[1], 0)
    BY <2>1 DEF Init
  <2>3. 0 \in Nat /\ 0 =< NSteps(p[1])
    BY <2>1, ThreadFacts
  <2>4. pc[p[1]] \in {"dep", "op", "drain"}
    BY <2>1, <2>2, <2>3, StartPcFacts
  <2> QED
    BY <2>1, <2>2, <2>4 DEF HasSent, HasReceived, Passed
<1>3. \A q, t : SentFor(q, t) = {} /\ ReceivedFor(q, t) = {}
  BY <1>2 DEF SentFor, ReceivedFor, Sends, Receives
<1>4. \A q \in Threads : \A t : Posted(q, t) = {} /\ Gone(q, t) = {}
  BY DEF Init, Posted, Gone
<1>5. Cardinality({}) = 0
  BY FS_EmptySet
<1>6. \A q \in Threads, t \in Int : Cardinality(Posted(q, t)) = 0 /\ Cardinality(SentFor(q, t)) = 0
  BY <1>3, <1>4, <1>5
<1>7. \A q \in DOMAIN Peer, t \in Int :
        Cardinality(Gone(q, t)) = 0 /\ Cardinality(ReceivedFor(Peer[q], t)) = 0
  BY <1>3, <1>4, <1>5, PeerIsThread
<1> QED
  BY <1>1, <1>6, <1>7 DEF CountInv

\* What the steps that neither send nor receive a message keep.
LEMMA FlushKeeps ==
  ASSUME TypeOK, NEW th \in Threads, Flush(th) \/ SendDone(th), NEW q \in Threads
  PROVE  /\ Kept(q)
         /\ \A j \in DOMAIN reqs[q] : reqs'[q][j].state \in {reqs[q][j].state, "ready"}
<1>1. PICK k \in DOMAIN reqs[th] : \/ reqs' = [reqs EXCEPT ![th][k].state = "ready"]
                                   \/ reqs' = [reqs EXCEPT ![th][k].done = TRUE]
  BY DEF Flush, SendDone
<1>2. reqs[th] \in Seq(Request) /\ reqs[th][k] \in Request
  BY DEF TypeOK
<1>3. q # th => reqs'[q] = reqs[q]
  BY <1>1 DEF TypeOK
<1>4. CASE q = th
  <2>1. DOMAIN reqs'[th] = DOMAIN reqs[th]
    BY <1>1, <1>2 DEF TypeOK
  <2>2. \A j \in DOMAIN reqs[th] : j # k => reqs'[th][j] = reqs[th][j]
    BY <1>1, <1>2 DEF TypeOK
  <2>3. \/ reqs'[th][k] = [reqs[th][k] EXCEPT !.state = "ready"]
        \/ reqs'[th][k] = [reqs[th][k] EXCEPT !.done = TRUE]
    BY <1>1, <1>2 DEF TypeOK
  <2>4. /\ reqs'[th][k].tag = reqs[th][k].tag
        /\ reqs'[th][k].dst = reqs[th][k].dst
        /\ reqs'[th][k].data = reqs[th][k].data
        /\ reqs'[th][k].taken = reqs[th][k].taken
        /\ reqs'[th][k].state \in {reqs[th][k].state, "ready"}
    BY <1>2, <2>3 DEF Request
  <2> QED
    BY <1>4, <2>1, <2>2, <2>4 DEF Kept
<1> QED
  BY <1>3, <1>4 DEF Kept

LEMMA FailKeeps ==
  ASSUME TypeOK, NEW th \in Threads, SendFails(th), NEW q \in Threads
  PROVE  Kept(q)
<1>1. PICK k \in DOMAIN reqs[th] :
        reqs' = [reqs EXCEPT ![th][k] = [@ EXCEPT !.state = "failed", !.done = TRUE]]
  BY DEF SendFails
<1>2. reqs[th] \in Seq(Request) /\ reqs[th][k] \in Request
  BY DEF TypeOK
<1>3. q # th => reqs'[q] = reqs[q]
  BY <1>1 DEF TypeOK
<1>4. CASE q = th
  <2>1. DOMAIN reqs'[th] = DOMAIN reqs[th]
    BY <1>1, <1>2 DEF TypeOK
  <2>2. \A j \in DOMAIN reqs[th] : j # k => reqs'[th][j] = reqs[th][j]
    BY <1>1, <1>2 DEF TypeOK
  <2>3. reqs'[th][k] = [reqs[th][k] EXCEPT !.state = "failed", !.done = TRUE]
    BY <1>1, <1>2 DEF TypeOK
  <2>4. /\ reqs'[th][k].tag = reqs[th][k].tag
        /\ reqs'[th][k].dst = reqs[th][k].dst
        /\ reqs'[th][k].data = reqs[th][k].data
        /\ reqs'[th][k].taken = reqs[th][k].taken
    BY <1>2, <2>3 DEF Request
  <2> QED
    BY <1>4, <2>1, <2>2, <2>4 DEF Kept
<1> QED
  BY <1>3, <1>4 DEF Kept

LEMMA CountNext == MessagesPaired /\ CountInv /\ [Next]_vars => CountInv'
<1> SUFFICES ASSUME MessagesPaired, CountInv, [Next]_vars PROVE CountInv'
  OBVIOUS
<1>1. TypeOK /\ TypeOK'
  BY TypeNext DEF CountInv
<1>2. ASSUME reqs' = reqs PROVE \A q \in Threads : Kept(q)
  BY <1>2 DEF Kept
<1>3. ASSUME NEW th \in Threads, DepWait(th) \/ Drain(th) PROVE CountInv'
  <2>1. PICK v \in {"op", "done"} : step' = step /\ pc' = [pc EXCEPT ![th] = v] /\ reqs' = reqs
    BY <1>3 DEF DepWait, Drain
  <2>2. pc[th] \in {"dep", "drain"}
    BY <1>3 DEF DepWait, Drain
  <2>3. \A p \in Places : (HasSent(p)' <=> HasSent(p)) /\ (HasReceived(p)' <=> HasReceived(p))
    BY <1>1, <2>1, <2>2, WithinStep
  <2> QED
    BY <1>1, <1>2, <2>1, <2>3, PlacesKept, CountKept
<1>4. ASSUME NEW th \in Threads, Send(th) PROVE CountInv'
  <2>1. /\ pc[th] = "op" /\ Cur(th).type = "s"
        /\ SendBlock(th, Cur(th).srcbuf, Cur(th).srcoff)
        /\ step' = step /\ pc' = [pc EXCEPT ![th] = "post"]
    BY <1>4 DEF Send
  <2>2. Cur(th).type \in Forwarding \cup {"s"} /\ Cur(th).type \notin Receiving
    BY <2>1 DEF Receiving
  <2> QED
    BY <1>1, <2>1, <2>2, CountSend
<1>5. ASSUME NEW th \in Threads, Forward(th) PROVE CountInv'
  <2>1. /\ pc[th] = "fwd" /\ SendBlock(th, Cur(th).dstbuf, Cur(th).dstoff)
        /\ step' = step /\ pc' = [pc EXCEPT ![th] = "post"]
    BY <1>5 DEF Forward
  <2>2. Cur(th).type \in Forwarding \cup {"s"}
    BY <1>1, <2>1 DEF TypeOK
  <2> QED
    BY <1>1, <2>1, <2>2, CountSend
<1>6. ASSUME NEW th \in Threads, Reduce(th) \/ Nop(th) PROVE CountInv'
  <2>1. step' = step /\ pc' = [pc EXCEPT ![th] = "post"] /\ reqs' = reqs
    BY <1>6 DEF Reduce, Nop
  <2>2. pc[th] = "op" /\ Cur(th).type \in {"re", "nop"}
    BY <1>6 DEF Reduce, Nop
  <2>3. StepAt(Here(th)).type \notin Receiving \cup Forwarding \cup {"s"}
    BY <2>2 DEF Cur, Receiving, Forwarding
  <2>4. \A p \in Places : p # Here(th) => /\ HasSent(p)' <=> HasSent(p)
                                          /\ HasReceived(p)' <=> HasReceived(p)
    BY <1>1, <2>1, WithinStep
  <2>5. \A p \in Places : /\ StepAt(p).type \in Forwarding \cup {"s"} =>
                                (HasSent(p)' <=> HasSent(p))
                          /\ StepAt(p).type \in Receiving =>
                                (HasReceived(p)' <=> HasReceived(p))
    BY <2>3, <2>4
  <2> QED
    BY <1>1, <1>2, <2>1, <2>5, PlacesKept, CountKept
<1>7. ASSUME NEW th \in Threads, Receive(th) PROVE CountInv'
  BY <1>1, <1>7, CountReceive
<1>8. ASSUME NEW th \in Threads, Store(th) PROVE CountInv'
  <2>1. PICK v : /\ step' = step /\ pc' = [pc EXCEPT ![th] = v] /\ reqs' = reqs
                 /\ v = IF Cur(th).type \in Forwarding THEN "fwd" ELSE "post"
    BY <1>8 DEF Store
  <2>2. pc[th] = "data" /\ StepAt(Here(th)).type \in Receiving
    BY <1>1, <1>8 DEF Store, TypeOK, Cur
  <2>3. v \in {"fwd", "post"} /\ (StepAt(Here(th)).type \in Forwarding \cup {"s"} => v = "fwd")
    BY <2>1, <2>2 DEF Cur, Receiving
  <2>4. \A p \in Places :
           /\ p # Here(th) => /\ HasSent(p)' <=> HasSent(p)
                              /\ HasReceived(p)' <=> HasReceived(p)
           /\ p = Here(th) => /\ HasSent(p) <=> pc[th] = "post"
                              /\ HasSent(p)' <=> v = "post"
                              /\ HasReceived(p) <=> pc[th] \in {"data", "fwd", "post"}
                              /\ HasReceived(p)' <=> v \in {"data", "fwd", "post"}
    BY <1>1, <2>1, WithinStep
  <2>5. \A p \in Places : /\ StepAt(p).type \in Forwarding \cup {"s"} =>
                                (HasSent(p)' <=> HasSent(p))
                          /\ StepAt(p).type \in Receiving =>
                                (HasReceived(p)' <=> HasReceived(p))
    BY <2>2, <2>3, <2>4
  <2> QED
    BY <1>1, <1>2, <2>1, <2>5, PlacesKept, CountKept
<1>9. ASSUME NEW th \in Threads, RecvFails(th) PROVE CountInv'
  <2>1. /\ RecvMayFail /\ pc[th] = "data"
        /\ step' = step /\ pc' = [pc EXCEPT ![th] = "post"] /\ reqs' = reqs
    BY <1>9 DEF RecvFails
  <2>2. \A p \in Places : /\ HasSent(p) => HasSent(p)'
                          /\ HasReceived(p)' <=> HasReceived(p)
    <3>1. \A p \in Places :
             /\ p # Here(th) => /\ HasSent(p)' <=> HasSent(p)
                                /\ HasReceived(p)' <=> HasReceived(p)
             /\ p = Here(th) => /\ HasSent(p) <=> pc[th] = "post"
                                /\ HasSent(p)' <=> "post" = "post"
                                /\ HasReceived(p) <=> pc[th] \in {"data", "fwd", "post"}
                                /\ HasReceived(p)' <=> "post" \in {"data", "fwd", "post"}
      BY <1>1, <2>1, WithinStep
    <3> QED
      BY <2>1, <3>1
  <2>3. \A q, t : /\ SentFor(q, t) \subseteq SentFor(q, t)'
                  /\ SentFor(q, t)' \subseteq Sends(q, t)
                  /\ ReceivedFor(q, t)' = ReceivedFor(q, t)
    BY <2>2 DEF SentFor, ReceivedFor, Sends, Receives
  <2>4. \A q \in Threads : Kept(q)
    BY <1>2, <2>1
  <2>5. ASSUME NEW q \in Threads, NEW t \in Int
        PROVE  /\ Posted(q, t)' = Posted(q, t) /\ Gone(q, t)' = Gone(q, t)
               /\ Cardinality(SentFor(q, t)) =< Cardinality(SentFor(q, t)')
               /\ Cardinality(SentFor(q, t)) \in Nat /\ Cardinality(SentFor(q, t)') \in Nat
    <3>1. IsFiniteSet(SentFor(q, t)')
      BY <1>1, <2>3, FiniteCounts, FS_Subset
    <3>2. SentFor(q, t) \subseteq SentFor(q, t)'
      BY <2>3
    <3>3. /\ Cardinality(SentFor(q, t)) =< Cardinality(SentFor(q, t)')
          /\ IsFiniteSet(SentFor(q, t))
      BY <3>1, <3>2, FS_Subset
    <3> QED
      BY <2>4, <3>1, <3>3, CountsKept, FS_CardinalityType
  <2>6. ASSUME NEW q \in Threads, NEW t \in Int
        PROVE  Cardinality(Posted(q, t)') =< Cardinality(SentFor(q, t)')
    <3>1. IsFiniteSet(Posted(q, t))
      BY <1>1, FiniteCounts
    <3>2. Cardinality(Posted(q, t)) \in Nat
      BY <3>1, FS_CardinalityType
    <3> QED
      BY <2>5, <3>2 DEF CountInv
  <2>7. ASSUME NEW q \in DOMAIN Peer, NEW t \in Int
        PROVE  Cardinality(Gone(q, t)') = Cardinality(ReceivedFor(Peer[q], t)')
    <3>1. Gone(q, t)' = Gone(q, t) /\ ReceivedFor(Peer[q], t)' = ReceivedFor(Peer[q], t)
      BY <2>3, <2>5, PeerIsThread
    <3> QED
      BY <3>1 DEF CountInv
  <2> QED
    BY <1>1, <2>1, <2>6, <2>7 DEF CountInv
<1>10. ASSUME NEW th \in Threads, Post(th) PROVE CountInv'
  <2>1. reqs' = reqs
    BY <1>10 DEF Post
  <2>2. \A p \in Places : (HasSent(p)' <=> HasSent(p)) /\ (HasReceived(p)' <=> HasReceived(p))
    BY <1>1, <1>10, CompletedStep
  <2> QED
    BY <1>1, <1>2, <2>1, <2>2, PlacesKept, CountKept
<1>11. ASSUME NEW th \in Threads, Flush(th) \/ SendDone(th) \/ SendFails(th) PROVE CountInv'
  <2>1. step' = step /\ pc' = pc
    BY <1>11 DEF Flush, SendDone, SendFails
  <2>2. \A p \in Places : (HasSent(p)' <=> HasSent(p)) /\ (HasReceived(p)' <=> HasReceived(p))
    BY <2>1 DEF HasSent, HasReceived, Passed
  <2>3. \A q \in Threads : Kept(q)
    BY <1>1, <1>11, FlushKeeps, FailKeeps
  <2> QED
    BY <1>1, <2>2, <2>3, PlacesKept, CountKept
<1>12. CASE UNCHANGED vars
  <2>1. \A p \in Places : (HasSent(p)' <=> HasSent(p)) /\ (HasReceived(p)' <=> HasReceived(p))
    BY <1>12 DEF HasSent, HasReceived, Passed, vars
  <2>2. reqs' = reqs
    BY <1>12 DEF vars
  <2> QED
    BY <1>1, <1>2, <2>1, <2>2, PlacesKept, CountKept
<1> QED
  BY <1>3, <1>4, <1>5, <1>6, <1>7, <1>8, <1>9, <1>10, <1>11, <1>12
     DEF Next, Run, Terminated

LEMMA NothingLeft == ASSUME MessagesPaired, CountInv, Finished PROVE NoMessageLeft
<1> SUFFICES ASSUME NEW q \in Threads, NEW k \in DOMAIN reqs[q]
             PROVE  reqs[q][k].taken
  BY DEF NoMessageLeft
<1> DEFINE t == reqs[q][k].tag
<1>1. TypeOK /\ t \in Int /\ k \in Posted(q, t)
  <2>1. TypeOK /\ reqs[q][k] \in Request
    BY DEF CountInv, TypeOK
  <2> QED
    BY <2>1 DEF Request, Posted
<1> HIDE DEF t
<1>2. /\ Cardinality(Posted(q, t)) \in Nat /\ Cardinality(Gone(q, t)) \in Nat
      /\ Cardinality(SentFor(q, t)) \in Nat /\ Cardinality(Sends(q, t)) \in Nat
  BY <1>1, FiniteCounts, FS_CardinalityType
<1>3. Cardinality(Posted(q, t)) # 0
  BY <1>1, FiniteCounts, FS_EmptySet
<1>4. /\ Cardinality(Posted(q, t)) =< Cardinality(SentFor(q, t))
      /\ Cardinality(SentFor(q, t)) =< Cardinality(Sends(q, t))
  <2>1. SentFor(q, t) \subseteq Sends(q, t)
    BY DEF SentFor
  <2>2. Cardinality(SentFor(q, t)) =< Cardinality(Sends(q, t))
    BY <1>1, <2>1, FiniteCounts, FS_Subset
  <2> QED
    BY <1>1, <2>2 DEF CountInv
<1>5. q \in DOMAIN Peer /\ t \in {StepAt(p).dstoff : p \in Places}
  <2>1. Sends(q, t) # {}
    <3>1. Cardinality(Sends(q, t)) # 0
      BY <1>2, <1>3, <1>4
    <3> QED
      BY <3>1, FS_EmptySet
  <2> QED
    BY <2>1, PeersAssumption DEF Sends, Peer
<1>6. Peer[q] \in Threads
  BY <1>5, PeerIsThread
<1>7. ReceivedFor(Peer[q], t) = Receives(Peer[q], t)
  <2>1. ASSUME NEW p \in Receives(Peer[q], t) PROVE HasReceived(p)
    <3>1. p \in Places /\ p[1] = Peer[q]
      BY DEF Receives
    <3>2. p[2] \in Nat /\ p[2] < NSteps(p[1]) /\ step[p[1]] = NSteps(p[1])
      BY <1>1, <1>6, <3>1, PlaceFacts DEF Finished, TypeOK
    <3> QED
      BY <3>2 DEF HasReceived, Passed
  <2> QED
    BY <2>1 DEF ReceivedFor
<1>8. Cardinality(Gone(q, t)) = Cardinality(Sends(q, t))
  BY <1>1, <1>5, <1>7 DEF CountInv, MessagesPaired
<1>9. Gone(q, t) = Posted(q, t)
  <2>1. Gone(q, t) \subseteq Posted(q, t)
    BY DEF Gone
  <2>2. IsFiniteSet(Posted(q, t))
    BY <1>1, FiniteCounts
  <2>3. Cardinality(Gone(q, t)) =< Cardinality(Posted(q, t))
    BY <2>1, <2>2, FS_Subset
  <2>4. Cardinality(Gone(q, t)) = Cardinality(Posted(q, t))
    BY <1>2, <1>4, <1>8, <2>3
  <2> QED
    BY <2>1, <2>2, <2>4, FS_Subset
<1> QED
  BY <1>1, <1>9 DEF Gone

\* If each tb receives as many messages of each tag as its one sender sends
\* (MessagesPaired), then no message is left when every thread has ended, for
\* a next execution to match (NoMessageLeft); also where sends are refused and
\* receives fail, since a message that is then missing keeps a thread waiting.
THEOREM AllMessagesReceived == ASSUME MessagesPaired PROVE Spec => []NoMessageLeft
<1>1. Init => CountInv
  BY CountInit
<1>2. CountInv /\ [Next]_vars => CountInv'
  BY CountNext
<1>3. CountInv => NoMessageLeft
  BY NothingLeft DEF NoMessageLeft
<1> QED
  BY <1>1, <1>2, <1>3, PTL DEF Spec

-----------------------------------------------------------------------------
(* Messages, in their order. *)

LEMMA OrderKept ==
  ASSUME QueueOrder, \A q \in Threads : Kept(q),
         \A q \in Threads : \A k \in DOMAIN reqs[q] :
           reqs'[q][k].state \in {reqs[q][k].state, "ready"}
  PROVE  QueueOrder'
<1> SUFFICES ASSUME NEW q \in Threads, NEW t \in Int, NEW k \in Posted(q, t)'
             PROVE  /\ reqs'[q][k].state \notin {"error", "failed"}
                    /\ \E s \in Sends(q, t) : MeantBy(q, t, k, s)'
                    /\ reqs'[q][k].taken =>
                         \A j \in Posted(q, t)' : j < k => reqs'[q][j].taken
  BY DEF QueueOrder
<1>1. Posted(q, t)' = Posted(q, t)
  BY CountsKept
<1>2. \A j \in Posted(q, t) : j \in DOMAIN reqs[q] /\ reqs'[q][j].taken = reqs[q][j].taken
  BY DEF Kept, Posted
<1>3. PICK s \in Sends(q, t) : MeantBy(q, t, k, s)
  BY <1>1 DEF QueueOrder
<1>4. MeantBy(q, t, k, s)'
  BY <1>1, <1>2, <1>3 DEF MeantBy, Kept
<1>5. reqs'[q][k].taken => \A j \in Posted(q, t)' : j < k => reqs'[q][j].taken
  BY <1>1, <1>2 DEF QueueOrder
<1>6. reqs'[q][k].state \notin {"error", "failed"}
  BY <1>1, <1>2 DEF QueueOrder
<1> QED
  BY <1>3, <1>4, <1>5, <1>6

LEMMA MatchesKept ==
  ASSUME ReceiveMatchesSend,
         \A th \in Threads : pc'[th] = "data" =>
           pc[th] = "data" /\ got'[th] = got[th] /\ step'[th] = step[th]
  PROVE  ReceiveMatchesSend'
BY DEF ReceiveMatchesSend, Cur, Here

\* The step at hand posts request n: it is the last of its thread and holds
\* what is in the chunks now.
Appended(th, b, off, tag, n) ==
  /\ tag = Cur(th).dstoff /\ Here(th) \in Sends(th, tag)
  /\ \A q \in Threads, t \in Int :
       Posted(q, t)' = IF q = th /\ t = tag THEN Posted(q, t) \cup {n} ELSE Posted(q, t)
  /\ \A q \in Threads, t \in Int : \A k \in Posted(q, t) :
       /\ reqs'[q][k] = reqs[q][k]
       /\ {j \in Posted(q, t)' : j < k} = {j \in Posted(q, t) : j < k}
       /\ q = th => k < n /\ ~(n < k)
  /\ {j \in Posted(th, tag)' : j < n} = Posted(th, tag) /\ n \in Nat \ {0}
  /\ reqs'[th][n].taken = FALSE /\ reqs'[th][n].state \notin {"error", "failed"}
  /\ reqs'[th][n].dst = Cur(th).dstbuf
  /\ reqs'[th][n].data = [i \in 1 .. Cur(th).cnt |-> buf[<<th[1], b, off + i - 1>>]]
  /\ Len(reqs'[th][n].data) = Cur(th).cnt

\* It is the one of its tag that the step should post.
NextPosted(th, b, off, tag, n) ==
  /\ Appended(th, b, off, tag, n)
  /\ Cardinality({j \in Posted(th, tag)' : j < n}) = NumberIn(Sends(th, tag), Here(th))

LEMMA RequestAppended ==
  ASSUME TypeOK, "error" \notin SendResults,
         NEW th \in Threads, NEW b, NEW off, SendBlock(th, b, off),
         pc[th] \in {"op", "fwd"}, Cur(th).type \in Forwarding \cup {"s"}
  PROVE  \E tag \in Int : \E n : Appended(th, b, off, tag, n)
<1>1. TypeOK /\ Here(th) \in Places /\ Cur(th) \in Step /\ Cur(th).dstoff \in Int
  BY HereIsPlace DEF Step
<1>t. PICK tag \in Int : tag = Cur(th).dstoff
  BY <1>1
<1>n. PICK n : n = Len(reqs[th])
  OBVIOUS
<1>h. PICK here \in Places : here = Here(th)
  BY <1>1
<1>2. PICK result \in SendResults :
        reqs' = [reqs EXCEPT ![th] = Append(@,
              [tag |-> Cur(th).dstoff, dst |-> Cur(th).dstbuf,
               data |-> [i \in 1 .. Cur(th).cnt |-> buf[<<th[1], b, off + i - 1>>]],
               state |-> result, taken |-> FALSE, done |-> FALSE])]
  BY DEF SendBlock
<1> DEFINE data == [i \in 1 .. Cur(th).cnt |-> buf[<<th[1], b, off + i - 1>>]]
           r == [tag |-> Cur(th).dstoff, dst |-> Cur(th).dstbuf, data |-> data,
                 state |-> result, taken |-> FALSE, done |-> FALSE]
<1>3. /\ r.tag = tag /\ r.taken = FALSE /\ r.state \notin {"error", "failed"} /\ r.dst = Cur(th).dstbuf
      /\ Len(r.data) = Cur(th).cnt /\ r.data = data
  <2>1. Cur(th).cnt \in Nat
    BY <1>1 DEF Step
  <2>2. DOMAIN data = 1 .. Cur(th).cnt /\ data \in [1 .. Cur(th).cnt -> {data[i] : i \in 1 .. Cur(th).cnt}]
    OBVIOUS
  <2>3. Len(data) = Cur(th).cnt
    <3> HIDE DEF data
    <3>1. data \in Seq({data[i] : i \in 1 .. Cur(th).cnt})
      BY <2>1, <2>2, FunctionIsSeq
    <3> QED
      BY <2>1, <2>2, <3>1, LenProperties
  <2>4. result \notin {"error", "failed"}
    BY SendAssumption
  <2> QED
    BY <1>t, <1>n, <1>h, <2>3, <2>4
<1>4. /\ \A k : k \in DOMAIN reqs'[th] <=> k \in DOMAIN reqs[th] \/ k = n + 1
      /\ \A k \in DOMAIN reqs[th] : reqs'[th][k] = reqs[th][k] /\ k < n + 1 /\ ~(n + 1 < k)
      /\ reqs'[th][n + 1] = r /\ n + 1 \notin DOMAIN reqs[th] /\ ~(n + 1 < n + 1)
      /\ \A q \in Threads : q # th => reqs'[q] = reqs[q]
  <2>1. reqs' = [reqs EXCEPT ![th] = Append(reqs[th], r)]
    BY <1>2
  <2> HIDE DEF r
  <2>2. reqs[th] \in Seq(Request) /\ reqs'[th] = Append(reqs[th], r)
    BY <1>1, <2>1 DEF TypeOK
  <2>3. \A q \in Threads : q # th => reqs'[q] = reqs[q]
    BY <1>1, <2>1 DEF TypeOK
  <2>4. DOMAIN reqs[th] = 1 .. n /\ n \in Nat
    BY <1>t, <1>n, <1>h, <2>2
  <2>5. /\ DOMAIN reqs'[th] = 1 .. n + 1 /\ reqs'[th][n + 1] = r
        /\ \A k \in 1 .. n : reqs'[th][k] = reqs[th][k]
    BY <1>t, <1>n, <1>h, <2>2
  <2> QED
    BY <2>3, <2>4, <2>5
<1> HIDE DEF r
<1>5. \A q \in Threads, t \in Int :
        Posted(q, t)' = IF q = th /\ t = tag THEN Posted(q, t) \cup {n + 1} ELSE Posted(q, t)
  <2> SUFFICES ASSUME NEW q \in Threads, NEW t \in Int
               PROVE  Posted(q, t)' = IF q = th /\ t = tag THEN Posted(q, t) \cup {n + 1}
                                      ELSE Posted(q, t)
    OBVIOUS
  <2>1. CASE q # th
    BY <1>4, <2>1 DEF Posted
  <2>2. CASE q = th /\ t = tag
    <3>1. Posted(q, t)' = Posted(q, t) \cup {n + 1}
      BY <1>3, <1>4, <2>2 DEF Posted
    <3> QED
      BY <2>2, <3>1
  <2>3. CASE q = th /\ t # tag
    <3>1. Posted(q, t)' = Posted(q, t)
      BY <1>3, <1>4, <2>3 DEF Posted
    <3> QED
      BY <2>3, <3>1
  <2> QED
    BY <2>1, <2>2, <2>3
<1>6. \A q \in Threads, t \in Int : \A k \in Posted(q, t) :
        /\ reqs'[q][k] = reqs[q][k]
        /\ {j \in Posted(q, t)' : j < k} = {j \in Posted(q, t) : j < k}
        /\ q = th => k # n + 1 /\ k < n + 1 /\ ~(n + 1 < k)
  <2> SUFFICES ASSUME NEW q \in Threads, NEW t \in Int, NEW k \in Posted(q, t)
               PROVE  /\ reqs'[q][k] = reqs[q][k]
                      /\ {j \in Posted(q, t)' : j < k} = {j \in Posted(q, t) : j < k}
                      /\ q = th => k # n + 1 /\ k < n + 1 /\ ~(n + 1 < k)
    OBVIOUS
  <2>1. k \in DOMAIN reqs[q]
    BY DEF Posted
  <2>2. reqs'[q][k] = reqs[q][k] /\ (q = th => k # n + 1 /\ k < n + 1 /\ ~(n + 1 < k))
    BY <1>4, <2>1
  <2>3. \A j : j \in Posted(q, t)' /\ j < k <=> j \in Posted(q, t) /\ j < k
    BY <1>5, <2>2
  <2> QED
    BY <2>2, <2>3
<1>7. here \in Sends(th, tag)
  BY <1>t, <1>h DEF Sends, Here, Cur
<1>8. {j \in Posted(th, tag)' : j < n + 1} = Posted(th, tag)
  <2>1. \A j : j \in Posted(th, tag)' /\ j < n + 1 <=> j \in Posted(th, tag)
    BY <1>4, <1>5, <1>6
  <2> QED
    BY <2>1
<1>9. n + 1 \in Nat \ {0}
  BY <1>n, <1>1 DEF TypeOK
<1>10. Appended(th, b, off, tag, n + 1)
  <2>1. /\ reqs'[th][n + 1].taken = FALSE /\ reqs'[th][n + 1].state \notin {"error", "failed"}
        /\ reqs'[th][n + 1].dst = Cur(th).dstbuf
        /\ reqs'[th][n + 1].data = data /\ Len(reqs'[th][n + 1].data) = Cur(th).cnt
    BY <1>3, <1>4
  <2>2. Here(th) \in Sends(th, tag)
    BY <1>7, <1>h
  <2>3. \A q \in Threads, t \in Int : \A k \in Posted(q, t) :
          /\ reqs'[q][k] = reqs[q][k]
          /\ {j \in Posted(q, t)' : j < k} = {j \in Posted(q, t) : j < k}
          /\ q = th => k < n + 1 /\ ~(n + 1 < k)
    BY <1>6
  <2> QED
    BY <1>t, <1>5, <1>8, <1>9, <2>1, <2>2, <2>3, Zenon DEF Appended
<1> QED
  BY <1>10

\* The step that sends a tag now has as many before it as have sent it.
LEMMA SentBefore ==
  ASSUME TypeOK, NEW th \in Threads, pc[th] \in {"op", "fwd"}, NEW tag
  PROVE  SentFor(th, tag) = {x \in Sends(th, tag) : x[2] < step[th]}
<1>1. ASSUME NEW x \in Sends(th, tag) PROVE HasSent(x) <=> x[2] < step[th]
  <2>1. x \in Places /\ x[1] = th /\ x[2] \in Nat /\ step[th] \in Nat
    BY PlaceFacts DEF Sends, TypeOK
  <2> QED
    BY <2>1 DEF HasSent, Passed
<1> QED
  BY <1>1 DEF SentFor

LEMMA NextRequest ==
  ASSUME CountInv, ~RecvMayFail, ~SendMayFail, "error" \notin SendResults,
         NEW th \in Threads, NEW b, NEW off, SendBlock(th, b, off),
         pc[th] \in {"op", "fwd"}, Cur(th).type \in Forwarding \cup {"s"}
  PROVE  \E tag \in Int : \E n : NextPosted(th, b, off, tag, n)
<1>1. TypeOK
  BY DEF CountInv
<1>2. PICK tag \in Int : \E n : Appended(th, b, off, tag, n)
  BY <1>1, RequestAppended
<1>3. PICK n : Appended(th, b, off, tag, n)
  BY <1>2
<1>4. {j \in Posted(th, tag)' : j < n} = Posted(th, tag)
  BY <1>3 DEF Appended
<1>5. Cardinality(Posted(th, tag)) = Cardinality(SentFor(th, tag))
  BY DEF CountInv
<1>6. SentFor(th, tag) = {x \in Sends(th, tag) : x[2] < Here(th)[2]}
  BY <1>1, SentBefore DEF Here
<1> QED
  BY <1>3, <1>4, <1>5, <1>6 DEF NextPosted, NumberIn

\* A request that is posted is the next of its tag, like the step that posts it.
LEMMA OrderSend ==
  ASSUME OrderInv, ~RecvMayFail, ~SendMayFail, "error" \notin SendResults,
         NEW th \in Threads, NEW b, NEW off, SendBlock(th, b, off),
         pc[th] \in {"op", "fwd"}, Cur(th).type \in Forwarding \cup {"s"}
  PROVE  QueueOrder'
<1>1. PICK tag \in Int : \E n : NextPosted(th, b, off, tag, n)
  BY NextRequest DEF OrderInv
<1>2. PICK n : NextPosted(th, b, off, tag, n)
  BY <1>1
<1>3. PICK here : here = Here(th) /\ Cur(th) = StepAt(here)
  BY DEF Cur
<1>4. \A p \in Threads, u \in Int :
        /\ Posted(p, u)' = IF p = th /\ u = tag THEN Posted(p, u) \cup {n} ELSE Posted(p, u)
        /\ \A k \in Posted(p, u) :
             /\ reqs'[p][k] = reqs[p][k]
             /\ {j \in Posted(p, u)' : j < k} = {j \in Posted(p, u) : j < k}
             /\ p = th => ~(n < k)
  BY <1>2 DEF NextPosted, Appended
<1>5. here \in Sends(th, tag) /\ MeantBy(th, tag, n, here)'
  BY <1>2, <1>3 DEF NextPosted, Appended, MeantBy
<1>6. reqs'[th][n].taken = FALSE /\ reqs'[th][n].state \notin {"error", "failed"}
  BY <1>2 DEF NextPosted, Appended
<1> SUFFICES ASSUME NEW q \in Threads, NEW t \in Int, NEW k \in Posted(q, t)'
             PROVE  /\ reqs'[q][k].state \notin {"error", "failed"}
                    /\ \E s \in Sends(q, t) : MeantBy(q, t, k, s)'
                    /\ reqs'[q][k].taken =>
                         \A j \in Posted(q, t)' : j < k => reqs'[q][j].taken
  BY DEF QueueOrder
<1>8. CASE k \in Posted(q, t)
  <2>1. reqs'[q][k] = reqs[q][k] /\ reqs[q][k].state \notin {"error", "failed"}
    BY <1>4, <1>8 DEF OrderInv, QueueOrder
  <2>2. PICK s \in Sends(q, t) : MeantBy(q, t, k, s)
    BY <1>8 DEF OrderInv, QueueOrder
  <2>3. MeantBy(q, t, k, s)'
    <3>1. {j \in Posted(q, t)' : j < k} = {j \in Posted(q, t) : j < k}
      BY <1>4, <1>8
    <3>2. Cardinality({j \in Posted(q, t)' : j < k}) = NumberIn(Sends(q, t), s)
      BY <2>2, <3>1 DEF MeantBy
    <3> QED
      BY <2>1, <2>2, <3>2 DEF MeantBy
  <2>4. ASSUME reqs'[q][k].taken, NEW j \in Posted(q, t)', j < k PROVE reqs'[q][j].taken
    <3>1. j \in Posted(q, t)
      BY <1>4, <1>8, <2>4
    <3>2. reqs[q][j].taken
      BY <1>8, <2>1, <2>4, <3>1 DEF OrderInv, QueueOrder
    <3> QED
      BY <1>4, <3>1, <3>2
  <2> QED
    BY <2>1, <2>2, <2>3, <2>4
<1>9. CASE k \notin Posted(q, t)
  <2>1. q = th /\ t = tag /\ k = n
    BY <1>4, <1>9
  <2> QED
    BY <1>5, <1>6, <2>1
<1> QED
  BY <1>8, <1>9

\* Request k of q is taken; nothing else changes of the requests.
OnlyMatched(q, k) ==
  \A p \in Threads :
    /\ DOMAIN reqs'[p] = DOMAIN reqs[p]
    /\ \A j \in DOMAIN reqs[p] :
         /\ reqs'[p][j].tag = reqs[p][j].tag
         /\ reqs'[p][j].dst = reqs[p][j].dst
         /\ reqs'[p][j].data = reqs[p][j].data
         /\ reqs'[p][j].state = reqs[p][j].state
         /\ reqs'[p][j].taken <=> reqs[p][j].taken \/ (p = q /\ j = k)

\* th matches the first request with its tag that is left, request k of q.
FirstTaken(th, tag, q, k) ==
  /\ tag = Cur(th).dstoff /\ q \in Threads /\ q \in DOMAIN Peer /\ Peer[q] = th
  /\ k \in Posted(q, tag) /\ ~reqs[q][k].taken
  /\ \A j \in Posted(q, tag) : reqs[q][j].taken <=> j < k
  /\ OnlyMatched(q, k)
  /\ got' = [got EXCEPT ![th] = [dst |-> reqs[q][k].dst, data |-> reqs[q][k].data]]

\* It is as many requests of its tag into the queue as the step that matches it
\* is steps that receive the tag.
NextMatched(th, tag, q, k) ==
  /\ FirstTaken(th, tag, q, k)
  /\ Cardinality({j \in Posted(q, tag) : j < k}) = NumberIn(Receives(th, tag), Here(th))

\* None is refused, and those of a tag are taken in order.
TakenInOrder ==
  \A q \in Threads, t \in Int : \A k \in Posted(q, t) :
    /\ reqs[q][k].state \notin {"error", "failed"}
    /\ reqs[q][k].taken => \A j \in Posted(q, t) : j < k => reqs[q][j].taken

LEMMA FirstIsTaken ==
  ASSUME TypeOK, TakenInOrder, NEW th \in Threads, Receive(th)
  PROVE  \E tag \in Int : \E q, k : FirstTaken(th, tag, q, k)
<1>1. TypeOK /\ Here(th) \in Places /\ Cur(th) \in Step /\ Cur(th).dstoff \in Int
  BY HereIsPlace DEF Step, Receive
<1>2. PICK tag \in Int : tag = Cur(th).dstoff
  BY <1>1
<1>4. PICK q \in Senders(th) : \E k \in DOMAIN reqs[q] :
         /\ FirstMatch(q, k, Cur(th).dstoff)
         /\ reqs' = [reqs EXCEPT ![q][k].taken = TRUE]
         /\ got' = [got EXCEPT ![th] = [dst |-> reqs[q][k].dst, data |-> reqs[q][k].data]]
  BY DEF Receive
<1>5. PICK k \in DOMAIN reqs[q] :
         /\ FirstMatch(q, k, Cur(th).dstoff)
         /\ reqs' = [reqs EXCEPT ![q][k].taken = TRUE]
         /\ got' = [got EXCEPT ![th] = [dst |-> reqs[q][k].dst, data |-> reqs[q][k].data]]
  BY <1>4
<1>6. q \in DOMAIN Peer /\ Peer[q] = th /\ q \in Threads
  BY PeerIsThread DEF Senders
<1>7. k \in Posted(q, tag) /\ ~reqs[q][k].taken
  BY <1>2, <1>5 DEF FirstMatch, Matches, Posted
<1>8. Posted(q, tag) \subseteq Nat \ {0}
  BY <1>1, <1>6 DEF Posted, TypeOK
<1>9. \A j \in Posted(q, tag) : j < k => reqs[q][j].taken
  <2> SUFFICES ASSUME NEW j \in Posted(q, tag), j < k PROVE reqs[q][j].taken
    OBVIOUS
  <2>1. j \in 1 .. k - 1
    BY <1>7, <1>8
  <2>2. ~Matches(q, j, tag)
    BY <1>2, <1>5, <2>1 DEF FirstMatch
  <2>3. reqs[q][j].tag = tag /\ reqs[q][j].state \notin {"error", "failed"}
    BY <1>6 DEF Posted, TakenInOrder
  <2> QED
    BY <2>2, <2>3 DEF Matches
<1>10. ASSUME NEW j \in Posted(q, tag) PROVE reqs[q][j].taken <=> j < k
  <2>1. j \in Nat /\ k \in Nat
    BY <1>7, <1>8
  <2>2. reqs[q][j].taken => j # k /\ ~(k < j)
    BY <1>6, <1>7 DEF TakenInOrder
  <2> QED
    BY <1>9, <2>1, <2>2
<1>13. OnlyMatched(q, k)
  <2>1. reqs[q] \in Seq(Request) /\ reqs[q][k] \in Request
    BY <1>1, <1>5, <1>6 DEF TypeOK
  <2>2. \A p \in Threads : p # q => reqs'[p] = reqs[p]
    BY <1>1, <1>5, <1>6 DEF TypeOK
  <2>3. /\ reqs'[q] = [reqs[q] EXCEPT ![k] = [reqs[q][k] EXCEPT !.taken = TRUE]]
        /\ DOMAIN reqs'[q] = DOMAIN reqs[q]
    BY <1>1, <1>5, <1>6 DEF TypeOK
  <2>4. reqs'[q][k] = [reqs[q][k] EXCEPT !.taken = TRUE]
    BY <2>1, <2>3
  <2>5. /\ reqs'[q][k].tag = reqs[q][k].tag /\ reqs'[q][k].taken = TRUE
        /\ reqs'[q][k].dst = reqs[q][k].dst /\ reqs'[q][k].data = reqs[q][k].data
        /\ reqs'[q][k].state = reqs[q][k].state
    BY <2>1, <2>4 DEF Request
  <2>6. \A j \in DOMAIN reqs[q] : j # k => reqs'[q][j] = reqs[q][j]
    BY <2>1, <2>3
  <2> QED
    BY <2>2, <2>3, <2>5, <2>6 DEF OnlyMatched
<1>14. FirstTaken(th, tag, q, k)
  BY <1>2, <1>5, <1>6, <1>7, <1>10, <1>13, Zenon DEF FirstTaken
<1> QED
  BY <1>14

\* The step that receives a tag now has as many before it as have received it.
LEMMA ReceivedBefore ==
  ASSUME TypeOK, NEW th \in Threads, pc[th] = "op", NEW tag
  PROVE  ReceivedFor(th, tag) = {x \in Receives(th, tag) : x[2] < step[th]}
<1>1. ASSUME NEW x \in Receives(th, tag) PROVE HasReceived(x) <=> x[2] < step[th]
  BY DEF Receives, HasReceived, Passed
<1> QED
  BY <1>1 DEF ReceivedFor

LEMMA NextMatch ==
  ASSUME OrderInv, NEW th \in Threads, Receive(th)
  PROVE  \E tag \in Int : \E q, k : NextMatched(th, tag, q, k)
<1>1. CountInv /\ TypeOK /\ TakenInOrder /\ pc[th] = "op"
  BY DEF OrderInv, CountInv, QueueOrder, TakenInOrder, Receive
<1>2. PICK tag \in Int : \E q, k : FirstTaken(th, tag, q, k)
  BY <1>1, FirstIsTaken
<1>3. PICK q, k : FirstTaken(th, tag, q, k)
  BY <1>2
<1>4. q \in DOMAIN Peer /\ Peer[q] = th /\ \A j \in Posted(q, tag) : reqs[q][j].taken <=> j < k
  BY <1>3 DEF FirstTaken
<1>5. Gone(q, tag) = {j \in Posted(q, tag) : j < k}
  BY <1>4 DEF Gone
<1>6. Cardinality(Gone(q, tag)) = Cardinality(ReceivedFor(th, tag))
  BY <1>1, <1>4 DEF CountInv
<1>7. ReceivedFor(th, tag) = {x \in Receives(th, tag) : x[2] < Here(th)[2]}
  BY <1>1, ReceivedBefore DEF Here
<1> QED
  BY <1>3, <1>5, <1>6, <1>7 DEF NextMatched, NumberIn


\* So it is the one that was meant for that step.
LEMMA OrderReceive ==
  ASSUME MessagesPaired, OrderInv, NEW th \in Threads, Receive(th)
  PROVE  QueueOrder' /\ ReceiveMatchesSend'
<1>1. /\ CountInv /\ TypeOK /\ Here(th) \in Places /\ Cur(th) \in Step
  BY HereIsPlace DEF OrderInv, CountInv, Receive
<1>2. PICK tag \in Int : \E q, k : NextMatched(th, tag, q, k)
  BY NextMatch
<1>3. PICK here \in Places : here = Here(th)
  BY <1>1
<1>4. PICK q, k : NextMatched(th, tag, q, k)
  BY <1>2
<1>5. /\ tag = Cur(th).dstoff /\ q \in Threads /\ q \in DOMAIN Peer /\ Peer[q] = th
      /\ got' = [got EXCEPT ![th] = [dst |-> reqs[q][k].dst, data |-> reqs[q][k].data]]
  BY <1>4 DEF NextMatched, FirstTaken
<1>6. k \in DOMAIN reqs[q] /\ reqs[q][k].tag = tag
  BY <1>4 DEF NextMatched, FirstTaken, Posted
<1>7. k \in Posted(q, tag) /\ ~reqs[q][k].taken
  BY <1>4 DEF NextMatched, FirstTaken
<1>9. \A j \in Posted(q, tag) : j < k => reqs[q][j].taken
  BY <1>4 DEF NextMatched, FirstTaken
<1>11. Cardinality({j \in Posted(q, tag) : j < k}) = NumberIn(Receives(th, tag), here)
  BY <1>3, <1>4 DEF NextMatched, FirstTaken
<1>12. PICK s \in Sends(q, tag) : MeantBy(q, tag, k, s)
  BY <1>5, <1>7 DEF OrderInv, QueueOrder
<1>13. reqs[q][k].dst = Cur(th).dstbuf /\ Len(reqs[q][k].data) = Cur(th).cnt
  <2>1. here \in Receives(th, tag) /\ tag \in {StepAt(p).dstoff : p \in Places}
    BY <1>1, <1>3, <1>5 DEF Receives, Receive, Here, Cur
  <2>2. NumberIn(Sends(q, tag), s) = NumberIn(Receives(Peer[q], tag), here)
    BY <1>5, <1>11, <1>12 DEF MeantBy
  <2>3. StepAt(s).dstbuf = StepAt(here).dstbuf /\ StepAt(s).cnt = StepAt(here).cnt
    BY <1>5, <2>1, <2>2 DEF MessagesPaired
  <2> QED
    BY <1>3, <1>12, <2>3 DEF MeantBy, Cur
<1>14. ReceiveMatchesSend'
  <2> SUFFICES ASSUME NEW p \in Threads, pc'[p] = "data"
               PROVE  got'[p].dst = Cur(p)'.dstbuf /\ Len(got'[p].data) = Cur(p)'.cnt
    BY DEF ReceiveMatchesSend
  <2>1. Cur(p)' = Cur(p)
    BY DEF Receive, Cur, Here
  <2>2. CASE p = th
    <3>1. got'[th] = [dst |-> reqs[q][k].dst, data |-> reqs[q][k].data]
      BY <1>1, <1>5 DEF TypeOK
    <3> QED
      BY <1>13, <2>1, <2>2, <3>1
  <2>3. CASE p # th
    <3>1. pc[p] = "data" /\ got'[p] = got[p]
      BY <1>1, <1>5, <2>3 DEF Receive, TypeOK
    <3> QED
      BY <2>1, <3>1 DEF OrderInv, ReceiveMatchesSend
  <2> QED
    BY <2>2, <2>3
<1>15. \A p \in Threads :
         /\ DOMAIN reqs'[p] = DOMAIN reqs[p]
         /\ \A j \in DOMAIN reqs[p] :
              /\ reqs'[p][j].tag = reqs[p][j].tag
              /\ reqs'[p][j].dst = reqs[p][j].dst
              /\ reqs'[p][j].data = reqs[p][j].data
              /\ reqs'[p][j].state = reqs[p][j].state
              /\ reqs'[p][j].taken <=> reqs[p][j].taken \/ (p = q /\ j = k)
  BY <1>4 DEF NextMatched, FirstTaken, OnlyMatched
<1>16. QueueOrder'
  <2> SUFFICES ASSUME NEW p \in Threads, NEW t \in Int, NEW i \in Posted(p, t)'
               PROVE  /\ reqs'[p][i].state \notin {"error", "failed"}
                      /\ \E x \in Sends(p, t) : MeantBy(p, t, i, x)'
                      /\ reqs'[p][i].taken =>
                           \A j \in Posted(p, t)' : j < i => reqs'[p][j].taken
    BY DEF QueueOrder
  <2>1. Posted(p, t)' = Posted(p, t)
    BY <1>15 DEF Posted
  <2>2. \A j \in Posted(p, t) : j \in DOMAIN reqs[p] /\ reqs[p][j].tag = t
    BY DEF Posted
  <2>3. /\ reqs[p][i].state \notin {"error", "failed"}
        /\ reqs[p][i].taken => \A j \in Posted(p, t) : j < i => reqs[p][j].taken
    BY <2>1 DEF OrderInv, QueueOrder
  <2>4. reqs'[p][i].state \notin {"error", "failed"}
    BY <1>15, <2>1, <2>2, <2>3
  <2>5. PICK x \in Sends(p, t) : MeantBy(p, t, i, x)
    BY <2>1 DEF OrderInv, QueueOrder
  <2>6. MeantBy(p, t, i, x)'
    BY <1>15, <2>1, <2>2, <2>5 DEF MeantBy
  <2>7. ASSUME reqs'[p][i].taken, NEW j \in Posted(p, t)', j < i PROVE reqs'[p][j].taken
    <3>1. CASE p = q /\ i = k
      <4>1. t = tag
        BY <1>7, <2>1, <2>2, <3>1 DEF Posted
      <4> QED
        BY <1>9, <1>15, <2>1, <2>2, <2>7, <3>1, <4>1
    <3>2. CASE ~(p = q /\ i = k)
      BY <1>15, <2>1, <2>2, <2>3, <2>7, <3>2
    <3> QED
      BY <3>1, <3>2
  <2> QED
    BY <2>4, <2>5, <2>6, <2>7
<1> QED
  BY <1>14, <1>16

LEMMA OrderInit == Init => OrderInv
<1> SUFFICES ASSUME Init PROVE OrderInv
  OBVIOUS
<1>1. CountInv /\ TypeOK
  BY CountInit, TypeInit
<1>2. \A q \in Threads : \A t : Posted(q, t) = {}
  BY DEF Init, Posted
<1>3. \A th \in Threads : pc[th] # "data"
  <2> SUFFICES ASSUME NEW th \in Threads PROVE pc[th] # "data"
    OBVIOUS
  <2>1. 0 \in Nat /\ 0 =< NSteps(th) /\ pc[th] = StartPc(th, 0)
    BY ThreadFacts DEF Init
  <2>2. pc[th] \in {"dep", "op", "drain"}
    BY <2>1, StartPcFacts
  <2> QED
    BY <2>2
<1> QED
  BY <1>1, <1>2, <1>3 DEF OrderInv, QueueOrder, ReceiveMatchesSend

LEMMA OrderNext ==
  ASSUME MessagesPaired, ~RecvMayFail, ~SendMayFail, "error" \notin SendResults, OrderInv, [Next]_vars
  PROVE  OrderInv'
<1>1. CountInv' /\ TypeOK /\ TypeOK'
  BY CountNext, TypeNext DEF OrderInv, CountInv
<1>2. ASSUME reqs' = reqs PROVE QueueOrder'
  <2>1. \A q \in Threads : Kept(q)
    BY <1>2 DEF Kept
  <2> QED
    BY <1>2, <2>1, OrderKept DEF OrderInv
<1>3. ASSUME NEW th \in Threads, NEW v, v # "data", step' = step, pc' = [pc EXCEPT ![th] = v],
             \A p \in Threads : p # th => got'[p] = got[p]
      PROVE  ReceiveMatchesSend'
  <2>1. \A p \in Threads : pc'[p] = "data" => p # th /\ pc[p] = "data" /\ step'[p] = step[p]
    BY <1>1, <1>3 DEF TypeOK
  <2> QED
    BY <1>3, <2>1, MatchesKept DEF OrderInv
<1>4. ASSUME NEW th \in Threads, DepWait(th) \/ Drain(th) \/ Reduce(th) \/ Nop(th)
      PROVE  OrderInv'
  <2>1. reqs' = reqs /\ got' = got /\ step' = step
    BY <1>4 DEF DepWait, Drain, Reduce, Nop
  <2>2. PICK v \in {"op", "done", "post"} : pc' = [pc EXCEPT ![th] = v]
    BY <1>4 DEF DepWait, Drain, Reduce, Nop
  <2>3. ReceiveMatchesSend'
    BY <1>3, <2>1, <2>2
  <2> QED
    BY <1>1, <1>2, <2>1, <2>3 DEF OrderInv
<1>5. ASSUME NEW th \in Threads, Send(th) \/ Forward(th) PROVE OrderInv'
  <2>1. /\ \/ SendBlock(th, Cur(th).srcbuf, Cur(th).srcoff)
           \/ SendBlock(th, Cur(th).dstbuf, Cur(th).dstoff)
        /\ pc[th] \in {"op", "fwd"} /\ step' = step /\ got' = got
        /\ pc' = [pc EXCEPT ![th] = "post"]
    BY <1>5 DEF Send, Forward
  <2>2. Cur(th).type \in Forwarding \cup {"s"}
    BY <1>1, <1>5 DEF Send, Forward, TypeOK
  <2>3. QueueOrder'
    BY <2>1, <2>2, OrderSend
  <2>4. ReceiveMatchesSend'
    BY <1>3, <2>1
  <2> QED
    BY <1>1, <2>3, <2>4 DEF OrderInv
<1>6. ASSUME NEW th \in Threads, Receive(th) PROVE OrderInv'
  BY <1>1, <1>6, OrderReceive DEF OrderInv
<1>7. ASSUME NEW th \in Threads, Store(th) PROVE OrderInv'
  <2>1. PICK v \in {"fwd", "post"} : pc' = [pc EXCEPT ![th] = v]
    BY <1>7 DEF Store
  <2>2. /\ reqs' = reqs /\ step' = step
        /\ \A p \in Threads : p # th => got'[p] = got[p]
    BY <1>1, <1>7 DEF Store, TypeOK
  <2>3. ReceiveMatchesSend'
    BY <1>3, <2>1, <2>2
  <2> QED
    BY <1>1, <1>2, <2>2, <2>3 DEF OrderInv
<1>8. ASSUME NEW th \in Threads, Post(th) PROVE OrderInv'
  <2>1. reqs' = reqs /\ got' = got /\ pc[th] = "post"
    BY <1>8 DEF Post
  <2>2. \A p \in Threads : pc'[p] = "data" => pc[p] = "data" /\ step'[p] = step[p]
    <3> SUFFICES ASSUME NEW p \in Threads, pc'[p] = "data"
                 PROVE  pc[p] = "data" /\ step'[p] = step[p]
      OBVIOUS
    <3>1. CASE p = th
      <4>1. pc'[th] = StartPc(th, step[th] + 1)
        BY <1>1, <1>8 DEF Post, TypeOK
      <4>2. step[th] \in Nat /\ NSteps(th) \in Nat /\ step[th] < NSteps(th)
        BY <1>1, <2>1, ThreadFacts DEF TypeOK
      <4>3. step[th] + 1 \in Nat /\ step[th] + 1 =< NSteps(th)
        BY <4>2
      <4>4. pc'[th] \in {"dep", "op", "drain"}
        BY <4>1, <4>3, StartPcFacts
      <4> QED
        BY <3>1, <4>4
    <3>2. CASE p # th
      BY <1>1, <1>8, <3>2 DEF Post, TypeOK
    <3> QED
      BY <3>1, <3>2
  <2>3. ReceiveMatchesSend'
    BY <2>1, <2>2, MatchesKept DEF OrderInv
  <2> QED
    BY <1>1, <1>2, <2>1, <2>3 DEF OrderInv
<1>9. ASSUME NEW th \in Threads, Flush(th) \/ SendDone(th) PROVE OrderInv'
  <2>1. step' = step /\ pc' = pc /\ got' = got
    BY <1>9 DEF Flush, SendDone
  <2>2. \A q \in Threads : Kept(q)
    BY <1>1, <1>9, FlushKeeps
  <2>3. \A q \in Threads : \A k \in DOMAIN reqs[q] :
          reqs'[q][k].state \in {reqs[q][k].state, "ready"}
    BY <1>1, <1>9, FlushKeeps
  <2>4. QueueOrder'
    BY <2>2, <2>3, OrderKept DEF OrderInv
  <2>5. ReceiveMatchesSend'
    BY <2>1, MatchesKept DEF OrderInv
  <2> QED
    BY <1>1, <2>4, <2>5 DEF OrderInv
<1>10. CASE UNCHANGED vars
  <2>1. reqs' = reqs /\ got' = got /\ step' = step /\ pc' = pc
    BY <1>10 DEF vars
  <2>2. ReceiveMatchesSend'
    BY <2>1, MatchesKept DEF OrderInv
  <2> QED
    BY <1>1, <1>2, <2>1, <2>2 DEF OrderInv
<1>11. \A th \in Threads : ~RecvFails(th) /\ ~SendFails(th)
  BY DEF RecvFails, SendFails
<1> QED
  BY <1>4, <1>5, <1>6, <1>7, <1>8, <1>9, <1>10, <1>11 DEF Next, Run, Terminated

\* Tags carry only the destination offset.  Still, if the n-th message of a tag
\* is sent for the buffer and of the length of the n-th step that receives the
\* tag (MessagesPaired), each receive gets a message that was meant for it
\* (ReceiveMatchesSend), as long as UCX refuses no send and no receive fails:
\* otherwise the messages behind a missing one are matched too early.
THEOREM EachReceivesItsMessage ==
  ASSUME MessagesPaired, ~RecvMayFail, ~SendMayFail, "error" \notin SendResults
  PROVE  Spec => []ReceiveMatchesSend
<1>1. Init => OrderInv
  BY OrderInit
<1>2. OrderInv /\ [Next]_vars => OrderInv'
  BY OrderNext
<1>3. OrderInv => ReceiveMatchesSend
  BY DEF OrderInv
<1> QED
  BY <1>1, <1>2, <1>3, PTL DEF Spec
-----------------------------------------------------------------------------
(* The contents of the chunks. *)

\* A step that has written its chunks, and those that have written chunk x.
Written(p)      == Passed(p) \/ (p = Here(p[1]) /\ pc[p[1]] \in {"fwd", "post"})
WrittenTo(x)    == {w \in Writers(x) : Written(w)}
WrittenBy(B, x) == {w \in WrittenTo(x) : w[1] \in B}

\* A chunk holds what the last step that has written it leaves there, a request
\* what its step sends, and a message that is matched what it is matched for.
ChunksHold == \A x \in Slots : buf[x] = LeftIn(Computed, WrittenTo(x), x)

RequestsHold ==
  \A q \in Threads, t \in Int : \A k \in Posted(q, t) : \A s \in Sends(q, t) :
    NumberIn(Sends(q, t), s) = Cardinality({j \in Posted(q, t) : j < k}) =>
      reqs[q][k].data = Sent(Computed, s)

MatchesHold ==
  \A th \in Threads : pc[th] = "data" => got[th].data = Operand(Computed, Here(th))

ContentInv == OrderInv /\ ChunksHold /\ RequestsHold /\ MatchesHold

LEMMA LastIs ==
  ASSUME NEW W, NEW p \in W, \A v \in W \ {p} : Before(v, p) /\ ~Before(p, v)
  PROVE  LastOf(W) = p
<1>1. \A v \in W \ {p} : Before(v, p)
  OBVIOUS
<1>2. ASSUME NEW w \in W, \A v \in W \ {w} : Before(v, w) PROVE w = p
  BY <1>2
<1> QED
  BY <1>1, <1>2 DEF LastOf

\* A step that accesses a chunk finds there what all those that write it
\* before it have left, and only those: this is what ConflictsOrdered is for.
LEMMA WrittenUntil ==
  ASSUME TypeOK, NEW B, OrderIn(B), ConflictsOrdered,
         NEW th \in Threads, th \in B, pc[th] \in {"op", "data", "fwd"},
         NEW x \in Reads[Here(th)] \cup Writes[Here(th)]
  PROVE  /\ \A w \in WrittenBy(B, x) \ {Here(th)} : Before(w, Here(th)) /\ ~Before(Here(th), w)
         /\ \A w \in Writers(x) : Before(w, Here(th)) => w \in WrittenBy(B, x) \ {Here(th)}
<1>1. PICK p \in Places : p = Here(th) /\ p[1] = th /\ p[2] = step[th]
  BY AccessIsHere DEF Here
<1>2. Started(B, p) /\ ~Passed(p)
  BY <1>1, AccessIsHere DEF Started
<1>3. ASSUME NEW w \in Writers(x), Before(w, p) PROVE w \in WrittenBy(B, x) \ {p}
  <2>1. Completed(B, w)
    BY <1>2, <1>3, BeforeIsCompleted
  <2> QED
    BY <1>2, <2>1 DEF WrittenBy, WrittenTo, Written, Completed
<1>4. ASSUME NEW w \in WrittenBy(B, x), w # p PROVE Before(w, p) /\ ~Before(p, w)
  <2>1. w \in Places /\ x \in Writes[w] /\ Written(w) /\ w[1] \in B
    BY DEF WrittenBy, WrittenTo, Writers
  <2>2. Started(B, w)
    BY <2>1 DEF Written, Started, Entered, Passed, Here
  <2>3. ~Before(p, w)
    BY <1>2, <2>1, <2>2, BeforeIsCompleted DEF Completed
  <2>4. CASE w[1] = th
    <3>1. w[2] \in Nat /\ p[2] \in Nat /\ w = <<w[1], w[2]>> /\ p = <<p[1], p[2]>>
      BY <2>1, PlaceFacts
    <3>2. w[2] < p[2]
      BY <1>1, <1>4, <2>1, <2>4, <3>1 DEF Written, Passed, Here
    <3>3. w \in Predecessors(p)
      <4>1. w[2] \in 0 .. p[2] - 1 /\ w = <<p[1], w[2]>>
        BY <1>1, <2>4, <3>1, <3>2
      <4> QED
        BY <4>1 DEF Predecessors
    <3>4. Before(w, p)
      BY <3>3 DEF Before
    <3> QED
      BY <2>3, <3>4
  <2>5. CASE w[1] # th
    <3>1. Writes[w] \cap (Reads[p] \cup Writes[p]) # {}
      BY <1>1, <2>1
    <3> QED
      BY <1>1, <2>1, <2>3, <2>5, <3>1 DEF ConflictsOrdered
  <2> QED
    BY <2>4, <2>5
<1> QED
  BY <1>1, <1>3, <1>4

LEMMA WrittenBefore ==
  ASSUME TypeOK, DependencyOrder, ConflictsOrdered,
         NEW th \in Threads, pc[th] \in {"op", "data", "fwd"},
         NEW x \in Reads[Here(th)] \cup Writes[Here(th)]
  PROVE  /\ \A w \in WrittenTo(x) \ {Here(th)} : Before(w, Here(th)) /\ ~Before(Here(th), w)
         /\ \A w \in Writers(x) : Before(w, Here(th)) => w \in WrittenTo(x) \ {Here(th)}
<1>1. OrderIn(Threads)
  BY AllBegun
<1>2. WrittenBy(Threads, x) = WrittenTo(x)
  BY PlaceFacts DEF WrittenBy, WrittenTo, Writers
<1> QED
  BY <1>1, <1>2, WrittenUntil

LEMMA FoundNow ==
  ASSUME TypeOK, DependencyOrder, ConflictsOrdered, ChunksHold,
         NEW th \in Threads, pc[th] \in {"op", "data"},
         NEW x \in Reads[Here(th)] \cup Writes[Here(th)]
  PROVE  buf[x] = Found(Computed, Here(th), x)
<1>1. Here(th) \in Places
  BY AccessIsHere
<1>2. x \in Slots
  BY <1>1, SlotsAssumption
<1>3. Here(th) \notin WrittenTo(x)
  <2>1. ~Passed(Here(th)) /\ Here(th)[1] = th
    BY AccessIsHere
  <2> QED
    BY <2>1 DEF WrittenTo, Written
<1>4. WrittenTo(x) = {w \in Writers(x) : Before(w, Here(th))}
  <2>1. \A w \in WrittenTo(x) : w \in Writers(x)
    BY DEF WrittenTo
  <2> QED
    BY <1>3, <2>1, WrittenBefore
<1> QED
  BY <1>2, <1>4 DEF ChunksHold, Found

LEMMA LeftNow ==
  ASSUME TypeOK, DependencyOrder, ConflictsOrdered,
         NEW th \in Threads, pc[th] \in {"op", "data", "fwd"}, NEW x \in Writes[Here(th)]
  PROVE  LeftIn(Computed, WrittenTo(x) \cup {Here(th)}, x) = Computed[Here(th)][x]
<1>1. \A w \in WrittenTo(x) \ {Here(th)} : Before(w, Here(th)) /\ ~Before(Here(th), w)
  BY WrittenBefore
<1>2. LastOf(WrittenTo(x) \cup {Here(th)}) = Here(th)
  BY <1>1, LastIs
<1> QED
  BY <1>2 DEF LeftIn

-----------------------------------------------------------------------------
\* What the moves of a thread change of what is written.
LEMMA WrittenWithin ==
  ASSUME TypeOK, NEW th \in Threads, NEW v, step' = step, pc' = [pc EXCEPT ![th] = v]
  PROVE  \A p \in Places :
           /\ p # Here(th) => (Written(p)' <=> Written(p))
           /\ p = Here(th) => /\ Written(p) <=> pc[th] \in {"fwd", "post"}
                              /\ Written(p)' <=> v \in {"fwd", "post"}
<1> SUFFICES ASSUME NEW p \in Places
             PROVE  /\ p # Here(th) => (Written(p)' <=> Written(p))
                    /\ p = Here(th) => /\ Written(p) <=> pc[th] \in {"fwd", "post"}
                                       /\ Written(p)' <=> v \in {"fwd", "post"}
  OBVIOUS
<1>1. p[1] \in Threads /\ step[th] \in Nat
  BY PlaceFacts DEF TypeOK
<1>2. pc'[th] = v /\ \A q \in Threads : q # th => pc'[q] = pc[q]
  BY DEF TypeOK
<1>3. CASE p = Here(th)
  BY <1>1, <1>2, <1>3 DEF Written, Passed, Here
<1>4. CASE p # Here(th)
  BY <1>1, <1>2, <1>4 DEF Written, Passed, Here
<1> QED
  BY <1>3, <1>4

LEMMA WrittenCompleted ==
  ASSUME TypeOK, NEW th \in Threads, Post(th)
  PROVE  \A p \in Places : Written(p)' <=> Written(p)
<1> SUFFICES ASSUME NEW p \in Places PROVE Written(p)' <=> Written(p)
  OBVIOUS
<1>1. p[1] \in Threads /\ p[2] \in Nat /\ p = <<p[1], p[2]>>
  BY PlaceFacts
<1>2. CASE p[1] = th
  <2>1. pc[th] = "post" /\ step[th] \in Nat /\ step'[th] = step[th] + 1
    BY DEF Post, TypeOK
  <2>2. pc'[th] \in {"dep", "op", "drain"}
    <3>1. step[th] < NSteps(th) /\ NSteps(th) \in Nat
      BY <2>1, ThreadFacts DEF TypeOK
    <3>2. step[th] + 1 \in Nat /\ step[th] + 1 =< NSteps(th)
      BY <2>1, <3>1
    <3>3. pc'[th] = StartPc(th, step[th] + 1)
      BY DEF Post, TypeOK
    <3> QED
      BY <3>2, <3>3, StartPcFacts
  <2> QED
    BY <1>1, <1>2, <2>1, <2>2 DEF Written, Passed, Here
<1>3. CASE p[1] # th
  <2>1. pc'[p[1]] = pc[p[1]] /\ step'[p[1]] = step[p[1]]
    BY <1>1, <1>3 DEF Post, TypeOK
  <2> QED
    BY <2>1 DEF Written, Passed, Here
<1> QED
  BY <1>2, <1>3

LEMMA ChunksKept ==
  ASSUME ChunksHold, buf' = buf,
         \A p \in Places : Writes[p] # {} => (Written(p)' <=> Written(p))
  PROVE  ChunksHold'
<1>1. ASSUME NEW x \in Slots PROVE WrittenTo(x)' = WrittenTo(x)
  BY DEF WrittenTo, Writers
<1> QED
  BY <1>1 DEF ChunksHold

\* A step that writes leaves in its chunks what Computed says.
LEMMA ChunksStored ==
  ASSUME TypeOK, DependencyOrder, ConflictsOrdered, WellFounded, ChunksHold,
         NEW th \in Threads, pc[th] \in {"op", "data"},
         NEW v \in {"fwd", "post"}, step' = step, pc' = [pc EXCEPT ![th] = v],
         \A x \in Slots : buf'[x] = IF x \in Writes[Here(th)]
                                    THEN Result(Computed, Here(th))[x] ELSE buf[x]
  PROVE  ChunksHold'
<1>1. PICK p \in Places : p = Here(th)
  BY AccessIsHere
<1>2. \A w \in Places : Written(w)' <=> Written(w) \/ w = p
  BY <1>1, WrittenWithin
<1> SUFFICES ASSUME NEW x \in Slots
             PROVE  buf'[x] = LeftIn(Computed, WrittenTo(x)', x)
  BY DEF ChunksHold
<1>3. CASE x \in Writes[p]
  <2>1. WrittenTo(x)' = WrittenTo(x) \cup {p}
    BY <1>2, <1>3 DEF WrittenTo, Writers
  <2>2. LeftIn(Computed, WrittenTo(x) \cup {p}, x) = Computed[p][x]
    BY <1>1, <1>3, LeftNow
  <2>3. Computed[p] = Result(Computed, p)
    BY DEF WellFounded
  <2> QED
    BY <1>1, <1>3, <2>1, <2>2, <2>3
<1>4. CASE x \notin Writes[p]
  <2>1. WrittenTo(x)' = WrittenTo(x)
    BY <1>2, <1>4 DEF WrittenTo, Writers
  <2> QED
    BY <1>1, <1>4, <2>1 DEF ChunksHold
<1> QED
  BY <1>3, <1>4

\* The chunks of a step, by their numbers.
LEMMA Indices ==
  ASSUME NEW p \in Places
  PROVE  /\ StepAt(p).type \in {"s", "re"} =>
              \A i \in 1 .. StepAt(p).cnt : Source(p, i) \in Reads[p]
         /\ StepAt(p).type \in Receiving \cup {"re"} =>
              /\ Writes[p] = Span(p[1][1], StepAt(p).dstbuf, StepAt(p).dstoff, StepAt(p).cnt)
              /\ \A i \in 1 .. StepAt(p).cnt : Target(p, i) \in Writes[p]
              /\ \A x \in Writes[p] : x[3] - StepAt(p).dstoff + 1 \in 1 .. StepAt(p).cnt
<1>1. /\ StepAt(p).cnt \in Nat /\ StepAt(p).dstoff \in Int /\ StepAt(p).srcoff \in Int
  BY PlaceFacts DEF Step
<1>2. ASSUME StepAt(p).type \in {"s", "re"}, NEW i \in 1 .. StepAt(p).cnt
      PROVE  Source(p, i) \in Reads[p]
  <2>1. Reads[p] = Span(p[1][1], StepAt(p).srcbuf, StepAt(p).srcoff, StepAt(p).cnt)
    BY <1>2 DEF Reads
  <2>2. StepAt(p).srcoff + i - 1 \in StepAt(p).srcoff .. StepAt(p).srcoff + StepAt(p).cnt - 1
    BY <1>1
  <2> QED
    BY <2>1, <2>2 DEF Span, Source
<1>3. ASSUME StepAt(p).type \in Receiving \cup {"re"}
      PROVE  /\ Writes[p] = Span(p[1][1], StepAt(p).dstbuf, StepAt(p).dstoff, StepAt(p).cnt)
             /\ \A i \in 1 .. StepAt(p).cnt : Target(p, i) \in Writes[p]
             /\ \A x \in Writes[p] : x[3] - StepAt(p).dstoff + 1 \in 1 .. StepAt(p).cnt
  <2>1. Writes[p] = Span(p[1][1], StepAt(p).dstbuf, StepAt(p).dstoff, StepAt(p).cnt)
    BY <1>3 DEF Writes
  <2>2. ASSUME NEW i \in 1 .. StepAt(p).cnt PROVE Target(p, i) \in Writes[p]
    <3>1. StepAt(p).dstoff + i - 1 \in StepAt(p).dstoff .. StepAt(p).dstoff + StepAt(p).cnt - 1
      BY <1>1
    <3> QED
      BY <2>1, <3>1 DEF Span, Target
  <2>3. ASSUME NEW x \in Writes[p]
        PROVE  x[3] - StepAt(p).dstoff + 1 \in 1 .. StepAt(p).cnt
    <3>1. PICK c \in StepAt(p).dstoff .. StepAt(p).dstoff + StepAt(p).cnt - 1 :
            x = <<p[1][1], StepAt(p).dstbuf, c>>
      BY <2>1 DEF Span
    <3> QED
      BY <1>1, <3>1
  <2> QED
    BY <2>1, <2>2, <2>3
<1> QED
  BY <1>2, <1>3

\* What a step reads is what Computed says that it finds.
LEMMA SourceNow ==
  ASSUME TypeOK, DependencyOrder, ConflictsOrdered, ChunksHold,
         NEW th \in Threads, pc[th] = "op", Cur(th).type \in {"s", "re"}
  PROVE  [i \in 1 .. Cur(th).cnt |-> buf[<<th[1], Cur(th).srcbuf, Cur(th).srcoff + i - 1>>]]
           = SourceData(Computed, Here(th))
<1>1. PICK p \in Places : p = Here(th) /\ Cur(th) = StepAt(p) /\ p[1] = th
  BY AccessIsHere DEF Cur
<1>2. ASSUME NEW i \in 1 .. StepAt(p).cnt
      PROVE  buf[<<th[1], Cur(th).srcbuf, Cur(th).srcoff + i - 1>>]
               = Found(Computed, p, Source(p, i))
  <2>1. Source(p, i) \in Reads[p]
    BY <1>1, Indices
  <2>2. buf[Source(p, i)] = Found(Computed, p, Source(p, i))
    BY <1>1, <2>1, FoundNow
  <2> QED
    BY <1>1, <2>2 DEF Source
<1> QED
  BY <1>1, <1>2 DEF SourceData

LEMMA StoredNow ==
  ASSUME TypeOK, DependencyOrder, ConflictsOrdered, ChunksHold,
         NEW th \in Threads, pc[th] \in {"op", "data"}, Cur(th).type \in Receiving \cup {"re"},
         NEW data, data = Operand(Computed, Here(th)), DOMAIN data = 1 .. Cur(th).cnt,
         NEW add \in BOOLEAN, add <=> Cur(th).type \in Reducing \cup {"re"},
         buf' = Stored(th[1], Cur(th).dstbuf, Cur(th).dstoff, data, Cur(th).cnt, add)
  PROVE  \A x \in Slots : buf'[x] = IF x \in Writes[Here(th)]
                                    THEN Result(Computed, Here(th))[x] ELSE buf[x]
<1>1. PICK p \in Places : p = Here(th) /\ Cur(th) = StepAt(p) /\ p[1] = th
  BY AccessIsHere DEF Cur
<1>2. Writes[p] = Span(th[1], Cur(th).dstbuf, Cur(th).dstoff, Cur(th).cnt)
  BY <1>1, Indices
<1> SUFFICES ASSUME NEW x \in Slots
             PROVE  buf'[x] = IF x \in Writes[p] THEN Result(Computed, p)[x] ELSE buf[x]
  BY <1>1
<1>3. CASE x \in Writes[p]
  <2>1. PICK i \in 1 .. Cur(th).cnt : i = x[3] - Cur(th).dstoff + 1
    BY <1>1, <1>3, Indices
  <2>2. ChunkOf(data, i) = Operand(Computed, p)[i]
    BY <1>1, <2>1 DEF ChunkOf
  <2>3. buf'[x] = IF add THEN Plus(buf[x], ChunkOf(data, i)) ELSE ChunkOf(data, i)
    BY <1>2, <1>3, <2>1 DEF Stored
  <2>4. buf[x] = Found(Computed, p, x)
    BY <1>1, <1>3, FoundNow
  <2>5. Result(Computed, p)[x] = IF add THEN Plus(Found(Computed, p, x), Operand(Computed, p)[i])
                                 ELSE Operand(Computed, p)[i]
    BY <1>1, <1>3, <2>1 DEF Result
  <2> QED
    BY <1>3, <2>2, <2>3, <2>4, <2>5
<1>4. CASE x \notin Writes[p]
  BY <1>2, <1>4 DEF Stored
<1> QED
  BY <1>3, <1>4

LEMMA ChunksReduce ==
  ASSUME TypeOK, DependencyOrder, ConflictsOrdered, WellFounded, ChunksHold,
         NEW th \in Threads, Reduce(th)
  PROVE  ChunksHold'
<1> DEFINE data == [i \in 1 .. Cur(th).cnt |->
                      buf[<<th[1], Cur(th).srcbuf, Cur(th).srcoff + i - 1>>]]
<1>1. /\ pc[th] = "op" /\ Cur(th).type = "re" /\ step' = step /\ pc' = [pc EXCEPT ![th] = "post"]
      /\ buf' = Stored(th[1], Cur(th).dstbuf, Cur(th).dstoff, data, Cur(th).cnt, TRUE)
  BY DEF Reduce
<1>2. data = Operand(Computed, Here(th))
  BY <1>1, SourceNow DEF Operand, Cur
<1>3. DOMAIN data = 1 .. Cur(th).cnt
  OBVIOUS
<1> HIDE DEF data
<1>4. \A x \in Slots : buf'[x] = IF x \in Writes[Here(th)]
                                 THEN Result(Computed, Here(th))[x] ELSE buf[x]
  BY <1>1, <1>2, <1>3, StoredNow
<1> QED
  BY <1>1, <1>4, ChunksStored

LEMMA ChunksStore ==
  ASSUME TypeOK, DependencyOrder, ConflictsOrdered, WellFounded, ChunksHold,
         ReceiveMatchesSend, MatchesHold, NEW th \in Threads, Store(th)
  PROVE  ChunksHold'
<1> DEFINE data == got[th].data
<1>1. /\ pc[th] = "data" /\ Cur(th).type \in Receiving /\ step' = step
      /\ \E v \in {"fwd", "post"} : pc' = [pc EXCEPT ![th] = v]
  BY DEF Store, TypeOK
<1>2. data = Operand(Computed, Here(th)) /\ Len(data) = Cur(th).cnt /\ data \in Seq(Value)
  BY <1>1 DEF MatchesHold, ReceiveMatchesSend, TypeOK
<1>3. DOMAIN data = 1 .. Cur(th).cnt
  BY <1>2
<1>4. PICK add \in BOOLEAN : add <=> Cur(th).type \in Reducing
  OBVIOUS
<1>5. buf' = Stored(th[1], Cur(th).dstbuf, Cur(th).dstoff, data, Cur(th).cnt, add)
  <2>1. CASE Cur(th).type \in Reducing
    <3>1. buf' = Stored(th[1], Cur(th).dstbuf, Cur(th).dstoff, data, Cur(th).cnt, TRUE)
      BY <2>1 DEF Store
    <3>2. add = TRUE
      BY <1>4, <2>1
    <3> QED
      BY <3>1, <3>2
  <2>2. CASE Cur(th).type \notin Reducing
    <3>1. buf' = Stored(th[1], Cur(th).dstbuf, Cur(th).dstoff, data, Cur(th).cnt, FALSE)
      BY <1>2, <2>2 DEF Store
    <3>2. add = FALSE
      BY <1>4, <2>2
    <3> QED
      BY <3>1, <3>2
  <2> QED
    BY <2>1, <2>2
<1>6. add <=> Cur(th).type \in Reducing \cup {"re"}
  BY <1>1, <1>4 DEF Receiving
<1> HIDE DEF data
<1>7. \A x \in Slots : buf'[x] = IF x \in Writes[Here(th)]
                                 THEN Result(Computed, Here(th))[x] ELSE buf[x]
  BY <1>1, <1>2, <1>3, <1>5, <1>6, StoredNow
<1> QED
  BY <1>1, <1>7, ChunksStored

-----------------------------------------------------------------------------
(* What is on its way. *)

\* No two steps of a tb have as many of a set before them.
LEMMA NumberInjective ==
  ASSUME NEW S \in SUBSET Places, NEW th, \A x \in S : x[1] = th,
         NEW s \in S, NEW u \in S, NumberIn(S, s) = NumberIn(S, u)
  PROVE  s = u
<1>1. \A x \in S : x[2] \in Nat /\ x = <<th, x[2]>>
  BY PlaceFacts
<1>2. ASSUME NEW a \in S, NEW b \in S, a[2] < b[2] PROVE NumberIn(S, a) # NumberIn(S, b)
  <2> DEFINE A == {x \in S : x[2] < a[2]}
             B == {x \in S : x[2] < b[2]}
  <2>1. IsFiniteSet(B)
    BY PlacesFinite, FS_Subset
  <2>2. A \cup {a} \subseteq B /\ a \notin A
    BY <1>1, <1>2
  <2>3. IsFiniteSet(A)
    BY PlacesFinite, FS_Subset
  <2> HIDE DEF A, B
  <2>4. Cardinality(A \cup {a}) = Cardinality(A) + 1 /\ Cardinality(A) \in Nat
    BY <2>2, <2>3, FS_AddElement, FS_CardinalityType
  <2>5. Cardinality(A \cup {a}) =< Cardinality(B)
    BY <2>1, <2>2, FS_Subset
  <2>6. Cardinality(A) # Cardinality(B)
    BY <2>1, <2>4, <2>5, FS_CardinalityType
  <2> QED
    BY <2>6 DEF A, B, NumberIn
<1> QED
  BY <1>1, <1>2

LEMMA DataKept ==
  ASSUME RequestsHold, \A q \in Threads : Kept(q)
  PROVE  RequestsHold'
<1> SUFFICES ASSUME NEW q \in Threads, NEW t \in Int, NEW k \in Posted(q, t)',
                    NEW s \in Sends(q, t),
                    NumberIn(Sends(q, t), s) = Cardinality({j \in Posted(q, t)' : j < k})
             PROVE  reqs'[q][k].data = Sent(Computed, s)
  BY DEF RequestsHold
<1>1. Posted(q, t)' = Posted(q, t)
  BY CountsKept
<1>2. reqs'[q][k].data = reqs[q][k].data
  BY <1>1 DEF Posted, Kept
<1> QED
  BY <1>1, <1>2 DEF RequestsHold

\* A step sends what Computed says.
LEMMA SentNow ==
  ASSUME TypeOK, DependencyOrder, ConflictsOrdered, ChunksHold,
         NEW th \in Threads
  PROVE  /\ Send(th) =>
              [i \in 1 .. Cur(th).cnt |-> buf[<<th[1], Cur(th).srcbuf, Cur(th).srcoff + i - 1>>]]
                = Sent(Computed, Here(th))
         /\ Forward(th) =>
              [i \in 1 .. Cur(th).cnt |-> buf[<<th[1], Cur(th).dstbuf, Cur(th).dstoff + i - 1>>]]
                = Sent(Computed, Here(th))
<1>1. ASSUME Send(th)
      PROVE  [i \in 1 .. Cur(th).cnt |-> buf[<<th[1], Cur(th).srcbuf, Cur(th).srcoff + i - 1>>]]
               = Sent(Computed, Here(th))
  <2>1. pc[th] = "op" /\ Cur(th).type = "s"
    BY <1>1 DEF Send
  <2> QED
    BY <1>1, <2>1, SourceNow DEF Sent, Cur
<1>2. ASSUME Forward(th)
      PROVE  [i \in 1 .. Cur(th).cnt |-> buf[<<th[1], Cur(th).dstbuf, Cur(th).dstoff + i - 1>>]]
               = Sent(Computed, Here(th))
  <2>1. pc[th] = "fwd" /\ Cur(th).type \in Forwarding
    BY <1>2 DEF Forward, TypeOK
  <2>2. PICK p \in Places : p = Here(th) /\ Cur(th) = StepAt(p) /\ p[1] = th
    BY <2>1, AccessIsHere DEF Cur
  <2>3. StepAt(p).type # "s" /\ StepAt(p).type \in Receiving
    BY <2>1, <2>2 DEF Forwarding, Receiving
  <2>4. ASSUME NEW i \in 1 .. StepAt(p).cnt
        PROVE  buf[<<th[1], Cur(th).dstbuf, Cur(th).dstoff + i - 1>>]
                 = Computed[p][Target(p, i)]
    <3>1. Target(p, i) \in Writes[p] /\ Target(p, i) \in Slots
      BY <2>3, Indices, SlotsAssumption
    <3>2. p \in WrittenTo(Target(p, i))
      BY <2>1, <2>2, <3>1 DEF WrittenTo, Writers, Written
    <3>3. WrittenTo(Target(p, i)) \cup {p} = WrittenTo(Target(p, i))
      BY <3>2
    <3>4. buf[Target(p, i)] = Computed[p][Target(p, i)]
      BY <2>1, <2>2, <3>1, <3>3, LeftNow DEF ChunksHold
    <3> QED
      BY <2>2, <3>4 DEF Target
  <2> QED
    BY <2>2, <2>3, <2>4 DEF Sent
<1> QED
  BY <1>1, <1>2

LEMMA RequestsPosted ==
  ASSUME CountInv, RequestsHold, ~RecvMayFail, ~SendMayFail, "error" \notin SendResults,
         NEW th \in Threads, NEW b, NEW off, SendBlock(th, b, off),
         pc[th] \in {"op", "fwd"}, Cur(th).type \in Forwarding \cup {"s"},
         [i \in 1 .. Cur(th).cnt |-> buf[<<th[1], b, off + i - 1>>]]
           = Sent(Computed, Here(th))
  PROVE  RequestsHold'
<1>1. PICK tag \in Int : \E n : NextPosted(th, b, off, tag, n)
  BY NextRequest
<1>2. PICK n : NextPosted(th, b, off, tag, n)
  BY <1>1
<1>3. PICK here : here = Here(th)
  OBVIOUS
<1>4. \A p \in Threads, u \in Int :
        /\ Posted(p, u)' = IF p = th /\ u = tag THEN Posted(p, u) \cup {n} ELSE Posted(p, u)
        /\ \A k \in Posted(p, u) :
             /\ reqs'[p][k] = reqs[p][k]
             /\ {j \in Posted(p, u)' : j < k} = {j \in Posted(p, u) : j < k}
  BY <1>2 DEF NextPosted, Appended
<1>5. /\ here \in Sends(th, tag) /\ reqs'[th][n].data = Sent(Computed, here)
      /\ Cardinality({j \in Posted(th, tag)' : j < n}) = NumberIn(Sends(th, tag), here)
  BY <1>2, <1>3 DEF NextPosted, Appended
<1> SUFFICES ASSUME NEW q \in Threads, NEW t \in Int, NEW k \in Posted(q, t)',
                    NEW s \in Sends(q, t),
                    NumberIn(Sends(q, t), s) = Cardinality({j \in Posted(q, t)' : j < k})
             PROVE  reqs'[q][k].data = Sent(Computed, s)
  BY DEF RequestsHold
<1>6. CASE k \in Posted(q, t)
  <2>1. /\ reqs'[q][k] = reqs[q][k]
        /\ {j \in Posted(q, t)' : j < k} = {j \in Posted(q, t) : j < k}
    BY <1>4, <1>6
  <2>2. NumberIn(Sends(q, t), s) = Cardinality({j \in Posted(q, t) : j < k})
    BY <2>1
  <2> QED
    BY <1>6, <2>1, <2>2 DEF RequestsHold
<1>7. CASE k \notin Posted(q, t)
  <2>1. q = th /\ t = tag /\ k = n
    BY <1>4, <1>7
  <2>2. NumberIn(Sends(th, tag), s) = NumberIn(Sends(th, tag), here)
    BY <1>5, <2>1
  <2>3. s = here
    <3>1. Sends(th, tag) \in SUBSET Places /\ \A x \in Sends(th, tag) : x[1] = th
      BY DEF Sends
    <3> QED
      BY <1>5, <2>1, <2>2, <3>1, NumberInjective
  <2> QED
    BY <1>5, <2>1, <2>3
<1> QED
  BY <1>6, <1>7

\* A message is matched by the step that it is for.
LEMMA MatchesNow ==
  ASSUME MessagesPaired, OrderInv, RequestsHold, MatchesHold, NEW th \in Threads, Receive(th)
  PROVE  MatchesHold' /\ RequestsHold'
<1>1. CountInv /\ TypeOK /\ pc[th] = "op" /\ Cur(th).type \in Receiving
  BY DEF OrderInv, CountInv, Receive
<1>2. PICK here \in Places : here = Here(th) /\ Cur(th) = StepAt(here) /\ here[1] = th
  BY <1>1, AccessIsHere DEF Cur
<1>3. PICK tag \in Int : \E q, k : NextMatched(th, tag, q, k)
  BY NextMatch
<1>4. PICK q, k : NextMatched(th, tag, q, k)
  BY <1>3
<1>5. /\ tag = StepAt(here).dstoff /\ q \in Threads /\ q \in DOMAIN Peer /\ Peer[q] = th
      /\ k \in Posted(q, tag) /\ q \in Senders(th)
      /\ Cardinality({j \in Posted(q, tag) : j < k}) = NumberIn(Receives(th, tag), here)
      /\ got' = [got EXCEPT ![th] = [dst |-> reqs[q][k].dst, data |-> reqs[q][k].data]]
  BY <1>2, <1>4 DEF NextMatched, FirstTaken, Senders
<1>6. PICK s \in Partners(here) : s = CHOOSE x \in Partners(here) : TRUE
  <2>1. PICK x \in Sends(q, tag) : MeantBy(q, tag, k, x)
    BY <1>5 DEF OrderInv, QueueOrder
  <2>2. NumberIn(Sends(q, tag), x) = NumberIn(Receives(th, tag), here)
    BY <1>5, <2>1 DEF MeantBy
  <2>3. x \in Places /\ x[1] = q
    BY DEF Sends
  <2>4. x \in Partners(here)
    BY <1>2, <1>5, <2>1, <2>2, <2>3 DEF Partners
  <2> QED
    BY <2>4
<1>7. s \in Sends(q, tag) /\ NumberIn(Sends(q, tag), s) = NumberIn(Receives(th, tag), here)
  <2>1. /\ s[1] \in Senders(th) /\ s \in Sends(s[1], tag)
        /\ NumberIn(Sends(s[1], tag), s) = NumberIn(Receives(th, tag), here)
    BY <1>2, <1>5, <1>6 DEF Partners
  <2>2. s[1] = q
    BY <1>5, <2>1 DEF Senders, MessagesPaired
  <2> QED
    BY <2>1, <2>2
<1>8. reqs[q][k].data = Operand(Computed, here)
  <2>1. reqs[q][k].data = Sent(Computed, s)
    BY <1>5, <1>7 DEF RequestsHold
  <2>2. StepAt(here).type # "re"
    BY <1>1, <1>2 DEF Receiving
  <2> QED
    BY <1>6, <2>1, <2>2 DEF Operand
<1>9. MatchesHold'
  <2> SUFFICES ASSUME NEW p \in Threads, pc'[p] = "data"
               PROVE  got'[p].data = Operand(Computed, Here(p)')
    BY DEF MatchesHold
  <2>1. Here(p)' = Here(p)
    BY DEF Receive, Here
  <2>2. CASE p = th
    BY <1>1, <1>2, <1>5, <1>8, <2>1, <2>2 DEF TypeOK
  <2>3. CASE p # th
    <3>1. pc[p] = "data" /\ got'[p] = got[p]
      BY <1>1, <1>5, <2>3 DEF Receive, TypeOK
    <3> QED
      BY <2>1, <3>1 DEF MatchesHold
  <2> QED
    BY <2>2, <2>3
<1>10. RequestsHold'
  <2> SUFFICES ASSUME NEW p \in Threads, NEW t \in Int, NEW i \in Posted(p, t)',
                      NEW x \in Sends(p, t),
                      NumberIn(Sends(p, t), x) = Cardinality({j \in Posted(p, t)' : j < i})
               PROVE  reqs'[p][i].data = Sent(Computed, x)
    BY DEF RequestsHold
  <2>1. OnlyMatched(q, k)
    BY <1>4 DEF NextMatched, FirstTaken
  <2>2. Posted(p, t)' = Posted(p, t)
    BY <2>1 DEF OnlyMatched, Posted
  <2>3. reqs'[p][i].data = reqs[p][i].data
    BY <2>1, <2>2 DEF OnlyMatched, Posted
  <2> QED
    BY <2>2, <2>3 DEF RequestsHold
<1> QED
  BY <1>9, <1>10

LEMMA ContentInit == Init => ContentInv
<1> SUFFICES ASSUME Init PROVE ContentInv
  OBVIOUS
<1>1. OrderInv
  BY OrderInit
<1>2. ASSUME NEW th \in Threads PROVE pc[th] \in {"dep", "op", "drain"} /\ step[th] = 0
  <2>1. 0 \in Nat /\ 0 =< NSteps(th) /\ pc[th] = StartPc(th, 0)
    BY ThreadFacts DEF Init
  <2> QED
    BY <2>1, StartPcFacts DEF Init
<1>3. ASSUME NEW w \in Places PROVE ~Written(w)
  <2>1. w[1] \in Threads /\ w[2] \in Nat
    BY PlaceFacts
  <2>2. pc[w[1]] \in {"dep", "op", "drain"} /\ step[w[1]] = 0
    BY <1>2, <2>1
  <2> QED
    BY <2>1, <2>2 DEF Written, Passed
<1>4. ASSUME NEW x \in Slots PROVE buf[x] = LeftIn(Computed, WrittenTo(x), x)
  <2>1. WrittenTo(x) = {}
    BY <1>3 DEF WrittenTo, Writers
  <2> QED
    BY <2>1 DEF Init, LeftIn
<1>5. \A q \in Threads : \A t : Posted(q, t) = {}
  BY DEF Init, Posted
<1> QED
  BY <1>1, <1>2, <1>4, <1>5 DEF ContentInv, ChunksHold, RequestsHold, MatchesHold

LEMMA MatchesUnmoved ==
  ASSUME MatchesHold,
         \A th \in Threads : pc'[th] = "data" =>
           pc[th] = "data" /\ got'[th] = got[th] /\ step'[th] = step[th]
  PROVE  MatchesHold'
BY DEF MatchesHold, Here

LEMMA ContentNext ==
  ASSUME ConflictsOrdered, MessagesPaired, WellFounded, ~RecvMayFail, ~SendMayFail, "error" \notin SendResults,
         DependencyOrder, ContentInv, [Next]_vars
  PROVE  ContentInv'
<1>1. OrderInv' /\ OrderInv /\ CountInv /\ TypeOK /\ ReceiveMatchesSend
  BY OrderNext DEF ContentInv, OrderInv, CountInv
<1>2. ChunksHold /\ RequestsHold /\ MatchesHold
  BY DEF ContentInv
<1>3. ASSUME reqs' = reqs PROVE RequestsHold'
  <2>1. \A q \in Threads : Kept(q)
    BY <1>3 DEF Kept
  <2> QED
    BY <1>2, <2>1, DataKept
<1>4. ASSUME NEW th \in Threads, NEW v, v # "data", step' = step, pc' = [pc EXCEPT ![th] = v],
             \A p \in Threads : p # th => got'[p] = got[p]
      PROVE  MatchesHold'
  <2>1. \A p \in Threads : pc'[p] = "data" => p # th /\ pc[p] = "data" /\ step'[p] = step[p]
    BY <1>1, <1>4 DEF TypeOK
  <2> QED
    BY <1>2, <1>4, <2>1, MatchesUnmoved
<1>5. ASSUME NEW th \in Threads, NEW v, step' = step, pc' = [pc EXCEPT ![th] = v], buf' = buf,
             Here(th) \in Places /\ Writes[Here(th)] # {} =>
               (pc[th] \in {"fwd", "post"} <=> v \in {"fwd", "post"})
      PROVE  ChunksHold'
  <2>1. \A p \in Places : Writes[p] # {} => (Written(p)' <=> Written(p))
    BY <1>1, <1>5, WrittenWithin
  <2> QED
    BY <1>2, <1>5, <2>1, ChunksKept
<1>6. ASSUME NEW th \in Threads, DepWait(th) \/ Drain(th) PROVE ContentInv'
  <2>1. reqs' = reqs /\ got' = got /\ step' = step /\ buf' = buf
    BY <1>6 DEF DepWait, Drain
  <2>2. PICK v \in {"op", "done"} : pc' = [pc EXCEPT ![th] = v]
    BY <1>6 DEF DepWait, Drain
  <2>3. pc[th] \notin {"fwd", "post"}
    BY <1>6 DEF DepWait, Drain
  <2>4. MatchesHold'
    BY <1>4, <2>1, <2>2
  <2>5. ChunksHold'
    BY <1>5, <2>1, <2>2, <2>3
  <2> QED
    BY <1>1, <1>3, <2>1, <2>4, <2>5 DEF ContentInv
<1>7. ASSUME NEW th \in Threads, Nop(th) PROVE ContentInv'
  <2>1. /\ reqs' = reqs /\ got' = got /\ step' = step /\ buf' = buf
        /\ pc' = [pc EXCEPT ![th] = "post"]
    BY <1>7 DEF Nop
  <2>2. Here(th) \in Places => Writes[Here(th)] = {}
    BY <1>7 DEF Nop, Cur, Writes, Receiving
  <2>3. MatchesHold'
    BY <1>4, <2>1
  <2>4. ChunksHold'
    BY <1>5, <2>1, <2>2
  <2> QED
    BY <1>1, <1>3, <2>1, <2>3, <2>4 DEF ContentInv
<1>8. ASSUME NEW th \in Threads, Reduce(th) PROVE ContentInv'
  <2>1. reqs' = reqs /\ got' = got /\ step' = step /\ pc' = [pc EXCEPT ![th] = "post"]
    BY <1>8 DEF Reduce
  <2>2. MatchesHold'
    BY <1>4, <2>1
  <2>3. ChunksHold'
    BY <1>1, <1>2, <1>8, ChunksReduce
  <2> QED
    BY <1>1, <1>3, <2>1, <2>2, <2>3 DEF ContentInv
<1>9. ASSUME NEW th \in Threads, Send(th) \/ Forward(th) PROVE ContentInv'
  <2>1. PICK b, off : /\ SendBlock(th, b, off)
                      /\ \/ Send(th) /\ b = Cur(th).srcbuf /\ off = Cur(th).srcoff
                         \/ Forward(th) /\ b = Cur(th).dstbuf /\ off = Cur(th).dstoff
    BY <1>9 DEF Send, Forward
  <2>2. /\ pc[th] \in {"op", "fwd"} /\ step' = step /\ got' = got /\ buf' = buf
        /\ pc' = [pc EXCEPT ![th] = "post"]
    BY <1>9 DEF Send, Forward
  <2>3. Cur(th).type \in Forwarding \cup {"s"} /\ (pc[th] = "op" => Cur(th).type = "s")
    BY <1>1, <1>9 DEF Send, Forward, TypeOK
  <2>4. [i \in 1 .. Cur(th).cnt |-> buf[<<th[1], b, off + i - 1>>]] = Sent(Computed, Here(th))
    <3>1. CASE Send(th) /\ b = Cur(th).srcbuf /\ off = Cur(th).srcoff
      BY <1>1, <1>2, <3>1, SentNow
    <3>2. CASE Forward(th) /\ b = Cur(th).dstbuf /\ off = Cur(th).dstoff
      BY <1>1, <1>2, <3>2, SentNow
    <3> QED
      BY <2>1, <3>1, <3>2
  <2>5. RequestsHold'
    BY <1>1, <1>2, <2>1, <2>2, <2>3, <2>4, RequestsPosted
  <2>6. MatchesHold'
    BY <1>4, <2>2
  <2>7. Here(th) \in Places /\ Writes[Here(th)] # {} => pc[th] = "fwd"
    BY <2>2, <2>3 DEF Cur, Writes, Receiving
  <2>8. ChunksHold'
    BY <1>5, <2>2, <2>7
  <2> QED
    BY <1>1, <2>5, <2>6, <2>8 DEF ContentInv
<1>10. ASSUME NEW th \in Threads, Receive(th) PROVE ContentInv'
  <2>1. /\ pc[th] = "op" /\ step' = step /\ buf' = buf /\ pc' = [pc EXCEPT ![th] = "data"]
    BY <1>10 DEF Receive
  <2>2. ChunksHold'
    BY <1>5, <2>1
  <2> QED
    BY <1>1, <1>2, <1>10, <2>2, MatchesNow DEF ContentInv
<1>11. ASSUME NEW th \in Threads, Store(th) PROVE ContentInv'
  <2>1. PICK v \in {"fwd", "post"} : pc' = [pc EXCEPT ![th] = v]
    BY <1>11 DEF Store
  <2>2. /\ reqs' = reqs /\ step' = step
        /\ \A p \in Threads : p # th => got'[p] = got[p]
    BY <1>1, <1>11 DEF Store, TypeOK
  <2>3. MatchesHold'
    BY <1>4, <2>1, <2>2
  <2>4. ChunksHold'
    BY <1>1, <1>2, <1>11, ChunksStore
  <2> QED
    BY <1>1, <1>3, <2>2, <2>3, <2>4 DEF ContentInv
<1>12. ASSUME NEW th \in Threads, Post(th) PROVE ContentInv'
  <2>1. reqs' = reqs /\ got' = got /\ buf' = buf
    BY <1>12 DEF Post
  <2>2. ASSUME NEW p \in Threads, pc'[p] = "data" PROVE pc[p] = "data" /\ step'[p] = step[p]
    <3>1. CASE p = th
      <4>1. pc'[th] = StartPc(th, step[th] + 1)
        BY <1>1, <1>12 DEF Post, TypeOK
      <4>2. step[th] \in Nat /\ NSteps(th) \in Nat /\ step[th] < NSteps(th)
        BY <1>1, <1>12, ThreadFacts DEF Post, TypeOK
      <4>3. step[th] + 1 \in Nat /\ step[th] + 1 =< NSteps(th)
        BY <4>2
      <4>4. pc'[th] \in {"dep", "op", "drain"}
        BY <4>1, <4>3, StartPcFacts
      <4> QED
        BY <2>2, <3>1, <4>4
    <3>2. CASE p # th
      BY <1>1, <1>12, <2>2, <3>2 DEF Post, TypeOK
    <3> QED
      BY <3>1, <3>2
  <2>3. MatchesHold'
    BY <1>2, <2>1, <2>2, MatchesUnmoved
  <2>4. ChunksHold'
    BY <1>1, <1>2, <1>12, <2>1, WrittenCompleted, ChunksKept
  <2> QED
    BY <1>1, <1>3, <2>1, <2>3, <2>4 DEF ContentInv
<1>13. ASSUME NEW th \in Threads, Flush(th) \/ SendDone(th) PROVE ContentInv'
  <2>1. step' = step /\ pc' = pc /\ got' = got /\ buf' = buf
    BY <1>13 DEF Flush, SendDone
  <2>2. \A q \in Threads : Kept(q)
    BY <1>1, <1>13, FlushKeeps
  <2>3. RequestsHold'
    BY <1>2, <2>2, DataKept
  <2>4. MatchesHold'
    BY <1>2, <2>1, MatchesUnmoved
  <2>5. \A p \in Places : Written(p)' <=> Written(p)
    BY <2>1 DEF Written, Passed, Here
  <2>6. ChunksHold'
    BY <1>2, <2>1, <2>5, ChunksKept
  <2> QED
    BY <1>1, <2>3, <2>4, <2>6 DEF ContentInv
<1>14. CASE UNCHANGED vars
  <2>1. reqs' = reqs /\ got' = got /\ step' = step /\ pc' = pc /\ buf' = buf
    BY <1>14 DEF vars
  <2>2. MatchesHold'
    BY <1>2, <2>1, MatchesUnmoved
  <2>3. \A p \in Places : Written(p)' <=> Written(p)
    BY <2>1 DEF Written, Passed, Here
  <2>4. ChunksHold'
    BY <1>2, <2>1, <2>3, ChunksKept
  <2> QED
    BY <1>1, <1>3, <2>1, <2>2, <2>4 DEF ContentInv
<1>15. \A th \in Threads : ~RecvFails(th) /\ ~SendFails(th)
  BY DEF RecvFails, SendFails
<1> QED
  BY <1>6, <1>7, <1>8, <1>9, <1>10, <1>11, <1>12, <1>13, <1>14, <1>15
     DEF Next, Run, Terminated

-----------------------------------------------------------------------------
(* No rank has another's input before that has sent it. *)

Joined(q) == \E th \in RankThreads(q) : reqs[th] # <<>>

Lacks(v, q) == \A o \in Origins : o[1][1] = q => v[o] = 0

ChunksLack(q) == \A x \in Slots : x[1] # q => Lacks(buf[x], q)

RequestsLack(q) ==
  \A th \in Threads : th[1] # q =>
    \A k \in DOMAIN reqs[th] : \A i \in DOMAIN reqs[th][k].data : Lacks(reqs[th][k].data[i], q)

MatchesLack(q) ==
  \A th \in Threads : th[1] # q => \A i \in DOMAIN got[th].data : Lacks(got[th].data[i], q)

Unmixed == \A q \in Ranks : ~Joined(q) => ChunksLack(q) /\ RequestsLack(q) /\ MatchesLack(q)

LEMMA UnmixedInit == Init => Unmixed
<1> SUFFICES ASSUME Init, NEW q \in Ranks
             PROVE  ChunksLack(q) /\ RequestsLack(q) /\ MatchesLack(q)
  BY DEF Unmixed
<1>1. ChunksLack(q)
  BY DEF Init, ChunksLack, Lacks, Initial
<1>2. RequestsLack(q)
  BY DEF Init, RequestsLack
<1>3. MatchesLack(q)
  BY DEF Init, MatchesLack, NoMessage
<1> QED
  BY <1>1, <1>2, <1>3

\* A rank that has joined stays joined.
LEMMA StaysJoined ==
  ASSUME \A th \in Threads : DOMAIN reqs[th] \subseteq DOMAIN reqs'[th], TypeOK, TypeOK',
         NEW q \in Ranks, Joined(q)
  PROVE  Joined(q)'
<1>1. PICK th \in RankThreads(q) : reqs[th] # <<>>
  BY DEF Joined
<1>2. th \in Threads /\ reqs[th] \in Seq(Request) /\ reqs'[th] \in Seq(Request)
  BY DEF RankThreads, TypeOK
<1>3. 1 \in DOMAIN reqs[th]
  BY <1>1, <1>2
<1>4. 1 \in DOMAIN reqs'[th]
  BY <1>2, <1>3
<1>5. reqs'[th] # <<>>
  BY <1>4
<1> QED
  BY <1>1, <1>5 DEF Joined, RankThreads

LEMMA LacksSum ==
  ASSUME NEW q, NEW v, NEW w, Lacks(v, q), Lacks(w, q)
  PROVE  Lacks(Plus(v, w), q)
BY DEF Lacks, Plus

\* What is stored on a rank comes from its chunks and the operand.
LEMMA UnmixedStored ==
  ASSUME NEW q \in Ranks, ChunksLack(q), NEW r, NEW b, NEW off \in Int, NEW n \in Nat,
         NEW data, DOMAIN data = 1 .. n, NEW add \in BOOLEAN,
         r # q => \A i \in DOMAIN data : Lacks(data[i], q),
         buf' = Stored(r, b, off, data, n, add)
  PROVE  ChunksLack(q)'
<1> SUFFICES ASSUME NEW x \in Slots, x[1] # q PROVE Lacks(buf'[x], q)
  BY DEF ChunksLack, Lacks
<1>1. Lacks(buf[x], q)
  BY DEF ChunksLack
<1>2. CASE x \in Span(r, b, off, n)
  <2>1. PICK c \in off .. off + n - 1 : x = <<r, b, c>>
    BY <1>2 DEF Span
  <2>2. PICK i \in 1 .. n : i = x[3] - off + 1
    BY <2>1
  <2>3. buf'[x] = IF add THEN Plus(buf[x], data[i]) ELSE data[i]
    BY <1>2, <2>2 DEF Stored, ChunkOf
  <2>4. Lacks(data[i], q)
    BY <2>1, <2>2
  <2>5. Lacks(Plus(buf[x], data[i]), q)
    BY <1>1, <2>4, LacksSum
  <2> QED
    BY <2>3, <2>4, <2>5
<1>3. CASE x \notin Span(r, b, off, n)
  BY <1>1, <1>3 DEF Stored
<1> QED
  BY <1>2, <1>3

LEMMA UnmixedPosted ==
  ASSUME CountInv, TypeOK', ~RecvMayFail, ~SendMayFail, "error" \notin SendResults, NEW q \in Ranks,
         ChunksLack(q), RequestsLack(q), ~Joined(q)',
         NEW th \in Threads, Send(th) \/ Forward(th)
  PROVE  RequestsLack(q)'
<1>0. TypeOK
  BY DEF CountInv
<1>1. PICK here \in Places : here = Here(th) /\ Cur(th) = StepAt(here) /\ here[1] = th
  BY <1>0, AccessIsHere DEF Cur, Send, Forward
<1>2. pc[th] \in {"op", "fwd"} /\ Cur(th).type \in Forwarding \cup {"s"}
  BY <1>0 DEF Send, Forward, TypeOK
<1>3. PICK b, off :
        /\ SendBlock(th, b, off)
        /\ \A i \in 1 .. Cur(th).cnt : <<th[1], b, off + i - 1>> \in Slots
  <2>1. CASE Send(th)
    <3>1. \A i \in 1 .. Cur(th).cnt : Source(here, i) \in Slots
      BY <1>1, <2>1, Indices, SlotsAssumption DEF Send
    <3> QED
      BY <1>1, <2>1, <3>1 DEF Send, Source
  <2>2. CASE Forward(th)
    <3>1. StepAt(here).type \in Receiving
      BY <1>0, <1>1, <2>2 DEF Forward, TypeOK, Forwarding, Receiving
    <3>2. \A i \in 1 .. Cur(th).cnt : Target(here, i) \in Slots
      BY <1>1, <3>1, Indices, SlotsAssumption
    <3> QED
      BY <1>1, <2>2, <3>2 DEF Forward, Target
  <2> QED
    BY <2>1, <2>2
<1>4. PICK tag \in Int : \E n : NextPosted(th, b, off, tag, n)
  BY <1>2, <1>3, NextRequest
<1>5. PICK n : NextPosted(th, b, off, tag, n)
  BY <1>4
<1>6. \A p \in Threads, u \in Int :
        /\ Posted(p, u)' = IF p = th /\ u = tag THEN Posted(p, u) \cup {n} ELSE Posted(p, u)
        /\ \A k \in Posted(p, u) : reqs'[p][k] = reqs[p][k]
  BY <1>5 DEF NextPosted, Appended
<1>7. reqs'[th][n].data = [i \in 1 .. Cur(th).cnt |-> buf[<<th[1], b, off + i - 1>>]]
  BY <1>5 DEF NextPosted, Appended
<1>8. th[1] # q
  <2>1. n \in Posted(th, tag)'
    BY <1>6
  <2>2. reqs'[th] # <<>>
    BY <2>1 DEF Posted
  <2> QED
    BY <2>2 DEF Joined, RankThreads
<1> SUFFICES ASSUME NEW p \in Threads, p[1] # q, NEW k \in DOMAIN reqs'[p],
                    NEW i \in DOMAIN reqs'[p][k].data
             PROVE  Lacks(reqs'[p][k].data[i], q)
  BY DEF RequestsLack, Lacks
<1>9. PICK u \in Int : k \in Posted(p, u)'
  <2>1. reqs'[p][k] \in Request
    BY DEF TypeOK
  <2> QED
    BY <2>1 DEF Request, Posted
<1>10. CASE k \in Posted(p, u)
  <2>1. reqs'[p][k] = reqs[p][k] /\ k \in DOMAIN reqs[p]
    BY <1>6, <1>10 DEF Posted
  <2> QED
    BY <2>1 DEF RequestsLack
<1>11. CASE k \notin Posted(p, u)
  <2>1. p = th /\ k = n
    BY <1>6, <1>9, <1>11
  <2>2. i \in 1 .. Cur(th).cnt /\ reqs'[p][k].data[i] = buf[<<th[1], b, off + i - 1>>]
    BY <1>7, <2>1
  <2> QED
    BY <1>3, <1>8, <2>2 DEF ChunksLack
<1> QED
  BY <1>10, <1>11

LEMMA UnmixedReceive ==
  ASSUME OrderInv, NEW q \in Ranks, RequestsLack(q), MatchesLack(q), ~Joined(q),
         NEW th \in Threads, Receive(th)
  PROVE  RequestsLack(q)' /\ MatchesLack(q)'
<1>1. PICK tag \in Int : \E p, k : NextMatched(th, tag, p, k)
  BY NextMatch
<1>2. PICK p, k : NextMatched(th, tag, p, k)
  BY <1>1
<1>3. /\ p \in Threads /\ k \in DOMAIN reqs[p] /\ OnlyMatched(p, k)
      /\ got' = [got EXCEPT ![th] = [dst |-> reqs[p][k].dst, data |-> reqs[p][k].data]]
  BY <1>2 DEF NextMatched, FirstTaken, Posted
<1>4. RequestsLack(q)'
  BY <1>3 DEF RequestsLack, OnlyMatched, Lacks
<1>5. got \in [Threads -> [dst : BufferType, data : Seq(Value)]] /\ TypeOK
  BY DEF OrderInv, CountInv, TypeOK
<1>6. p[1] # q
  <2>1. reqs[p] # <<>>
    BY <1>3
  <2> QED
    BY <1>3, <2>1 DEF Joined, RankThreads
<1>7. \A i \in DOMAIN reqs[p][k].data : Lacks(reqs[p][k].data[i], q)
  BY <1>3, <1>6 DEF RequestsLack
<1>8. ASSUME NEW x \in Threads, x[1] # q, NEW i \in DOMAIN got'[x].data
      PROVE  Lacks(got'[x].data[i], q)
  <2>1. CASE x = th
    <3>1. got'[th].data = reqs[p][k].data
      BY <1>3, <1>5
    <3> QED
      BY <1>7, <1>8, <2>1, <3>1
  <2>2. CASE x # th
    <3>1. got'[x] = got[x]
      BY <1>3, <1>5, <2>2
    <3> QED
      BY <1>8, <3>1 DEF MatchesLack
  <2> QED
    BY <2>1, <2>2
<1> QED
  BY <1>4, <1>8 DEF MatchesLack, Lacks

LEMMA UnmixedReduce ==
  ASSUME TypeOK, NEW q \in Ranks, ChunksLack(q), NEW th \in Threads, Reduce(th)
  PROVE  ChunksLack(q)'
<1> DEFINE data == [i \in 1 .. Cur(th).cnt |->
                      buf[<<th[1], Cur(th).srcbuf, Cur(th).srcoff + i - 1>>]]
<1>1. PICK here \in Places : here = Here(th) /\ Cur(th) = StepAt(here) /\ here[1] = th
  BY AccessIsHere DEF Cur, Reduce
<1>2. /\ StepAt(here).type = "re"
      /\ buf' = Stored(th[1], Cur(th).dstbuf, Cur(th).dstoff, data, Cur(th).cnt, TRUE)
  BY <1>1 DEF Reduce
<1>3. Cur(th).cnt \in Nat /\ Cur(th).dstoff \in Int
  BY <1>1, PlaceFacts DEF Step
<1>4. DOMAIN data = 1 .. Cur(th).cnt
  OBVIOUS
<1>5. ASSUME th[1] # q, NEW i \in DOMAIN data PROVE Lacks(data[i], q)
  <2>1. Source(here, i) \in Slots /\ data[i] = buf[Source(here, i)] /\ Source(here, i)[1] = th[1]
    BY <1>1, <1>2, Indices, SlotsAssumption DEF Source
  <2> QED
    BY <1>5, <2>1 DEF ChunksLack
<1> HIDE DEF data
<1> QED
  BY <1>2, <1>3, <1>4, <1>5, UnmixedStored

LEMMA UnmixedStore ==
  ASSUME TypeOK, ReceiveMatchesSend, NEW q \in Ranks, ChunksLack(q), MatchesLack(q),
         NEW th \in Threads, Store(th)
  PROVE  ChunksLack(q)' /\ MatchesLack(q)'
<1> DEFINE data == got[th].data
<1>1. Cur(th) \in Step /\ pc[th] = "data"
  BY HereIsPlace DEF Store
<1>2. /\ Cur(th).cnt \in Nat /\ Cur(th).dstoff \in Int
      /\ Len(data) = Cur(th).cnt /\ data \in Seq(Value)
  BY <1>1 DEF Step, ReceiveMatchesSend, TypeOK
<1>3. PICK add \in BOOLEAN :
        buf' = Stored(th[1], Cur(th).dstbuf, Cur(th).dstoff, data, Cur(th).cnt, add)
  <2>1. CASE Cur(th).type \in Reducing
    BY <2>1 DEF Store
  <2>2. CASE Cur(th).type \notin Reducing
    BY <1>2, <2>2 DEF Store
  <2> QED
    BY <2>1, <2>2
<1>4. DOMAIN data = 1 .. Cur(th).cnt
  BY <1>2
<1>5. th[1] # q => \A i \in DOMAIN data : Lacks(data[i], q)
  BY DEF MatchesLack
<1>6. MatchesLack(q)'
  <2>1. \A x \in Threads : got'[x] = IF x = th THEN NoMessage ELSE got[x]
    BY DEF Store, TypeOK
  <2> QED
    BY <2>1 DEF MatchesLack, NoMessage, Lacks
<1> HIDE DEF data
<1> QED
  BY <1>2, <1>3, <1>4, <1>5, <1>6, UnmixedStored

LEMMA UnmixedNext ==
  ASSUME MessagesPaired, ~RecvMayFail, ~SendMayFail, "error" \notin SendResults,
         OrderInv, Unmixed, [Next]_vars
  PROVE  Unmixed'
<1>1. OrderInv' /\ TypeOK /\ TypeOK' /\ CountInv /\ ReceiveMatchesSend
  BY OrderNext, TypeNext DEF OrderInv, CountInv
<1> SUFFICES ASSUME NEW q \in Ranks, ~Joined(q)'
             PROVE  ChunksLack(q)' /\ RequestsLack(q)' /\ MatchesLack(q)'
  BY DEF Unmixed
<1>2. ASSUME \A th \in Threads : DOMAIN reqs[th] \subseteq DOMAIN reqs'[th]
      PROVE  ~Joined(q) /\ ChunksLack(q) /\ RequestsLack(q) /\ MatchesLack(q)
  BY <1>1, <1>2, StaysJoined DEF Unmixed
<1>3. ASSUME reqs' = reqs
      PROVE  /\ ~Joined(q) /\ ChunksLack(q) /\ RequestsLack(q) /\ MatchesLack(q)
             /\ RequestsLack(q)'
  BY <1>2, <1>3 DEF RequestsLack, Lacks
<1>4. buf' = buf /\ ChunksLack(q) => ChunksLack(q)'
  BY DEF ChunksLack, Lacks
<1>5. got' = got /\ MatchesLack(q) => MatchesLack(q)'
  BY DEF MatchesLack, Lacks
<1>6. ASSUME NEW th \in Threads, DepWait(th) \/ Nop(th) \/ Post(th) \/ Drain(th)
      PROVE  ChunksLack(q)' /\ RequestsLack(q)' /\ MatchesLack(q)'
  BY <1>3, <1>4, <1>5, <1>6 DEF DepWait, Nop, Post, Drain
<1>7. ASSUME NEW th \in Threads, Reduce(th)
      PROVE  ChunksLack(q)' /\ RequestsLack(q)' /\ MatchesLack(q)'
  <2>1. reqs' = reqs /\ got' = got
    BY <1>7 DEF Reduce
  <2> QED
    BY <1>1, <1>3, <1>5, <1>7, <2>1, UnmixedReduce
<1>8. ASSUME NEW th \in Threads, Store(th)
      PROVE  ChunksLack(q)' /\ RequestsLack(q)' /\ MatchesLack(q)'
  <2>1. reqs' = reqs
    BY <1>8 DEF Store
  <2> QED
    BY <1>1, <1>3, <1>8, <2>1, UnmixedStore
<1>9. ASSUME NEW th \in Threads, Send(th) \/ Forward(th)
      PROVE  ChunksLack(q)' /\ RequestsLack(q)' /\ MatchesLack(q)'
  <2>1. buf' = buf /\ got' = got
    BY <1>9 DEF Send, Forward
  <2>2. \A p \in Threads : DOMAIN reqs[p] \subseteq DOMAIN reqs'[p]
    <3>1. PICK r : reqs' = [reqs EXCEPT ![th] = Append(@, r)]
      BY <1>9 DEF Send, Forward, SendBlock
    <3>2. reqs[th] \in Seq(Request) /\ reqs'[th] = Append(reqs[th], r)
      BY <1>1, <3>1 DEF TypeOK
    <3>3. DOMAIN reqs[th] \subseteq DOMAIN reqs'[th]
      BY <3>2
    <3>4. \A p \in Threads : p # th => reqs'[p] = reqs[p]
      BY <1>1, <3>1 DEF TypeOK
    <3> QED
      BY <3>3, <3>4
  <2> QED
    BY <1>1, <1>2, <1>4, <1>5, <1>9, <2>1, <2>2, UnmixedPosted
<1>10. ASSUME NEW th \in Threads, Receive(th)
       PROVE  ChunksLack(q)' /\ RequestsLack(q)' /\ MatchesLack(q)'
  <2>1. buf' = buf
    BY <1>10 DEF Receive
  <2>2. \A p \in Threads : DOMAIN reqs[p] \subseteq DOMAIN reqs'[p]
    <3>1. PICK tag \in Int : \E p, k : NextMatched(th, tag, p, k)
      BY <1>10, NextMatch
    <3>2. PICK p, k : NextMatched(th, tag, p, k)
      BY <3>1
    <3> QED
      BY <3>2 DEF NextMatched, FirstTaken, OnlyMatched
  <2> QED
    BY <1>2, <1>4, <1>10, <2>1, <2>2, UnmixedReceive
<1>11. ASSUME NEW th \in Threads, Flush(th) \/ SendDone(th)
       PROVE  ChunksLack(q)' /\ RequestsLack(q)' /\ MatchesLack(q)'
  <2>1. buf' = buf /\ got' = got
    BY <1>11 DEF Flush, SendDone
  <2>2. \A p \in Threads : Kept(p)
    BY <1>1, <1>11, FlushKeeps
  <2>3. \A p \in Threads : DOMAIN reqs[p] \subseteq DOMAIN reqs'[p]
    BY <2>2 DEF Kept
  <2>4. ChunksLack(q) /\ RequestsLack(q) /\ MatchesLack(q)
    BY <1>2, <2>3
  <2>5. RequestsLack(q)'
    BY <2>2, <2>4 DEF RequestsLack, Lacks, Kept
  <2> QED
    BY <1>4, <1>5, <2>1, <2>4, <2>5
<1>12. CASE UNCHANGED vars
  BY <1>3, <1>4, <1>5, <1>12 DEF vars
<1>13. \A th \in Threads : ~RecvFails(th) /\ ~SendFails(th)
  BY DEF RecvFails, SendFails
<1> QED
  BY <1>6, <1>7, <1>8, <1>9, <1>10, <1>11, <1>12, <1>13 DEF Next, Run, Terminated

-----------------------------------------------------------------------------
(* An execution is an allreduce. *)

LEMMA InputSlots ==
  ASSUME NEW r \in Ranks, NEW c \in 0 .. Sched[r].chunks["i"] - 1
  PROVE  <<r, "i", c>> \in Slots
<1>1. "i" \in BufferType
  BY DEF BufferType
<1>2. <<r, "i", c>> \in UNION {{<<r, b, d>> : d \in 0 .. Sched[r].chunks[b] - 1} : b \in BufferType}
  BY <1>1
<1> QED
  BY <1>2 DEF Slots

\* When all the threads of a rank have come to the end of their steps, its
\* input buffer holds the sums, and every rank has sent: the sum has a part
\* of each, which it cannot have without.
LEMMA EndSums ==
  ASSUME ContentInv, Unmixed, ~RecvMayFail, SumsUp, EachTakesPart, NEW r \in Ranks,
         \A th \in RankThreads(r) : step[th] = NSteps(th)
  PROVE  InputOf(r) = SumOf(r) /\ \A q \in Ranks : Joined(q)
<1>1. CountInv /\ TypeOK
  BY DEF ContentInv, OrderInv, CountInv
<1>2. ASSUME NEW p \in Places, p[1][1] = r PROVE Passed(p)
  <2>1. p[1] \in RankThreads(r) /\ p[2] < NSteps(p[1])
    BY <1>2, PlaceFacts DEF RankThreads
  <2> QED
    BY <2>1 DEF Passed
<1>3. ASSUME NEW c \in 0 .. Sched[r].chunks["i"] - 1
      PROVE  buf[<<r, "i", c>>] = SumOf(r)[c]
  <2> DEFINE x == <<r, "i", c>>
  <2>1. x \in Slots
    BY InputSlots
  <2>2. ASSUME NEW w \in Writers(x) PROVE Written(w)
    <3>1. w \in Places /\ x \in Writes[w]
      BY DEF Writers
    <3>2. x \in Span(w[1][1], StepAt(w).dstbuf, StepAt(w).dstoff, StepAt(w).cnt)
      BY <3>1 DEF Writes
    <3>3. w[1][1] = r
      BY <3>2 DEF Span
    <3> QED
      BY <1>2, <3>1, <3>3 DEF Written
  <2>3. WrittenTo(x) = Writers(x)
    BY <2>2 DEF WrittenTo
  <2>4. buf[x] = LeftIn(Computed, Writers(x), x)
    BY <2>1, <2>3 DEF ContentInv, ChunksHold
  <2> QED
    BY <2>4 DEF SumsUp
<1>4. InputOf(r) = SumOf(r)
  BY <1>3 DEF InputOf, SumOf
<1>5. Joined(r)
  <2>1. PICK p \in Places : p[1][1] = r /\ StepAt(p).type \in Forwarding \cup {"s"}
    BY DEF EachTakesPart
  <2>2. PICK t \in Int : t = StepAt(p).dstoff
    BY PlaceFacts DEF Step
  <2>3. p[1] \in Threads /\ p[1] \in RankThreads(r)
    BY <2>1, PlaceFacts DEF RankThreads
  <2>4. p \in SentFor(p[1], t)
    BY <1>2, <2>1, <2>2 DEF SentFor, Sends, HasSent
  <2>5. Cardinality(SentFor(p[1], t)) # 0
    BY <1>1, <2>3, <2>4, FiniteCounts, FS_EmptySet
  <2>6. Cardinality(Posted(p[1], t)) = Cardinality(SentFor(p[1], t))
    BY <1>1, <2>3 DEF CountInv
  <2>7. Posted(p[1], t) # {}
    BY <2>5, <2>6, FS_EmptySet
  <2>8. reqs[p[1]] # <<>>
    BY <2>7 DEF Posted
  <2> QED
    BY <2>3, <2>8 DEF Joined
<1>6. ASSUME NEW q \in Ranks, q # r, ~Joined(q) PROVE FALSE
  <2> DEFINE o == <<<<q, "i", 0>>, 0>>
  <2>1. 0 \in 0 .. Sched[r].chunks["i"] - 1 /\ 0 \in 0 .. Sched[q].chunks["i"] - 1
    <3>1. \A s \in Ranks : Sched[s].chunks["i"] \in Nat /\ Sched[s].chunks["i"] > 0
      BY SchedAssumption DEF EachTakesPart, Rank, BufferType
    <3> QED
      BY <3>1
  <2>2. o \in Origins
    BY <2>1, InputSlots, EpochsAssumption DEF Origins
  <2>3. <<r, "i", 0>> \in Slots
    BY <2>1, InputSlots
  <2>4. Lacks(buf[<<r, "i", 0>>], q)
    BY <1>6, <2>3 DEF Unmixed, ChunksLack
  <2>5. buf[<<r, "i", 0>>][o] = 0
    BY <2>2, <2>4 DEF Lacks
  <2>6. SumOf(r)[0][o] = 1
    BY <2>1, <2>2 DEF SumOf
  <2> QED
    BY <1>3, <2>1, <2>5, <2>6
<1> QED
  BY <1>4, <1>5, <1>6

\* The ranks that have contributed, and the results.
Contributors == {r \in Ranks : \E th \in RankThreads(r) : reqs[th] # <<>>}
Results      == [r \in Ranks |-> IF RankDone(r) THEN InputOf(r) ELSE <<>>]

\* A thread that has not ended changes the result of no rank.
LEMMA ResultsKept ==
  ASSUME NEW th \in Threads, pc[th] # "done", pc'[th] # "done",
         \A q \in Threads : q # th => pc'[q] = pc[q],
         \A x \in Slots : x[1] # th[1] => buf'[x] = buf[x]
  PROVE  Results' = Results
<1> SUFFICES ASSUME NEW r \in Ranks
             PROVE  /\ RankDone(r)' <=> RankDone(r)
                    /\ RankDone(r) => InputOf(r)' = InputOf(r)
  BY Zenon DEF Results
<1>1. CASE r = th[1]
  BY <1>1 DEF RankDone, RankThreads
<1>2. CASE r # th[1]
  <2>1. RankDone(r)' <=> RankDone(r)
    BY <1>2 DEF RankDone, RankThreads
  <2>2. \A c \in 0 .. Sched[r].chunks["i"] - 1 : buf'[<<r, "i", c>>] = buf[<<r, "i", c>>]
    BY <1>2, InputSlots
  <2> QED
    BY <2>1, <2>2 DEF InputOf
<1> QED
  BY <1>1, <1>2

\* What is stored on a rank is stored in its chunks.
LEMMA StoredHere ==
  ASSUME NEW r, NEW b, NEW off, NEW data, NEW n, NEW add,
         buf' = Stored(r, b, off, data, n, add)
  PROVE  \A x \in Slots : x[1] # r => buf'[x] = buf[x]
BY DEF Stored, Span

\* A step with which no thread ends, and that posts no first send of a rank.
LEMMA StepStutters ==
  ASSUME TypeOK, NEW th \in Threads, pc[th] # "done", pc'[th] # "done",
         \A q \in Threads : q # th => pc'[q] = pc[q],
         \A x \in Slots : x[1] # th[1] => buf'[x] = buf[x],
         \A q \in Threads : reqs'[q] = <<>> <=> reqs[q] = <<>>
  PROVE  UNCHANGED Reduction!vars
<1>1. Results' = Results
  BY ResultsKept
<1>2. Contributors' = Contributors
  BY DEF Contributors, RankThreads
<1> QED
  BY <1>1, <1>2 DEF Results, Contributors, Reduction!vars

LEMMA PostedReduces ==
  ASSUME TypeOK, NEW th \in Threads, Send(th) \/ Forward(th)
  PROVE  [Reduction!Next]_(Reduction!vars)
<1>1. PICK m : reqs' = [reqs EXCEPT ![th] = Append(@, m)]
  BY DEF Send, Forward, SendBlock
<1>2. reqs'[th] # <<>>
  <2>1. reqs'[th] = Append(reqs[th], m) /\ reqs[th] \in Seq(Request)
    BY <1>1 DEF TypeOK
  <2>2. Len(Append(reqs[th], m)) = Len(reqs[th]) + 1 /\ Len(reqs[th]) \in Nat
    BY <2>1
  <2> QED
    BY <2>1, <2>2
<1>3. \A q \in Threads : q # th => reqs'[q] = reqs[q]
  BY <1>1 DEF TypeOK
<1>4. th[1] \in Ranks /\ th \in RankThreads(th[1])
  BY ThreadFacts DEF RankThreads
<1>5. Contributors' = Contributors \cup {th[1]}
  BY <1>2, <1>3, <1>4 DEF Contributors, RankThreads
<1>6. Results' = Results
  <2>1. /\ pc[th] # "done" /\ pc'[th] # "done" /\ buf' = buf
        /\ \A q \in Threads : q # th => pc'[q] = pc[q]
    BY DEF Send, Forward, TypeOK
  <2> QED
    BY <2>1, ResultsKept
<1>7. CASE th[1] \in Contributors
  BY <1>5, <1>6, <1>7 DEF Contributors, Results, Reduction!vars
<1>8. CASE th[1] \notin Contributors
  <2>1. Reduction!Contribute(th[1])
    BY <1>5, <1>6, <1>8 DEF Contributors, Results, Reduction!Contribute
  <2> QED
    BY <1>4, <2>1 DEF Reduction!Next
<1> QED
  BY <1>7, <1>8

LEMMA DrainReduces ==
  ASSUME ContentInv, Unmixed, ~RecvMayFail, SumsUp, EachTakesPart,
         NEW th \in Threads, Drain(th)
  PROVE  [Reduction!Next]_(Reduction!vars)
<1> DEFINE r == th[1]
<1>0. TypeOK
  BY DEF ContentInv, OrderInv, CountInv
<1>1. r \in Ranks /\ th \in RankThreads(r)
  BY ThreadFacts DEF RankThreads
<1>2. /\ pc[th] = "drain" /\ pc'[th] = "done" /\ \A q \in Threads : q # th => pc'[q] = pc[q]
      /\ buf' = buf /\ reqs' = reqs
  BY <1>0 DEF Drain, TypeOK
<1>3. Contributors' = Contributors
  BY <1>2 DEF Contributors
<1>4. ASSUME NEW s \in Ranks, s # r
      PROVE  RankDone(s)' = RankDone(s) /\ InputOf(s)' = InputOf(s)
  BY <1>2, <1>4 DEF RankDone, RankThreads, InputOf
<1>5. ~RankDone(r) /\ InputOf(r)' = InputOf(r)
  BY <1>1, <1>2 DEF RankDone, InputOf
<1>6. CASE ~RankDone(r)'
  <2>1. Results' = Results
    BY <1>1, <1>4, <1>5, <1>6 DEF Results
  <2> QED
    BY <1>3, <2>1 DEF Contributors, Results, Reduction!vars
<1>7. CASE RankDone(r)'
  <2>1. \A q \in RankThreads(r) : step[q] = NSteps(q)
    <3>1. \A q \in RankThreads(r) : q \in Threads /\ pc[q] \in {"drain", "done"}
      BY <1>2, <1>7 DEF RankDone, RankThreads
    <3> QED
      BY <1>0, <3>1 DEF TypeOK
  <2>2. InputOf(r) = SumOf(r) /\ \A q \in Ranks : Joined(q)
    BY <1>1, <2>1, EndSums
  <2>3. Contributors = Ranks
    BY <2>2 DEF Contributors, Joined
  <2>4. Results[r] = <<>>
    BY <1>1, <1>5 DEF Results
  <2>5. Results' = [Results EXCEPT ![r] = [q \in Ranks |-> SumOf(q)][r]]
    BY <1>1, <1>4, <1>5, <1>7, <2>2 DEF Results
  <2>6. Reduction!Finish(r)
    BY <1>3, <2>3, <2>4, <2>5 DEF Contributors, Results, Reduction!Finish
  <2> QED
    BY <1>1, <2>6 DEF Reduction!Next
<1> QED
  BY <1>6, <1>7

LEMMA StepReduces ==
  ASSUME MessagesPaired, ~RecvMayFail, ~SendMayFail, SumsUp, EachTakesPart,
         ContentInv, Unmixed, TypeOK', [Next]_vars
  PROVE  [Reduction!Next]_(Reduction!vars)
<1>1. TypeOK /\ OrderInv
  BY DEF ContentInv, OrderInv, CountInv
<1>2. ASSUME NEW th \in Threads, Send(th) \/ Forward(th)
      PROVE  [Reduction!Next]_(Reduction!vars)
  BY <1>1, <1>2, PostedReduces
<1>3. ASSUME NEW th \in Threads, Drain(th)
      PROVE  [Reduction!Next]_(Reduction!vars)
  BY <1>3, DrainReduces
<1>4. ASSUME NEW th \in Threads, DepWait(th) \/ Nop(th) \/ Post(th)
      PROVE  [Reduction!Next]_(Reduction!vars)
  <2>1. /\ pc[th] # "done" /\ buf' = buf /\ reqs' = reqs
        /\ \A q \in Threads : q # th => pc'[q] = pc[q]
    BY <1>1, <1>4 DEF DepWait, Nop, Post, TypeOK
  <2>2. pc'[th] # "done"
    BY <1>1, <1>4 DEF DepWait, Nop, Post, StartPc, TypeOK
  <2> QED
    BY <1>1, <2>1, <2>2, StepStutters
<1>5. ASSUME NEW th \in Threads, Reduce(th) \/ Store(th)
      PROVE  [Reduction!Next]_(Reduction!vars)
  <2>1. /\ pc[th] # "done" /\ pc'[th] # "done" /\ reqs' = reqs
        /\ \A q \in Threads : q # th => pc'[q] = pc[q]
    BY <1>1, <1>5 DEF Reduce, Store, TypeOK
  <2>2. \E b, off, data, n, add : buf' = Stored(th[1], b, off, data, n, add)
    <3>1. CASE Reduce(th)
      BY <3>1 DEF Reduce
    <3>2. CASE Store(th) /\ Cur(th).type \in Reducing
      BY <3>2 DEF Store
    <3>3. CASE Store(th) /\ Cur(th).type \notin Reducing
      BY <3>3 DEF Store
    <3> QED
      BY <1>5, <3>1, <3>2, <3>3
  <2>3. \A x \in Slots : x[1] # th[1] => buf'[x] = buf[x]
    BY <2>2, StoredHere
  <2> QED
    BY <1>1, <2>1, <2>3, StepStutters
<1>6. ASSUME NEW th \in Threads, Receive(th)
      PROVE  [Reduction!Next]_(Reduction!vars)
  <2>1. /\ pc[th] # "done" /\ pc'[th] # "done" /\ buf' = buf
        /\ \A q \in Threads : q # th => pc'[q] = pc[q]
    BY <1>1, <1>6 DEF Receive, TypeOK
  <2>2. PICK tag \in Int : \E p, k : NextMatched(th, tag, p, k)
    BY <1>1, <1>6, NextMatch
  <2>3. \A q \in Threads : DOMAIN reqs'[q] = DOMAIN reqs[q]
    BY <2>2 DEF NextMatched, FirstTaken, OnlyMatched
  <2>4. \A q \in Threads : reqs'[q] = <<>> <=> reqs[q] = <<>>
    BY <1>1, <2>3 DEF TypeOK
  <2> QED
    BY <1>1, <2>1, <2>4, StepStutters
<1>7. ASSUME NEW th \in Threads, Flush(th) \/ SendDone(th)
      PROVE  [Reduction!Next]_(Reduction!vars)
  <2>1. pc' = pc /\ buf' = buf /\ pc[th] # "done"
    BY <1>7 DEF Flush, SendDone, Progressing
  <2>2. \A q \in Threads : DOMAIN reqs'[q] = DOMAIN reqs[q]
    BY <1>1, <1>7, FlushKeeps DEF Kept
  <2>3. \A q \in Threads : reqs'[q] = <<>> <=> reqs[q] = <<>>
    BY <1>1, <2>2 DEF TypeOK
  <2> QED
    BY <1>1, <2>1, <2>3, StepStutters
<1>8. CASE UNCHANGED vars
  <2>1. Contributors' = Contributors /\ Results' = Results
    BY <1>8 DEF vars, Contributors, Results, RankDone, InputOf
  <2> QED
    BY <2>1 DEF Contributors, Results, Reduction!vars
<1>9. \A th \in Threads : ~RecvFails(th) /\ ~SendFails(th)
  BY DEF RecvFails, SendFails
<1> QED
  BY <1>2, <1>3, <1>4, <1>5, <1>6, <1>7, <1>8, <1>9 DEF Next, Run, Terminated

LEMMA InitReduces == ASSUME EachTakesPart, Init PROVE Reduction!Init
<1>1. ASSUME NEW r \in Ranks PROVE ~RankDone(r)
  <2>1. PICK p \in Places : p[1][1] = r
    BY DEF EachTakesPart
  <2>2. p[1] \in Threads /\ p[1] \in RankThreads(r)
    BY <2>1, PlaceFacts DEF RankThreads
  <2>3. pc[p[1]] # "done"
    BY <2>2 DEF Init, StartPc
  <2> QED
    BY <2>2, <2>3 DEF RankDone
<1>2. Contributors = {}
  BY DEF Init, Contributors, RankThreads
<1>3. Results = [r \in Ranks |-> <<>>]
  BY <1>1 DEF Results
<1> QED
  BY <1>2, <1>3 DEF Contributors, Results, Reduction!Init

\* Of a schedule that computes the sums when its steps are taken one after the
\* other (Computes), has its conflicts ordered and its messages paired, every
\* interleaving of the interpreter's threads is an allreduce: the threads of a
\* rank end only when every rank has sent, its input buffer holds the sums of
\* all the inputs then, and keeps them whatever the other ranks still do (the
\* safety part of IsAllReduce).  No send is refused and no receive fails: the
\* interpreter goes on after those, without the data.
THEOREM SchedulesAreAllReduces ==
  ASSUME ConflictsOrdered, MessagesPaired, Computes, ~RecvMayFail, ~SendMayFail, "error" \notin SendResults
  PROVE  Spec => Reduction!Init /\ [][Reduction!Next]_(Reduction!vars)
<1>0. WellFounded /\ SumsUp /\ EachTakesPart
  BY DEF Computes
<1>1. Init => ContentInv /\ Unmixed /\ Reduction!Init
  BY <1>0, ContentInit, UnmixedInit, InitReduces
<1>2. ContentInv /\ DependencyOrder /\ [Next]_vars => ContentInv'
  BY <1>0, ContentNext
<1>3. ContentInv /\ Unmixed /\ [Next]_vars => Unmixed'
  BY UnmixedNext DEF ContentInv
<1>4. ContentInv /\ Unmixed /\ TypeOK' /\ [Next]_vars => [Reduction!Next]_(Reduction!vars)
  BY <1>0, StepReduces
<1> QED
  BY <1>1, <1>2, <1>3, <1>4, TypeCorrect, DependenciesOrdered, PTL DEF Spec
=============================================================================
