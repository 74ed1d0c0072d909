------------------------ MODULE OffloadClientProofs ------------------------
(* Theorems about OffloadClient, for any number of clients and requests. *)
EXTENDS OffloadClient, FiniteSetTheorems, TLAPS

\* Where main can be, and what that says of its requests and of its thread.
Place(c) ==
  /\ sent[c] <= 2 * RequestNum
  /\ main[c] \in {"send", "refused"} => sent[c] < 2 * RequestNum
  /\ main[c] \in {"sending", "broken"} => sent[c] > 0
  /\ main[c] = "wait" => sent[c] = RequestNum
  /\ main[c] \in {"spawn", "compute", "join", "end"} => sent[c] = 2 * RequestNum
  /\ waiter[c] # "none" => main[c] \in {"compute", "join", "end"}
  /\ waiter[c] = "ended" => receiveNum[c] >= RequestNum
  /\ main[c] = "end" => waiter[c] = "ended"

Types ==
  /\ main \in [Clients -> {"send", "sending", "wait", "spawn", "compute", "join",
                           "end", "refused", "broken"}]
  /\ sent \in [Clients -> Nat]
  /\ arrived \in [Clients -> Nat]
  /\ replied \in [Clients -> Nat]
  /\ receiveNum \in [Clients -> Nat]
  /\ nested \in [Clients -> Seq(Nat)]
  /\ waiter \in [Clients -> {"none", "waiting", "ended"}]
  /\ rndv \in BOOLEAN
  /\ pool \in [Clients -> SUBSET Nat]
  /\ taken \in [Clients -> Seq(Nat)]
  /\ answers \in [Clients -> Seq(SUBSET (Clients \X Nat))]

\* What has arrived is in the pool or taken; a reply needs every rank.
Served(c) ==
  /\ pool[c] \subseteq 1 .. arrived[c]
  /\ IsFiniteSet(pool[c])
  /\ Len(taken[c]) + Cardinality(pool[c]) = arrived[c]
  /\ arrived[c] <= sent[c]
  /\ replied[c] <= Len(answers[c])
  /\ \A n \in DOMAIN taken[c] : taken[c][n] \in 1 .. arrived[c]
  /\ \A d \in Clients : Len(answers[c]) <= Len(taken[d])

Counted(c) ==
  receiveNum[c] = replied[c] - Len(nested[c]) - (IF SecondPhase(c) THEN RequestNum ELSE 0)

IInv == Types /\ \A c \in Clients : Place(c) /\ Served(c) /\ Counted(c)

LEMMA Num == RequestNum \in Nat /\ RequestNum > 0
  BY ClientsAssumption

LEMMA ElementOf == ASSUME NEW S, NEW s \in Seq(S), NEW i \in 1 .. Len(s) PROVE s[i] \in S
  OBVIOUS

\* A sequence that is extended, and one that is not.
LEMMA Appended ==
  ASSUME NEW S, NEW s \in Seq(S), NEW x \in S
  PROVE  /\ Len(Append(s, x)) = Len(s) + 1
         /\ \A n \in DOMAIN Append(s, x) :
              \/ Append(s, x)[n] = x
              \/ n \in DOMAIN s /\ Append(s, x)[n] = s[n]
  OBVIOUS

LEMMA LenType == ASSUME NEW S, NEW s \in Seq(S) PROVE Len(s) \in Nat
  OBVIOUS

\* A finite set that an element is added to or taken from.
LEMMA OneMore ==
  ASSUME NEW S, IsFiniteSet(S), NEW x, x \notin S
  PROVE  IsFiniteSet(S \cup {x}) /\ Cardinality(S \cup {x}) = Cardinality(S) + 1
  BY FS_AddElement

LEMMA OneLess ==
  ASSUME NEW S, IsFiniteSet(S), NEW x \in S
  PROVE  IsFiniteSet(S \ {x}) /\ Cardinality(S \ {x}) = Cardinality(S) - 1
  BY FS_RemoveElement

LEMMA InitInv == Init => IInv
<1> SUFFICES ASSUME Init PROVE IInv
  OBVIOUS
<1> USE Num, ClientsAssumption DEF Init, Service!Init
<1>1. Types
  BY DEF Types
<1>2. ASSUME NEW c \in Clients PROVE Place(c) /\ Served(c) /\ Counted(c)
  <2>1. Place(c)
    BY DEF Place
  <2>2. Served(c)
    BY FS_EmptySet DEF Served
  <2>3. Counted(c)
    <3>1. Len(nested[c]) = 0 /\ replied[c] = 0 /\ receiveNum[c] = 0 /\ ~SecondPhase(c)
      BY DEF SecondPhase
    <3> QED
      BY <3>1 DEF Counted
  <2> QED
    BY <2>1, <2>2, <2>3
<1> QED
  BY <1>1, <1>2 DEF IInv

-----------------------------------------------------------------------------
\* A step of a client changes nothing of another one.
LEMMA TypesKept ==
  ASSUME IInv, [Next]_vars
  PROVE  Types'
<1> USE Num DEF IInv, Types
<1>1. ASSUME NEW c \in Clients, Send(c) \/ SendFails(c) \/ SendDone(c) \/ WaitEnds(c)
             \/ Spawn(c) \/ Computed(c) \/ Join(c) \/ WaiterEnds(c)
      PROVE  Types'
  <2>1. CASE Send(c)
    BY <2>1 DEF Send, AfterSend, service
  <2>2. CASE SendFails(c) \/ SendDone(c)
    <3>1. UNCHANGED <<service, sent, arrived, waiter, received, rndv>>
      BY <2>2 DEF SendFails, SendDone, received
    <3>2. main' \in [Clients -> {"send", "sending", "wait", "spawn", "compute", "join",
                                "end", "refused", "broken"}]
      BY <2>2 DEF SendFails, SendDone, AfterSend
    <3> QED
      BY <3>1, <3>2 DEF service, received
  <2>3. CASE WaitEnds(c)
    BY <2>3 DEF WaitEnds, service
  <2>4. CASE Spawn(c) \/ Computed(c)
    BY <2>4 DEF Spawn, Computed, service, received
  <2>5. CASE Join(c) \/ WaiterEnds(c)
    BY <2>5 DEF Join, WaiterEnds, service, received
  <2> QED
    BY <1>1, <2>1, <2>2, <2>3, <2>4, <2>5
<1>2. ASSUME NEW c \in Clients, ReplyEager(c) \/ ReplyRendezvous(c) PROVE Types'
  <2>1. CASE ReplyEager(c)
    BY <2>1 DEF ReplyEager, service
  <2>2. CASE ReplyRendezvous(c)
    BY <2>2 DEF ReplyRendezvous, service
  <2> QED
    BY <1>2, <2>1, <2>2
<1>3. ASSUME NEW c \in Clients, ReplyWritten(c) \/ PullFails(c) PROVE Types'
  <2>1. SubSeq(nested[c], 1, Len(nested[c]) - 1) \in Seq(Nat)
    <3>1. nested[c] # <<>> /\ nested[c] \in Seq(Nat)
      BY <1>3 DEF ReplyWritten, PullFails
    <3> QED
      BY <3>1
  <2> QED
    <3>1. /\ nested' = [nested EXCEPT ![c] = SubSeq(@, 1, Len(@) - 1)]
          /\ receiveNum' = [receiveNum EXCEPT ![c] = @ + 1]
          /\ UNCHANGED <<service, main, sent, arrived, replied, waiter, rndv>>
      BY <1>3 DEF ReplyWritten, PullFails
    <3>2. nested' \in [Clients -> Seq(Nat)] /\ receiveNum' \in [Clients -> Nat]
      BY <2>1, <3>1
    <3> QED
      BY <3>1, <3>2 DEF service
<1>4. ASSUME NEW c \in Clients, Arrive(c) PROVE Types'
  <2>1. /\ pool' = [pool EXCEPT ![c] = @ \cup {arrived[c] + 1}]
        /\ arrived' = [arrived EXCEPT ![c] = @ + 1]
        /\ UNCHANGED <<taken, answers, main, sent, waiter, received, rndv>>
    BY <1>4 DEF Arrive, Service!Arrive
  <2>2. pool' \in [Clients -> SUBSET Nat] /\ arrived' \in [Clients -> Nat]
    BY <2>1
  <2> QED
    BY <2>1, <2>2 DEF received
<1>5. ASSUME NEW c \in Clients, Service!Take(c), Serve(c) PROVE Types'
  BY <1>5 DEF Serve, Service!Take, received
<1>6. ASSUME NEW c \in Clients, Service!Answer(c), Serve(c) PROVE Types'
  <2> DEFINE whole == {p \in Clients : taken[p][Len(taken[c])] \notin [q \in Clients |-> {}][p]}
             a == {<<p, taken[p][Len(taken[c])]>> : p \in whole}
  <2>1. a \subseteq Clients \X Nat
    <3>1. Len(taken[c]) >= 1
      BY <1>6 DEF Service!Answer
    <3>2. \A p \in Clients : Len(taken[c]) \in 1 .. Len(taken[p])
      BY <1>6, <3>1 DEF Service!Answer
    <3>3. ASSUME NEW p \in Clients PROVE taken[p][Len(taken[c])] \in Nat
      <4>1. taken[p] \in Seq(Nat)
        OBVIOUS
      <4>2. Len(taken[c]) \in 1 .. Len(taken[p])
        BY <3>2
      <4> QED
        BY <4>1, <4>2, ElementOf
    <3>4. ASSUME NEW x \in a PROVE x \in Clients \X Nat
      BY <3>3
    <3> QED
      BY <3>4
  <2> QED
    <3>1. /\ answers' = [answers EXCEPT ![c] = Append(@, a)]
          /\ UNCHANGED <<pool, taken, main, sent, arrived, waiter, received, rndv>>
      BY <1>6 DEF Serve, Service!Answer
    <3> HIDE DEF a
    <3>2. answers' \in [Clients -> Seq(SUBSET (Clients \X Nat))]
      BY <2>1, <3>1
    <3> QED
      BY <3>1, <3>2 DEF received
<1>7. CASE UNCHANGED vars
  BY <1>7 DEF vars, service, received
<1> QED
  BY <1>1, <1>2, <1>3, <1>4, <1>5, <1>6, <1>7 DEF Next, Client, Serve, Service!Serve

-----------------------------------------------------------------------------
\* What has arrived and what has been answered, by the actions that change it.
LEMMA ArriveServed ==
  ASSUME IInv, NEW c \in Clients, Arrive(c), NEW d \in Clients
  PROVE  Served(d)'
<1> USE Num DEF IInv, Types
<1>1. Served(d) /\ Served(c)
  OBVIOUS
<1>2. UNCHANGED <<taken, answers, replied, sent>>
  BY DEF Arrive, Service!Arrive, received
<1>3. CASE d = c
  <2>1. pool'[c] = pool[c] \cup {arrived[c] + 1} /\ arrived'[c] = arrived[c] + 1
    BY DEF Arrive, Service!Arrive
  <2>2. arrived[c] + 1 \notin pool[c] /\ arrived[c] < sent[c]
    BY DEF Arrive, Service!Arrive
  <2>3. IsFiniteSet(pool'[c]) /\ Cardinality(pool'[c]) = Cardinality(pool[c]) + 1
    <3>1. IsFiniteSet(pool[c])
      BY <1>1 DEF Served
    <3> HIDE DEF IInv, Types
    <3> QED
      BY <3>1, <2>1, <2>2, OneMore
  <2>4. Cardinality(pool[c]) \in Nat
    BY <1>1, FS_CardinalityType DEF Served
  <2>5. pool'[c] \subseteq 1 .. arrived'[c]
    BY <1>1, <2>1 DEF Served
  <2>6. \A n \in DOMAIN taken'[c] : taken'[c][n] \in 1 .. arrived'[c]
    BY <1>1, <1>2, <2>1 DEF Served
  <2>7. Len(taken'[c]) + Cardinality(pool'[c]) = arrived'[c]
    BY <1>1, <1>2, <2>1, <2>3, <2>4 DEF Served
  <2> QED
    BY <1>1, <1>2, <1>3, <2>1, <2>2, <2>3, <2>5, <2>6, <2>7 DEF Served
<1>4. CASE d # c
  <2>1. pool'[d] = pool[d] /\ arrived'[d] = arrived[d]
    BY <1>4 DEF Arrive, Service!Arrive
  <2> QED
    BY <1>1, <1>2, <2>1 DEF Served
<1> QED
  BY <1>3, <1>4

LEMMA TakeServed ==
  ASSUME IInv, NEW c \in Clients, Service!Take(c), Serve(c), NEW d \in Clients
  PROVE  Served(d)'
<1> USE Num DEF IInv, Types
<1>1. Served(d) /\ Served(c)
  OBVIOUS
<1>2. UNCHANGED <<answers, replied, sent, arrived>>
  BY DEF Serve, Service!Take, received
<1>3. PICK q \in pool[c] : /\ taken' = [taken EXCEPT ![c] = Append(@, q)]
                           /\ pool' = [pool EXCEPT ![c] = @ \ {q}]
  BY DEF Service!Take
<1>4. q \in Nat
  OBVIOUS
<1>5. ASSUME NEW e \in Clients
      PROVE  Len(taken'[e]) \in Nat /\ Len(taken'[e]) >= Len(taken[e])
  <2>1. taken[e] \in Seq(Nat) /\ Len(taken[e]) \in Nat
    BY LenType
  <2>2. CASE e = c
    <3>1. taken'[e] = Append(taken[e], q)
      BY <1>3, <2>2
    <3> HIDE DEF IInv, Types
    <3> QED
      BY <2>1, <3>1, <1>4, Appended
  <2>3. CASE e # c
    BY <1>3, <2>1, <2>3
  <2> QED
    BY <2>2, <2>3
<1>6. ASSUME NEW e \in Clients PROVE Len(answers[d]) <= Len(taken'[e])
  <2>1. Len(answers[d]) \in Nat
    <3>1. answers[d] \in Seq(SUBSET (Clients \X Nat))
      OBVIOUS
    <3> HIDE DEF IInv, Types
    <3> QED
      BY <3>1, LenType
  <2>2. Len(taken[e]) \in Nat
    BY LenType
  <2>3. Len(answers[d]) <= Len(taken[e])
    BY <1>1 DEF Served
  <2> HIDE DEF IInv, Types
  <2> QED
    BY <1>5, <2>1, <2>2, <2>3
<1>7. CASE d = c
  <2>1. pool'[c] = pool[c] \ {q} /\ taken'[c] = Append(taken[c], q)
    BY <1>3
  <2>2. IsFiniteSet(pool'[c]) /\ Cardinality(pool'[c]) = Cardinality(pool[c]) - 1
    <3>1. IsFiniteSet(pool[c]) /\ q \in pool[c]
      BY <1>1 DEF Served
    <3> HIDE DEF IInv, Types
    <3> QED
      BY <3>1, <2>1, OneLess
  <2>3. Cardinality(pool[c]) \in Nat
    BY <1>1, FS_CardinalityType DEF Served
  <2>4. Len(taken'[c]) = Len(taken[c]) + 1
    BY <2>1, <1>4
  <2>5. Len(taken'[c]) + Cardinality(pool'[c]) = arrived'[c]
    BY <1>1, <1>2, <2>2, <2>3, <2>4 DEF Served
  <2>6. \A n \in DOMAIN taken'[c] : taken'[c][n] \in 1 .. arrived'[c]
    <3>1. taken[c] \in Seq(Nat) /\ q \in 1 .. arrived[c]
      BY <1>1 DEF Served
    <3>2. \A n \in DOMAIN taken[c] : taken[c][n] \in 1 .. arrived[c]
      BY <1>1 DEF Served
    <3> HIDE DEF IInv, Types
    <3> QED
      BY <1>2, <1>4, <2>1, <3>1, <3>2, Appended
  <2>7. pool'[c] \subseteq 1 .. arrived'[c]
    BY <1>1, <1>2, <2>1 DEF Served
  <2> QED
    BY <1>1, <1>2, <1>6, <1>7, <2>2, <2>5, <2>6, <2>7 DEF Served
<1>8. CASE d # c
  <2>1. pool'[d] = pool[d] /\ taken'[d] = taken[d]
    BY <1>3, <1>8
  <2> QED
    BY <1>1, <1>2, <1>6, <2>1 DEF Served
<1> QED
  BY <1>7, <1>8

LEMMA AnswerServed ==
  ASSUME IInv, NEW c \in Clients, Service!Answer(c), Serve(c), NEW d \in Clients
  PROVE  Served(d)'
<1> USE Num DEF IInv, Types
<1>1. Served(d)
  OBVIOUS
<1>2. UNCHANGED <<taken, pool, replied, sent, arrived>>
  BY DEF Serve, Service!Answer, received
<1>3. Len(answers'[d]) >= Len(answers[d]) /\ Len(answers'[d]) \in Nat
  <2> DEFINE whole == {p \in Clients : taken[p][Len(taken[c])] \notin [q \in Clients |-> {}][p]}
             a == {<<p, taken[p][Len(taken[c])]>> : p \in whole}
  <2>1. answers[d] \in Seq(SUBSET (Clients \X Nat))
    OBVIOUS
  <2>2. CASE d = c
    <3>1. answers'[d] = Append(answers[d], a)
      BY <2>2 DEF Service!Answer
    <3>2. Len(answers'[d]) = Len(answers[d]) + 1
      BY <2>1, <3>1
    <3> QED
      BY <2>1, <3>2
  <2>3. CASE d # c
    BY <2>1, <2>3 DEF Service!Answer
  <2> QED
    BY <2>2, <2>3
<1>4. \A e \in Clients : Len(answers'[d]) <= Len(taken[e])
  <2>1. CASE d = c
    BY <2>1 DEF Service!Answer
  <2>2. CASE d # c
    <3>1. answers'[d] = answers[d]
      BY <2>2 DEF Service!Answer
    <3> QED
      BY <1>1, <3>1 DEF Served
  <2> QED
    BY <2>1, <2>2
<1> QED
  BY <1>1, <1>2, <1>3, <1>4 DEF Served

LEMMA ServedKept ==
  ASSUME IInv, [Next]_vars, NEW d \in Clients
  PROVE  Served(d)'
<1> USE DEF IInv, Types
<1>1. Served(d) /\ sent[d] \in Nat /\ arrived[d] \in Nat /\ replied[d] \in Nat
  OBVIOUS
<1>2. ASSUME NEW c \in Clients, Client(c) PROVE Served(d)'
  <2>1. UNCHANGED <<pool, taken, answers, arrived>>
    BY <1>2 DEF Client, Send, SendFails, SendDone, WaitEnds, Spawn, Computed, Join,
                WaiterEnds, ReplyEager, ReplyRendezvous, ReplyWritten, PullFails,
                service
  <2>2. sent'[d] >= sent[d] /\ sent'[d] \in Nat
    <3>1. CASE Send(c)
      BY <3>1 DEF Send
    <3>2. CASE sent' = sent
      BY <3>2
    <3> QED
      BY <1>2, <3>1, <3>2 DEF Client, SendFails, SendDone, WaitEnds, Spawn, Computed,
         Join, WaiterEnds, ReplyEager, ReplyRendezvous, ReplyWritten, PullFails
  <2>3. replied'[d] <= Len(answers[d])
    <3>1. CASE replied[c] < Len(answers[c]) /\ replied' = [replied EXCEPT ![c] = @ + 1]
      <4>1. CASE d = c
        <5>1. Len(answers[d]) \in Nat
          <6>1. answers[d] \in Seq(SUBSET (Clients \X Nat))
            OBVIOUS
          <6> HIDE DEF IInv, Types
          <6> QED
            BY <6>1, LenType
        <5>2. replied'[d] = replied[d] + 1 /\ replied[d] < Len(answers[d])
          BY <3>1, <4>1
        <5> QED
          BY <1>1, <5>1, <5>2
      <4>2. CASE d # c
        BY <1>1, <3>1, <4>2 DEF Served
      <4> QED
        BY <4>1, <4>2
    <3>2. CASE replied' = replied
      BY <1>1, <3>2 DEF Served
    <3> QED
      BY <1>2, <3>1, <3>2 DEF Client, Send, SendFails, SendDone, WaitEnds, Spawn, Computed,
         Join, WaiterEnds, ReplyEager, ReplyRendezvous, ReplyWritten, PullFails, received
  <2>4. arrived'[d] <= sent'[d]
    BY <1>1, <2>1, <2>2 DEF Served
  <2> HIDE DEF IInv, Types
  <2> QED
    BY <1>1, <2>1, <2>3, <2>4 DEF Served
<1>3. CASE UNCHANGED vars
  BY <1>1, <1>3 DEF vars, service, received, Served
<1> HIDE DEF IInv, Types
<1> QED
  BY <1>2, <1>3, ArriveServed, TakeServed, AnswerServed DEF Next, Serve, Service!Serve

-----------------------------------------------------------------------------
\* What Place and Counted speak of.
Own(c) == <<main[c], sent[c], waiter[c], receiveNum[c], replied[c], nested[c]>>

LEMMA OthersKept ==
  ASSUME IInv, NEW c \in Clients, Client(c) \/ Arrive(c) \/ Serve(c),
         NEW d \in Clients, d # c
  PROVE  Own(d)' = Own(d)
<1> USE DEF IInv, Types, Own
<1>1. CASE Arrive(c) \/ Serve(c)
  BY <1>1 DEF Arrive, Serve, received
<1>2. CASE Send(c) \/ SendFails(c) \/ SendDone(c)
  BY <1>2 DEF Send, SendFails, SendDone, received
<1>3. CASE WaitEnds(c) \/ Spawn(c) \/ Computed(c)
  BY <1>3 DEF WaitEnds, Spawn, Computed, received
<1>4. CASE Join(c) \/ WaiterEnds(c)
  BY <1>4 DEF Join, WaiterEnds, received
<1>5. CASE ReplyEager(c) \/ ReplyRendezvous(c) \/ ReplyWritten(c) \/ PullFails(c)
  BY <1>5 DEF ReplyEager, ReplyRendezvous, ReplyWritten, PullFails, received
<1> QED
  BY <1>1, <1>2, <1>3, <1>4, <1>5 DEF Client

\* While main waits, the replies it has counted are all to its first requests.
LEMMA AllReplied ==
  ASSUME IInv, NEW c \in Clients
  PROVE  replied[c] <= sent[c]
<1>1. Served(c) /\ taken[c] \in Seq(Nat) /\ answers[c] \in Seq(SUBSET (Clients \X Nat))
  BY DEF IInv, Types
<1>2. Len(taken[c]) \in Nat /\ Len(answers[c]) \in Nat
  BY <1>1, LenType
<1>3. Cardinality(pool[c]) \in Nat
  BY <1>1, FS_CardinalityType DEF Served
<1>4. sent[c] \in Nat /\ arrived[c] \in Nat /\ replied[c] \in Nat
  BY DEF IInv, Types
<1> QED
  BY <1>1, <1>2, <1>3, <1>4 DEF Served

LEMMA OwnKept ==
  ASSUME IInv, NEW c \in Clients, Client(c)
  PROVE  (Place(c) /\ Counted(c))'
<1> USE Num
<1>1. Place(c) /\ Counted(c)
  BY DEF IInv
<1>2. /\ sent[c] \in Nat /\ replied[c] \in Nat /\ receiveNum[c] \in Nat
      /\ nested[c] \in Seq(Nat) /\ Len(nested[c]) \in Nat
  BY LenType DEF IInv, Types
<1>3. main \in [Clients -> {"send", "sending", "wait", "spawn", "compute", "join",
                            "end", "refused", "broken"}]
  BY DEF IInv, Types
<1>4. CASE Send(c)
  <2>1. /\ main[c] = "send" /\ sent'[c] = sent[c] + 1
        /\ main'[c] \in {"sending", AfterSend(c)}
        /\ UNCHANGED <<waiter, receiveNum, replied, nested>>
    BY <1>3, <1>4 DEF Send, IInv, Types
  <2>2. /\ sent[c] < 2 * RequestNum
        /\ \/ main'[c] = "sending"
           \/ main'[c] = "spawn" /\ sent'[c] = 2 * RequestNum
           \/ main'[c] = "wait" /\ sent'[c] = RequestNum
           \/ /\ main'[c] = "send"
              /\ sent'[c] # RequestNum /\ sent'[c] # 2 * RequestNum
    BY <1>1, <2>1 DEF Place, AfterSend
  <2>3. Place(c)'
    <3>1. waiter'[c] = "none"
      BY <1>1, <2>1 DEF Place
    <3>2. sent'[c] > 0 /\ sent'[c] <= 2 * RequestNum
      BY <1>2, <2>1, <2>2
    <3>3. main'[c] = "send" => sent'[c] < 2 * RequestNum
      BY <1>2, <2>1, <2>2
    <3> QED
      BY <2>2, <3>1, <3>2, <3>3 DEF Place
  <2>4. SecondPhase(c)' <=> SecondPhase(c)
    BY <1>2, <2>1, <2>2 DEF SecondPhase
  <2>5. Counted(c)'
    BY <1>1, <2>1, <2>4 DEF Counted
  <2> QED
    BY <2>3, <2>5
<1>5. CASE SendFails(c)
  <2>1. /\ \/ main[c] = "send" /\ main'[c] = "refused"
           \/ main[c] = "sending" /\ main'[c] = "broken"
        /\ UNCHANGED <<sent, waiter, receiveNum, replied, nested>>
    BY <1>3, <1>5 DEF SendFails, received
  <2> QED
    BY <1>1, <1>2, <2>1 DEF Place, Counted, SecondPhase
<1>6. CASE SendDone(c)
  <2>1. /\ main[c] = "sending" /\ main'[c] = AfterSend(c)
        /\ UNCHANGED <<sent, waiter, receiveNum, replied, nested>>
    BY <1>3, <1>6 DEF SendDone, received
  <2>2. Place(c)'
    BY <1>1, <1>2, <2>1 DEF Place, AfterSend
  <2>3. SecondPhase(c)' <=> SecondPhase(c)
    BY <1>1, <1>2, <2>1 DEF Place, SecondPhase, AfterSend
  <2> QED
    BY <1>1, <2>1, <2>2, <2>3 DEF Counted
<1>7. CASE WaitEnds(c)
  <2>1. /\ main[c] = "wait" /\ main'[c] = "send" /\ nested[c] = <<>>
        /\ receiveNum[c] >= RequestNum /\ receiveNum'[c] = 0
        /\ UNCHANGED <<sent, waiter, replied, nested>>
    BY <1>3, <1>7 DEF WaitEnds, IInv, Types
  <2>2. sent[c] = RequestNum /\ waiter[c] = "none"
    <3>1. waiter[c] \in {"none", "waiting", "ended"}
      BY DEF IInv, Types
    <3> QED
      BY <1>1, <2>1, <3>1 DEF Place
  <2>3. replied[c] = RequestNum
    <3>1. receiveNum[c] = replied[c] - Len(nested[c])
      BY <1>1, <1>2, <2>1, <2>2 DEF Counted, SecondPhase
    <3> QED
      BY <1>2, <2>1, <2>2, <3>1, AllReplied
  <2>4. Place(c)'
    BY <1>2, <2>1, <2>2 DEF Place
  <2>5. Counted(c)'
    BY <2>1, <2>2, <2>3 DEF Counted, SecondPhase
  <2> QED
    BY <2>4, <2>5
<1>8. CASE Spawn(c) \/ Computed(c) \/ Join(c) \/ WaiterEnds(c)
  <2>1. UNCHANGED <<sent, receiveNum, replied, nested>>
    BY <1>8 DEF Spawn, Computed, Join, WaiterEnds, received
  <2>2. /\ waiter \in [Clients -> {"none", "waiting", "ended"}]
        /\ \/ main[c] = "spawn" /\ main'[c] = "compute" /\ waiter'[c] = "waiting"
           \/ main[c] = "compute" /\ main'[c] = "join" /\ waiter'[c] = waiter[c]
           \/ main[c] = "join" /\ main'[c] = "end" /\ waiter[c] = "ended" /\ waiter'[c] = waiter[c]
           \/ /\ waiter[c] = "waiting" /\ main'[c] = main[c] /\ waiter'[c] = "ended"
              /\ receiveNum[c] >= RequestNum
    BY <1>3, <1>8 DEF Spawn, Computed, Join, WaiterEnds, IInv, Types
  <2>3. Place(c)'
    BY <1>1, <1>2, <2>1, <2>2 DEF Place
  <2>4. SecondPhase(c)' <=> SecondPhase(c)
    BY <1>1, <1>2, <2>1, <2>2 DEF Place, SecondPhase
  <2> QED
    BY <1>1, <2>1, <2>3, <2>4 DEF Counted
<1>9. CASE ReplyEager(c) \/ ReplyRendezvous(c) \/ ReplyWritten(c) \/ PullFails(c)
  <2>1. UNCHANGED <<main, sent, waiter>>
    BY <1>9 DEF ReplyEager, ReplyRendezvous, ReplyWritten, PullFails
  <2>2. \/ /\ replied'[c] = replied[c] + 1 /\ receiveNum'[c] = receiveNum[c] + 1
           /\ Len(nested'[c]) = Len(nested[c])
        \/ /\ replied'[c] = replied[c] + 1 /\ receiveNum'[c] = receiveNum[c]
           /\ Len(nested'[c]) = Len(nested[c]) + 1
        \/ /\ replied'[c] = replied[c] /\ receiveNum'[c] = receiveNum[c] + 1
           /\ Len(nested'[c]) = Len(nested[c]) - 1
    <3>1. CASE ReplyEager(c)
      BY <3>1 DEF ReplyEager, IInv, Types
    <3>2. CASE ReplyRendezvous(c)
      <4>1. /\ replied'[c] = replied[c] + 1 /\ receiveNum' = receiveNum
            /\ nested'[c] = Append(nested[c], replied[c] + 1)
        BY <3>2 DEF ReplyRendezvous, IInv, Types
      <4>2. Len(nested'[c]) = Len(nested[c]) + 1
        BY <1>2, <4>1, Appended
      <4> QED
        BY <4>1, <4>2
    <3>3. CASE ReplyWritten(c) \/ PullFails(c)
      <4>1. /\ replied' = replied /\ receiveNum'[c] = receiveNum[c] + 1
            /\ nested[c] # <<>>
            /\ nested'[c] = SubSeq(nested[c], 1, Len(nested[c]) - 1)
        BY <3>3 DEF ReplyWritten, PullFails, IInv, Types
      <4>2. Len(nested'[c]) = Len(nested[c]) - 1
        BY <1>2, <4>1
      <4> QED
        BY <4>1, <4>2
    <3> QED
      BY <1>9, <3>1, <3>2, <3>3
  <2>3. receiveNum'[c] \in Nat /\ receiveNum'[c] >= receiveNum[c]
    BY <1>2, <2>2
  <2>4. Place(c)'
    BY <1>1, <1>2, <2>1, <2>3 DEF Place
  <2>5. SecondPhase(c)' <=> SecondPhase(c)
    BY <2>1 DEF SecondPhase
  <2>6. Counted(c)'
    <3>1. CASE SecondPhase(c)
      <4>1. receiveNum[c] = replied[c] - Len(nested[c]) - RequestNum
        BY <1>1, <3>1 DEF Counted
      <4>2. receiveNum'[c] = replied'[c] - Len(nested'[c]) - RequestNum
        <5> DEFINE R == receiveNum[c]  p == replied[c]  l == Len(nested[c])
                   R1 == receiveNum'[c]  p1 == replied'[c]  l1 == Len(nested'[c])
        <5>1. R \in Nat /\ p \in Nat /\ l \in Nat
          BY <1>2
        <5>2. \/ p1 = p + 1 /\ R1 = R + 1 /\ l1 = l
              \/ p1 = p + 1 /\ R1 = R /\ l1 = l + 1
              \/ p1 = p /\ R1 = R + 1 /\ l1 = l - 1
          BY <2>2
        <5>3. R = p - l - RequestNum
          BY <4>1
        <5> HIDE DEF R, p, l, R1, p1, l1
        <5>4. R1 = p1 - l1 - RequestNum
          BY <5>1, <5>2, <5>3
        <5> QED
          BY <5>4 DEF R1, p1, l1
      <4> QED
        BY <2>5, <3>1, <4>2 DEF Counted
    <3>2. CASE ~SecondPhase(c)
      <4>1. receiveNum[c] = replied[c] - Len(nested[c])
        BY <1>1, <1>2, <3>2 DEF Counted
      <4>2. receiveNum'[c] = replied'[c] - Len(nested'[c]) - 0
        BY <1>2, <2>2, <4>1
      <4> QED
        BY <2>5, <3>2, <4>2 DEF Counted
    <3> QED
      BY <3>1, <3>2
  <2> QED
    BY <2>4, <2>6
<1> QED
  BY <1>4, <1>5, <1>6, <1>7, <1>8, <1>9 DEF Client

LEMMA NextInv ==
  ASSUME IInv, [Next]_vars
  PROVE  IInv'
<1>1. ASSUME NEW d \in Clients PROVE (Place(d) /\ Counted(d))'
  <2>1. Place(d) /\ Counted(d)
    BY DEF IInv
  <2>2. CASE Own(d)' = Own(d)
    <3>1. /\ main'[d] = main[d] /\ sent'[d] = sent[d] /\ waiter'[d] = waiter[d]
          /\ receiveNum'[d] = receiveNum[d] /\ replied'[d] = replied[d]
          /\ nested'[d] = nested[d]
      BY <2>2 DEF Own
    <3> QED
      BY <2>1, <3>1 DEF Place, Counted, SecondPhase
  <2>3. ASSUME NEW c \in Clients, Client(c) \/ Arrive(c) \/ Serve(c)
        PROVE  (Place(d) /\ Counted(d))'
    <3>1. CASE d # c
      BY <2>2, <2>3, <3>1, OthersKept
    <3>2. CASE d = c /\ Client(c)
      BY <3>2, OwnKept
    <3>3. CASE Arrive(c) \/ Serve(c)
      BY <2>2, <3>3 DEF Arrive, Serve, received, Own
    <3> QED
      BY <2>3, <3>1, <3>2, <3>3
  <2>4. CASE UNCHANGED vars
    BY <2>2, <2>4 DEF vars, received, Own
  <2> QED
    BY <2>3, <2>4 DEF Next
<1> QED
  BY <1>1, TypesKept, ServedKept DEF IInv

LEMMA Invariant == Spec => []IInv
  BY InitInv, NextInv, PTL DEF Spec

-----------------------------------------------------------------------------
\* receive_num is the number of replies to this measurement's requests whose
\* handler has returned, with their data or not, whatever handlers nest
\* (RepliesCounted).
THEOREM RepliesAreCounted == Spec => []RepliesCounted
<1>1. IInv => RepliesCounted
  BY DEF IInv, Counted, RepliesCounted
<1> QED
  BY <1>1, Invariant, PTL

\* A client that ends has left no other client behind (NobodyLeft).
THEOREM NobodyIsLeft == Spec => []NobodyLeft
<1>1. ASSUME IInv, NEW c \in Clients, main[c] = "end", NEW d \in Clients
      PROVE  sent[d] = 2 * RequestNum /\ Len(taken[d]) = 2 * RequestNum
  <2> USE Num
  <2>1. /\ Place(c) /\ Counted(c) /\ Served(c) /\ Place(d) /\ Served(d)
        /\ sent[d] \in Nat /\ arrived[d] \in Nat
        /\ sent[c] \in Nat /\ replied[c] \in Nat /\ receiveNum[c] \in Nat
    BY <1>1 DEF IInv, Types
  <2>2. Len(nested[c]) \in Nat /\ Len(taken[d]) \in Nat /\ Len(answers[c]) \in Nat
    <3>1. /\ nested[c] \in Seq(Nat) /\ taken[d] \in Seq(Nat)
          /\ answers[c] \in Seq(SUBSET (Clients \X Nat))
      BY <1>1 DEF IInv, Types
    <3> QED
      BY <3>1, LenType
  <2>3. Cardinality(pool[d]) \in Nat
    BY <2>1, FS_CardinalityType DEF Served
  <2>4. receiveNum[c] >= RequestNum /\ SecondPhase(c)
    BY <1>1, <2>1 DEF Place, SecondPhase
  <2>5. replied[c] >= 2 * RequestNum
    BY <2>1, <2>2, <2>4 DEF Counted
  <2>6. replied[c] <= Len(answers[c]) /\ Len(answers[c]) <= Len(taken[d])
    BY <2>1 DEF Served
  <2>7. /\ Len(taken[d]) + Cardinality(pool[d]) = arrived[d] /\ arrived[d] <= sent[d]
        /\ sent[d] <= 2 * RequestNum
    BY <2>1 DEF Served, Place
  <2> QED
    BY <2>1, <2>2, <2>3, <2>5, <2>6, <2>7
<1>2. IInv => NobodyLeft
  BY <1>1 DEF NobodyLeft
<1> QED
  BY <1>2, Invariant, PTL

-----------------------------------------------------------------------------
\* What is in the buffer and in the requests; no request that has arrived is
\* lost by the server.
Held(c) == \A q \in 1 .. arrived[c] : q \in pool[c] \/ \E n \in DOMAIN taken[c] : taken[c][n] = q
Earlier(c) == buffer[c] \subseteq 0 .. replied[c] /\ content[c] \subseteq 0 .. sent[c] - 1
Contained == buffer \in [Clients -> SUBSET Nat] /\ content \in [Clients -> SUBSET Nat]
Contents == Contained /\ \A c \in Clients : Held(c) /\ Earlier(c)

LEMMA InitContents == Init => Contents
  BY DEF Init, Service!Init, Contents, Contained, Held, Earlier

LEMMA HeldKept ==
  ASSUME IInv, [Next]_vars, NEW d \in Clients, Held(d)
  PROVE  Held(d)'
<1>0. arrived[d] \in Nat /\ taken[d] \in Seq(Nat)
  BY DEF IInv, Types
<1>1. ASSUME NEW c \in Clients, Arrive(c) PROVE Held(d)'
  <2>1. taken' = taken
    BY <1>1 DEF Arrive, Service!Arrive
  <2>2. \/ pool'[d] = pool[d] /\ arrived'[d] = arrived[d]
        \/ pool'[d] = pool[d] \cup {arrived[d] + 1} /\ arrived'[d] = arrived[d] + 1
    BY <1>1 DEF Arrive, Service!Arrive, IInv, Types
  <2> QED
    BY <1>0, <2>1, <2>2 DEF Held
<1>2. ASSUME NEW c \in Clients, Serve(c), Service!Take(c) PROVE Held(d)'
  <2>1. arrived' = arrived
    BY <1>2 DEF Serve
  <2>2. CASE d # c
    <3>1. pool'[d] = pool[d] /\ taken'[d] = taken[d]
      BY <1>2, <2>2 DEF Service!Take, IInv, Types
    <3> QED
      BY <2>1, <3>1 DEF Held
  <2>3. CASE d = c
    <3>1. PICK q \in pool[d] : taken'[d] = Append(taken[d], q) /\ pool'[d] = pool[d] \ {q}
      BY <1>2, <2>3 DEF Service!Take, IInv, Types
    <3>2. q \in Nat
      BY DEF IInv, Types
    <3>3. Len(taken'[d]) = Len(taken[d]) + 1 /\ taken'[d][Len(taken[d]) + 1] = q
      BY <1>0, <3>1, <3>2
    <3>4. \A n \in DOMAIN taken[d] : n \in DOMAIN taken'[d] /\ taken'[d][n] = taken[d][n]
      BY <1>0, <3>1, <3>2
    <3>5. Len(taken[d]) + 1 \in DOMAIN taken'[d]
      BY <1>0, <3>1, <3>2
    <3> QED
      BY <2>1, <3>1, <3>3, <3>4, <3>5 DEF Held
  <2> QED
    BY <2>2, <2>3
<1>3. ASSUME NEW c \in Clients, Serve(c), Service!Answer(c) PROVE Held(d)'
  BY <1>3 DEF Serve, Service!Answer, Held
<1>4. ASSUME NEW c \in Clients, Client(c) PROVE Held(d)'
  <2>1. UNCHANGED <<pool, taken, arrived>>
    BY <1>4 DEF Client, Send, SendFails, SendDone, WaitEnds, Spawn, Computed, Join,
                WaiterEnds, ReplyEager, ReplyRendezvous, ReplyWritten, PullFails,
                service
  <2> QED
    BY <2>1 DEF Held
<1>5. CASE UNCHANGED vars
  BY <1>5 DEF vars, service, Held
<1> QED
  BY <1>1, <1>2, <1>3, <1>4, <1>5 DEF Next, Serve, Service!Serve

\* While a request is being read it has not been taken, so that no reply to
\* it can have been sent.
LEMMA ReadIsUnanswered ==
  ASSUME IInv, Contents, NEW c \in Clients, BeingRead(c)
  PROVE  Len(answers[c]) <= sent[c] - 1
<1>1. Served(c) /\ taken[c] \in Seq(Nat) /\ answers[c] \in Seq(SUBSET (Clients \X Nat))
  BY DEF IInv, Types
<1>2. Len(taken[c]) \in Nat /\ Len(answers[c]) \in Nat
  BY <1>1, LenType
<1>3. IsFiniteSet(pool[c]) /\ Cardinality(pool[c]) \in Nat
  BY <1>1, FS_CardinalityType DEF Served
<1>4. sent[c] \in Nat /\ arrived[c] \in Nat
  BY DEF IInv, Types
<1>5. /\ Len(taken[c]) + Cardinality(pool[c]) = arrived[c]
      /\ arrived[c] <= sent[c] /\ Len(answers[c]) <= Len(taken[c])
  BY <1>1 DEF Served
<1>6. CASE arrived[c] < sent[c]
  BY <1>2, <1>3, <1>4, <1>5, <1>6
<1>7. CASE arrived[c] = sent[c]
  <2>1. sent[c] > 0
    <3>1. Place(c)
      BY DEF IInv
    <3> QED
      BY <3>1 DEF BeingRead, Place
  <2>2. sent[c] \notin Range(taken[c])
    BY <1>4, <1>7 DEF BeingRead
  <2>3. sent[c] \in pool[c]
    BY <1>4, <1>7, <2>1, <2>2 DEF Contents, Held, Range
  <2>4. Cardinality(pool[c]) # 0
    BY <1>3, <2>3, FS_EmptySet
  <2> QED
    BY <1>2, <1>3, <1>4, <1>5, <1>7, <2>4
<1> QED
  BY <1>4, <1>5, <1>6, <1>7

\* A write of the replies up to replied' leaves the request's contents early.
LEMMA WrittenEarlier ==
  ASSUME IInv, Contents, NEW c \in Clients, NEW v \in SUBSET (0 .. replied'[c]),
         Written(c, v), sent' = sent, replied'[c] <= Len(answers[c]), replied'[c] \in Nat
  PROVE  Earlier(c)'
<1>1. /\ sent[c] \in Nat /\ buffer \in [Clients -> SUBSET Nat]
      /\ content \in [Clients -> SUBSET Nat] /\ Earlier(c)
  BY DEF IInv, Types, Contents, Contained
<1>2. Len(answers[c]) \in Nat
  <2>1. answers[c] \in Seq(SUBSET (Clients \X Nat))
    BY DEF IInv, Types
  <2> QED
    BY <2>1, LenType
<1>3. buffer'[c] \subseteq 0 .. replied'[c]
  BY <1>1 DEF Written
<1>4. CASE BeingRead(c)
  <2>1. replied'[c] <= sent[c] - 1
    BY <1>1, <1>2, <1>4, ReadIsUnanswered
  <2>2. v \subseteq 0 .. sent[c] - 1
    BY <1>1, <2>1
  <2>3. content'[c] = content[c] \cup v
    BY <1>1, <1>4 DEF Written
  <2> QED
    BY <1>1, <1>3, <2>2, <2>3 DEF Earlier
<1>5. CASE ~BeingRead(c)
  <2>1. content'[c] = content[c]
    BY <1>1, <1>5 DEF Written
  <2> QED
    BY <1>1, <1>3, <2>1 DEF Earlier
<1> QED
  BY <1>4, <1>5

LEMMA EarlierKept ==
  ASSUME IInv, Contents, [Next]_vars, NEW d \in Clients
  PROVE  Earlier(d)'
<1>1. /\ Earlier(d) /\ sent[d] \in Nat /\ replied[d] \in Nat /\ Served(d)
      /\ buffer[d] \subseteq Nat /\ Len(answers[d]) \in Nat
  <2>1. answers[d] \in Seq(SUBSET (Clients \X Nat))
    BY DEF IInv, Types
  <2>2. Len(answers[d]) \in Nat
    BY <2>1, LenType
  <2>3. Served(d) /\ sent[d] \in Nat /\ replied[d] \in Nat
    BY DEF IInv, Types
  <2>4. Earlier(d) /\ buffer[d] \subseteq Nat
    BY DEF Contents, Contained
  <2> QED
    BY <2>2, <2>3, <2>4
<1>2. CASE /\ buffer'[d] = buffer[d] /\ content'[d] = content[d]
           /\ replied'[d] = replied[d] /\ sent'[d] = sent[d]
  BY <1>1, <1>2 DEF Earlier
<1>3. ASSUME NEW c \in Clients, Send(c) PROVE Earlier(d)'
  <2>1. CASE d # c
    BY <1>2, <1>3, <2>1 DEF Send, IInv, Types, Contents, Contained
  <2>2. CASE d = c
    <3>1. /\ content'[d] = buffer[d] /\ sent'[d] = sent[d] + 1
          /\ UNCHANGED <<buffer, replied>>
      BY <1>3, <2>2 DEF Send, IInv, Types, Contents, Contained
    <3> QED
      BY <1>1, <3>1, AllReplied DEF Earlier
  <2> QED
    BY <2>1, <2>2
<1>4. ASSUME NEW c \in Clients, SendFails(c) \/ SendDone(c) \/ WaitEnds(c) \/ Spawn(c)
             \/ Computed(c) \/ Join(c) \/ WaiterEnds(c) \/ Arrive(c) \/ Serve(c)
      PROVE  Earlier(d)'
  BY <1>2, <1>4 DEF SendFails, SendDone, WaitEnds, Spawn, Computed, Join, WaiterEnds,
     Arrive, Serve, received
<1>10. ASSUME NEW c \in Clients, PullFails(c) PROVE Earlier(d)'
  BY <1>2, <1>10 DEF PullFails
<1>5. ASSUME NEW c \in Clients, ReplyEager(c) \/ ReplyRendezvous(c) \/ ReplyWritten(c), d # c
      PROVE  Earlier(d)'
  BY <1>2, <1>5 DEF ReplyEager, ReplyRendezvous, ReplyWritten, Written, IInv, Types, Contents, Contained
<1>6. CASE ReplyEager(d)
  <2>1. /\ replied'[d] = replied[d] + 1 /\ replied[d] < Len(answers[d]) /\ sent' = sent
        /\ Written(d, {replied[d] + 1})
    BY <1>6 DEF ReplyEager, IInv, Types
  <2>2. {replied[d] + 1} \in SUBSET (0 .. replied'[d])
    BY <1>1, <2>1
  <2> QED
    BY <1>1, <2>1, <2>2, WrittenEarlier
<1>7. CASE ReplyRendezvous(d)
  <2>1. /\ replied'[d] = replied[d] + 1 /\ replied[d] < Len(answers[d]) /\ sent' = sent
        /\ Written(d, buffer[d] \cup {replied[d] + 1})
    BY <1>7 DEF ReplyRendezvous, IInv, Types
  <2>2. buffer[d] \cup {replied[d] + 1} \in SUBSET (0 .. replied'[d])
    BY <1>1, <2>1 DEF Earlier
  <2> QED
    BY <1>1, <2>1, <2>2, WrittenEarlier
<1>8. CASE ReplyWritten(d)
  <2> DEFINE n == nested[d][Len(nested[d])]
             outer == SubSeq(nested[d], 1, Len(nested[d]) - 1)
             v == {x \in buffer[d] : x >= n \/ x \in Range(outer)}
  <2>1. replied' = replied /\ sent' = sent /\ Written(d, v)
    BY <1>8 DEF ReplyWritten
  <2>2. v \in SUBSET (0 .. replied'[d])
    BY <1>1, <2>1 DEF Earlier
  <2>3. replied'[d] <= Len(answers[d]) /\ replied'[d] \in Nat
    BY <1>1, <2>1 DEF Served
  <2> HIDE DEF v
  <2> QED
    BY <2>1, <2>2, <2>3, WrittenEarlier
<1>9. CASE UNCHANGED vars
  BY <1>2, <1>9 DEF vars, received
<1> QED
  BY <1>3, <1>4, <1>5, <1>6, <1>7, <1>8, <1>9, <1>10 DEF Next, Client

LEMMA NextContents ==
  ASSUME IInv, Contents, [Next]_vars
  PROVE  Contents'
<1>1. ASSUME NEW d \in Clients PROVE Held(d)' /\ Earlier(d)'
  BY HeldKept, EarlierKept DEF Contents
<1>2. Contained'
  <2> USE DEF Contents, Contained
  <2>1. ASSUME NEW c \in Clients, NEW v \in SUBSET Nat, Written(c, v) PROVE Contained'
    BY <2>1 DEF Written
  <2>2. ASSUME NEW c \in Clients, ReplyEager(c) \/ ReplyRendezvous(c) PROVE Contained'
    <3>1. replied[c] + 1 \in Nat /\ buffer[c] \in SUBSET Nat
      BY DEF IInv, Types
    <3>2. {replied[c] + 1} \in SUBSET Nat /\ buffer[c] \cup {replied[c] + 1} \in SUBSET Nat
      BY <3>1
    <3> QED
      BY <2>1, <2>2, <3>2 DEF ReplyEager, ReplyRendezvous
  <2>3. ASSUME NEW c \in Clients, ReplyWritten(c) PROVE Contained'
    <3> DEFINE n == nested[c][Len(nested[c])]
               outer == SubSeq(nested[c], 1, Len(nested[c]) - 1)
               v == {x \in buffer[c] : x >= n \/ x \in Range(outer)}
    <3>1. v \in SUBSET Nat
      OBVIOUS
    <3>2. Written(c, v)
      BY <2>3 DEF ReplyWritten
    <3> HIDE DEF v
    <3> QED
      BY <2>1, <3>1, <3>2
  <2>4. ASSUME NEW c \in Clients, Send(c) PROVE Contained'
    BY <2>4 DEF Send
  <2>5. CASE UNCHANGED <<buffer, content>>
    BY <2>5
  <2> QED
    BY <2>2, <2>3, <2>4, <2>5 DEF Next, Client, SendFails, SendDone, WaitEnds, Spawn,
       Computed, Join, WaiterEnds, PullFails, Arrive, Serve, received, vars
<1> QED
  BY <1>1, <1>2 DEF Contents, Contained

\* A request carries replies to earlier requests only (RepliesAreEarlier).
THEOREM RepliesComeLater == Spec => []RepliesAreEarlier
<1>1. Contents => RepliesAreEarlier
  BY DEF Contents, Earlier, RepliesAreEarlier
<1>2. Init => IInv /\ Contents
  BY InitInv, InitContents
<1>3. IInv /\ Contents /\ [Next]_vars => IInv' /\ Contents'
  BY NextInv, NextContents
<1> QED
  BY <1>1, <1>2, <1>3, PTL DEF Spec

-----------------------------------------------------------------------------
\* The handlers that wait in ucx_wait are of replies that have come.
Nested(c) == \A i \in 1 .. Len(nested[c]) : nested[c][i] \in 1 .. replied[c]

Waiting == rndv \in Protocols /\ \A c \in Clients : Nested(c)

\* A sequence is one of the set that its elements are in.
LEMMA SeqOfSet ==
  ASSUME NEW S, NEW T, NEW s \in Seq(S), \A i \in 1 .. Len(s) : s[i] \in T
  PROVE  s \in Seq(T)
  OBVIOUS

\* A sequence without its last element.
LEMMA WithoutLast ==
  ASSUME NEW S, NEW s \in Seq(S), s # <<>>
  PROVE  /\ Len(SubSeq(s, 1, Len(s) - 1)) = Len(s) - 1
         /\ \A i \in 1 .. Len(s) - 1 : SubSeq(s, 1, Len(s) - 1)[i] = s[i]
<1>1. Len(s) \in Nat /\ Len(s) # 0
  OBVIOUS
<1> DEFINE m == Len(s) - 1
<1>2. m \in Nat /\ m < Len(s)
  BY <1>1
<1> HIDE DEF m
<1>3. Len(SubSeq(s, 1, m)) = m /\ \A i \in 1 .. m : SubSeq(s, 1, m)[i] = s[i]
  BY <1>2
<1> QED
  BY <1>3 DEF m

LEMMA InitWaiting == Init => Waiting
  BY DEF Init, Waiting, Nested

LEMMA NextWaiting ==
  ASSUME IInv, Waiting, [Next]_vars
  PROVE  Waiting'
<1>1. rndv' = rndv
  BY DEF Next, Client, Send, SendFails, SendDone, WaitEnds, Spawn, Computed, Join,
         WaiterEnds, ReplyEager, ReplyRendezvous, ReplyWritten, PullFails, Arrive, Serve,
         vars
<1>2. ASSUME NEW d \in Clients PROVE Nested(d)'
  <2>1. nested[d] \in Seq(Nat) /\ Len(nested[d]) \in Nat /\ replied[d] \in Nat
    <3>1. nested[d] \in Seq(Nat) /\ replied[d] \in Nat
      BY DEF IInv, Types
    <3> QED
      BY <3>1, LenType
  <2>2. Nested(d)
    BY DEF Waiting
  <2>3. CASE nested'[d] = nested[d] /\ replied'[d] = replied[d]
    BY <2>2, <2>3 DEF Nested
  <2>4. ASSUME NEW c \in Clients, Client(c) \/ Arrive(c) \/ Serve(c), c # d PROVE Nested(d)'
    BY <2>3, <2>4, OthersKept DEF Own
  <2>5. CASE Arrive(d) \/ Serve(d) \/ UNCHANGED vars
    BY <2>3, <2>5 DEF Arrive, Serve, received, vars
  <2>6. CASE SendFails(d) \/ SendDone(d) \/ Spawn(d) \/ Computed(d) \/ Join(d) \/ WaiterEnds(d)
    BY <2>3, <2>6 DEF SendFails, SendDone, Spawn, Computed, Join, WaiterEnds, received
  <2>7. CASE Send(d) \/ WaitEnds(d)
    BY <2>3, <2>7 DEF Send, WaitEnds
  <2>8. CASE ReplyEager(d)
    <3>1. nested' = nested /\ replied'[d] = replied[d] + 1
      BY <2>8 DEF ReplyEager, IInv, Types
    <3> QED
      BY <2>1, <2>2, <3>1 DEF Nested
  <2>9. CASE ReplyRendezvous(d)
    <3>1. nested'[d] = Append(nested[d], replied[d] + 1) /\ replied'[d] = replied[d] + 1
      BY <2>9 DEF ReplyRendezvous, IInv, Types
    <3> QED
      BY <2>1, <2>2, <3>1 DEF Nested
  <2>10. CASE ReplyWritten(d) \/ PullFails(d)
    <3>1. /\ nested'[d] = SubSeq(nested[d], 1, Len(nested[d]) - 1) /\ replied' = replied
          /\ nested[d] # <<>>
      BY <2>10 DEF ReplyWritten, PullFails, IInv, Types
    <3>2. /\ Len(nested'[d]) = Len(nested[d]) - 1
          /\ \A i \in 1 .. Len(nested[d]) - 1 : nested'[d][i] = nested[d][i]
      BY <2>1, <3>1, WithoutLast
    <3> QED
      BY <2>1, <2>2, <3>1, <3>2 DEF Nested
  <2> QED
    BY <2>4, <2>5, <2>6, <2>7, <2>8, <2>9, <2>10 DEF Next, Client
<1> QED
  BY <1>1, <1>2 DEF Waiting

\* Every variable keeps its type (TypeOK): the three counters of messages of
\* the active-message library never pass the requests the program may send,
\* and neither a handler nor a content is of a reply beyond them.
THEOREM TypeCorrect == Spec => []TypeOK
<1>1. ASSUME IInv, Contents, Waiting PROVE TypeOK
  <2> USE Num
  <2>1. ASSUME NEW c \in Clients
        PROVE  /\ sent[c] \in 0 .. 2 * RequestNum
               /\ arrived[c] \in 0 .. 2 * RequestNum
               /\ replied[c] \in 0 .. 2 * RequestNum
    <3>1. /\ sent[c] \in Nat /\ arrived[c] \in Nat /\ replied[c] \in Nat
          /\ Place(c) /\ Served(c)
      BY <1>1 DEF IInv, Types
    <3>2. sent[c] <= 2 * RequestNum /\ arrived[c] <= sent[c]
      BY <3>1 DEF Place, Served
    <3>3. replied[c] <= sent[c]
      BY <1>1, AllReplied
    <3> QED
      BY <3>1, <3>2, <3>3
  <2>2. ASSUME NEW c \in Clients PROVE nested[c] \in Seq(Requests)
    <3>1. nested[c] \in Seq(Nat)
      BY <1>1 DEF IInv, Types
    <3>2. \A i \in 1 .. Len(nested[c]) : nested[c][i] \in 1 .. replied[c]
      BY <1>1 DEF Waiting, Nested
    <3>3. 1 .. replied[c] \subseteq Requests
      BY <2>1 DEF Requests
    <3>4. \A i \in 1 .. Len(nested[c]) : nested[c][i] \in Requests
      BY <3>2, <3>3
    <3> QED
      BY <3>1, <3>4, SeqOfSet
  <2>3. ASSUME NEW c \in Clients
        PROVE  /\ buffer[c] \in SUBSET (0 .. 2 * RequestNum)
               /\ content[c] \in SUBSET (0 .. 2 * RequestNum)
    <3>1. buffer[c] \subseteq 0 .. replied[c] /\ content[c] \subseteq 0 .. sent[c] - 1
      BY <1>1 DEF Contents, Earlier
    <3>2. 0 .. replied[c] \subseteq 0 .. 2 * RequestNum
      BY <2>1
    <3>3. 0 .. sent[c] - 1 \subseteq 0 .. 2 * RequestNum
      BY <2>1
    <3> QED
      BY <3>1, <3>2, <3>3
  <2>4. /\ sent \in [Clients -> 0 .. 2 * RequestNum]
        /\ arrived \in [Clients -> 0 .. 2 * RequestNum]
        /\ replied \in [Clients -> 0 .. 2 * RequestNum]
    BY <1>1, <2>1 DEF IInv, Types
  <2>5. nested \in [Clients -> Seq(Requests)]
    <3>1. nested \in [Clients -> Seq(Nat)]
      BY <1>1 DEF IInv, Types
    <3> QED
      BY <2>2, <3>1
  <2>6. /\ buffer \in [Clients -> SUBSET (0 .. 2 * RequestNum)]
        /\ content \in [Clients -> SUBSET (0 .. 2 * RequestNum)]
    <3>1. buffer \in [Clients -> SUBSET Nat] /\ content \in [Clients -> SUBSET Nat]
      BY <1>1 DEF Contents, Contained
    <3> QED
      BY <2>3, <3>1
  <2>7. /\ main \in [Clients -> {"send", "sending", "wait", "spawn", "compute", "join",
                                 "end", "refused", "broken"}]
        /\ receiveNum \in [Clients -> Nat]
        /\ waiter \in [Clients -> {"none", "waiting", "ended"}]
        /\ rndv \in Protocols
    BY <1>1 DEF IInv, Types, Waiting
  <2> QED
    BY <2>4, <2>5, <2>6, <2>7 DEF TypeOK
<1>2. Init => IInv /\ Contents /\ Waiting
  BY InitInv, InitContents, InitWaiting
<1>3. IInv /\ Contents /\ Waiting /\ [Next]_vars => IInv' /\ Contents' /\ Waiting'
  BY NextInv, NextContents, NextWaiting
<1> QED
  BY <1>1, <1>2, <1>3, PTL DEF Spec
=============================================================================
