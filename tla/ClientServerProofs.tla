------------------------ MODULE ClientServerProofs ------------------------
(* Theorems about ClientServer, for any number of clients and iterations. *)
EXTENDS ClientServer, SequenceTheorems, TLAPS

\* What the types of sent and received rest on: a client posts only what its
\* loop has left, and am_data_desc is used only when it holds a message.
TypeInv ==
  /\ TypeOK
  /\ \A c \in Clients : client[c] \in {"start", "post"} => sent[c] < NumIterations
  /\ am.complete \/ server = "pull" => am.msg \in Messages

\* How far the server is with the client it has, and with the others: what an
\* iteration and the FIN may rely on.
Served ==
  /\ server \in {"recv", "pull"} => Len(received[conn_request]) < NumIterations
  /\ server \in {"fin", "finwait", "close"} =>
       Len(received[conn_request]) = NumIterations
  /\ server \in {"recv", "pull", "fin"} => fin[conn_request] = "none"
  /\ server \notin {"listen", "down"} => conn[conn_request] = "accepted"
  /\ server = "listen" /\ conn_request # NoClient => conn[conn_request] = "held"
  /\ \A c \in Clients : conn[c] # "accepted" => received[c] = <<>>
  /\ \A c \in Clients : client[c] = "start" => conn[c] = "none"

\* The server has c's next message in am_data_desc.
Holds(c) == (am.complete \/ server = "pull") /\ am.msg[1] = c

InSlot(c) == IF Holds(c) THEN 1 ELSE 0

\* A client with rendezvous posts a message when the one before is received.
OneAtATime ==
  \A c \in Clients :
    mode.rndv => /\ sent[c] <= Len(received[c]) + 1
                 /\ client[c] \in {"start", "post"} => sent[c] <= Len(received[c])

\* Every message posted is received, in am_data_desc, or on its way, in order.
AccountedFor(c) ==
  /\ sent[c] = Len(received[c]) + InSlot(c) + Len(out[c])
  /\ Holds(c) => am.msg = <<c, Len(received[c]) + 1>>
  /\ \A n \in 1 .. Len(out[c]) :
       out[c][n] = <<c, Len(received[c]) + InSlot(c) + n>>

Accounted == \A c \in Clients : AccountedFor(c)

\* What am_data_desc holds, it holds for a connected client, until it is taken.
SlotInUse ==
  /\ am.complete \/ server = "pull" =>
       mode.api = "am" /\ conn[am.msg[1]] = "accepted"
  /\ ~(am.complete /\ server = "pull")

\* Clients that are not the server's any more are finished.
OthersFinished ==
  \A c \in Clients :
    conn[c] = "accepted" /\ (c # conn_request \/ server = "listen") =>
      Len(received[c]) = NumIterations

\* A server that has failed may have lost the message it was receiving.
OrderInv ==
  /\ OneAtATime /\ OthersFinished /\ SlotInUse
  /\ server # "down" => Accounted
  /\ ReceivedInOrder

-----------------------------------------------------------------------------
\* What the sequence operators do to a sequence of messages.
LEMMA SeqFacts ==
  ASSUME NEW S, NEW s \in Seq(S), NEW m \in S
  PROVE  /\ Len(s) \in Nat /\ DOMAIN s = 1 .. Len(s)
         /\ Append(s, m) \in Seq(S) /\ Len(Append(s, m)) = Len(s) + 1
         /\ Append(s, m)[Len(s) + 1] = m
         /\ \A n \in 1 .. Len(s) : Append(s, m)[n] = s[n]
  BY AppendProperties, LenProperties

LEMMA TailFacts ==
  ASSUME NEW S, NEW s \in Seq(S), s # <<>>
  PROVE  /\ Head(s) \in S /\ Head(s) = s[1]
         /\ Tail(s) \in Seq(S) /\ Len(s) >= 1 /\ Len(Tail(s)) = Len(s) - 1
         /\ \A n \in 1 .. Len(s) - 1 : Tail(s)[n] = s[n + 1]
  BY HeadTailProperties, EmptySeq

LEMMA TypeInvariant == Spec => []TypeInv
<1>1. Init => TypeInv
  BY IterationsAssumption, EmptySeq DEF Init, TypeInv, TypeOK
<1>2. TypeInv /\ [Next]_vars => TypeInv'
  <2> SUFFICES ASSUME TypeInv, [Next]_vars PROVE TypeInv'
    OBVIOUS
  <2> USE IterationsAssumption, NoClientAssumption DEF TypeInv, TypeOK, serverVars,
          clientVars, Ended
  <2>1. ASSUME NEW c \in Clients, Connect(c) PROVE TypeInv'
    BY <2>1 DEF Connect
  <2>2. ASSUME NEW c \in Clients, PostMessage(c) PROVE TypeInv'
    <3>1. <<c, sent[c] + 1>> \in Messages
      BY <2>2 DEF PostMessage, Messages
    <3>2. Append(out[c], <<c, sent[c] + 1>>) \in Seq(Messages)
      BY <3>1, SeqFacts
    <3> QED
      BY <2>2, <3>2 DEF PostMessage
  <2>3. ASSUME NEW c \in Clients, MessageSent(c) PROVE TypeInv'
    BY <2>3 DEF MessageSent
  <2>4. ASSUME NEW c \in Clients,
               SendFails(c) \/ FinReceived(c) \/ FinDropped(c) \/ Die(c)
        PROVE TypeInv'
    <3>1. CASE SendFails(c)
      BY <3>1 DEF SendFails
    <3>2. CASE FinReceived(c)
      BY <3>2 DEF FinReceived
    <3>3. CASE FinDropped(c)
      BY <3>3 DEF FinDropped
    <3>4. CASE Die(c)
      BY <3>4 DEF Die
    <3> QED
      BY <2>4, <3>1, <3>2, <3>3, <3>4
  <2>5. ASSUME NEW c \in Clients, ConnHandle(c) PROVE TypeInv'
    BY <2>5 DEF ConnHandle
  <2>6. ASSUME NEW m \in Messages, server \in {"recv", "pull"}, Iteration(m)
        PROVE  received' \in [Clients -> Seq(Messages)] /\ server' \in {"fin", "recv"}
    <3>1. Append(received[conn_request], m) \in Seq(Messages)
      BY <2>6, SeqFacts
    <3> QED
      BY <2>6, <3>1 DEF Iteration
  <2>7. ASSUME NEW c \in Clients, Receive(c) PROVE TypeInv'
    <3>1. Head(out[c]) \in Messages /\ Tail(out[c]) \in Seq(Messages)
      BY <2>7, TailFacts DEF Receive
    <3> QED
      BY <2>6, <2>7, <3>1 DEF Receive
  <2>8. ASSUME NEW c \in Clients, AmDataCb(c) PROVE TypeInv'
    <3>1. Head(out[c]) \in Messages /\ Tail(out[c]) \in Seq(Messages)
      BY <2>8, TailFacts DEF AmDataCb
    <3> QED
      BY <2>8, <3>1 DEF AmDataCb, Progressing
  <2>9. CASE AmTake
    BY <2>6, <2>9 DEF AmTake
  <2>10. CASE Pulled
    BY <2>6, <2>10 DEF Pulled
  <2>11. CASE Accept \/ SendFin \/ FinSent \/ ErrCb \/ NextClient
    BY <2>11 DEF Accept, SendFin, FinSent, ErrCb, NextClient
  <2>12. CASE AcceptFails \/ ReceiveFails \/ PullFails \/ FinSendFails
    BY <2>12 DEF AcceptFails, ReceiveFails, PullFails, FinSendFails, Down, PeerGone
  <2>13. CASE UNCHANGED vars
    BY <2>13 DEF vars
  <2> QED
    BY <2>1, <2>2, <2>3, <2>4, <2>5, <2>7, <2>8, <2>9, <2>10, <2>11, <2>12, <2>13
       DEF Next, Server, Client
<1> QED
  BY <1>1, <1>2, PTL DEF Spec

\* The variables keep their types: in particular no client posts more than its
\* messages, and the server never works for nobody.
THEOREM TypeCorrect == Spec => []TypeOK
<1>1. TypeInv => TypeOK
  BY DEF TypeInv
<1> QED
  BY <1>1, TypeInvariant, PTL

-----------------------------------------------------------------------------
\* An iteration brings the server from one number of messages to the next.
LEMMA IterationCounts ==
  ASSUME TypeInv, server \in {"recv", "pull"}, Served, NEW m \in Messages, Iteration(m)
  PROVE  /\ Len(received'[conn_request]) = Len(received[conn_request]) + 1
         /\ \A c \in Clients \ {conn_request} : received'[c] = received[c]
         /\ server' = "recv" => Len(received'[conn_request]) < NumIterations
         /\ server' # "recv" => server' = "fin"
                                /\ Len(received'[conn_request]) = NumIterations
<1>1. conn_request \in Clients /\ received \in [Clients -> Seq(Messages)]
  BY DEF TypeInv, TypeOK
<1>2. /\ Len(received[conn_request]) \in Nat
      /\ Len(Append(received[conn_request], m)) = Len(received[conn_request]) + 1
  BY <1>1, SeqFacts
<1> QED
  BY <1>1, <1>2, IterationsAssumption DEF Iteration, Served

ServedInv == Served /\ FinAcknowledges

\* Where an iteration takes its message from.
LEMMA IterationOfReceive ==
  ASSUME TypeInv, NEW c \in Clients, Receive(c)
  PROVE  server = "recv" /\ Head(out[c]) \in Messages /\ Iteration(Head(out[c]))
  BY TailFacts DEF Receive, TypeInv, TypeOK

LEMMA IterationKeepsServed ==
  ASSUME TypeInv, ServedInv, server \in {"recv", "pull"}, NEW m \in Messages,
         Iteration(m), UNCHANGED <<conn_request, client, conn, fin>>
  PROVE  ServedInv'
<1>1. conn_request \in Clients
  BY DEF TypeInv, TypeOK
<1>2. Served'
  BY <1>1, IterationCounts DEF Served, ServedInv
<1>3. FinAcknowledges'
  <2>1. fin[conn_request] = "none"
    BY DEF Served, ServedInv
  <2> QED
    BY <1>1, <2>1, IterationCounts DEF FinAcknowledges, ServedInv
<1> QED
  BY <1>2, <1>3 DEF ServedInv

LEMMA ServedInvariant == Spec => []ServedInv
<1>1. Init => ServedInv
  BY DEF Init, ServedInv, Served, FinAcknowledges
<1>2. TypeInv /\ ServedInv /\ [Next]_vars => ServedInv'
  <2> SUFFICES ASSUME TypeInv, ServedInv, [Next]_vars PROVE ServedInv'
    OBVIOUS
  <2> USE DEF TypeInv, TypeOK, ServedInv, Served, FinAcknowledges, serverVars,
          clientVars, Ended
  <2>1. ASSUME NEW c \in Clients, Connect(c) \/ PostMessage(c) \/ MessageSent(c)
        PROVE  ServedInv'
    <3>1. CASE Connect(c)
      BY <3>1 DEF Connect
    <3>2. CASE PostMessage(c) \/ MessageSent(c)
      BY <3>2 DEF PostMessage, MessageSent
    <3> QED
      BY <2>1, <3>1, <3>2
  <2>2. ASSUME NEW c \in Clients, SendFails(c) \/ Die(c)
        PROVE  ServedInv'
    BY <2>2 DEF SendFails, Die
  <2>3. ASSUME NEW c \in Clients, FinReceived(c) \/ FinDropped(c) PROVE ServedInv'
    <3>1. CASE FinReceived(c)
      BY <3>1 DEF FinReceived
    <3>2. CASE FinDropped(c)
      BY <3>2 DEF FinDropped
    <3> QED
      BY <2>3, <3>1, <3>2
  <2>4. ASSUME NEW c \in Clients, ConnHandle(c) PROVE ServedInv'
    BY <2>4 DEF ConnHandle
  <2>5. CASE Accept
    <3>1. received[conn_request] = <<>> /\ Len(received[conn_request]) = 0
      BY <2>5, EmptySeq DEF Accept
    <3> QED
      BY <2>5, <3>1, IterationsAssumption DEF Accept
  <2>6. ASSUME NEW c \in Clients, Receive(c) PROVE ServedInv'
    BY <2>6, IterationOfReceive, IterationKeepsServed DEF Receive
  <2>7. ASSUME NEW c \in Clients, AmDataCb(c) PROVE ServedInv'
    BY <2>7 DEF AmDataCb
  <2>8. CASE AmTake
    <3>1. CASE mode.rndv
      BY <2>8, <3>1 DEF AmTake
    <3>2. CASE ~mode.rndv
      BY <2>8, <3>2, IterationKeepsServed DEF AmTake
    <3> QED
      BY <3>1, <3>2
  <2>9. CASE Pulled
    BY <2>9, IterationKeepsServed DEF Pulled
  <2>10. CASE SendFin
    BY <2>10 DEF SendFin
  <2>11. CASE FinSent \/ ErrCb \/ NextClient
    BY <2>11 DEF FinSent, ErrCb, NextClient
  <2>12. CASE AcceptFails \/ ReceiveFails \/ PullFails \/ FinSendFails
    BY <2>12 DEF AcceptFails, ReceiveFails, PullFails, FinSendFails, Down
  <2>13. CASE UNCHANGED vars
    BY <2>13 DEF vars
  <2> QED
    BY <2>1, <2>2, <2>3, <2>4, <2>5, <2>6, <2>7, <2>8, <2>9, <2>10, <2>11, <2>12, <2>13
       DEF Next, Server, Client
<1> QED
  BY <1>1, <1>2, TypeInvariant, PTL DEF Spec

\* The FIN means what it says: the client it is sent to has had all its messages
\* received, however the server's callbacks and the client's death interleave.
THEOREM FinIsAcknowledgement == Spec => []FinAcknowledges
<1>1. ServedInv => FinAcknowledges
  BY DEF ServedInv
<1> QED
  BY <1>1, ServedInvariant, PTL

-----------------------------------------------------------------------------
\* Without small active messages every handler's message is a rendezvous.
NoEagerAm == \A m \in Modes : m.api = "am" => m.rndv

\* The numbers the invariant adds up.
LEMMA Lengths ==
  ASSUME TypeInv, NEW c \in Clients
  PROVE  /\ Len(received[c]) \in Nat /\ Len(out[c]) \in Nat /\ InSlot(c) \in {0, 1}
         /\ sent[c] \in 0 .. NumIterations /\ NumIterations \in Nat \ {0}
         /\ out[c] # <<>> => Len(out[c]) >= 1
  BY LenProperties, EmptySeq, IterationsAssumption
     DEF TypeInv, TypeOK, InSlot

\* A message that is on its way, or in am_data_desc, is of the client served.
LEMMA OnlyCurrent ==
  ASSUME TypeInv, OrderInv, server # "down", NEW c \in Clients,
         conn[c] = "accepted", out[c] # <<>> \/ Holds(c)
  PROVE  c = conn_request /\ server # "listen"
<1>1. sent[c] = Len(received[c]) + InSlot(c) + Len(out[c])
  BY DEF OrderInv, Accounted, AccountedFor
<1>a. InSlot(c) = 1 \/ out[c] # <<>>
  BY DEF InSlot
<1>2. Len(received[c]) < NumIterations
  BY <1>1, <1>a, Lengths
<1> QED
  BY <1>2 DEF OrderInv, OthersFinished

LEMMA SlotIsCurrent ==
  ASSUME TypeInv, OrderInv, server # "down", am.complete \/ server = "pull"
  PROVE  /\ conn_request \in Clients /\ server # "listen" /\ Holds(conn_request)
         /\ am.msg = <<conn_request, Len(received[conn_request]) + 1>>
<1>1. am.msg \in Messages /\ am.msg[1] \in Clients
  BY DEF TypeInv, Messages
<1>2. Holds(am.msg[1]) /\ conn[am.msg[1]] = "accepted"
  BY DEF Holds, OrderInv, SlotInUse
<1>3. am.msg[1] = conn_request /\ server # "listen"
  BY <1>1, <1>2, OnlyCurrent
<1>4. AccountedFor(conn_request)
  BY <1>1, <1>3 DEF OrderInv, Accounted
<1> QED
  BY <1>1, <1>2, <1>3, <1>4 DEF AccountedFor

\* An active message arrives when am_data_desc is free: its sender has no other.
LEMMA SlotIsFree ==
  ASSUME TypeInv, OrderInv, NoEagerAm, NEW c \in Clients, AmDataCb(c)
  PROVE  ~am.complete /\ server # "pull" /\ server # "down" /\ Len(out[c]) = 1
<1>1. c = conn_request /\ server # "down"
  BY OnlyCurrent DEF AmDataCb, Progressing, Senders, TypeInv, TypeOK
<1>2. mode.rndv
  BY DEF AmDataCb, NoEagerAm, TypeInv, TypeOK
<1>3. out[c] # <<>>
  BY DEF AmDataCb
<1>4. /\ Len(received[c]) \in Nat /\ Len(out[c]) \in Nat /\ Len(out[c]) >= 1
      /\ InSlot(c) \in {0, 1} /\ sent[c] \in Nat
  BY <1>3, Lengths
<1>5. sent[c] = Len(received[c]) + InSlot(c) + Len(out[c])
  BY <1>1 DEF OrderInv, Accounted, AccountedFor
<1>6. sent[c] <= Len(received[c]) + 1
  BY <1>2 DEF OrderInv, OneAtATime
<1>7. InSlot(c) = 0 /\ Len(out[c]) = 1
  <2>1. \A r, o, t \in Nat, i \in {0, 1} :
          t = r + i + o /\ t <= r + 1 /\ o >= 1 => i = 0 /\ o = 1
    OBVIOUS
  <2> QED
    BY <1>4, <1>5, <1>6, <2>1, Zenon
<1> QED
  BY <1>1, <1>7, SlotIsCurrent DEF InSlot

\* A client's accounts do not change in a step that leaves its messages alone.
LEMMA AccountKept ==
  ASSUME NEW c \in Clients, AccountedFor(c), sent'[c] = sent[c], out'[c] = out[c],
         received'[c] = received[c], Holds(c)' <=> Holds(c), Holds(c) => am' = am
  PROVE  AccountedFor(c)'
<1>1. InSlot(c)' = InSlot(c)
  BY DEF InSlot
<1> QED
  BY <1>1 DEF AccountedFor

\* The message that the current client's iteration receives is its next.
LEMMA IterationOrder ==
  ASSUME TypeInv, Served, OrderInv, server \in {"recv", "pull"}, NEW m \in Messages,
         m = <<conn_request, Len(received[conn_request]) + 1>>, Iteration(m),
         UNCHANGED <<mode, conn_request, client, conn, sent>>
  PROVE  OneAtATime' /\ OthersFinished' /\ ReceivedInOrder'
<1> USE DEF TypeInv, TypeOK
<1>1. /\ conn_request \in Clients /\ received[conn_request] \in Seq(Messages)
      /\ received' = [received EXCEPT ![conn_request] = Append(@, m)]
      /\ server' \in {"recv", "fin"}
  BY DEF Iteration
<1>2. /\ Len(received'[conn_request]) = Len(received[conn_request]) + 1
      /\ Len(received[conn_request]) \in Nat
  BY <1>1, SeqFacts
<1>3. OneAtATime'
  BY <1>1, <1>2 DEF OrderInv, OneAtATime
<1>4. OthersFinished'
  BY <1>1 DEF OrderInv, OthersFinished
<1>5. ReceivedInOrder'
  <2> SUFFICES ASSUME NEW c \in Clients, NEW n \in DOMAIN received'[c]
               PROVE  received'[c][n] = <<c, n>>
    BY DEF ReceivedInOrder
  <2>1. CASE c # conn_request
    BY <1>1, <2>1 DEF OrderInv, ReceivedInOrder
  <2>2. CASE c = conn_request
    <3> DEFINE s == received[conn_request]
    <3>1. /\ received'[c] = Append(s, m) /\ DOMAIN s = 1 .. Len(s)
          /\ DOMAIN Append(s, m) = 1 .. Len(s) + 1
          /\ Append(s, m)[Len(s) + 1] = m
          /\ \A k \in 1 .. Len(s) : Append(s, m)[k] = s[k]
      BY <1>1, <2>2, SeqFacts
    <3>2. n \in 1 .. Len(s) \/ n = Len(s) + 1
      BY <1>2, <3>1
    <3> QED
      BY <2>2, <3>1, <3>2 DEF OrderInv, ReceivedInOrder
  <2> QED
    BY <2>1, <2>2
<1> QED
  BY <1>3, <1>4, <1>5

\* The steps of a client.
LEMMA ClientKeepsOrder ==
  ASSUME TypeInv, ServedInv, OrderInv, NEW c \in Clients, Client(c) \/ Die(c)
  PROVE  OrderInv'
<1> USE DEF TypeInv, TypeOK, OrderInv, serverVars, clientVars, Ended
<1>1. CASE Connect(c)
  <2>1. conn[c] = "none"
    BY <1>1 DEF Connect, ServedInv, Served
  <2>2. OneAtATime' /\ OthersFinished' /\ SlotInUse' /\ ReceivedInOrder'
    BY <1>1, <2>1 DEF Connect, OneAtATime, OthersFinished, SlotInUse, ReceivedInOrder
  <2>3. server' # "down" => Accounted'
    BY <1>1, AccountKept DEF Connect, Accounted, Holds
  <2> QED
    BY <2>2, <2>3
<1>2. CASE PostMessage(c)
  <2>1. /\ sent' = [sent EXCEPT ![c] = @ + 1]
        /\ out' = [out EXCEPT ![c] = Append(@, <<c, sent[c] + 1>>)]
        /\ client' = [client EXCEPT ![c] = "wait"]
        /\ client[c] = "post" /\ sent[c] < NumIterations
        /\ UNCHANGED <<mode, server, conn_request, connection_closed, am, received, conn>>
    BY <1>2 DEF PostMessage
  <2>2. OneAtATime'
    BY <2>1, Lengths DEF OneAtATime
  <2>3. OthersFinished' /\ SlotInUse' /\ ReceivedInOrder'
    BY <2>1 DEF OthersFinished, SlotInUse, ReceivedInOrder
  <2>4. ASSUME server # "down" PROVE AccountedFor(c)'
    <3> DEFINE m == <<c, sent[c] + 1>>
    <3>1. m \in Messages /\ out[c] \in Seq(Messages)
      BY <2>1, IterationsAssumption DEF Messages
    <3>2. /\ Len(out[c]) \in Nat /\ Len(Append(out[c], m)) = Len(out[c]) + 1
          /\ Append(out[c], m)[Len(out[c]) + 1] = m
          /\ \A n \in 1 .. Len(out[c]) : Append(out[c], m)[n] = out[c][n]
      BY <3>1, SeqFacts
    <3>3. AccountedFor(c) /\ InSlot(c)' = InSlot(c) /\ (Holds(c)' <=> Holds(c))
      BY <2>1, <2>4 DEF Accounted, InSlot, Holds
    <3>4. /\ sent'[c] = sent[c] + 1 /\ out'[c] = Append(out[c], m)
          /\ received'[c] = received[c] /\ am' = am
      BY <2>1
    <3>5. Len(received[c]) \in Nat /\ InSlot(c) \in {0, 1}
      BY Lengths
    <3>6. /\ sent[c] = Len(received[c]) + InSlot(c) + Len(out[c])
          /\ sent[c] + 1 = Len(received[c]) + InSlot(c) + (Len(out[c]) + 1)
      <4>1. \A r, o \in Nat, i \in {0, 1} : (r + i + o) + 1 = r + i + (o + 1)
        OBVIOUS
      <4>2. sent[c] = Len(received[c]) + InSlot(c) + Len(out[c])
        BY <3>3 DEF AccountedFor
      <4>3. (Len(received[c]) + InSlot(c) + Len(out[c])) + 1
              = Len(received[c]) + InSlot(c) + (Len(out[c]) + 1)
        BY <3>2, <3>5, <4>1, Zenon
      <4> QED
        BY <4>2, <4>3, Zenon
    <3>7. sent'[c] = Len(received'[c]) + InSlot(c)' + Len(out'[c])
      BY <3>2, <3>3, <3>4, <3>6, Zenon
    <3>8. ASSUME NEW n \in 1 .. Len(out'[c])
          PROVE  out'[c][n] = <<c, Len(received'[c]) + InSlot(c)' + n>>
      <4>1. n \in 1 .. Len(out[c]) \/ n = Len(out[c]) + 1
        BY <3>2, <3>4
      <4>2. CASE n \in 1 .. Len(out[c])
        BY <3>2, <3>3, <3>4, <4>2, Zenon DEF AccountedFor
      <4>3. CASE n = Len(out[c]) + 1
        BY <3>2, <3>3, <3>4, <3>6, <4>3, Zenon
      <4> QED
        BY <4>1, <4>2, <4>3
    <3>9. Holds(c)' => am'.msg = <<c, Len(received'[c]) + 1>>
      BY <3>3, <3>4 DEF AccountedFor
    <3> QED
      BY <3>7, <3>8, <3>9 DEF AccountedFor
  <2>5. server' # "down" => Accounted'
    BY <2>1, <2>4, AccountKept DEF Accounted, Holds
  <2> QED
    BY <2>2, <2>3, <2>5
<1>3. CASE MessageSent(c)
  <2>1. OneAtATime'
    BY <1>3, Lengths DEF MessageSent, OneAtATime
  <2>2. OthersFinished' /\ SlotInUse' /\ ReceivedInOrder'
    BY <1>3 DEF MessageSent, OthersFinished, SlotInUse, ReceivedInOrder
  <2>3. server' # "down" => Accounted'
    BY <1>3, AccountKept DEF MessageSent, Accounted, Holds
  <2> QED
    BY <2>1, <2>2, <2>3
<1>4. CASE SendFails(c) \/ FinReceived(c) \/ FinDropped(c) \/ Die(c)
  <2>1. /\ UNCHANGED <<mode, server, conn_request, am, received, conn, sent, out>>
        /\ \A d \in Clients : client'[d] \in {"start", "post"} => client'[d] = client[d]
    BY <1>4 DEF SendFails, FinReceived, FinDropped, Die
  <2>2. OneAtATime' /\ OthersFinished' /\ SlotInUse' /\ ReceivedInOrder'
    BY <2>1 DEF OneAtATime, OthersFinished, SlotInUse, ReceivedInOrder
  <2>3. server' # "down" => Accounted'
    BY <2>1, AccountKept DEF Accounted, Holds
  <2> QED
    BY <2>2, <2>3
<1> QED
  BY <1>1, <1>2, <1>3, <1>4 DEF Client

\* When a message leaves out[c], or am_data_desc, for where it is counted next.
LEMMA Shifted ==
  ASSUME NEW c \in Clients, AccountedFor(c), ~Holds(c), out[c] \in Seq(Messages),
         out[c] # <<>>, Len(received[c]) \in Nat, out'[c] = Tail(out[c]),
         Len(received'[c]) + InSlot(c)' = Len(received[c]) + 1, sent'[c] = sent[c],
         Holds(c)' => am'.msg = <<c, Len(received'[c]) + 1>>
  PROVE  AccountedFor(c)'
<1>1. /\ Len(out[c]) \in Nat /\ Len(out[c]) >= 1 /\ Len(Tail(out[c])) = Len(out[c]) - 1
      /\ \A n \in 1 .. Len(out[c]) - 1 : Tail(out[c])[n] = out[c][n + 1]
  BY TailFacts, SeqFacts
<1>2. InSlot(c) = 0 /\ sent[c] = Len(received[c]) + 0 + Len(out[c])
  BY DEF InSlot, AccountedFor
<1>3. sent'[c] = Len(received'[c]) + InSlot(c)' + Len(out'[c])
  <2>1. \A r, o \in Nat : r + 0 + o = (r + 1) + (o - 1)
    OBVIOUS
  <2>2. Len(received[c]) + 0 + Len(out[c]) = (Len(received[c]) + 1) + (Len(out[c]) - 1)
    BY <1>1, <2>1, Zenon
  <2> QED
    BY <1>1, <1>2, <2>2, Zenon
<1>4. ASSUME NEW n \in 1 .. Len(out'[c])
      PROVE  out'[c][n] = <<c, Len(received'[c]) + InSlot(c)' + n>>
  <2>1. n \in 1 .. Len(out[c]) - 1 /\ n + 1 \in 1 .. Len(out[c]) /\ n \in Nat
    BY <1>1
  <2>2. out'[c][n] = out[c][n + 1]
    BY <1>1, <2>1
  <2>3. out[c][n + 1] = <<c, Len(received[c]) + 0 + (n + 1)>>
    BY <1>2, <2>1, Zenon DEF AccountedFor
  <2>4. \A r \in Nat : r + 0 + (n + 1) = (r + 1) + n
    BY <2>1
  <2>5. Len(received[c]) + 0 + (n + 1) = (Len(received[c]) + 1) + n
    BY <2>4, Zenon
  <2> QED
    BY <2>2, <2>3, <2>5, Zenon
<1> QED
  BY <1>3, <1>4 DEF AccountedFor

\* The steps of the server that move a message.
LEMMA ReceiveKeepsOrder ==
  ASSUME TypeInv, ServedInv, OrderInv, NEW c \in Clients, Receive(c)
  PROVE  OrderInv'
<1> USE DEF TypeInv, TypeOK
<1> DEFINE m == Head(out[c])
<1>1. /\ server = "recv" /\ m \in Messages /\ Iteration(m) /\ out[c] # <<>>
      /\ mode.api # "am" /\ ~am.complete /\ Served
      /\ out' = [out EXCEPT ![c] = Tail(@)]
      /\ UNCHANGED <<mode, conn_request, am, client, conn, sent>>
  BY IterationOfReceive DEF Receive, OrderInv, SlotInUse, ServedInv, clientVars
<1>2. c = conn_request
  BY <1>1, OnlyCurrent DEF Receive, Senders
<1>3. AccountedFor(c) /\ ~Holds(c)
  BY <1>1 DEF OrderInv, Accounted, Holds
<1>4. m = <<c, Len(received[c]) + 1>>
  <2>1. Len(out[c]) >= 1 /\ Len(out[c]) \in Nat /\ m = out[c][1]
    BY <1>1, TailFacts, SeqFacts
  <2>2. out[c][1] = <<c, Len(received[c]) + 0 + 1>>
    <3>1. InSlot(c) = 0 /\ 1 \in 1 .. Len(out[c])
      BY <1>3, <2>1 DEF InSlot
    <3> QED
      BY <1>3, <3>1, Zenon DEF AccountedFor
  <2> QED
    BY <2>1, <2>2, Lengths
<1>5. OneAtATime' /\ OthersFinished' /\ ReceivedInOrder'
  BY <1>1, <1>2, <1>4, IterationOrder
<1>6. /\ server' \in {"recv", "fin"} /\ am' = am
      /\ Len(received'[c]) = Len(received[c]) + 1
      /\ \A d \in Clients \ {c} : received'[d] = received[d]
  BY <1>1, <1>2, IterationCounts DEF Iteration
<1>7. SlotInUse' /\ \A d \in Clients : ~Holds(d) /\ ~Holds(d)'
  BY <1>1, <1>6 DEF SlotInUse, Holds
<1>8. AccountedFor(c)'
  <2>1. InSlot(c)' = 0
    BY <1>7 DEF InSlot
  <2>2. Len(received[c]) \in Nat /\ Len(received'[c]) + InSlot(c)' = Len(received[c]) + 1
    BY <1>6, <2>1, Lengths
  <2> QED
    BY <1>1, <1>3, <1>7, <2>2, Shifted
<1>9. Accounted'
  BY <1>1, <1>6, <1>7, <1>8, AccountKept DEF OrderInv, Accounted
<1> QED
  BY <1>5, <1>7, <1>9 DEF OrderInv

LEMMA DataCbKeepsOrder ==
  ASSUME TypeInv, OrderInv, NoEagerAm, NEW c \in Clients, AmDataCb(c)
  PROVE  OrderInv'
<1> USE DEF TypeInv, TypeOK
<1>1. /\ ~am.complete /\ server # "pull" /\ server # "down" /\ out[c] # <<>>
      /\ am' = [complete |-> TRUE, msg |-> Head(out[c])]
      /\ out' = [out EXCEPT ![c] = Tail(@)] /\ mode.api = "am"
      /\ UNCHANGED <<mode, server, conn_request, received, client, conn, sent>>
      /\ conn[c] = "accepted"
  BY SlotIsFree DEF AmDataCb, Senders, clientVars
<1>2. AccountedFor(c) /\ ~Holds(c)
  BY <1>1 DEF OrderInv, Accounted, Holds
<1>3. Head(out[c]) = <<c, Len(received[c]) + 1>>
  <2>1. Len(out[c]) >= 1 /\ Len(out[c]) \in Nat /\ Head(out[c]) = out[c][1]
    BY <1>1, TailFacts, SeqFacts
  <2>2. out[c][1] = <<c, Len(received[c]) + 0 + 1>>
    <3>1. InSlot(c) = 0 /\ 1 \in 1 .. Len(out[c])
      BY <1>2, <2>1 DEF InSlot
    <3> QED
      BY <1>2, <3>1, Zenon DEF AccountedFor
  <2> QED
    BY <2>1, <2>2, Lengths
<1>4. /\ am'.complete /\ am'.msg = <<c, Len(received[c]) + 1>> /\ am'.msg[1] = c
  BY <1>1, <1>3
<1>5. Holds(c)' /\ \A d \in Clients \ {c} : ~Holds(d) /\ ~Holds(d)'
  BY <1>1, <1>4 DEF Holds
<1>6. AccountedFor(c)'
  <2>1. InSlot(c)' = 1 /\ received'[c] = received[c] /\ sent'[c] = sent[c]
    BY <1>1, <1>5 DEF InSlot
  <2>2. Len(received[c]) \in Nat /\ Len(received'[c]) + InSlot(c)' = Len(received[c]) + 1
    BY <2>1, Lengths
  <2> QED
    BY <1>1, <1>2, <1>4, <2>1, <2>2, Shifted
<1>7. Accounted'
  BY <1>1, <1>5, <1>6, AccountKept DEF OrderInv, Accounted
<1>8. OneAtATime' /\ OthersFinished' /\ SlotInUse' /\ ReceivedInOrder'
  BY <1>1, <1>4 DEF OrderInv, OneAtATime, OthersFinished, SlotInUse, ReceivedInOrder
<1> QED
  BY <1>7, <1>8 DEF OrderInv

LEMMA PulledKeepsOrder ==
  ASSUME TypeInv, ServedInv, OrderInv, Pulled
  PROVE  OrderInv'
<1> USE DEF TypeInv, TypeOK
<1>1. /\ server = "pull" /\ am.msg \in Messages /\ Iteration(am.msg) /\ Served
      /\ UNCHANGED <<mode, conn_request, am, client, conn, sent, out>>
  BY DEF Pulled, ServedInv, clientVars
<1>2. PICK c \in Clients : c = conn_request
  BY <1>1, SlotIsCurrent
<1>3. /\ c = conn_request /\ Holds(c) /\ am.msg = <<c, Len(received[c]) + 1>>
      /\ am.msg[1] = c
  BY <1>1, <1>2, SlotIsCurrent
<1>4. AccountedFor(c) /\ ~am.complete
  BY <1>1, <1>3 DEF OrderInv, Accounted, SlotInUse
<1>5. OneAtATime' /\ OthersFinished' /\ ReceivedInOrder'
  BY <1>1, <1>3, IterationOrder
<1>6. /\ server' \in {"recv", "fin"} /\ am' = am
      /\ Len(received'[c]) = Len(received[c]) + 1
      /\ \A d \in Clients \ {c} : received'[d] = received[d]
  BY <1>1, <1>3, IterationCounts DEF Iteration
<1>7. /\ SlotInUse' /\ \A d \in Clients : ~Holds(d)'
      /\ \A d \in Clients \ {c} : ~Holds(d)
  BY <1>1, <1>3, <1>4, <1>6 DEF SlotInUse, Holds
<1>8. AccountedFor(c)'
  <2>1. InSlot(c) = 1 /\ InSlot(c)' = 0 /\ out'[c] = out[c] /\ sent'[c] = sent[c]
    BY <1>1, <1>3, <1>7 DEF InSlot
  <2>2. Len(received[c]) \in Nat /\ Len(received[c]) + 1 = (Len(received[c]) + 1) + 0
    BY <1>3, Lengths
  <2>3. Len(received[c]) + InSlot(c) = Len(received'[c]) + InSlot(c)'
    BY <1>6, <2>1, <2>2, Zenon
  <2>4. sent'[c] = Len(received'[c]) + InSlot(c)' + Len(out'[c])
    BY <1>4, <2>1, <2>3, Zenon DEF AccountedFor
  <2>5. ASSUME NEW n \in 1 .. Len(out'[c])
        PROVE  out'[c][n] = <<c, Len(received'[c]) + InSlot(c)' + n>>
    BY <1>4, <2>1, <2>3, Zenon DEF AccountedFor
  <2>6. ~Holds(c)'
    BY <1>3, <1>7
  <2> QED
    BY <2>4, <2>5, <2>6, Zenon DEF AccountedFor
<1>9. Accounted'
  BY <1>1, <1>6, <1>7, <1>8, AccountKept DEF OrderInv, Accounted
<1> QED
  BY <1>5, <1>7, <1>9 DEF OrderInv

\* The steps of the server that move none.
LEMMA OtherStepsKeepOrder ==
  ASSUME TypeInv, ServedInv, OrderInv, NoEagerAm,
         \/ \E c \in Clients : ConnHandle(c)
         \/ Accept \/ AmTake \/ SendFin \/ FinSent \/ ErrCb \/ NextClient
         \/ AcceptFails \/ ReceiveFails \/ PullFails \/ FinSendFails
  PROVE  OrderInv'
<1> USE DEF TypeInv, TypeOK, OrderInv, clientVars
<1>1. ASSUME NEW c \in Clients, ConnHandle(c) PROVE OrderInv'
  <2>1. /\ UNCHANGED <<mode, server, am, client, sent, out, received>>
        /\ server = "listen" /\ conn[c] = "pending"
        /\ \A d \in Clients : conn'[d] = "accepted" <=> conn[d] = "accepted"
    BY <1>1 DEF ConnHandle
  <2>2. OneAtATime' /\ ReceivedInOrder' /\ OthersFinished'
    BY <2>1 DEF OneAtATime, ReceivedInOrder, OthersFinished
  <2>3. SlotInUse'
    BY <2>1 DEF SlotInUse, Messages
  <2>4. Accounted'
    BY <2>1, AccountKept DEF Accounted, Holds
  <2> QED
    BY <2>2, <2>3, <2>4
<1>2. CASE Accept
  <2>1. /\ UNCHANGED <<mode, conn_request, am, client, sent, out, received>>
        /\ server = "listen" /\ server' = "recv" /\ conn_request \in Clients
        /\ conn' = [conn EXCEPT ![conn_request] = "accepted"]
    BY <1>2 DEF Accept
  <2>2. OneAtATime' /\ ReceivedInOrder' /\ OthersFinished'
    BY <2>1 DEF OneAtATime, ReceivedInOrder, OthersFinished
  <2>3. SlotInUse'
    BY <2>1 DEF SlotInUse, Messages
  <2>4. Accounted'
    BY <2>1, AccountKept DEF Accounted, Holds
  <2> QED
    BY <2>2, <2>3, <2>4
<1>3. CASE AmTake
  <2>1. mode.rndv
    BY <1>3 DEF AmTake, NoEagerAm
  <2>2. /\ UNCHANGED <<mode, conn_request, client, conn, sent, out, received>>
        /\ am.complete /\ am' = [am EXCEPT !.complete = FALSE]
        /\ am'.msg = am.msg /\ ~am'.complete /\ server = "recv" /\ server' = "pull"
    BY <1>3, <2>1 DEF AmTake
  <2>3. OneAtATime' /\ ReceivedInOrder' /\ OthersFinished'
    BY <2>2 DEF OneAtATime, ReceivedInOrder, OthersFinished
  <2>4. SlotInUse'
    BY <2>2 DEF SlotInUse
  <2>5. ASSUME NEW c \in Clients PROVE AccountedFor(c)'
    <3>1. (Holds(c)' <=> Holds(c)) /\ InSlot(c)' = InSlot(c)
      BY <2>2 DEF Holds, InSlot
    <3>2. /\ sent'[c] = sent[c] /\ out'[c] = out[c] /\ received'[c] = received[c]
          /\ am'.msg = am.msg /\ AccountedFor(c)
      BY <2>2 DEF Accounted
    <3> QED
      BY <3>1, <3>2, Zenon DEF AccountedFor
  <2> QED
    BY <2>3, <2>4, <2>5 DEF Accounted
<1>4. CASE SendFin \/ FinSent \/ ErrCb
  <2>1. /\ UNCHANGED <<mode, conn_request, am, client, conn, sent, out, received>>
        /\ (server' # "pull" /\ server # "pull") \/ server' = server
        /\ server # "down" /\ server' # "listen"
    BY <1>4 DEF SendFin, FinSent, ErrCb, Progressing
  <2>2. OneAtATime' /\ ReceivedInOrder' /\ OthersFinished' /\ SlotInUse'
    BY <2>1 DEF OneAtATime, ReceivedInOrder, OthersFinished, SlotInUse
  <2>3. Accounted'
    BY <2>1, AccountKept DEF Accounted, Holds
  <2> QED
    BY <2>2, <2>3
<1>5. CASE NextClient
  <2>1. /\ UNCHANGED <<mode, am, client, conn, sent, out, received>>
        /\ server = "close" /\ server' = "listen"
    BY <1>5 DEF NextClient
  <2>2. OneAtATime' /\ ReceivedInOrder' /\ SlotInUse'
    BY <2>1 DEF OneAtATime, ReceivedInOrder, SlotInUse
  <2>3. OthersFinished'
    BY <2>1 DEF OthersFinished, ServedInv, Served
  <2>4. Accounted'
    BY <2>1, AccountKept DEF Accounted, Holds
  <2> QED
    BY <2>2, <2>3, <2>4
<1>6. CASE AcceptFails \/ ReceiveFails \/ PullFails \/ FinSendFails
  <2>1. /\ UNCHANGED <<mode, conn_request, am, client, conn, sent, received>>
        /\ server' = "down"
    BY <1>6 DEF AcceptFails, ReceiveFails, PullFails, FinSendFails, Down
  <2> QED
    BY <2>1 DEF OneAtATime, ReceivedInOrder, OthersFinished, SlotInUse
<1> QED
  BY <1>1, <1>2, <1>3, <1>4, <1>5, <1>6

LEMMA OrderInvariant ==
  ASSUME NoEagerAm
  PROVE  Spec => []OrderInv
<1>1. Init => OrderInv
  <2> SUFFICES ASSUME Init PROVE OrderInv
    OBVIOUS
  <2>1. Len(<<>>) = 0
    BY EmptySeq
  <2>2. \A c \in Clients : ~Holds(c) /\ InSlot(c) = 0
    BY DEF Init, Holds, InSlot
  <2>3. Accounted
    <3> SUFFICES ASSUME NEW c \in Clients PROVE AccountedFor(c)
      BY DEF Accounted
    <3>1. sent[c] = 0 /\ Len(received[c]) = 0 /\ Len(out[c]) = 0
      BY <2>1 DEF Init
    <3> QED
      BY <2>2, <3>1 DEF AccountedFor
  <2> QED
    BY <2>1, <2>3 DEF Init, OrderInv, OneAtATime, OthersFinished, SlotInUse,
                      ReceivedInOrder
<1>2. TypeInv /\ ServedInv /\ OrderInv /\ [Next]_vars => OrderInv'
  <2> SUFFICES ASSUME TypeInv, ServedInv, OrderInv, [Next]_vars PROVE OrderInv'
    OBVIOUS
  <2>1. CASE UNCHANGED vars
    <3>1. UNCHANGED <<mode, server, conn_request, am, client, conn, sent, out, received>>
      BY <2>1 DEF vars, serverVars, clientVars
    <3>2. server' # "down" => Accounted'
      BY <3>1, AccountKept DEF OrderInv, Accounted, Holds
    <3> QED
      BY <3>1, <3>2 DEF OrderInv, OneAtATime, OthersFinished, SlotInUse, ReceivedInOrder
  <2>2. CASE \E c \in Clients : Client(c) \/ Die(c)
    BY <2>2, ClientKeepsOrder
  <2>3. CASE Server
    BY <2>3, ReceiveKeepsOrder, DataCbKeepsOrder, PulledKeepsOrder,
       OtherStepsKeepOrder DEF Server
  <2> QED
    BY <2>1, <2>2, <2>3 DEF Next
<1> QED
  BY <1>1, <1>2, TypeInvariant, ServedInvariant, PTL DEF Spec

\* Unless small active messages are in play, no message is lost, replaced in
\* am_data_desc, or taken for one of another client.
THEOREM MessagesAreInOrder ==
  ASSUME NoEagerAm
  PROVE  Spec => []ReceivedInOrder
<1>1. OrderInv => ReceivedInOrder
  BY DEF OrderInv
<1> QED
  BY <1>1, OrderInvariant, PTL

\* And the next client finds the server as the first did.
THEOREM NothingIsLeftOver ==
  ASSUME NoEagerAm
  PROVE  Spec => []NothingLeftOver
<1>1. TypeInv /\ OrderInv => NothingLeftOver
  <2> SUFFICES ASSUME TypeInv, OrderInv, server = "listen" PROVE NothingLeftOver
    BY DEF NothingLeftOver
  <2>1. ~am.complete
    BY SlotIsCurrent
  <2>2. \A c \in Clients : conn[c] = "accepted" => out[c] = <<>>
    BY OnlyCurrent
  <2> QED
    BY <2>1, <2>2 DEF NothingLeftOver
<1> QED
  BY <1>1, TypeInvariant, OrderInvariant, PTL
=============================================================================
