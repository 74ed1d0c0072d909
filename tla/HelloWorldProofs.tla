-------------------------- MODULE HelloWorldProofs --------------------------
(* Theorems about HelloWorld, for every way in which sends and receives may *)
(* fail: the types, the barrier, the content of the chunks, the messages in  *)
(* flight, and the allreduce that it implements.                             *)
EXTENDS HelloWorld, SequenceTheorems, TLAPS

Pcs == BothPcs \cup ClientPcs \cup ServerPcs

\* Where a side is before its end and after its start.
Middle == Pcs \ {"over", "connect", "listen"}

\* What a side knows when it is over: it has succeeded only if the other has
\* sent the int of the barrier, which it does when it has closed its endpoint.
Inv ==
  /\ at \in [Sides -> Pcs] /\ ret \in [Sides -> Int] /\ token \in [Sides -> BOOLEAN]
  /\ mode = "none" =>
       \A s \in Sides :
         /\ token[s] => at[s] \in {"barrier", "over"}
         /\ at[s] = "over" /\ ret[s] = 0 => token[Peer(s)]
         /\ at[s] \in {"connect", "listen"} => ret[s] = -1

LEMMA PeerFacts == \A s \in Sides : Peer(s) \in Sides /\ Peer(s) # s /\ Peer(Peer(s)) = s
  BY DEF Sides, Peer

LEMMA InitInv == Init => Inv
  BY DEF Init, Inv, Sides, Pcs, BothPcs, ClientPcs, ServerPcs

\* Most steps of a side leave it short of its end, and the barrier alone.
Early(s) ==
  /\ at[s] \notin {"barrier", "over"} /\ at'[s] \notin {"over", "connect", "listen"}
  /\ at' \in [Sides -> Pcs] /\ ret' \in [Sides -> Int]
  /\ \A q \in Sides \ {s} : at'[q] = at[q] /\ ret'[q] = ret[q]
  /\ UNCHANGED <<mode, token>>

LEMMA EarlyKept == ASSUME Inv, NEW s \in Sides, Early(s) PROVE Inv'
<1>1. at' \in [Sides -> Pcs] /\ ret' \in [Sides -> Int] /\ token' \in [Sides -> BOOLEAN]
  BY DEF Early, Inv
<1>2. ASSUME mode = "none", NEW q \in Sides
      PROVE  /\ token'[q] => at'[q] \in {"barrier", "over"}
             /\ at'[q] = "over" /\ ret'[q] = 0 => token'[Peer(q)]
             /\ at'[q] \in {"connect", "listen"} => ret'[q] = -1
  <2>1. CASE q = s
    BY <1>2, <2>1 DEF Early, Inv
  <2>2. CASE q # s
    BY <1>2, <2>2 DEF Early, Inv
  <2> QED
    BY <2>1, <2>2
<1> QED
  BY <1>1, <1>2 DEF Early, Inv

LEMMA GoFacts ==
  ASSUME Inv, NEW s \in Sides, NEW pc \in Pcs, Go(s, pc)
  PROVE  /\ at' \in [Sides -> Pcs] /\ at'[s] = pc
         /\ \A q \in Sides \ {s} : at'[q] = at[q]
  BY DEF Inv, Go

LEMMA RetFacts ==
  ASSUME Inv, NEW s \in Sides, NEW n \in Int, ret' = [ret EXCEPT ![s] = n] \/ ret' = ret
  PROVE  ret' \in [Sides -> Int] /\ \A q \in Sides \ {s} : ret'[q] = ret[q]
  BY DEF Inv

\* A step goes to one of its two successors and sets what main would return.
LEMMA StepIsEarly ==
  ASSUME Inv, NEW s \in Sides, at[s] \notin {"barrier", "over"},
         NEW ok \in Middle,
         NEW bad \in Middle, Go(s, ok) \/ Go(s, bad),
         \/ ret' = ret \/ ret' = [ret EXCEPT ![s] = -1] \/ ret' = [ret EXCEPT ![s] = 0],
         UNCHANGED <<mode, token>>
  PROVE  Early(s)
<1>1. PICK pc \in {ok, bad} : Go(s, pc)
  OBVIOUS
<1>2. pc \in Pcs
  BY DEF Middle
<1>3. at' \in [Sides -> Pcs] /\ at'[s] = pc /\ \A q \in Sides \ {s} : at'[q] = at[q]
  BY <1>1, <1>2, GoFacts
<1>4. ret' \in [Sides -> Int] /\ \A q \in Sides \ {s} : ret'[q] = ret[q]
  BY RetFacts
<1> QED
  BY <1>3, <1>4 DEF Early, Middle

LEMMA SendGoes ==
  ASSUME NEW s, NEW tag, NEW content, NEW ok, NEW bad, SendBlock(s, tag, content, ok, bad)
  PROVE  Go(s, ok) \/ Go(s, bad)
<1>1. PICK result \in SendResults : Go(s, IF result = "error" THEN bad ELSE ok)
  BY DEF SendBlock
<1>2. CASE result = "error"
  BY <1>1, <1>2
<1>3. CASE result # "error"
  BY <1>1, <1>3
<1> QED
  BY <1>2, <1>3

\* The steps by which a side's exchange goes on.
LEMMA ExchangeIsEarly ==
  ASSUME Inv, NEW s \in Sides,
         \/ MakeEp(s) \/ SendOwn(s) \/ Reduce(s) \/ Forward(s) \/ RecvSum(s) \/ Close(s)
         \/ s = "client" /\ (OobRecv \/ SendAddr \/ RecvString)
         \/ s = "server" /\ (Listen \/ Accept \/ RecvAddr \/ SendString \/ WaitFailure \/ Flush)
  PROVE  Early(s)
<1>1. CASE MakeEp(s)
  <2> DEFINE ok == IF s = "client" THEN "sendAddr" ELSE "sendString"
             bad == "sync"
  <2>1. at[s] \notin {"barrier", "over"} /\ UNCHANGED <<mode, token>>
    BY <1>1 DEF MakeEp
  <2>2. Go(s, ok) \/ Go(s, bad)
    BY <1>1 DEF MakeEp
  <2>3. ret' = ret \/ ret' = [ret EXCEPT ![s] = -1] \/ ret' = [ret EXCEPT ![s] = 0]
    BY <1>1 DEF MakeEp
  <2>4. ok \in Middle /\ bad \in Middle
    BY DEF Middle, Pcs, BothPcs, ClientPcs, ServerPcs
  <2> HIDE DEF ok, bad
  <2> QED
    BY <2>1, <2>2, <2>3, <2>4, StepIsEarly
<1>2. CASE SendOwn(s)
  <2> DEFINE ok == "reduce"
             bad == "reduce"
  <2>1. at[s] \notin {"barrier", "over"} /\ UNCHANGED <<mode, token>>
    BY <1>2 DEF SendOwn
  <2>2. Go(s, ok) \/ Go(s, bad)
    <3>1. SendBlock(s, Own(s), chunk[s][Own(s)], ok, bad)
      BY <1>2 DEF SendOwn
    <3> QED
      BY <3>1, SendGoes
  <2>3. ret' = ret \/ ret' = [ret EXCEPT ![s] = -1] \/ ret' = [ret EXCEPT ![s] = 0]
    BY <1>2 DEF SendOwn
  <2>4. ok \in Middle /\ bad \in Middle
    BY DEF Middle, Pcs, BothPcs, ClientPcs, ServerPcs
  <2> HIDE DEF ok, bad
  <2> QED
    BY <2>1, <2>2, <2>3, <2>4, StepIsEarly
<1>3. CASE Reduce(s)
  <2> DEFINE ok == "forward"
             bad == "recvSum"
  <2>1. at[s] \notin {"barrier", "over"} /\ UNCHANGED <<mode, token>>
    BY <1>3 DEF Reduce, ReceiveFails
  <2>2. Go(s, ok) \/ Go(s, bad)
    BY <1>3 DEF Reduce, ReceiveFails
  <2>3. ret' = ret \/ ret' = [ret EXCEPT ![s] = -1] \/ ret' = [ret EXCEPT ![s] = 0]
    BY <1>3 DEF Reduce, ReceiveFails
  <2>4. ok \in Middle /\ bad \in Middle
    BY DEF Middle, Pcs, BothPcs, ClientPcs, ServerPcs
  <2> HIDE DEF ok, bad
  <2> QED
    BY <2>1, <2>2, <2>3, <2>4, StepIsEarly
<1>4. CASE Forward(s)
  <2> DEFINE ok == "recvSum"
             bad == "recvSum"
  <2>1. at[s] \notin {"barrier", "over"} /\ UNCHANGED <<mode, token>>
    BY <1>4 DEF Forward
  <2>2. Go(s, ok) \/ Go(s, bad)
    <3>1. SendBlock(s, Other(s), chunk[s][Other(s)], ok, bad)
      BY <1>4 DEF Forward
    <3> QED
      BY <3>1, SendGoes
  <2>3. ret' = ret \/ ret' = [ret EXCEPT ![s] = -1] \/ ret' = [ret EXCEPT ![s] = 0]
    BY <1>4 DEF Forward
  <2>4. ok \in Middle /\ bad \in Middle
    BY DEF Middle, Pcs, BothPcs, ClientPcs, ServerPcs
  <2> HIDE DEF ok, bad
  <2> QED
    BY <2>1, <2>2, <2>3, <2>4, StepIsEarly
<1>5. CASE RecvSum(s)
  <2> DEFINE ok == IF s = "client" THEN "close" ELSE "flush"
             bad == ok
  <2>1. at[s] \notin {"barrier", "over"} /\ UNCHANGED <<mode, token>>
    BY <1>5 DEF RecvSum, ReceiveFails
  <2>2. Go(s, ok) \/ Go(s, bad)
    BY <1>5 DEF RecvSum, ReceiveFails
  <2>3. ret' = ret \/ ret' = [ret EXCEPT ![s] = -1] \/ ret' = [ret EXCEPT ![s] = 0]
    BY <1>5 DEF RecvSum, ReceiveFails
  <2>4. ok \in Middle /\ bad \in Middle
    BY DEF Middle, Pcs, BothPcs, ClientPcs, ServerPcs
  <2> HIDE DEF ok, bad
  <2> QED
    BY <2>1, <2>2, <2>3, <2>4, StepIsEarly
<1>6. CASE Close(s)
  <2> DEFINE ok == "sync"
             bad == "sync"
  <2>1. at[s] \notin {"barrier", "over"} /\ UNCHANGED <<mode, token>>
    BY <1>6 DEF Close
  <2>2. Go(s, ok) \/ Go(s, bad)
    BY <1>6 DEF Close
  <2>3. ret' = ret \/ ret' = [ret EXCEPT ![s] = -1] \/ ret' = [ret EXCEPT ![s] = 0]
    BY <1>6 DEF Close
  <2>4. ok \in Middle /\ bad \in Middle
    BY DEF Middle, Pcs, BothPcs, ClientPcs, ServerPcs
  <2> HIDE DEF ok, bad
  <2> QED
    BY <2>1, <2>2, <2>3, <2>4, StepIsEarly
<1>7. CASE s = "client" /\ OobRecv
  <2> DEFINE ok == "makeEp"
             bad == "makeEp"
  <2>1. at[s] \notin {"barrier", "over"} /\ UNCHANGED <<mode, token>>
    BY <1>7 DEF OobRecv
  <2>2. Go(s, ok) \/ Go(s, bad)
    BY <1>7 DEF OobRecv
  <2>3. ret' = ret \/ ret' = [ret EXCEPT ![s] = -1] \/ ret' = [ret EXCEPT ![s] = 0]
    BY <1>7 DEF OobRecv
  <2>4. ok \in Middle /\ bad \in Middle
    BY DEF Middle, Pcs, BothPcs, ClientPcs, ServerPcs
  <2> HIDE DEF ok, bad
  <2> QED
    BY <2>1, <2>2, <2>3, <2>4, StepIsEarly
<1>8. CASE s = "client" /\ SendAddr
  <2> DEFINE ok == "recvString"
             bad == "close"
  <2>1. at[s] \notin {"barrier", "over"} /\ UNCHANGED <<mode, token>>
    BY <1>8 DEF SendAddr
  <2>2. Go(s, ok) \/ Go(s, bad)
    <3>1. SendBlock(s, Tag, Text, ok, bad)
      BY <1>8 DEF SendAddr
    <3> QED
      BY <3>1, SendGoes
  <2>3. ret' = ret \/ ret' = [ret EXCEPT ![s] = -1] \/ ret' = [ret EXCEPT ![s] = 0]
    BY <1>8 DEF SendAddr
  <2>4. ok \in Middle /\ bad \in Middle
    BY DEF Middle, Pcs, BothPcs, ClientPcs, ServerPcs
  <2> HIDE DEF ok, bad
  <2> QED
    BY <2>1, <2>2, <2>3, <2>4, StepIsEarly
<1>9. CASE s = "client" /\ RecvString
  <2> DEFINE ok == "sendOwn"
             bad == "close"
  <2>1. at[s] \notin {"barrier", "over"} /\ UNCHANGED <<mode, token>>
    BY <1>9 DEF RecvString, ReceiveFails
  <2>2. Go(s, ok) \/ Go(s, bad)
    BY <1>9 DEF RecvString, ReceiveFails
  <2>3. ret' = ret \/ ret' = [ret EXCEPT ![s] = -1] \/ ret' = [ret EXCEPT ![s] = 0]
    BY <1>9 DEF RecvString, ReceiveFails
  <2>4. ok \in Middle /\ bad \in Middle
    BY DEF Middle, Pcs, BothPcs, ClientPcs, ServerPcs
  <2> HIDE DEF ok, bad
  <2> QED
    BY <2>1, <2>2, <2>3, <2>4, StepIsEarly
<1>10. CASE s = "server" /\ Listen
  <2> DEFINE ok == "accept"
             bad == "accept"
  <2>1. at[s] \notin {"barrier", "over"} /\ UNCHANGED <<mode, token>>
    BY <1>10 DEF Listen
  <2>2. Go(s, ok) \/ Go(s, bad)
    BY <1>10 DEF Listen
  <2>3. ret' = ret \/ ret' = [ret EXCEPT ![s] = -1] \/ ret' = [ret EXCEPT ![s] = 0]
    BY <1>10 DEF Listen
  <2>4. ok \in Middle /\ bad \in Middle
    BY DEF Middle, Pcs, BothPcs, ClientPcs, ServerPcs
  <2> HIDE DEF ok, bad
  <2> QED
    BY <2>1, <2>2, <2>3, <2>4, StepIsEarly
<1>11. CASE s = "server" /\ Accept
  <2> DEFINE ok == "recvAddr"
             bad == "recvAddr"
  <2>1. at[s] \notin {"barrier", "over"} /\ UNCHANGED <<mode, token>>
    BY <1>11 DEF Accept
  <2>2. Go(s, ok) \/ Go(s, bad)
    BY <1>11 DEF Accept
  <2>3. ret' = ret \/ ret' = [ret EXCEPT ![s] = -1] \/ ret' = [ret EXCEPT ![s] = 0]
    BY <1>11 DEF Accept
  <2>4. ok \in Middle /\ bad \in Middle
    BY DEF Middle, Pcs, BothPcs, ClientPcs, ServerPcs
  <2> HIDE DEF ok, bad
  <2> QED
    BY <2>1, <2>2, <2>3, <2>4, StepIsEarly
<1>12. CASE s = "server" /\ RecvAddr
  <2> DEFINE ok == "makeEp"
             bad == "sync"
  <2>1. at[s] \notin {"barrier", "over"} /\ UNCHANGED <<mode, token>>
    BY <1>12 DEF RecvAddr, ReceiveFails
  <2>2. Go(s, ok) \/ Go(s, bad)
    BY <1>12 DEF RecvAddr, ReceiveFails
  <2>3. ret' = ret \/ ret' = [ret EXCEPT ![s] = -1] \/ ret' = [ret EXCEPT ![s] = 0]
    BY <1>12 DEF RecvAddr, ReceiveFails
  <2>4. ok \in Middle /\ bad \in Middle
    BY DEF Middle, Pcs, BothPcs, ClientPcs, ServerPcs
  <2> HIDE DEF ok, bad
  <2> QED
    BY <2>1, <2>2, <2>3, <2>4, StepIsEarly
<1>13. CASE s = "server" /\ SendString
  <2> DEFINE ok == IF mode = "keepalive" THEN "waitClient" ELSE "sendOwn"
             bad == IF ErrModePeer THEN "close" ELSE "waitFailure"
  <2>1. at[s] \notin {"barrier", "over"} /\ UNCHANGED <<mode, token>>
    BY <1>13 DEF SendString
  <2>2. Go(s, ok) \/ Go(s, bad)
    <3>1. SendBlock(s, Tag, Text, ok, bad)
      BY <1>13 DEF SendString
    <3> QED
      BY <3>1, SendGoes
  <2>3. ret' = ret \/ ret' = [ret EXCEPT ![s] = -1] \/ ret' = [ret EXCEPT ![s] = 0]
    BY <1>13 DEF SendString
  <2>4. ok \in Middle /\ bad \in Middle
    BY DEF Middle, Pcs, BothPcs, ClientPcs, ServerPcs
  <2> HIDE DEF ok, bad
  <2> QED
    BY <2>1, <2>2, <2>3, <2>4, StepIsEarly
<1>14. CASE s = "server" /\ WaitFailure
  <2> DEFINE ok == "sendOwn"
             bad == "close"
  <2>1. at[s] \notin {"barrier", "over"} /\ UNCHANGED <<mode, token>>
    BY <1>14 DEF WaitFailure
  <2>2. Go(s, ok) \/ Go(s, bad)
    BY <1>14 DEF WaitFailure
  <2>3. ret' = ret \/ ret' = [ret EXCEPT ![s] = -1] \/ ret' = [ret EXCEPT ![s] = 0]
    BY <1>14 DEF WaitFailure
  <2>4. ok \in Middle /\ bad \in Middle
    BY DEF Middle, Pcs, BothPcs, ClientPcs, ServerPcs
  <2> HIDE DEF ok, bad
  <2> QED
    BY <2>1, <2>2, <2>3, <2>4, StepIsEarly
<1>15. CASE s = "server" /\ Flush
  <2> DEFINE ok == "close"
             bad == "close"
  <2>1. at[s] \notin {"barrier", "over"} /\ UNCHANGED <<mode, token>>
    BY <1>15 DEF Flush
  <2>2. Go(s, ok) \/ Go(s, bad)
    BY <1>15 DEF Flush
  <2>3. ret' = ret \/ ret' = [ret EXCEPT ![s] = -1] \/ ret' = [ret EXCEPT ![s] = 0]
    BY <1>15 DEF Flush
  <2>4. ok \in Middle /\ bad \in Middle
    BY DEF Middle, Pcs, BothPcs, ClientPcs, ServerPcs
  <2> HIDE DEF ok, bad
  <2> QED
    BY <2>1, <2>2, <2>3, <2>4, StepIsEarly
<1> QED
  BY <1>1, <1>2, <1>3, <1>4, <1>5, <1>6, <1>7, <1>8, <1>9, <1>10, <1>11, <1>12, <1>13, <1>14, <1>15

\* A client that finds no server ends without success.
LEMMA ConnectKept == ASSUME Inv, Connect PROVE Inv'
<1>1. PICK pc \in {"oob", "over"} : at' = [at EXCEPT !["client"] = pc]
  BY DEF Connect, Go
<1>2. at["client"] = "connect" /\ UNCHANGED <<mode, ret, token>>
  BY DEF Connect
<1>3. at' \in [Sides -> Pcs]
  BY <1>1 DEF Inv, Pcs, BothPcs, ClientPcs
<1>4. ASSUME mode = "none", NEW q \in Sides
      PROVE  /\ token'[q] => at'[q] \in {"barrier", "over"}
             /\ at'[q] = "over" /\ ret'[q] = 0 => token'[Peer(q)]
             /\ at'[q] \in {"connect", "listen"} => ret'[q] = -1
  <2>1. CASE q = "client"
    BY <1>1, <1>2, <1>4, <2>1 DEF Inv
  <2>2. CASE q # "client"
    BY <1>1, <1>2, <1>4, <2>2 DEF Inv
  <2> QED
    BY <2>1, <2>2
<1> QED
  BY <1>2, <1>3, <1>4 DEF Inv

\* A side sends its int when it comes to the barrier; one that does not come
\* there has failed.
LEMMA SyncKept == ASSUME Inv, NEW s \in Sides, Sync(s) PROVE Inv'
<1>1. /\ at[s] = "sync" /\ UNCHANGED <<mode, ret>>
      /\ \/ /\ ret[s] = 0 /\ at' = [at EXCEPT ![s] = "barrier"]
            /\ token' = [token EXCEPT ![s] = TRUE]
         \/ /\ ret[s] # 0 \/ mode # "none"
            /\ at' = [at EXCEPT ![s] = "over"] /\ token' = [token EXCEPT ![s] = FALSE]
  BY DEF Sync, Go, ErrModePeer
<1>2. at' \in [Sides -> Pcs] /\ ret' \in [Sides -> Int] /\ token' \in [Sides -> BOOLEAN]
  BY <1>1 DEF Inv, Pcs, BothPcs
<1>3. ASSUME mode = "none", NEW q \in Sides
      PROVE  /\ token'[q] => at'[q] \in {"barrier", "over"}
             /\ at'[q] = "over" /\ ret'[q] = 0 => token'[Peer(q)]
             /\ at'[q] \in {"connect", "listen"} => ret'[q] = -1
  <2>1. CASE q = s
    BY <1>1, <1>3, <2>1 DEF Inv
  <2>2. CASE q # s
    <3>1. /\ at'[q] = at[q] /\ ret'[q] = ret[q] /\ token'[q] = token[q] /\ Peer(q) = s
      BY <1>1, <2>2 DEF Inv, Sides, Peer
    <3>2. ~token[s]
      BY <1>1, <1>3 DEF Inv
    <3> QED
      BY <1>3, <3>1, <3>2 DEF Inv
  <2> QED
    BY <2>1, <2>2
<1> QED
  BY <1>1, <1>2, <1>3 DEF Inv

\* A side leaves the barrier with success only if it has had the other's int.
LEMMA BarrierKept == ASSUME Inv, NEW s \in Sides, Barrier(s) PROVE Inv'
<1>1. /\ at[s] = "barrier" /\ at' = [at EXCEPT ![s] = "over"]
      /\ UNCHANGED <<mode, token>>
  BY DEF Barrier, Go
<1>2. PICK n \in {0, 1} : ret' = [ret EXCEPT ![s] = n] /\ (n = 0 => token[Peer(s)])
  <2>1. CASE token[Peer(s)]
    BY <2>1 DEF Barrier
  <2>2. CASE ~token[Peer(s)]
    <3>1. ret' = [ret EXCEPT ![s] = 1]
      BY <2>2 DEF Barrier
    <3> QED
      BY <3>1, <2>2
  <2> QED
    BY <2>1, <2>2
<1>3. at' \in [Sides -> Pcs] /\ ret' \in [Sides -> Int] /\ token' \in [Sides -> BOOLEAN]
  BY <1>1, <1>2 DEF Inv, Pcs, BothPcs
<1>4. ASSUME mode = "none", NEW q \in Sides
      PROVE  /\ token'[q] => at'[q] \in {"barrier", "over"}
             /\ at'[q] = "over" /\ ret'[q] = 0 => token'[Peer(q)]
             /\ at'[q] \in {"connect", "listen"} => ret'[q] = -1
  <2>1. CASE q = s
    BY <1>1, <1>2, <1>4, <2>1 DEF Inv
  <2>2. CASE q # s
    BY <1>1, <1>2, <1>4, <2>2 DEF Inv
  <2> QED
    BY <2>1, <2>2
<1> QED
  BY <1>1, <1>3, <1>4 DEF Inv

LEMMA NextInv == ASSUME Inv, [Next]_vars PROVE Inv'
<1>1. CASE UNCHANGED <<mode, at, ret, token>>
  BY <1>1 DEF Inv
<1>2. ASSUME NEW s \in Sides, Deliver(s) \/ PeerFailure(s) PROVE Inv'
  BY <1>1, <1>2 DEF Deliver, PeerFailure, data
<1>3. CASE KillClient \/ Ended \/ UNCHANGED vars
  BY <1>1, <1>3 DEF KillClient, Ended, vars, data
<1>4. ASSUME NEW s \in Sides, Both(s) PROVE Inv'
  BY <1>2, <1>4, ExchangeIsEarly, EarlyKept, SyncKept, BarrierKept DEF Both
<1>5. CASE Client
  BY <1>4, <1>5, ConnectKept, ExchangeIsEarly, EarlyKept DEF Client, Sides
<1>6. CASE Server
  BY <1>4, <1>6, ExchangeIsEarly, EarlyKept DEF Server, Sides
<1> QED
  BY <1>3, <1>5, <1>6 DEF Next, Run

\* A side that returns success destroys its worker only after the other has
\* closed its endpoint to it (DisconnectedBeforeDestroyed).
THEOREM DisconnectedFirst == Spec => []DisconnectedBeforeDestroyed
<1>1. Inv => DisconnectedBeforeDestroyed
  BY PeerFacts DEF Inv, DisconnectedBeforeDestroyed
<1> QED
  BY <1>1, InitInv, NextInv, PTL DEF Spec

-----------------------------------------------------------------------------
(* The exchange. *)

Unit(s) == [p \in Sides |-> IF p = s THEN 1 ELSE 0]
Full    == [p \in Sides |-> 1]

\* Before a side sends its chunk, when the exchange is over for it, and from
\* when on it has sent the sum of the other's, if it could.
Before == {"connect", "listen", "oob", "accept", "makeEp", "sendAddr", "recvAddr",
           "sendString", "recvString", "waitClient", "waitFailure", "sendOwn"}
Final  == {"flush", "close", "sync", "barrier", "over"}
Late   == Final \cup {"recvSum"}

\* Before a side sends its address or string, and before it has the other's.
Unsent(s)  == IF s = "client" THEN {"connect", "oob", "makeEp", "sendAddr"}
              ELSE {"listen", "accept", "recvAddr", "makeEp", "sendString"}
Unheard(s) == IF s = "client" THEN {"connect", "oob", "makeEp", "sendAddr", "recvString"}
              ELSE {"listen", "accept", "recvAddr"}

\* The messages on their way to a side, no two of them with the same tag.
MessagesIn(q) == {q[k] : k \in DOMAIN q}
Coming(s)     == MessagesIn(inbox[s]) \cup MessagesIn(outbox[Peer(s)])

Distinct(q) == \A i, j \in DOMAIN q : q[i].tag = q[j].tag => i = j
TagsDistinct(s) ==
  /\ Distinct(inbox[s]) /\ Distinct(outbox[Peer(s)])
  /\ \A m \in MessagesIn(inbox[s]), n \in MessagesIn(outbox[Peer(s)]) : m.tag # n.tag

\* What a side's place says about its chunks and about what has been sent.
ChunksAre(s, own, other) == chunk[s][Own(s)] = own /\ chunk[s][Other(s)] = other

Progress(s) ==
  /\ at[s] \in Before => s \notin joined /\ ChunksAre(s, Unit(s), Unit(s))
  /\ at[s] \in Before => (failed[s] <=> at[s] = "waitFailure")
  /\ at[s] = "reduce" => ChunksAre(s, Unit(s), Unit(s)) /\ (failed[s] \/ s \in joined)
  /\ at[s] = "forward" => /\ ChunksAre(s, Unit(s), Full) /\ Peer(s) \in joined
                          /\ failed[s] \/ s \in joined
  /\ at[s] = "recvSum" => /\ chunk[s][Own(s)] = Unit(s)
                          /\ failed[s] \/ (ChunksAre(s, Unit(s), Full) /\ joined = Sides)
  /\ at[s] \in Final => failed[s] \/ /\ ChunksAre(s, Full, Full) /\ joined = Sides
                                     /\ at[Peer(s)] \in Late
  /\ at[s] \notin Unheard(s) => failed[s] \/ at[Peer(s)] \notin Unsent(Peer(s))

\* What a message says about its sender s.
SentBy(s, m) ==
  /\ m.tag = Tag => at[s] \notin Unsent(s)
  /\ m.tag = Own(s) => m.content = Unit(s) /\ s \in joined
  /\ m.tag = Other(s) => m.content = Full /\ at[s] \in Late

\* ... and about the side s that it goes to.
Expected(s, m) ==
  \/ failed[s]
  \/ m.tag = Tag /\ at[s] \in Unheard(s)
  \/ m.tag = Other(s) /\ at[s] \in Before \cup {"reduce"}
  \/ m.tag = Own(s) /\ at[s] \notin Final

ExchangeInv ==
  /\ TypeOK
  /\ \A s \in Sides :
       /\ Progress(s)
       /\ TagsDistinct(s)
       /\ \A m \in Coming(s) : SentBy(Peer(s), m) /\ Expected(s, m)

LEMMA SideFacts ==
  ASSUME NEW s \in Sides
  PROVE  /\ Peer(s) \in Sides /\ Peer(s) # s /\ Peer(Peer(s)) = s
         /\ \A q \in Sides : q = s \/ q = Peer(s)
         /\ Own(s) \in ChunkIds /\ Other(s) \in ChunkIds /\ Own(s) # Other(s)
         /\ Own(Peer(s)) = Other(s) /\ Other(Peer(s)) = Own(s)
         /\ \A c \in ChunkIds : c # Tag /\ (c = Own(s) \/ c = Other(s))
  BY DEF Sides, Peer, Own, Other, ChunkIds, Tag

LEMMA ContentFacts ==
  /\ Text \in Value /\ Full \in Value
  /\ \A s \in Sides : Unit(s) \in Value /\ Plus(Unit(s), Unit(Peer(s))) = Full
  /\ \A v, w \in Value : Plus(v, w) \in Value
<1>1. \A s \in Sides : Plus(Unit(s), Unit(Peer(s))) = Full
  BY DEF Plus, Unit, Full, Sides, Peer
<1>2. \A v, w \in Value : Plus(v, w) \in Value
  BY DEF Plus, Value
<1> QED
  BY <1>1, <1>2 DEF Text, Full, Unit, Value

\* Queues: a message is put at the end, one is taken out, the first one leaves.
LEMMA AppendFacts ==
  ASSUME NEW S, NEW q \in Seq(S), NEW m \in S
  PROVE  /\ Append(q, m) \in Seq(S)
         /\ MessagesIn(Append(q, m)) = MessagesIn(q) \cup {m}
         /\ Distinct(q) /\ (\A x \in MessagesIn(q) : x.tag # m.tag) => Distinct(Append(q, m))
<1> DEFINE n == Len(q)
           p == Append(q, m)
<1>1. /\ n \in Nat /\ DOMAIN q = 1 .. n /\ DOMAIN p = 1 .. n + 1
      /\ p[n + 1] = m /\ \A i \in 1 .. n : p[i] = q[i]
  OBVIOUS
<1>2. p \in Seq(S)
  OBVIOUS
<1> HIDE DEF n, p
<1>3. \A i : i \in 1 .. n + 1 <=> i \in 1 .. n \/ i = n + 1
  BY <1>1
<1>4. MessagesIn(p) = MessagesIn(q) \cup {m}
  BY <1>1, <1>3 DEF MessagesIn
<1>5. ASSUME Distinct(q), \A x \in MessagesIn(q) : x.tag # m.tag PROVE Distinct(p)
  BY <1>1, <1>3, <1>5 DEF MessagesIn, Distinct
<1> QED
  BY <1>2, <1>4, <1>5 DEF p

LEMMA RemoveFacts ==
  ASSUME NEW S, NEW q \in Seq(S), NEW k \in DOMAIN q
  PROVE  LET r == SubSeq(q, 1, k - 1) \o SubSeq(q, k + 1, Len(q)) IN
         /\ r \in Seq(S)
         /\ MessagesIn(r) \subseteq MessagesIn(q)
         /\ Distinct(q) => Distinct(r) /\ \A x \in MessagesIn(r) : x.tag # q[k].tag
<1> DEFINE n == Len(q)
           a == SubSeq(q, 1, k - 1)
           b == SubSeq(q, k + 1, n)
           r == a \o b
<1>1. n \in Nat /\ DOMAIN q = 1 .. n /\ k \in 1 .. n
  OBVIOUS
<1>2. /\ a \in Seq(S) /\ Len(a) = k - 1 /\ \A i \in 1 .. k - 1 : a[i] = q[i]
  BY <1>1
<1>3. /\ b \in Seq(S) /\ Len(b) = n - k /\ \A i \in 1 .. n - k : b[i] = q[i + k]
  BY <1>1
<1> HIDE DEF a, b, n
<1>4. r \in Seq(S) /\ DOMAIN r = 1 .. n - 1
  <2>1. a \o b \in Seq(S) /\ Len(a \o b) = Len(a) + Len(b)
    BY <1>2, <1>3, ConcatProperties
  <2> QED
    BY <1>1, <1>2, <1>3, <2>1
<1>5. \A i \in 1 .. n - 1 : r[i] = IF i < k THEN q[i] ELSE q[i + 1]
  <2> SUFFICES ASSUME NEW i \in 1 .. n - 1
               PROVE  r[i] = IF i < k THEN q[i] ELSE q[i + 1]
    OBVIOUS
  <2>1. CASE i < k
    <3>1. i \in 1 .. Len(a) /\ i \in 1 .. k - 1
      BY <1>1, <1>2, <2>1
    <3>2. r[i] = a[i]
      BY <1>2, <1>3, <3>1
    <3> QED
      BY <1>2, <2>1, <3>1, <3>2
  <2>2. CASE ~(i < k)
    <3>1. i - (k - 1) \in 1 .. n - k /\ i - (k - 1) + k = i + 1 /\ ~(i =< Len(a))
      BY <1>1, <1>2, <2>2
    <3>2. i \in 1 .. Len(a) + Len(b)
      BY <1>1, <1>2, <1>3
    <3>3. r[i] = b[i - Len(a)]
      BY <1>2, <1>3, <3>1, <3>2
    <3>4. b[i - (k - 1)] = q[i - (k - 1) + k]
      BY <1>3, <3>1
    <3> QED
      BY <1>2, <2>2, <3>1, <3>3, <3>4
  <2> QED
    BY <2>1, <2>2
<1> HIDE DEF r
<1>6. \A i \in DOMAIN r : \E j \in DOMAIN q : j # k /\ r[i] = q[j] /\ j = IF i < k THEN i ELSE i + 1
  BY <1>1, <1>4, <1>5
<1>7. MessagesIn(r) \subseteq MessagesIn(q)
  BY <1>6 DEF MessagesIn
<1>8. ASSUME Distinct(q) PROVE Distinct(r) /\ \A x \in MessagesIn(r) : x.tag # q[k].tag
  <2>1. \A x \in MessagesIn(r) : x.tag # q[k].tag
    BY <1>1, <1>6, <1>8 DEF MessagesIn, Distinct
  <2>2. ASSUME NEW i \in DOMAIN r, NEW j \in DOMAIN r, r[i].tag = r[j].tag PROVE i = j
    <3>1. PICK x \in DOMAIN q : r[i] = q[x] /\ x = IF i < k THEN i ELSE i + 1
      BY <1>6
    <3>2. PICK y \in DOMAIN q : r[j] = q[y] /\ y = IF j < k THEN j ELSE j + 1
      BY <1>6
    <3>3. x = y
      BY <1>8, <2>2, <3>1, <3>2 DEF Distinct
    <3> QED
      BY <1>1, <1>4, <3>1, <3>2, <3>3
  <2> QED
    BY <2>1, <2>2 DEF Distinct
<1> QED
  BY <1>4, <1>7, <1>8 DEF r, a, b, n

LEMMA TailFacts ==
  ASSUME NEW S, NEW q \in Seq(S), q # <<>>
  PROVE  /\ Tail(q) \in Seq(S) /\ Head(q) \in S
         /\ MessagesIn(q) = MessagesIn(Tail(q)) \cup {Head(q)}
         /\ Distinct(q) => Distinct(Tail(q)) /\ \A x \in MessagesIn(Tail(q)) : x.tag # Head(q).tag
<1> DEFINE n == Len(q)
           t == Tail(q)
<1>1. /\ n \in Nat /\ n > 0 /\ DOMAIN q = 1 .. n /\ DOMAIN t = 1 .. n - 1 /\ t \in Seq(S)
      /\ Head(q) = q[1] /\ q[1] \in S /\ \A i \in 1 .. n - 1 : t[i] = q[i + 1]
  OBVIOUS
<1> HIDE DEF n, t
<1>2. \A x : x \in MessagesIn(q) <=> x \in MessagesIn(t) \/ x = q[1]
  <2>1. \A i \in 1 .. n : i = 1 \/ (i - 1 \in 1 .. n - 1 /\ q[i] = t[i - 1])
    BY <1>1
  <2>2. \A i \in 1 .. n - 1 : i + 1 \in 1 .. n
    BY <1>1
  <2>3. 1 \in 1 .. n
    BY <1>1
  <2>4. ASSUME NEW x \in MessagesIn(q) PROVE x \in MessagesIn(t) \/ x = q[1]
    <3>1. PICK i \in 1 .. n : x = q[i]
      BY <1>1 DEF MessagesIn
    <3> QED
      BY <1>1, <2>1, <3>1 DEF MessagesIn
  <2>5. ASSUME NEW x \in MessagesIn(t) PROVE x \in MessagesIn(q)
    <3>1. PICK i \in 1 .. n - 1 : x = t[i]
      BY <1>1, <2>5 DEF MessagesIn
    <3> QED
      BY <1>1, <2>2, <3>1 DEF MessagesIn
  <2>6. q[1] \in MessagesIn(q)
    BY <1>1, <2>3 DEF MessagesIn
  <2> QED
    BY <2>4, <2>5, <2>6
<1>3. ASSUME Distinct(q) PROVE Distinct(t) /\ \A x \in MessagesIn(t) : x.tag # q[1].tag
  <2>1. \A i \in 1 .. n - 1 : i + 1 \in 1 .. n /\ i + 1 # 1 /\ 1 \in 1 .. n
    BY <1>1
  <2>2. \A x \in MessagesIn(t) : x.tag # q[1].tag
    BY <1>1, <1>3, <2>1 DEF MessagesIn, Distinct
  <2>3. \A i, j \in 1 .. n - 1 : t[i].tag = t[j].tag => i = j
    <3> SUFFICES ASSUME NEW i \in 1 .. n - 1, NEW j \in 1 .. n - 1, t[i].tag = t[j].tag
                 PROVE  i = j
      OBVIOUS
    <3>1. i + 1 \in DOMAIN q /\ j + 1 \in DOMAIN q /\ q[i + 1].tag = q[j + 1].tag
      BY <1>1, <2>1
    <3>2. i + 1 = j + 1
      BY <1>3, <3>1 DEF Distinct
    <3> QED
      BY <1>1, <3>2
  <2> QED
    BY <1>1, <2>2, <2>3 DEF Distinct
<1> QED
  BY <1>1, <1>2, <1>3 DEF t

-----------------------------------------------------------------------------
(* What a step does to the messages. *)

\* The queues are well formed.
Queues ==
  /\ outbox \in [Sides -> Seq(Message)] /\ inbox \in [Sides -> Seq(Message)]
  /\ \A s \in Sides : TagsDistinct(s)

LEMMA ComingAre ==
  ASSUME NEW s \in Sides, Queues
  PROVE  /\ Coming(s) = MessagesIn(inbox[s]) \cup MessagesIn(outbox[Peer(s)])
         /\ Coming(Peer(s)) = MessagesIn(inbox[Peer(s)]) \cup MessagesIn(outbox[s])
         /\ Coming(s) \subseteq Message
<1>1. \A q \in Seq(Message) : MessagesIn(q) \subseteq Message
  BY DEF MessagesIn
<1> QED
  BY <1>1, SideFacts DEF Coming, Queues

\* A message whose tag is not on its way comes behind the others.
LEMMA PutEffect ==
  ASSUME Queues, NEW s \in Sides, NEW m \in Message,
         \A x \in Coming(Peer(s)) : x.tag # m.tag,
         \/ /\ outbox' = [outbox EXCEPT ![s] = Append(@, m)]
            /\ inbox' = inbox
         \/ /\ inbox' = [inbox EXCEPT ![Peer(s)] = Append(@, m)]
            /\ outbox' = outbox
  PROVE  /\ Queues' /\ Coming(s)' = Coming(s)
         /\ Coming(Peer(s))' = Coming(Peer(s)) \cup {m}
<1> DEFINE d == Peer(s)
<1>1. d \in Sides /\ d # s /\ Peer(d) = s /\ \A q \in Sides : q = s \/ q = d
  BY SideFacts
<1>2. /\ outbox[s] \in Seq(Message) /\ inbox[d] \in Seq(Message)
      /\ outbox[d] \in Seq(Message) /\ inbox[s] \in Seq(Message)
  BY <1>1 DEF Queues
<1>3. /\ Distinct(inbox[d]) /\ Distinct(outbox[s]) /\ Distinct(inbox[s]) /\ Distinct(outbox[d])
      /\ \A x \in MessagesIn(inbox[d]), y \in MessagesIn(outbox[s]) : x.tag # y.tag
      /\ \A x \in MessagesIn(inbox[s]), y \in MessagesIn(outbox[d]) : x.tag # y.tag
  BY <1>1 DEF Queues, TagsDistinct
<1>4. \A x \in MessagesIn(inbox[d]) \cup MessagesIn(outbox[s]) : x.tag # m.tag
  BY <1>1 DEF Coming
<1>5. /\ Append(outbox[s], m) \in Seq(Message) /\ Append(inbox[d], m) \in Seq(Message)
      /\ MessagesIn(Append(outbox[s], m)) = MessagesIn(outbox[s]) \cup {m}
      /\ MessagesIn(Append(inbox[d], m)) = MessagesIn(inbox[d]) \cup {m}
      /\ Distinct(Append(outbox[s], m)) /\ Distinct(Append(inbox[d], m))
  BY <1>2, <1>3, <1>4, AppendFacts
<1> DEFINE ob == Append(outbox[s], m)
           ib == Append(inbox[d], m)
<1>6. CASE outbox' = [outbox EXCEPT ![s] = Append(@, m)] /\ inbox' = inbox
  <2>1. outbox'[s] = ob /\ outbox'[d] = outbox[d] /\ inbox'[s] = inbox[s] /\ inbox'[d] = inbox[d]
    BY <1>1, <1>6 DEF Queues
  <2>2. outbox' \in [Sides -> Seq(Message)] /\ inbox' \in [Sides -> Seq(Message)]
    BY <1>5, <1>6 DEF Queues
  <2> HIDE DEF ob, ib
  <2>3. /\ MessagesIn(ob) = MessagesIn(outbox[s]) \cup {m} /\ Distinct(ob)
    BY <1>5 DEF ob
  <2>4. Queues'
    BY <1>1, <1>3, <1>4, <2>1, <2>2, <2>3 DEF Queues, TagsDistinct
  <2> QED
    BY <1>1, <2>1, <2>3, <2>4 DEF Coming
<1>7. CASE inbox' = [inbox EXCEPT ![Peer(s)] = Append(@, m)] /\ outbox' = outbox
  <2>1. inbox'[d] = ib /\ outbox'[d] = outbox[d] /\ inbox'[s] = inbox[s] /\ outbox'[s] = outbox[s]
    BY <1>1, <1>7 DEF Queues
  <2>2. outbox' \in [Sides -> Seq(Message)] /\ inbox' \in [Sides -> Seq(Message)]
    BY <1>5, <1>7 DEF Queues
  <2> HIDE DEF ob, ib
  <2>3. /\ MessagesIn(ib) = MessagesIn(inbox[d]) \cup {m} /\ Distinct(ib)
    BY <1>5 DEF ib
  <2>4. Queues'
    BY <1>1, <1>3, <1>4, <2>1, <2>2, <2>3 DEF Queues, TagsDistinct
  <2> QED
    BY <1>1, <2>1, <2>3, <2>4 DEF Coming
<1> QED
  BY <1>6, <1>7

\* A send either adds its message to what comes to the peer or fails.
LEMMA SendEffect ==
  ASSUME Queues, failed \in [Sides -> BOOLEAN], NEW s \in Sides, NEW tag \in ChunkIds \cup {Tag}, NEW content \in Value,
         NEW ok, NEW bad, SendBlock(s, tag, content, ok, bad),
         \A x \in Coming(Peer(s)) : x.tag # tag
  PROVE  /\ Queues' /\ Coming(s)' = Coming(s)
         /\ \/ /\ Coming(Peer(s))' = Coming(Peer(s)) \cup {[tag |-> tag, content |-> content]}
               /\ Go(s, ok) /\ failed' = failed
            \/ /\ Coming(Peer(s))' = Coming(Peer(s))
               /\ Go(s, bad) /\ failed' = [failed EXCEPT ![s] = TRUE]
<1> DEFINE m == [tag |-> tag, content |-> content]
<1>1. PICK result \in SendResults :
        /\ outbox' = IF result = "held" THEN [outbox EXCEPT ![s] = Append(@, m)] ELSE outbox
        /\ inbox' = IF result = "left" THEN [inbox EXCEPT ![Peer(s)] = Append(@, m)] ELSE inbox
        /\ failed' = [failed EXCEPT ![s] = @ \/ result = "error"]
        /\ Go(s, IF result = "error" THEN bad ELSE ok)
  BY DEF SendBlock
<1>2. result \in {"left", "held", "error"}
  BY ResultsAssumption
<1>3. m \in Message /\ m.tag = tag
  BY DEF Message
<1>4. CASE result = "error"
  <2>1. inbox' = inbox /\ outbox' = outbox /\ Go(s, bad)
    BY <1>1, <1>4
  <2>2. failed' = [failed EXCEPT ![s] = TRUE]
    BY <1>1, <1>4
  <2>3. Queues' /\ Coming(s)' = Coming(s) /\ Coming(Peer(s))' = Coming(Peer(s))
    BY <2>1 DEF Queues, Coming, TagsDistinct
  <2> QED
    BY <2>1, <2>2, <2>3
<1>5. CASE result # "error"
  <2>1. Go(s, ok)
    BY <1>1, <1>5
  <2>2. failed' = failed
    <3>1. failed' = [failed EXCEPT ![s] = @ \/ FALSE]
      BY <1>1, <1>5
    <3> QED
      BY <3>1
  <2>3. \/ outbox' = [outbox EXCEPT ![s] = Append(@, m)] /\ inbox' = inbox
        \/ inbox' = [inbox EXCEPT ![Peer(s)] = Append(@, m)] /\ outbox' = outbox
    BY <1>1, <1>2, <1>5
  <2> HIDE DEF m
  <2>4. /\ Queues' /\ Coming(s)' = Coming(s)
        /\ Coming(Peer(s))' = Coming(Peer(s)) \cup {m}
    BY <1>3, <2>3, PutEffect
  <2> QED
    BY <2>1, <2>2, <2>4 DEF m
<1> QED
  BY <1>4, <1>5

\* A receive takes the only message with its tag that comes to the side.
LEMMA TakeEffect ==
  ASSUME Queues, NEW s \in Sides, NEW tag, NEW k \in DOMAIN inbox[s],
         TakeFirst(s, tag, k), outbox' = outbox
  PROVE  /\ Queues' /\ Coming(Peer(s))' = Coming(Peer(s))
         /\ inbox[s][k] \in Coming(s) /\ inbox[s][k] \in Message /\ inbox[s][k].tag = tag
         /\ \A m \in Coming(s)' : m \in Coming(s) /\ m.tag # tag
<1> DEFINE d == Peer(s)
           r == SubSeq(inbox[s], 1, k - 1) \o SubSeq(inbox[s], k + 1, Len(inbox[s]))
<1>1. d \in Sides /\ d # s /\ Peer(d) = s /\ \A q \in Sides : q = s \/ q = d
  BY SideFacts
<1>2. /\ outbox[s] \in Seq(Message) /\ inbox[d] \in Seq(Message)
      /\ outbox[d] \in Seq(Message) /\ inbox[s] \in Seq(Message)
  BY <1>1 DEF Queues
<1>3. /\ Distinct(inbox[d]) /\ Distinct(outbox[s]) /\ Distinct(inbox[s]) /\ Distinct(outbox[d])
      /\ \A x \in MessagesIn(inbox[d]), y \in MessagesIn(outbox[s]) : x.tag # y.tag
      /\ \A x \in MessagesIn(inbox[s]), y \in MessagesIn(outbox[d]) : x.tag # y.tag
  BY <1>1 DEF Queues, TagsDistinct
<1>4. /\ r \in Seq(Message) /\ MessagesIn(r) \subseteq MessagesIn(inbox[s])
      /\ Distinct(r) /\ \A x \in MessagesIn(r) : x.tag # inbox[s][k].tag
  BY <1>2, <1>3, RemoveFacts
<1>5. inbox[s][k].tag = tag /\ inbox' = [inbox EXCEPT ![s] = r]
  BY DEF TakeFirst, Matching
<1>6. inbox[s][k] \in MessagesIn(inbox[s])
  BY DEF MessagesIn
<1>7. inbox[s][k] \in Message
  BY <1>2
<1> HIDE DEF r
<1>8. /\ inbox'[s] = r /\ inbox'[d] = inbox[d]
      /\ outbox'[s] = outbox[s] /\ outbox'[d] = outbox[d]
  BY <1>1, <1>5 DEF Queues
<1>9. inbox' \in [Sides -> Seq(Message)] /\ outbox' \in [Sides -> Seq(Message)]
  BY <1>4, <1>5 DEF Queues
<1>10. Queues'
  BY <1>1, <1>3, <1>4, <1>8, <1>9 DEF Queues, TagsDistinct
<1>11. \A y \in MessagesIn(outbox[d]) : y.tag # tag
  BY <1>3, <1>5, <1>6
<1>12. Coming(s)' = MessagesIn(r) \cup MessagesIn(outbox[d])
  BY <1>1, <1>8 DEF Coming
<1> QED
  BY <1>1, <1>4, <1>5, <1>6, <1>7, <1>8, <1>10, <1>11, <1>12 DEF Coming

\* A worker that is progressed moves a message on.
LEMMA DeliverEffect ==
  ASSUME Queues, NEW s \in Sides, Deliver(s)
  PROVE  Queues' /\ \A q \in Sides : Coming(q)' = Coming(q)
<1> DEFINE d == Peer(s)
           m == Head(outbox[s])
           t == Tail(outbox[s])
           ib == Append(inbox[d], m)
<1>1. d \in Sides /\ d # s /\ Peer(d) = s /\ \A q \in Sides : q = s \/ q = d
  BY SideFacts
<1>2. /\ outbox[s] \in Seq(Message) /\ inbox[d] \in Seq(Message)
      /\ outbox[d] \in Seq(Message) /\ inbox[s] \in Seq(Message)
  BY <1>1 DEF Queues
<1>3. /\ Distinct(inbox[d]) /\ Distinct(outbox[s]) /\ Distinct(inbox[s]) /\ Distinct(outbox[d])
      /\ \A x \in MessagesIn(inbox[d]), y \in MessagesIn(outbox[s]) : x.tag # y.tag
      /\ \A x \in MessagesIn(inbox[s]), y \in MessagesIn(outbox[d]) : x.tag # y.tag
  BY <1>1 DEF Queues, TagsDistinct
<1>4. outbox[s] # <<>> /\ outbox' = [outbox EXCEPT ![s] = t] /\ inbox' = [inbox EXCEPT ![d] = ib]
  BY DEF Deliver
<1>5. /\ t \in Seq(Message) /\ m \in Message
      /\ MessagesIn(outbox[s]) = MessagesIn(t) \cup {m}
      /\ Distinct(t) /\ \A x \in MessagesIn(t) : x.tag # m.tag
  BY <1>2, <1>3, <1>4, TailFacts
<1> HIDE DEF m, t
<1>6. \A x \in MessagesIn(inbox[d]) : x.tag # m.tag
  BY <1>3, <1>5
<1>7. ib \in Seq(Message) /\ MessagesIn(ib) = MessagesIn(inbox[d]) \cup {m} /\ Distinct(ib)
  BY <1>2, <1>3, <1>5, <1>6, AppendFacts
<1> HIDE DEF ib
<1>8. /\ inbox'[d] = ib /\ inbox'[s] = inbox[s] /\ outbox'[s] = t /\ outbox'[d] = outbox[d]
      /\ inbox' \in [Sides -> Seq(Message)] /\ outbox' \in [Sides -> Seq(Message)]
  BY <1>1, <1>4, <1>5, <1>7 DEF Queues
<1>9. Queues'
  <2>1. \A x \in MessagesIn(ib), y \in MessagesIn(t) : x.tag # y.tag
    BY <1>3, <1>5, <1>7
  <2> QED
    BY <1>1, <1>3, <1>5, <1>7, <1>8, <2>1 DEF Queues, TagsDistinct
<1>10. Coming(s)' = Coming(s) /\ Coming(d)' = Coming(d)
  BY <1>1, <1>5, <1>7, <1>8 DEF Coming
<1> QED
  BY <1>1, <1>9, <1>10

\* What is dropped with an endpoint does not come.
LEMMA DropEffect ==
  ASSUME Queues, NEW s \in Sides, outbox' = [outbox EXCEPT ![s] = <<>>], inbox' = inbox
  PROVE  Queues' /\ \A q \in Sides : Coming(q)' \subseteq Coming(q)
<1> DEFINE d == Peer(s)
<1>1. d \in Sides /\ d # s /\ Peer(d) = s /\ \A q \in Sides : q = s \/ q = d
  BY SideFacts
<1>2. MessagesIn(<<>>) = {} /\ Distinct(<<>>) /\ <<>> \in Seq(Message)
  BY DEF MessagesIn, Distinct
<1>3. /\ inbox'[d] = inbox[d] /\ inbox'[s] = inbox[s] /\ outbox'[s] = <<>>
      /\ outbox'[d] = outbox[d]
      /\ inbox' \in [Sides -> Seq(Message)] /\ outbox' \in [Sides -> Seq(Message)]
  BY <1>1, <1>2 DEF Queues
<1>4. Queues'
  BY <1>1, <1>2, <1>3 DEF Queues, TagsDistinct
<1>5. Coming(s)' \subseteq Coming(s) /\ Coming(d)' \subseteq Coming(d)
  BY <1>1, <1>2, <1>3 DEF Coming
<1> QED
  BY <1>1, <1>4, <1>5

-----------------------------------------------------------------------------
(* ExchangeInv is kept: by a step of side s that keeps its promises to the  *)
(* other side, and then action by action.                                   *)

LEMMA StepKept ==
  ASSUME ExchangeInv, NEW s \in Sides, TypeOK', Queues',
         at'[Peer(s)] = at[Peer(s)], chunk'[Peer(s)] = chunk[Peer(s)],
         failed'[Peer(s)] = failed[Peer(s)],
         joined' = joined \/ joined' = joined \cup {s},
         at[s] \in Late => at'[s] \in Late,
         at[s] \notin Unsent(s) => at'[s] \notin Unsent(s),
         failed[s] => failed'[s],
         Progress(s)',
         \A m \in Coming(s)' : m \in Coming(s) /\ Expected(s, m)',
         \A m \in Coming(Peer(s))' :
            m \in Coming(Peer(s)) \/ (SentBy(s, m)' /\ Expected(Peer(s), m))
  PROVE  ExchangeInv'
<1> DEFINE d == Peer(s)
<1>1. d \in Sides /\ d # s /\ Peer(d) = s /\ \A q \in Sides : q = s \/ q = d
  BY SideFacts
<1>2. \A q \in Sides : TagsDistinct(q)'
  BY DEF Queues
<1>3. Unsent(s)' = Unsent(s) /\ Unsent(d)' = Unsent(d) /\ Unheard(d)' = Unheard(d)
  BY DEF Unsent, Unheard
<1>4. s \in joined => s \in joined'
  OBVIOUS
<1>5. (d \in joined <=> d \in joined') /\ (joined = Sides => joined' = Sides)
  BY <1>1 DEF TypeOK, ExchangeInv
<1>6. Progress(d)'
  <2>1. Progress(d)
    BY <1>1 DEF ExchangeInv
  <2>2. \A own, other : ChunksAre(d, own, other) => ChunksAre(d, own, other)'
    BY DEF ChunksAre
  <2>3. Unheard(d)' = Unheard(d) /\ Unit(d)' = Unit(d) /\ Unit(s)' = Unit(s)
    BY DEF Unheard, Unit
  <2> QED
    BY <1>1, <1>3, <1>4, <1>5, <2>1, <2>2, <2>3 DEF Progress, ChunksAre
<1>7. ASSUME NEW m, m \in Coming(s)' PROVE SentBy(d, m)' /\ Expected(s, m)'
  <2>1. m \in Coming(s) /\ Expected(s, m)'
    BY <1>7
  <2>2. SentBy(d, m)
    BY <2>1 DEF ExchangeInv
  <2> QED
    BY <1>1, <1>3, <1>5, <2>1, <2>2 DEF SentBy
<1>8. ASSUME NEW m, m \in Coming(d)' PROVE SentBy(s, m)' /\ Expected(d, m)'
  <2>1. SentBy(s, m)' /\ Expected(d, m)
    <3>1. CASE m \in Coming(d)
      <4>1. SentBy(s, m) /\ Expected(d, m)
        BY <1>1, <3>1 DEF ExchangeInv
      <4> QED
        BY <1>3, <1>4, <4>1 DEF SentBy
    <3> QED
      BY <1>8, <3>1
  <2> QED
    BY <1>1, <2>1 DEF Expected
<1> QED
  BY <1>1, <1>2, <1>6, <1>7, <1>8 DEF ExchangeInv

\* The types are kept by a step that goes to a place of its side.
PcsOf(s) == BothPcs \cup IF s = "client" THEN ClientPcs ELSE ServerPcs

Rest == /\ alive \in [Sides -> BOOLEAN] /\ ret \in [Sides -> {-1, 0, 1}]
        /\ epFailed \in [Sides -> BOOLEAN] /\ token \in [Sides -> BOOLEAN]

LEMMA TypeKept ==
  ASSUME TypeOK, NEW s \in Sides, NEW pc \in PcsOf(s), Go(s, pc), Queues', Rest', mode' = mode,
         chunk' \in [Sides -> [ChunkIds -> Value]],
         failed' = failed \/ failed' = [failed EXCEPT ![s] = TRUE],
         joined' = joined \/ joined' = joined \cup {s}
  PROVE  /\ TypeOK' /\ at'[s] = pc /\ at'[Peer(s)] = at[Peer(s)]
         /\ failed'[Peer(s)] = failed[Peer(s)] /\ (failed[s] => failed'[s])
         /\ failed' = failed \/ failed'[s]
<1>1. at' \in [Sides -> BothPcs \cup ClientPcs \cup ServerPcs] /\ at'[s] = pc
      /\ at'[Peer(s)] = at[Peer(s)]
  BY SideFacts DEF TypeOK, Go, PcsOf
<1>2. at'["client"] \notin ServerPcs /\ at'["server"] \notin ClientPcs
  <2>1. s = "client" => pc \notin ServerPcs
    BY DEF PcsOf, BothPcs, ClientPcs, ServerPcs
  <2>2. s = "server" => pc \notin ClientPcs
    BY DEF PcsOf, BothPcs, ClientPcs, ServerPcs
  <2>3. s = "client" \/ s = "server"
    BY DEF Sides
  <2> QED
    BY <1>1, <2>1, <2>2, <2>3 DEF TypeOK, Peer
<1>3. failed' \in [Sides -> BOOLEAN]
  BY DEF TypeOK
<1>4. /\ failed'[Peer(s)] = failed[Peer(s)] /\ (failed[s] => failed'[s])
      /\ failed' = failed \/ failed'[s]
  BY SideFacts DEF TypeOK
<1> QED
  BY <1>1, <1>2, <1>3, <1>4 DEF TypeOK, Rest, Queues

\* Steps that neither send nor add: a failure, a step on the way to the
\* exchange, a step behind it.
LEMMA QuietKept ==
  ASSUME ExchangeInv, NEW s \in Sides, NEW pc \in PcsOf(s), Go(s, pc), Queues', Rest',
         mode' = mode, chunk' = chunk, joined' = joined,
         failed' = failed \/ failed' = [failed EXCEPT ![s] = TRUE],
         \A q \in Sides : Coming(q)' \subseteq Coming(q),
         \/ failed'[s] /\ (pc \in Final \/ (pc = "waitFailure" /\ at[s] \in Before))
         \/ /\ failed' = failed
            /\ at[s] \in Before \ {"waitFailure"} /\ pc \in Before \ {"waitFailure"}
            /\ at[s] \in Unsent(s) <=> pc \in Unsent(s)
            /\ at[s] \in Unheard(s) <=> pc \in Unheard(s)
         \/ failed' = failed /\ at[s] \in Final /\ pc \in Final
  PROVE  ExchangeInv'
<1> DEFINE d == Peer(s)
<1>1. d \in Sides /\ d # s /\ Peer(d) = s /\ \A q \in Sides : q = s \/ q = d
  BY SideFacts
<1>2. TypeOK /\ Progress(s)
  BY DEF ExchangeInv
<1>3. chunk' \in [Sides -> [ChunkIds -> Value]]
  BY <1>2 DEF TypeOK
<1>4. /\ TypeOK' /\ at'[s] = pc /\ at'[d] = at[d] /\ failed'[d] = failed[d]
      /\ failed[s] => failed'[s]
  BY <1>2, <1>3, TypeKept
<1>5. Unheard(s)' = Unheard(s) /\ Unit(s)' = Unit(s) /\ Unsent(d)' = Unsent(d)
  BY DEF Unheard, Unit, Unsent
<1>6. \A own, other : ChunksAre(s, own, other)' <=> ChunksAre(s, own, other)
  BY DEF ChunksAre
<1>7. /\ Final \cap Before = {} /\ Final \subseteq Late /\ Final \cap Unsent(s) = {}
      /\ Final \cap {"reduce", "forward", "recvSum"} = {} /\ Late \cap Before = {}
      /\ Before \cap {"reduce", "forward", "recvSum"} = {}
      /\ "waitFailure" \in Before \ Unsent(s)
      /\ Final \cap Unheard(s) = {}
  BY DEF Final, Before, Late, Unsent, Unheard
<1>8. at[s] \in Late => pc \in Late
  BY <1>7
<1>9. at[s] \notin Unsent(s) => pc \notin Unsent(s)
  BY <1>7
<1>10. Progress(s)'
  <2>1. CASE failed'[s] /\ pc \in Final
    BY <1>2, <1>4, <1>5, <1>6, <1>7, <2>1 DEF Progress
  <2>2. CASE failed'[s] /\ pc = "waitFailure" /\ at[s] \in Before
    BY <1>2, <1>4, <1>5, <1>6, <1>7, <2>2 DEF Progress
  <2>3. CASE /\ failed' = failed
             /\ at[s] \in Before \ {"waitFailure"} /\ pc \in Before \ {"waitFailure"}
             /\ at[s] \in Unsent(s) <=> pc \in Unsent(s)
             /\ at[s] \in Unheard(s) <=> pc \in Unheard(s)
    BY <1>2, <1>4, <1>5, <1>6, <1>7, <2>3 DEF Progress
  <2>4. CASE failed' = failed /\ at[s] \in Final /\ pc \in Final
    BY <1>2, <1>4, <1>5, <1>6, <1>7, <2>4 DEF Progress
  <2> QED
    BY <2>1, <2>2, <2>3, <2>4
<1>11. ASSUME NEW m, m \in Coming(s)' PROVE m \in Coming(s) /\ Expected(s, m)'
  <2>1. m \in Coming(s)
    BY <1>11
  <2>2. Expected(s, m)
    BY <2>1 DEF ExchangeInv
  <2> QED
    BY <1>4, <1>5, <1>7, <2>1, <2>2 DEF Expected
<1>12. \A m \in Coming(d)' : m \in Coming(d)
  BY <1>1
<1> QED
  BY <1>1, <1>4, <1>8, <1>9, <1>10, <1>11, <1>12, StepKept

LEMMA CalmQueues == ASSUME ExchangeInv, UNCHANGED data
                    PROVE  Queues' /\ \A q \in Sides : Coming(q)' = Coming(q)
  BY DEF ExchangeInv, TypeOK, Queues, data, Coming, TagsDistinct

LEMMA QueuesHold == ASSUME ExchangeInv PROVE Queues
  BY DEF ExchangeInv, TypeOK, Queues

LEMMA RestKept ==
  ASSUME TypeOK, NEW s \in Sides, NEW n \in {-1, 0, 1}, NEW b \in BOOLEAN,
         alive' = alive \/ alive' = [alive EXCEPT ![s] = b],
         ret' = ret \/ ret' = [ret EXCEPT ![s] = n],
         epFailed' = epFailed \/ epFailed' = [epFailed EXCEPT ![s] = b],
         token' = token \/ token' = [token EXCEPT ![s] = b]
  PROVE  Rest'
  BY DEF TypeOK, Rest

\* The steps of the socket and of the endpoint, and the end.
LEMMA CalmKept ==
  ASSUME ExchangeInv, NEW s \in Sides,
         \/ s = "client" /\ (Connect \/ OobRecv)
         \/ s = "server" /\ (Listen \/ Accept \/ WaitFailure \/ Flush)
         \/ MakeEp(s) \/ Sync(s) \/ Barrier(s)
  PROVE  ExchangeInv'
<1> USE DEF Go
<1>1. TypeOK /\ Progress(s)
  BY DEF ExchangeInv
<1>2. /\ UNCHANGED <<mode, data, joined, alive, epFailed>>
      /\ failed' = failed \/ failed' = [failed EXCEPT ![s] = TRUE]
      /\ \E n \in {-1, 0, 1} : ret' = ret \/ ret' = [ret EXCEPT ![s] = n]
      /\ \E b \in BOOLEAN : token' = token \/ token' = [token EXCEPT ![s] = b]
  <2>1. CASE s = "client" /\ (Connect \/ OobRecv)
    BY <2>1 DEF Connect, OobRecv
  <2>2. CASE s = "server" /\ (Listen \/ Accept \/ WaitFailure)
    BY <2>2 DEF Listen, Accept, WaitFailure
  <2>3. CASE s = "server" /\ Flush
    BY <2>3 DEF Flush
  <2>4. CASE MakeEp(s)
    BY <2>4 DEF MakeEp
  <2>5. CASE Sync(s)
    <3>1. token' = [token EXCEPT ![s] = (ret[s] = 0 /\ ~ErrModePeer)]
      BY <2>5 DEF Sync
    <3>2. UNCHANGED <<mode, data, joined, alive, epFailed, failed, ret>>
      BY <2>5 DEF Sync
    <3> QED
      BY <3>1, <3>2
  <2>6. CASE Barrier(s)
    BY <2>6 DEF Barrier
  <2> QED
    BY <2>1, <2>2, <2>3, <2>4, <2>5, <2>6
<1>3. Queues' /\ \A q \in Sides : Coming(q)' = Coming(q)
  BY <1>2, CalmQueues
<1>4. Rest'
  <2>1. PICK n \in {-1, 0, 1} : ret' = ret \/ ret' = [ret EXCEPT ![s] = n]
    BY <1>2
  <2>2. PICK b \in BOOLEAN : token' = token \/ token' = [token EXCEPT ![s] = b]
    BY <1>2
  <2> QED
    BY <1>1, <1>2, <2>1, <2>2, RestKept
<1>5. PICK pc \in PcsOf(s) :
        /\ at' = [at EXCEPT ![s] = pc]
        /\ \/ failed'[s] /\ pc \in Final
           \/ /\ failed' = failed
              /\ at[s] \in Before \ {"waitFailure"} /\ pc \in Before \ {"waitFailure"}
              /\ at[s] \in Unsent(s) <=> pc \in Unsent(s)
              /\ at[s] \in Unheard(s) <=> pc \in Unheard(s)
           \/ failed' = failed /\ at[s] \in Final /\ pc \in Final
  <2> USE DEF PcsOf, BothPcs, ClientPcs, ServerPcs, Final, Before, Unsent, Unheard
  <2>1. CASE s = "client" /\ Connect
    <3>1. failed' = [failed EXCEPT ![s] = TRUE] => failed'[s]
      BY <1>1 DEF TypeOK
    <3> QED
      BY <2>1, <3>1 DEF Connect
  <2>2. CASE s = "client" /\ OobRecv
    BY <2>2 DEF OobRecv
  <2>3. CASE s = "server" /\ Listen
    BY <2>3 DEF Listen
  <2>4. CASE s = "server" /\ Accept
    BY <2>4 DEF Accept
  <2>5. CASE s = "server" /\ WaitFailure
    <3>1. at[s] = "waitFailure" => failed[s]
      BY <1>1 DEF Progress
    <3>2. failed' = failed
      BY <2>5 DEF WaitFailure
    <3>3. at[s] = "waitClient" \/ at[s] = "waitFailure"
      BY <2>5 DEF WaitFailure
    <3>4. CASE at[s] = "waitClient"
      BY <2>5, <3>2, <3>4 DEF WaitFailure
    <3>5. CASE at[s] = "waitFailure"
      BY <2>5, <3>1, <3>2, <3>5 DEF WaitFailure
    <3> QED
      BY <3>3, <3>4, <3>5
  <2>6. CASE s = "server" /\ Flush
    BY <2>6 DEF Flush
  <2>7. CASE MakeEp(s)
    <3>1. failed' = [failed EXCEPT ![s] = TRUE] => failed'[s]
      BY <1>1 DEF TypeOK
    <3>2. at[s] = "makeEp"
      BY <2>7 DEF MakeEp
    <3>3. CASE at' = [at EXCEPT ![s] = "sync"] /\ failed' = [failed EXCEPT ![s] = TRUE]
      BY <3>1, <3>3
    <3>4. CASE /\ failed' = failed
               /\ at' = [at EXCEPT ![s] = IF s = "client" THEN "sendAddr" ELSE "sendString"]
      <4>1. s = "client" \/ s = "server"
        BY DEF Sides
      <4>2. CASE s = "client"
        BY <3>2, <3>4, <4>2
      <4>3. CASE s = "server"
        BY <3>2, <3>4, <4>3
      <4> QED
        BY <4>1, <4>2, <4>3
    <3> QED
      BY <2>7, <3>3, <3>4 DEF MakeEp
  <2>8. CASE Sync(s)
    <3>1. at' = [at EXCEPT ![s] = IF ret[s] = 0 /\ ~ErrModePeer THEN "barrier" ELSE "over"]
      BY <2>8 DEF Sync
    <3>2. failed' = failed /\ at[s] = "sync"
      BY <2>8 DEF Sync
    <3> QED
      BY <3>1, <3>2
  <2>9. CASE Barrier(s)
    BY <2>9 DEF Barrier
  <2> QED
    BY <2>1, <2>2, <2>3, <2>4, <2>5, <2>6, <2>7, <2>8, <2>9
<1> QED
  BY <1>2, <1>3, <1>4, <1>5, QuietKept DEF data

\* Messages are moved on; an endpoint fails; the client is killed.
LEMMA StillKept ==
  ASSUME ExchangeInv, NEW s \in Sides, Deliver(s) \/ PeerFailure(s) \/ KillClient
  PROVE  ExchangeInv'
<1>1. Queues' /\ \A q \in Sides : Coming(q)' = Coming(q)
  <2>1. Queues
    BY QueuesHold
  <2>2. CASE Deliver(s)
    BY <2>1, <2>2, DeliverEffect
  <2>3. CASE PeerFailure(s) \/ KillClient
    BY <2>3, CalmQueues DEF PeerFailure, KillClient
  <2> QED
    BY <2>2, <2>3
<1>2. UNCHANGED <<mode, at, chunk, ret, token, failed, joined>>
  BY DEF Deliver, PeerFailure, KillClient, data
<1>3. TypeOK'
  <2>1. TypeOK
    BY DEF ExchangeInv
  <2>2. Rest'
    BY <2>1 DEF Deliver, PeerFailure, KillClient, data, TypeOK, Rest, Sides
  <2> QED
    BY <1>1, <1>2, <2>1, <2>2 DEF TypeOK, Rest, Queues
<1>4. \A q \in Sides : Progress(q)'
  BY <1>2 DEF ExchangeInv, Progress, ChunksAre, Unheard, Unsent, Unit
<1>5. ASSUME NEW q \in Sides, NEW m, m \in Coming(q)' PROVE SentBy(Peer(q), m)' /\ Expected(q, m)'
  <2>1. SentBy(Peer(q), m) /\ Expected(q, m)
    BY <1>1, <1>5 DEF ExchangeInv
  <2> QED
    BY <1>2, <2>1 DEF SentBy, Expected, Unsent, Unheard
<1> QED
  BY <1>1, <1>3, <1>4, <1>5 DEF ExchangeInv, Queues

LEMMA CloseKept == ASSUME ExchangeInv, NEW s \in Sides, Close(s) PROVE ExchangeInv'
<1>1. Queues' /\ \A q \in Sides : Coming(q)' \subseteq Coming(q)
  BY QueuesHold, DropEffect DEF Close
<1>2. UNCHANGED <<mode, alive, chunk, ret, epFailed, token, failed, joined>>
  BY DEF Close
<1>3. Rest'
  BY <1>2 DEF ExchangeInv, TypeOK, Rest
<1>4. "sync" \in PcsOf(s) /\ at[s] \in Final /\ "sync" \in Final /\ Go(s, "sync")
  BY DEF Close, PcsOf, BothPcs, Final
<1> QED
  BY <1>1, <1>2, <1>3, <1>4, QuietKept

\* What a side is about to send is not on its way yet.
LEMMA NotYetSent ==
  ASSUME ExchangeInv, NEW s \in Sides
  PROVE  /\ at[s] \in Unsent(s) => \A x \in Coming(Peer(s)) : x.tag # Tag
         /\ at[s] = "sendOwn" => \A x \in Coming(Peer(s)) : x.tag # Own(s)
         /\ at[s] = "forward" => \A x \in Coming(Peer(s)) : x.tag # Other(s)
<1>1. \A x \in Coming(Peer(s)) : SentBy(s, x)
  BY SideFacts DEF ExchangeInv
<1>2. at[s] = "sendOwn" => s \notin joined
  BY DEF ExchangeInv, Progress, Before
<1>3. "forward" \notin Late
  BY DEF Late, Final
<1> QED
  BY <1>1, <1>2, <1>3 DEF SentBy

\* The address and the string are sent; a refusal is a failure.
LEMMA TextKept ==
  ASSUME ExchangeInv, NEW s \in Sides, NEW ok, NEW bad, SendBlock(s, Tag, Text, ok, bad),
         \/ s = "client" /\ at[s] = "sendAddr" /\ ok = "recvString" /\ bad = "close"
         \/ /\ s = "server" /\ at[s] = "sendString" /\ ok \in {"waitClient", "sendOwn"}
            /\ bad \in {"close", "waitFailure"},
         Rest', UNCHANGED <<mode, chunk, joined>>
  PROVE  ExchangeInv'
<1> DEFINE d == Peer(s)
           m == [tag |-> Tag, content |-> Text]
<1>1. d \in Sides /\ d # s /\ Peer(d) = s /\ \A q \in Sides : q = s \/ q = d
  BY SideFacts
<1>2. TypeOK /\ Progress(s) /\ Progress(d)
  BY <1>1 DEF ExchangeInv
<1>3. /\ at[s] \in Unsent(s) /\ at[s] \in Before \ {"waitFailure"}
      /\ ok \in PcsOf(s) /\ bad \in PcsOf(s)
      /\ ok \notin Unsent(s) /\ (at[s] \in Unheard(s) <=> ok \in Unheard(s))
      /\ ok \in Before \ {"waitFailure"} /\ (bad \in Final \/ bad = "waitFailure")
  BY DEF PcsOf, BothPcs, ClientPcs, ServerPcs, Before, Final, Unsent, Unheard
<1>4. \A x \in Coming(d) : x.tag # Tag
  BY <1>3, NotYetSent
<1>5. /\ Queues' /\ Coming(s)' = Coming(s)
      /\ \/ /\ Coming(d)' = Coming(d) \cup {m} /\ Go(s, ok) /\ failed' = failed
         \/ /\ Coming(d)' = Coming(d) /\ Go(s, bad) /\ failed' = [failed EXCEPT ![s] = TRUE]
  <2>1. Queues /\ failed \in [Sides -> BOOLEAN]
    BY <1>2, QueuesHold DEF TypeOK
  <2>2. Tag \in ChunkIds \cup {Tag} /\ Text \in Value
    BY ContentFacts
  <2> QED
    BY <1>4, <2>1, <2>2, SendEffect
<1>6. CASE Coming(d)' = Coming(d) /\ Go(s, bad) /\ failed' = [failed EXCEPT ![s] = TRUE]
  <2>1. failed'[s]
    BY <1>2, <1>6 DEF TypeOK
  <2>2. \A q \in Sides : Coming(q)' \subseteq Coming(q)
    BY <1>1, <1>5, <1>6
  <2> QED
    BY <1>3, <1>5, <1>6, <2>1, <2>2, QuietKept
<1>7. CASE Coming(d)' = Coming(d) \cup {m} /\ Go(s, ok) /\ failed' = failed
  <2>1. chunk' \in [Sides -> [ChunkIds -> Value]]
    BY <1>2 DEF TypeOK
  <2>2. /\ TypeOK' /\ at'[s] = ok /\ at'[d] = at[d] /\ failed'[d] = failed[d]
        /\ failed[s] => failed'[s]
    BY <1>2, <1>3, <1>5, <1>7, <2>1, TypeKept
  <2>3. Unheard(s)' = Unheard(s) /\ Unit(s)' = Unit(s) /\ Unsent(d)' = Unsent(d)
        /\ Unsent(s)' = Unsent(s)
    BY DEF Unheard, Unit, Unsent
  <2>4. \A own, other : ChunksAre(s, own, other)' <=> ChunksAre(s, own, other)
    BY DEF ChunksAre
  <2>5. /\ Before \cap {"reduce", "forward", "recvSum"} = {} /\ Final \cap Before = {}
        /\ Late \cap Before = {}
    BY DEF Final, Before, Late
  <2>6. Progress(s)'
    BY <1>2, <1>3, <1>7, <2>2, <2>3, <2>4, <2>5 DEF Progress
  <2>7. ASSUME NEW x, x \in Coming(s)' PROVE x \in Coming(s) /\ Expected(s, x)'
    <3>1. x \in Coming(s)
      BY <1>5, <2>7
    <3>2. Expected(s, x)
      BY <3>1 DEF ExchangeInv
    <3> QED
      BY <1>3, <1>7, <2>2, <2>3, <2>5, <3>1, <3>2 DEF Expected
  <2>8. SentBy(s, m)' /\ Expected(d, m)
    <3>1. m.tag = Tag /\ Tag # Own(s) /\ Tag # Other(s)
      BY SideFacts
    <3>2. SentBy(s, m)'
      BY <1>3, <2>2, <2>3, <3>1 DEF SentBy
    <3>3. failed[d] \/ at[d] \in Unheard(d)
      BY <1>1, <1>2, <1>3 DEF Progress
    <3> QED
      BY <3>1, <3>2, <3>3 DEF Expected
  <2>9. \A x \in Coming(d)' : x \in Coming(d) \/ (SentBy(s, x)' /\ Expected(d, x))
    <3> HIDE DEF m
    <3> QED
      BY <1>7, <2>8
  <2>10. /\ at[s] \in Late => at'[s] \in Late
         /\ at[s] \notin Unsent(s) => at'[s] \notin Unsent(s)
    BY <1>3, <2>2, <2>5
  <2>11. chunk'[d] = chunk[d] /\ joined' = joined
    OBVIOUS
  <2> QED
    BY <1>5, <2>2, <2>6, <2>7, <2>9, <2>10, <2>11, StepKept
<1> QED
  BY <1>5, <1>6, <1>7

\* A receive that fails: the message is gone and the exchange too.
LEMMA LostKept ==
  ASSUME ExchangeInv, NEW s \in Sides, NEW tag, NEW pc \in PcsOf(s), pc \in Final,
         ReceiveFails(s, tag, pc), Rest', UNCHANGED <<mode, outbox, chunk, joined>>
  PROVE  ExchangeInv'
<1>1. PICK k \in DOMAIN inbox[s] : TakeFirst(s, tag, k)
  BY DEF ReceiveFails
<1>2. /\ Queues' /\ Coming(Peer(s))' = Coming(Peer(s))
      /\ \A m \in Coming(s)' : m \in Coming(s)
  BY <1>1, QueuesHold, TakeEffect
<1>3. \A q \in Sides : Coming(q)' \subseteq Coming(q)
  BY <1>2, SideFacts
<1>4. failed' = [failed EXCEPT ![s] = TRUE] /\ Go(s, pc)
  BY DEF ReceiveFails
<1>5. failed'[s]
  BY <1>4 DEF ExchangeInv, TypeOK
<1> QED
  BY <1>2, <1>3, <1>4, <1>5, QuietKept

\* The address and the string are received: the other side has sent its own.
LEMMA HeardKept ==
  ASSUME ExchangeInv, NEW s \in Sides, NEW k \in DOMAIN inbox[s], TakeFirst(s, Tag, k),
         NEW pc, Go(s, pc),
         \/ s = "client" /\ at[s] = "recvString" /\ pc = "sendOwn"
         \/ s = "server" /\ at[s] = "recvAddr" /\ pc = "makeEp",
         Rest', UNCHANGED <<mode, outbox, chunk, joined, failed>>
  PROVE  ExchangeInv'
<1> DEFINE d == Peer(s)
           m == inbox[s][k]
<1>1. d \in Sides /\ d # s /\ Peer(d) = s /\ \A q \in Sides : q = s \/ q = d
  BY SideFacts
<1>2. TypeOK /\ Progress(s)
  BY <1>1 DEF ExchangeInv
<1>3. /\ Queues' /\ Coming(d)' = Coming(d) /\ m \in Coming(s) /\ m.tag = Tag
      /\ \A x \in Coming(s)' : x \in Coming(s) /\ x.tag # Tag
  BY QueuesHold, TakeEffect
<1>4. /\ at[s] \in Before \ {"waitFailure"} /\ pc \in PcsOf(s) /\ pc \in Before \ {"waitFailure"}
      /\ at[s] \notin Unsent(s) => pc \notin Unsent(s)
  BY DEF PcsOf, BothPcs, ClientPcs, ServerPcs, Before, Unsent
<1>5. chunk' \in [Sides -> [ChunkIds -> Value]]
  BY <1>2 DEF TypeOK
<1>6. /\ TypeOK' /\ at'[s] = pc /\ at'[d] = at[d] /\ failed'[d] = failed[d]
      /\ failed[s] => failed'[s]
  BY <1>2, <1>3, <1>4, <1>5, TypeKept
<1>7. Unheard(s)' = Unheard(s) /\ Unit(s)' = Unit(s) /\ Unsent(d)' = Unsent(d)
  BY DEF Unheard, Unit, Unsent
<1>8. \A own, other : ChunksAre(s, own, other)' <=> ChunksAre(s, own, other)
  BY DEF ChunksAre
<1>9. /\ Before \cap {"reduce", "forward", "recvSum"} = {} /\ Final \cap Before = {}
      /\ Late \cap Before = {}
  BY DEF Final, Before, Late
<1>10. at[d] \notin Unsent(d)
  <2>1. SentBy(d, m)
    BY <1>3 DEF ExchangeInv
  <2> QED
    BY <1>3, <2>1 DEF SentBy
<1>11. Progress(s)'
  BY <1>2, <1>4, <1>6, <1>7, <1>8, <1>9, <1>10 DEF Progress
<1>12. ASSUME NEW x, x \in Coming(s)' PROVE x \in Coming(s) /\ Expected(s, x)'
  <2>1. x \in Coming(s) /\ x.tag # Tag
    BY <1>3, <1>12
  <2>2. Expected(s, x)
    BY <2>1 DEF ExchangeInv
  <2> QED
    BY <1>4, <1>6, <1>9, <2>1, <2>2 DEF Expected
<1>13. at[s] \in Late => at'[s] \in Late
  BY <1>4, <1>9
<1> QED
  BY <1>3, <1>4, <1>6, <1>11, <1>12, <1>13, StepKept DEF Unsent

\* The side's own chunk is sent: the other side still lacks it, or has failed.
LEMMA SendOwnKept == ASSUME ExchangeInv, NEW s \in Sides, SendOwn(s) PROVE ExchangeInv'
<1> DEFINE d == Peer(s)
           m == [tag |-> Own(s), content |-> chunk[s][Own(s)]]
<1>1. d \in Sides /\ d # s /\ Peer(d) = s /\ Own(s) = Other(d) /\ Own(s) \in ChunkIds
  BY SideFacts
<1>2. TypeOK /\ Progress(s) /\ Progress(d)
  BY <1>1 DEF ExchangeInv
<1>3. /\ at[s] = "sendOwn" /\ UNCHANGED <<mode, alive, chunk, ret, epFailed, token>>
      /\ SendBlock(s, Own(s), chunk[s][Own(s)], "reduce", "reduce")
      /\ joined' = IF failed'[s] THEN joined ELSE joined \cup {s}
  BY DEF SendOwn
<1>4. ChunksAre(s, Unit(s), Unit(s)) /\ ~failed[s]
  BY <1>2, <1>3 DEF Progress, Before
<1>5. /\ Queues' /\ Coming(s)' = Coming(s) /\ Go(s, "reduce")
      /\ \/ Coming(d)' = Coming(d) \cup {m} /\ failed' = failed
         \/ Coming(d)' = Coming(d) /\ failed' = [failed EXCEPT ![s] = TRUE]
  <2>1. \A x \in Coming(d) : x.tag # Own(s)
    BY <1>3, NotYetSent
  <2>2. Queues /\ failed \in [Sides -> BOOLEAN]
    BY <1>2, QueuesHold DEF TypeOK
  <2>3. Own(s) \in ChunkIds \cup {Tag} /\ chunk[s][Own(s)] \in Value
    BY <1>1, <1>2 DEF TypeOK
  <2> QED
    BY <1>3, <2>1, <2>2, <2>3, SendEffect
<1>6. Rest' /\ mode' = mode /\ chunk' \in [Sides -> [ChunkIds -> Value]]
  BY <1>2, <1>3 DEF Rest, TypeOK
<1>7. /\ TypeOK' /\ at'[s] = "reduce" /\ at'[d] = at[d] /\ failed'[d] = failed[d]
      /\ failed[s] => failed'[s]
  <2>1. "reduce" \in PcsOf(s)
    BY DEF PcsOf, BothPcs
  <2> QED
    BY <1>2, <1>3, <1>5, <1>6, <2>1, TypeKept
<1>8. /\ Unheard(s)' = Unheard(s) /\ Unit(s)' = Unit(s) /\ Unsent(d)' = Unsent(d)
      /\ Unsent(s)' = Unsent(s)
  BY DEF Unheard, Unit, Unsent
<1>9. ChunksAre(s, Unit(s), Unit(s))'
  BY <1>3, <1>4, <1>8 DEF ChunksAre
<1>10. /\ at[s] \notin Unheard(s) /\ "reduce" \notin Before \cup Final \cup Unsent(s)
       /\ at[s] \in Before \ Late
  BY <1>3 DEF Before, Late, Final, Unsent, Unheard
<1>11. Progress(s)'
  <2>1. failed'[s] \/ s \in joined'
    BY <1>3
  <2>2. failed'[s] \/ at'[d] \notin Unsent(d)
    BY <1>2, <1>4, <1>7, <1>10 DEF Progress
  <2> QED
    BY <1>7, <1>8, <1>9, <1>10, <2>1, <2>2 DEF Progress
<1>12. ASSUME NEW x, x \in Coming(s)' PROVE x \in Coming(s) /\ Expected(s, x)'
  <2>1. x \in Coming(s)
    BY <1>5, <1>12
  <2>2. Expected(s, x)
    BY <2>1 DEF ExchangeInv
  <2> QED
    BY <1>7, <1>8, <1>10, <2>1, <2>2 DEF Expected
<1>13. ASSUME NEW x, x \in Coming(d)' PROVE x \in Coming(d) \/ (SentBy(s, x)' /\ Expected(d, x))
  <2>1. CASE x \in Coming(d)
    BY <2>1
  <2>2. CASE x = m /\ failed' = failed
    <3>1. x.tag = Own(s) /\ x.content = Unit(s) /\ Own(s) # Tag /\ Own(s) # Other(s)
      BY <1>4, <2>2, SideFacts DEF ChunksAre
    <3>2. s \in joined'
      BY <1>3, <1>4, <2>2
    <3>3. SentBy(s, x)'
      BY <1>8, <3>1, <3>2 DEF SentBy
    <3>4. failed[d] \/ at[d] \in Before \cup {"reduce"}
      <4>1. s \notin joined /\ at[d] \in Before \cup {"reduce", "forward", "recvSum"} \cup Final
        <5>1. at[d] \in BothPcs \cup ClientPcs \cup ServerPcs
          BY <1>1, <1>2 DEF TypeOK
        <5> QED
          BY <1>2, <1>10, <5>1 DEF BothPcs, ClientPcs, ServerPcs, Before, Final, Progress
      <4> QED
        BY <1>1, <1>2, <4>1 DEF Progress
    <3> QED
      BY <1>1, <2>2, <3>1, <3>3, <3>4 DEF Expected
  <2> QED
    BY <1>5, <1>13, <2>1, <2>2
<1>14. joined' = joined \/ joined' = joined \cup {s}
  BY <1>3
<1>15. (at[s] \in Late => at'[s] \in Late) /\ (at[s] \notin Unsent(s) => at'[s] \notin Unsent(s))
  BY <1>7, <1>10
<1>16. chunk'[d] = chunk[d]
  BY <1>3
<1> QED
  BY <1>5, <1>7, <1>11, <1>12, <1>13, <1>14, <1>15, <1>16, StepKept

\* The other's chunk is added to the side's copy, and the copy is the sum.
LEMMA ReduceKept == ASSUME ExchangeInv, NEW s \in Sides, Reduce(s) PROVE ExchangeInv'
<1> DEFINE d == Peer(s)
<1>1. /\ d \in Sides /\ d # s /\ Peer(d) = s /\ Own(d) = Other(s)
      /\ Own(s) \in ChunkIds /\ Other(s) \in ChunkIds /\ Own(s) # Other(s)
      /\ Other(s) # Tag
  BY SideFacts
<1>2. TypeOK /\ Progress(s)
  BY DEF ExchangeInv
<1>3. /\ at[s] = "reduce"
      /\ UNCHANGED <<mode, alive, outbox, ret, epFailed, token, joined>>
  BY DEF Reduce
<1>4. PICK k \in DOMAIN inbox[s] :
        /\ TakeFirst(s, Other(s), k)
        /\ \/ /\ chunk' = [chunk EXCEPT ![s][Other(s)] = Plus(@, inbox[s][k].content)]
              /\ Go(s, "forward") /\ failed' = failed
           \/ /\ chunk' = chunk
              /\ Go(s, "recvSum") /\ failed' = [failed EXCEPT ![s] = TRUE]
  BY DEF Reduce, ReceiveFails
<1> DEFINE m == inbox[s][k]
<1>5. /\ Queues' /\ Coming(d)' = Coming(d) /\ m \in Coming(s) /\ m \in Message
      /\ m.tag = Other(s) /\ \A x \in Coming(s)' : x \in Coming(s) /\ x.tag # Other(s)
  BY <1>3, <1>4, QueuesHold, TakeEffect
<1>6. Rest'
  BY <1>2, <1>3 DEF Rest, TypeOK
<1>7. m.content = Unit(d) /\ d \in joined /\ m.content \in Value
  <2>1. SentBy(d, m)
    BY <1>5 DEF ExchangeInv
  <2> QED
    BY <1>1, <1>5, <2>1 DEF SentBy, Message
<1>8. /\ ChunksAre(s, Unit(s), Unit(s)) /\ (failed[s] \/ s \in joined)
      /\ failed[s] \/ at[d] \notin Unsent(d)
  BY <1>2, <1>3 DEF Progress, Unheard
<1> HIDE DEF m
<1>9. /\ chunk' \in [Sides -> [ChunkIds -> Value]] /\ chunk'[d] = chunk[d]
      /\ chunk'[s][Own(s)] = Unit(s)
  <2>1. CASE chunk' = chunk /\ failed' = [failed EXCEPT ![s] = TRUE]
    BY <1>2, <1>8, <2>1 DEF TypeOK, ChunksAre
  <2>2. CASE chunk' = [chunk EXCEPT ![s][Other(s)] = Plus(@, m.content)]
    <3>1. Plus(chunk[s][Other(s)], m.content) = Full
      BY <1>7, <1>8, ContentFacts DEF ChunksAre
    <3>2. chunk' = [chunk EXCEPT ![s] = [chunk[s] EXCEPT ![Other(s)] = Full]]
      BY <2>2, <3>1
    <3>3. chunk[s] \in [ChunkIds -> Value] /\ Full \in Value
      BY <1>2, ContentFacts DEF TypeOK
    <3>4. chunk'[s] = [chunk[s] EXCEPT ![Other(s)] = Full] /\ chunk'[d] = chunk[d]
      BY <1>1, <1>2, <3>2 DEF TypeOK
    <3>5. chunk' \in [Sides -> [ChunkIds -> Value]]
      BY <1>1, <1>2, <3>2, <3>3 DEF TypeOK
    <3> QED
      BY <1>1, <1>8, <3>3, <3>4, <3>5 DEF ChunksAre
  <2> QED
    BY <1>4, <2>1, <2>2 DEF m
<1>10. PICK pc \in {"forward", "recvSum"} :
         /\ Go(s, pc) /\ (pc = "forward" => failed' = failed) /\ (pc = "recvSum" => failed'[s])
         /\ failed' = failed \/ failed' = [failed EXCEPT ![s] = TRUE]
  <2>1. failed' = [failed EXCEPT ![s] = TRUE] => failed'[s]
    BY <1>2 DEF TypeOK
  <2> QED
    BY <1>4, <2>1
<1>11. /\ TypeOK' /\ at'[s] = pc /\ at'[d] = at[d] /\ failed'[d] = failed[d]
       /\ failed[s] => failed'[s]
  <2>1. pc \in PcsOf(s)
    BY DEF PcsOf, BothPcs
  <2> QED
    BY <1>2, <1>3, <1>5, <1>6, <1>9, <1>10, <2>1, TypeKept
<1>12. Unheard(s)' = Unheard(s) /\ Unit(s)' = Unit(s) /\ Unsent(d)' = Unsent(d)
       /\ Full' = Full
  BY DEF Unheard, Unit, Unsent, Full
<1>13. /\ pc \notin Before \cup Final \cup {"reduce"} \cup Unsent(s) /\ at[s] \notin Late \cup Final
       /\ at[s] \notin Unheard(s)
  BY <1>3 DEF Before, Final, Late, Unsent, Unheard
<1>14. Progress(s)'
  <2>1. pc = "forward" => d \in joined' /\ (failed'[s] \/ s \in joined') /\ ChunksAre(s, Unit(s), Full)'
    <3>1. ASSUME pc = "forward" PROVE ChunksAre(s, Unit(s), Full)'
      <4>1. failed' = failed /\ chunk' = [chunk EXCEPT ![s][Other(s)] = Plus(@, m.content)]
        <5>1. pc # "recvSum" /\ at'[s] = "forward"
          BY <1>11, <3>1
        <5>2. ~Go(s, "recvSum")
          BY <1>2, <5>1 DEF Go, TypeOK
        <5> QED
          BY <1>4, <5>2 DEF m
      <4>2. Plus(chunk[s][Other(s)], m.content) = Full
        BY <1>7, <1>8, ContentFacts DEF ChunksAre
      <4>3. chunk'[s][Other(s)] = Full
        BY <1>1, <1>2, <4>1, <4>2 DEF TypeOK
      <4> QED
        BY <1>9, <1>12, <4>3 DEF ChunksAre
    <3>2. pc = "forward" => failed'[s] = failed[s]
      BY <1>10
    <3> QED
      BY <1>3, <1>7, <1>8, <3>1, <3>2
  <2>2. failed'[s] \/ at'[d] \notin Unsent(d)
    BY <1>8, <1>11
  <2> QED
    BY <1>9, <1>10, <1>11, <1>12, <1>13, <2>1, <2>2 DEF Progress
<1>15. ASSUME NEW x, x \in Coming(s)' PROVE x \in Coming(s) /\ Expected(s, x)'
  <2>1. x \in Coming(s) /\ x.tag # Other(s)
    BY <1>5, <1>15
  <2>2. Expected(s, x)
    BY <2>1 DEF ExchangeInv
  <2> QED
    BY <1>11, <1>12, <1>13, <2>1, <2>2 DEF Expected
<1>16. (at[s] \in Late => at'[s] \in Late) /\ (at[s] \notin Unsent(s) => at'[s] \notin Unsent(s))
  BY <1>11, <1>13
<1> QED
  BY <1>3, <1>5, <1>9, <1>11, <1>14, <1>15, <1>16, StepKept

\* The sum is sent to the side whose chunk it is, which has no sum yet.
LEMMA ForwardKept == ASSUME ExchangeInv, NEW s \in Sides, Forward(s) PROVE ExchangeInv'
<1> DEFINE d == Peer(s)
           m == [tag |-> Other(s), content |-> chunk[s][Other(s)]]
<1>1. d \in Sides /\ d # s /\ Peer(d) = s /\ Own(d) = Other(s) /\ Other(s) \in ChunkIds
      /\ \A q \in Sides : q = s \/ q = d
  BY SideFacts
<1>2. TypeOK /\ Progress(s) /\ Progress(d)
  BY <1>1 DEF ExchangeInv
<1>3. /\ at[s] = "forward" /\ UNCHANGED <<mode, alive, chunk, ret, epFailed, token, joined>>
      /\ SendBlock(s, Other(s), chunk[s][Other(s)], "recvSum", "recvSum")
  BY DEF Forward
<1>4. /\ ChunksAre(s, Unit(s), Full) /\ d \in joined /\ (failed[s] \/ s \in joined)
      /\ failed[s] \/ at[d] \notin Unsent(d)
  BY <1>2, <1>3 DEF Progress, Unheard
<1>5. /\ Queues' /\ Coming(s)' = Coming(s) /\ Go(s, "recvSum")
      /\ \/ Coming(d)' = Coming(d) \cup {m} /\ failed' = failed
         \/ Coming(d)' = Coming(d) /\ failed' = [failed EXCEPT ![s] = TRUE]
  <2>1. \A x \in Coming(d) : x.tag # Other(s)
    BY <1>3, NotYetSent
  <2>2. Queues /\ failed \in [Sides -> BOOLEAN]
    BY <1>2, QueuesHold DEF TypeOK
  <2>3. Other(s) \in ChunkIds \cup {Tag} /\ chunk[s][Other(s)] \in Value
    BY <1>1, <1>2 DEF TypeOK
  <2> QED
    BY <1>3, <2>1, <2>2, <2>3, SendEffect
<1>6. Rest' /\ mode' = mode /\ chunk' \in [Sides -> [ChunkIds -> Value]]
  BY <1>2, <1>3 DEF Rest, TypeOK
<1>7. /\ TypeOK' /\ at'[s] = "recvSum" /\ at'[d] = at[d] /\ failed'[d] = failed[d]
      /\ failed[s] => failed'[s]
  <2>1. "recvSum" \in PcsOf(s)
    BY DEF PcsOf, BothPcs
  <2> QED
    BY <1>2, <1>3, <1>5, <1>6, <2>1, TypeKept
<1>8. /\ Unheard(s)' = Unheard(s) /\ Unit(s)' = Unit(s) /\ Unsent(d)' = Unsent(d)
      /\ Unsent(s)' = Unsent(s) /\ Full' = Full
  BY DEF Unheard, Unit, Unsent, Full
<1>9. ChunksAre(s, Unit(s), Full)'
  BY <1>3, <1>4, <1>8 DEF ChunksAre
<1>10. /\ "recvSum" \notin Before \cup Final \cup Unsent(s)
       /\ at[s] \notin Before \cup Late \cup Unheard(s) /\ "recvSum" \in Late
  BY <1>3 DEF Before, Late, Final, Unsent, Unheard
<1>11. Progress(s)'
  <2>1. failed'[s] \/ joined' = Sides
    <3>1. joined' \subseteq Sides /\ d \in joined'
      BY <1>2, <1>3, <1>4 DEF TypeOK
    <3>2. failed'[s] \/ s \in joined'
      BY <1>3, <1>4, <1>7
    <3> QED
      BY <1>1, <3>1, <3>2
  <2>2. failed'[s] \/ at'[d] \notin Unsent(d)
    BY <1>4, <1>7
  <2> QED
    BY <1>7, <1>8, <1>9, <1>10, <2>1, <2>2 DEF Progress, ChunksAre
<1>12. ASSUME NEW x, x \in Coming(s)' PROVE x \in Coming(s) /\ Expected(s, x)'
  <2>1. x \in Coming(s)
    BY <1>5, <1>12
  <2>2. Expected(s, x)
    BY <2>1 DEF ExchangeInv
  <2>3. x.tag = Other(s) => failed[s]
    BY <1>3, <1>10, <2>2, SideFacts DEF Expected
  <2> QED
    BY <1>7, <1>8, <1>10, <2>1, <2>2, <2>3 DEF Expected
<1>13. ASSUME NEW x, x \in Coming(d)' PROVE x \in Coming(d) \/ (SentBy(s, x)' /\ Expected(d, x))
  <2>1. CASE x \in Coming(d)
    BY <2>1
  <2>2. CASE x = m /\ failed' = failed
    <3>1. x.tag = Other(s) /\ x.content = Full /\ Other(s) # Tag /\ Own(s) # Other(s)
      BY <1>4, <2>2, SideFacts DEF ChunksAre
    <3>2. SentBy(s, x)'
      BY <1>7, <1>8, <1>10, <3>1 DEF SentBy
    <3>3. failed[d] \/ at[d] \notin Final
      BY <1>1, <1>2, <1>10 DEF Progress
    <3> QED
      BY <1>1, <3>1, <3>2, <3>3 DEF Expected
  <2> QED
    BY <1>5, <1>13, <2>1, <2>2
<1>14. (at[s] \in Late => at'[s] \in Late) /\ (at[s] \notin Unsent(s) => at'[s] \notin Unsent(s))
  BY <1>7, <1>10
<1>15. chunk'[d] = chunk[d] /\ joined' = joined
  BY <1>3
<1> QED
  BY <1>5, <1>7, <1>11, <1>12, <1>13, <1>14, <1>15, StepKept

\* The sum of the side's own chunk is received: it has both sums.
LEMMA RecvSumKept == ASSUME ExchangeInv, NEW s \in Sides, RecvSum(s) PROVE ExchangeInv'
<1> DEFINE d == Peer(s)
           next == IF s = "client" THEN "close" ELSE "flush"
<1>1. /\ d \in Sides /\ d # s /\ Peer(d) = s /\ Other(d) = Own(s)
      /\ Own(s) \in ChunkIds /\ Other(s) \in ChunkIds /\ Own(s) # Other(s)
      /\ Own(s) # Tag
  BY SideFacts
<1>2. TypeOK /\ Progress(s)
  BY DEF ExchangeInv
<1>3. /\ at[s] = "recvSum"
      /\ UNCHANGED <<mode, alive, outbox, ret, epFailed, token, joined>>
  BY DEF RecvSum
<1>4. Rest'
  BY <1>2, <1>3 DEF Rest, TypeOK
<1>5. /\ next \in PcsOf(s) /\ next \in Final
      /\ next \notin Before \cup {"reduce", "forward", "recvSum"} \cup Unsent(s) \cup Unheard(s)
      /\ Final \subseteq Late /\ at[s] \notin Final \cup Unheard(s) \cup Before
  BY <1>3 DEF PcsOf, BothPcs, ServerPcs, Final, Late, Before, Unsent, Unheard
<1> HIDE DEF next
<1>6. CASE ReceiveFails(s, Own(s), next) /\ chunk' = chunk
  BY <1>3, <1>4, <1>5, <1>6, LostKept
<1>7. ASSUME NEW k \in DOMAIN inbox[s], TakeFirst(s, Own(s), k),
             chunk' = [chunk EXCEPT ![s][Own(s)] = inbox[s][k].content],
             Go(s, next), failed' = failed
      PROVE  ExchangeInv'
  <2> DEFINE m == inbox[s][k]
  <2>1. /\ Queues' /\ Coming(d)' = Coming(d) /\ m \in Coming(s) /\ m \in Message
        /\ m.tag = Own(s) /\ \A x \in Coming(s)' : x \in Coming(s) /\ x.tag # Own(s)
    BY <1>3, <1>7, QueuesHold, TakeEffect
  <2>2. m.content = Full /\ at[d] \in Late
    <3>1. SentBy(d, m)
      BY <2>1 DEF ExchangeInv
    <3> QED
      BY <1>1, <2>1, <3>1 DEF SentBy
  <2>3. /\ failed[s] \/ (ChunksAre(s, Unit(s), Full) /\ joined = Sides)
        /\ failed[s] \/ at[d] \notin Unsent(d)
    BY <1>2, <1>3, <1>5 DEF Progress
  <2>4. chunk' = [chunk EXCEPT ![s] = [chunk[s] EXCEPT ![Own(s)] = Full]]
    BY <1>7, <2>2
  <2>5. chunk[s] \in [ChunkIds -> Value] /\ Full \in Value
    BY <1>2, ContentFacts DEF TypeOK
  <2>6. chunk'[s] = [chunk[s] EXCEPT ![Own(s)] = Full] /\ chunk'[d] = chunk[d]
    BY <1>1, <1>2, <2>4 DEF TypeOK
  <2>7. chunk' \in [Sides -> [ChunkIds -> Value]]
    BY <1>1, <1>2, <2>4, <2>5 DEF TypeOK
  <2>8. /\ TypeOK' /\ at'[s] = next /\ at'[d] = at[d] /\ failed'[d] = failed[d]
    BY <1>2, <1>3, <1>4, <1>5, <1>7, <2>1, <2>7, TypeKept
  <2>9. Unheard(s)' = Unheard(s) /\ Unsent(d)' = Unsent(d) /\ Full' = Full
    BY DEF Unheard, Unsent, Full
  <2>10. failed'[s] \/ (ChunksAre(s, Full, Full)' /\ joined' = Sides)
    BY <1>1, <1>3, <1>7, <2>3, <2>5, <2>6, <2>9 DEF ChunksAre
  <2>11. Progress(s)'
    <3>1. failed'[s] \/ at'[d] \notin Unsent(d)
      BY <1>7, <2>3, <2>8
    <3> QED
      BY <1>5, <2>2, <2>8, <2>9, <2>10, <3>1 DEF Progress
  <2>12. ASSUME NEW x, x \in Coming(s)' PROVE x \in Coming(s) /\ Expected(s, x)'
    <3>1. x \in Coming(s) /\ x.tag # Own(s)
      BY <2>1, <2>12
    <3>2. Expected(s, x)
      BY <3>1 DEF ExchangeInv
    <3>3. failed[s]
      BY <1>3, <1>5, <3>1, <3>2 DEF Expected
    <3> QED
      BY <1>7, <3>1, <3>3 DEF Expected
  <2> QED
    BY <1>3, <1>5, <1>7, <2>1, <2>6, <2>8, <2>11, <2>12, StepKept
<1> QED
  BY <1>6, <1>7 DEF RecvSum, next

LEMMA ExchangeInit == Init => ExchangeInv
<1> SUFFICES ASSUME Init PROVE ExchangeInv
  OBVIOUS
<1>1. \A s \in Sides : inbox[s] = <<>> /\ outbox[s] = <<>> /\ ~failed[s] /\ s \notin joined
  BY DEF Init
<1>2. \A s \in Sides : Queues /\ Coming(s) = {}
  BY <1>1, SideFacts DEF Init, Queues, TagsDistinct, Distinct, MessagesIn, Coming
<1>3. \A s \in Sides : at[s] = IF s = "client" THEN "connect" ELSE "listen"
  BY DEF Init
<1>4. \A s \in Sides : ChunksAre(s, Unit(s), Unit(s))
  BY SideFacts DEF Init, ChunksAre, Unit
<1>5. TypeOK
  <2>1. chunk \in [Sides -> [ChunkIds -> Value]]
    BY DEF Init, Value
  <2>2. mode \in {"none", "send", "recv", "keepalive"}
    BY ModesAssumption DEF Init
  <2>3. at \in [Sides -> BothPcs \cup ClientPcs \cup ServerPcs]
    BY DEF Init, ClientPcs, ServerPcs
  <2>4. at["client"] \notin ServerPcs /\ at["server"] \notin ClientPcs
    BY <1>3 DEF Sides, ClientPcs, ServerPcs
  <2> QED
    BY <2>1, <2>2, <2>3, <2>4 DEF Init, TypeOK
<1>6. \A s \in Sides : Progress(s)
  BY <1>1, <1>3, <1>4 DEF Progress, Before, Final, Unheard, Sides
<1> QED
  BY <1>2, <1>5, <1>6 DEF ExchangeInv, Queues

LEMMA ClientTextKept ==
  ASSUME ExchangeInv, SendAddr \/ RecvString PROVE ExchangeInv'
<1> DEFINE s == "client"
<1>1. s \in Sides /\ TypeOK
  BY DEF Sides, ExchangeInv
<1>2. CASE SendAddr
  <2>1. Rest'
    <3>1. alive' = [alive EXCEPT !["client"] = ~(mode = "recv" /\ at'["client"] = "recvString")]
      BY <1>2 DEF SendAddr
    <3>2. UNCHANGED <<ret, epFailed, token>>
      BY <1>2 DEF SendAddr
    <3> QED
      BY <1>1, <3>1, <3>2 DEF TypeOK, Rest
  <2>2. SendBlock("client", Tag, Text, "recvString", "close") /\ at["client"] = "sendAddr"
        /\ UNCHANGED <<mode, chunk, joined>>
    BY <1>2 DEF SendAddr
  <2> QED
    BY <1>1, <2>1, <2>2, TextKept
<1>3. CASE RecvString
  <2>1. at["client"] = "recvString" /\ UNCHANGED <<mode, outbox, chunk, joined>>
    BY <1>3 DEF RecvString
  <2>2. Rest'
    <3>1. ret' = ret \/ ret' = [ret EXCEPT !["client"] = 0]
      BY <1>3 DEF RecvString
    <3>2. UNCHANGED <<alive, epFailed, token>>
      BY <1>3 DEF RecvString
    <3> QED
      BY <1>1, <3>1, <3>2 DEF TypeOK, Rest
  <2>3. CASE ReceiveFails("client", Tag, "close")
    <3>1. "close" \in PcsOf("client") /\ "close" \in Final
      BY DEF PcsOf, BothPcs, Final
    <3> QED
      BY <1>1, <2>1, <2>2, <2>3, <3>1, LostKept
  <2>4. ASSUME NEW k \in DOMAIN inbox["client"], TakeFirst("client", Tag, k),
               Go("client", "sendOwn"), failed' = failed
        PROVE  ExchangeInv'
    BY <1>1, <2>1, <2>2, <2>4, HeardKept
  <2> QED
    BY <1>3, <2>3, <2>4 DEF RecvString
<1> QED
  BY <1>2, <1>3

LEMMA ServerTextKept ==
  ASSUME ExchangeInv, SendString \/ RecvAddr PROVE ExchangeInv'
<1> DEFINE s == "server"
<1>1. s \in Sides /\ TypeOK
  BY DEF Sides, ExchangeInv
<1>2. CASE SendString
  <2> DEFINE ok == IF mode = "keepalive" THEN "waitClient" ELSE "sendOwn"
             bad == IF ErrModePeer THEN "close" ELSE "waitFailure"
  <2>1. Rest'
    <3>1. ret' = [ret EXCEPT !["server"] = IF at'["server"] = "close" THEN -1 ELSE 0]
      BY <1>2 DEF SendString
    <3>2. UNCHANGED <<alive, epFailed, token>>
      BY <1>2 DEF SendString
    <3> QED
      BY <1>1, <3>1, <3>2 DEF TypeOK, Rest
  <2>2. SendBlock("server", Tag, Text, ok, bad) /\ at["server"] = "sendString"
        /\ UNCHANGED <<mode, chunk, joined>>
    BY <1>2 DEF SendString
  <2>3. ok \in {"waitClient", "sendOwn"} /\ bad \in {"close", "waitFailure"}
    OBVIOUS
  <2> HIDE DEF ok, bad
  <2> QED
    BY <1>1, <2>1, <2>2, <2>3, TextKept
<1>3. CASE RecvAddr
  <2>1. at["server"] = "recvAddr" /\ UNCHANGED <<mode, outbox, chunk, joined>>
    BY <1>3 DEF RecvAddr
  <2>2. Rest'
    <3>1. alive' = alive \/ alive' = [alive EXCEPT !["server"] = mode # "send"]
      BY <1>3 DEF RecvAddr
    <3>2. UNCHANGED <<ret, epFailed, token>>
      BY <1>3 DEF RecvAddr
    <3> QED
      BY <1>1, <3>1, <3>2 DEF TypeOK, Rest
  <2>3. CASE ReceiveFails("server", Tag, "sync")
    <3>1. "sync" \in PcsOf("server") /\ "sync" \in Final
      BY DEF PcsOf, BothPcs, Final
    <3> QED
      BY <1>1, <2>1, <2>2, <2>3, <3>1, LostKept
  <2>4. ASSUME NEW k \in DOMAIN inbox["server"], TakeFirst("server", Tag, k),
               Go("server", "makeEp"), failed' = failed
        PROVE  ExchangeInv'
    BY <1>1, <2>1, <2>2, <2>4, HeardKept
  <2> QED
    BY <1>3, <2>3, <2>4 DEF RecvAddr
<1> QED
  BY <1>2, <1>3

LEMMA ExchangeNext == ASSUME ExchangeInv, [Next]_vars PROVE ExchangeInv'
<1>1. ASSUME NEW s \in Sides, Both(s) PROVE ExchangeInv'
  <2>1. CASE MakeEp(s) \/ Sync(s) \/ Barrier(s)
    BY <2>1, CalmKept
  <2>2. CASE Deliver(s) \/ PeerFailure(s)
    BY <2>2, StillKept
  <2>3. CASE Close(s) \/ SendOwn(s) \/ Reduce(s) \/ Forward(s) \/ RecvSum(s)
    BY <2>3, CloseKept, SendOwnKept, ReduceKept, ForwardKept, RecvSumKept
  <2> QED
    BY <1>1, <2>1, <2>2, <2>3 DEF Both
<1>2. CASE Client
  BY <1>1, <1>2, CalmKept, ClientTextKept DEF Client, Sides
<1>3. CASE Server
  BY <1>1, <1>3, CalmKept, ServerTextKept DEF Server, Sides
<1>4. CASE KillClient
  BY <1>4, StillKept DEF Sides
<1>5. CASE UNCHANGED vars
  <2>1. Queues' /\ \A q \in Sides : Coming(q)' = Coming(q)
    BY <1>5, CalmQueues DEF vars
  <2> QED
    BY <1>5, <2>1 DEF vars, data, ExchangeInv, TypeOK, Queues, Progress, ChunksAre, SentBy,
                      Expected, Unsent, Unheard, Unit
<1> QED
  BY <1>2, <1>3, <1>4, <1>5 DEF Next, Run, Ended

LEMMA ExchangeHolds == Spec => []ExchangeInv
  BY ExchangeInit, ExchangeNext, PTL DEF Spec

\* Every variable has its type, whichever way the sends and receives end.
THEOREM TypeCorrect == Spec => []TypeOK
<1>1. ExchangeInv => TypeOK
  BY DEF ExchangeInv
<1> QED
  BY <1>1, ExchangeHolds, PTL

\* The chunks of a side whose exchange is over without a failure.
LEMMA FinalIsSum ==
  ASSUME ExchangeInv, NEW s \in Sides, at[s] \in Final, ~failed[s]
  PROVE  chunk[s] = SumOfAll /\ joined = Sides
<1>1. ChunksAre(s, Full, Full) /\ joined = Sides /\ chunk[s] \in [ChunkIds -> Value]
  BY DEF ExchangeInv, TypeOK, Progress
<1>2. \A c \in ChunkIds : chunk[s][c] = Full
  BY <1>1, SideFacts DEF ChunksAre
<1> QED
  BY <1>1, <1>2 DEF SumOfAll, Full

\* A process that returns success took part in an allreduce that is complete
\* on both sides, or that has failed visibly on the side that lacks it.
THEOREM SuccessIsSum == Spec => []SuccessMeansSum
<1>1. Inv /\ ExchangeInv => SuccessMeansSum
  <2> SUFFICES ASSUME Inv, ExchangeInv, NEW s \in Sides, mode = "none", at[s] = "over",
                      ret[s] = 0, NEW p \in Sides, ~failed[p]
               PROVE  chunk[p] = SumOfAll
    BY DEF SuccessMeansSum
  <2>1. at[s] \in Final /\ at[Peer(s)] \in Final
    BY PeerFacts DEF Inv, Final
  <2>2. at[p] \in Final
    BY <2>1, SideFacts
  <2> QED
    BY <2>2, FinalIsSum
<1> QED
  BY <1>1, InitInv, NextInv, ExchangeHolds, PTL DEF Spec

\* When a worker is destroyed and no step has failed, no message is on its way
\* to it, neither held by the peer nor waiting to be received.
THEOREM NoMessageInFlight == Spec => []NothingInFlight
<1>1. ExchangeInv => NothingInFlight
  <2> SUFFICES ASSUME ExchangeInv, NEW s \in Sides, at[s] = "over", \A p \in Sides : ~failed[p]
               PROVE  outbox[Peer(s)] = <<>> /\ inbox[s] = <<>>
    BY DEF NothingInFlight
  <2>1. at[s] \notin Unheard(s) \cup Before \cup {"reduce"} /\ at[s] \in Final
    BY DEF Unheard, Before, Final
  <2>2. \A m \in Coming(s) : FALSE
    BY <2>1 DEF ExchangeInv, Expected
  <2>3. ASSUME NEW q \in Seq(Message), q # <<>> PROVE \E m : m \in MessagesIn(q)
    <3>1. 1 \in DOMAIN q
      BY <2>3
    <3> QED
      BY <3>1 DEF MessagesIn
  <2>4. outbox[Peer(s)] \in Seq(Message) /\ inbox[s] \in Seq(Message)
    BY SideFacts DEF ExchangeInv, TypeOK
  <2> QED
    BY <2>2, <2>3, <2>4 DEF Coming
<1> QED
  BY <1>1, ExchangeHolds, PTL

-----------------------------------------------------------------------------
(* HelloWorld implements AllReduce. *)

\* The mapping of Reduction.
Results == [s \in Sides |->
  IF at[s] \in {"flush", "close", "sync", "barrier", "over"} /\ ~failed[s]
  THEN chunk[s] ELSE <<>>]

\* A step is about its side; behind the exchange it leaves the chunks alone.
Local(s) ==
  /\ at'[Peer(s)] = at[Peer(s)] /\ chunk'[Peer(s)] = chunk[Peer(s)]
  /\ failed'[Peer(s)] = failed[Peer(s)]
  /\ at[s] \in Final => at'[s] \in Final /\ chunk'[s] = chunk[s] /\ failed'[s] = failed[s]

LEMMA LocalFrom ==
  ASSUME TypeOK, NEW s \in Sides, NEW pc, Go(s, pc) \/ at' = at,
         chunk' = chunk \/ \E v : chunk' = [chunk EXCEPT ![s] = v],
         failed' = failed \/ \E b : failed' = [failed EXCEPT ![s] = b],
         at[s] \in Final =>
           (pc \in Final \/ at' = at) /\ chunk' = chunk /\ failed' = failed
  PROVE  Local(s)
<1>1. Peer(s) \in Sides /\ Peer(s) # s
  BY SideFacts
<1>2. at'[Peer(s)] = at[Peer(s)] /\ (at' = at \/ at'[s] = pc)
  BY <1>1 DEF TypeOK, Go
<1>3. chunk'[Peer(s)] = chunk[Peer(s)] /\ failed'[Peer(s)] = failed[Peer(s)]
  BY <1>1 DEF TypeOK
<1> QED
  BY <1>2, <1>3 DEF Local

LEMMA SendIsLocal ==
  ASSUME TypeOK, NEW s \in Sides, NEW tag, NEW content, NEW ok, NEW bad,
         SendBlock(s, tag, content, ok, bad), at[s] \notin Final, chunk' = chunk
  PROVE  Local(s)
<1>1. PICK result \in SendResults :
        /\ failed' = [failed EXCEPT ![s] = @ \/ result = "error"]
        /\ Go(s, IF result = "error" THEN bad ELSE ok)
  BY DEF SendBlock
<1>2. \E b : failed' = [failed EXCEPT ![s] = b]
  BY <1>1
<1> QED
  BY <1>1, <1>2, LocalFrom

LEMMA StepsAreLocal ==
  ASSUME TypeOK, NEW s \in Sides, (s = "client" /\ Client) \/ (s = "server" /\ Server)
  PROVE  Local(s) /\ (joined' = joined \/ SendOwn(s))
<1> USE DEF Final
<1>1. CASE MakeEp(s)
  <2>1. PICK pc : Go(s, pc)
    BY <1>1 DEF MakeEp
  <2>2. /\ at[s] \notin Final /\ chunk' = chunk /\ joined' = joined
        /\ failed' = failed \/ \E b : failed' = [failed EXCEPT ![s] = b]
    BY <1>1 DEF MakeEp, data
  <2> QED
    BY <2>1, <2>2, LocalFrom
<1>2. CASE SendOwn(s) \/ Forward(s)
  <2>1. /\ at[s] \notin Final /\ chunk' = chunk /\ (joined' = joined \/ SendOwn(s))
        /\ \E tag, content, ok, bad : SendBlock(s, tag, content, ok, bad)
    BY <1>2 DEF SendOwn, Forward
  <2> QED
    BY <2>1, SendIsLocal
<1>3. CASE Reduce(s) \/ RecvSum(s)
  <2>1. PICK pc : Go(s, pc)
    BY <1>3 DEF Reduce, RecvSum, ReceiveFails
  <2>2. /\ at[s] \notin Final /\ joined' = joined
        /\ chunk' = chunk \/ \E v : chunk' = [chunk EXCEPT ![s] = v]
        /\ failed' = failed \/ \E b : failed' = [failed EXCEPT ![s] = b]
    BY <1>3 DEF Reduce, RecvSum, ReceiveFails
  <2> QED
    BY <2>1, <2>2, LocalFrom
<1>4. CASE Close(s) \/ Sync(s) \/ Barrier(s)
  <2>1. PICK pc \in Final : Go(s, pc)
    BY <1>4 DEF Close, Sync, Barrier
  <2>2. UNCHANGED <<chunk, failed, joined>>
    BY <1>4 DEF Close, Sync, Barrier, data
  <2> QED
    BY <2>1, <2>2, LocalFrom
<1>5. CASE Deliver(s) \/ PeerFailure(s)
  BY <1>5, LocalFrom DEF Deliver, PeerFailure, data
<1>6. CASE s = "client" /\ (Connect \/ OobRecv)
  <2>1. PICK pc : Go(s, pc)
    BY <1>6 DEF Connect, OobRecv
  <2>2. /\ at[s] \notin Final /\ chunk' = chunk /\ joined' = joined
        /\ failed' = failed \/ \E b : failed' = [failed EXCEPT ![s] = b]
    BY <1>6 DEF Connect, OobRecv, data
  <2> QED
    BY <2>1, <2>2, LocalFrom
<1>7. CASE s = "server" /\ (Listen \/ Accept \/ WaitFailure)
  <2>1. PICK pc : Go(s, pc)
    BY <1>7 DEF Listen, Accept, WaitFailure
  <2>2. at[s] \notin Final /\ chunk' = chunk /\ joined' = joined /\ failed' = failed
    BY <1>7 DEF Listen, Accept, WaitFailure, data
  <2> QED
    BY <2>1, <2>2, LocalFrom
<1>8. CASE s = "server" /\ Flush
  BY <1>8, LocalFrom DEF Flush, data
<1>9. CASE (s = "client" /\ SendAddr) \/ (s = "server" /\ SendString)
  <2>1. /\ at[s] \notin Final /\ chunk' = chunk /\ joined' = joined
        /\ \E tag, content, ok, bad : SendBlock(s, tag, content, ok, bad)
    BY <1>9 DEF SendAddr, SendString
  <2> QED
    BY <2>1, SendIsLocal
<1>10. CASE (s = "client" /\ RecvString) \/ (s = "server" /\ RecvAddr)
  <2>1. PICK pc : Go(s, pc)
    BY <1>10 DEF RecvString, RecvAddr, ReceiveFails
  <2>2. /\ at[s] \notin Final /\ chunk' = chunk /\ joined' = joined
        /\ failed' = failed \/ \E b : failed' = [failed EXCEPT ![s] = b]
    BY <1>10 DEF RecvString, RecvAddr, ReceiveFails
  <2> QED
    BY <2>1, <2>2, LocalFrom
<1>11. CASE Both(s)
  BY <1>1, <1>2, <1>3, <1>4, <1>5, <1>11 DEF Both
<1>12. CASE s = "client" /\ Client
  BY <1>6, <1>9, <1>10, <1>11, <1>12 DEF Client
<1>13. CASE s = "server" /\ Server
  BY <1>7, <1>8, <1>9, <1>10, <1>11, <1>13 DEF Server
<1> QED
  BY <1>12, <1>13

\* A side's result appears when it reaches the end of its exchange unfailed:
\* it then has the sum, and everybody has contributed.
LEMMA LocalMaps ==
  ASSUME ExchangeInv, ExchangeInv', NEW s \in Sides, Local(s), joined' = joined
  PROVE  \/ Results' = Results
         \/ /\ joined = Sides /\ Results[s] = <<>>
            /\ Results' = [Results EXCEPT ![s] = SumOfAll]
<1> USE DEF Final
<1>1. Peer(s) \in Sides /\ \A q \in Sides : q = s \/ q = Peer(s)
  BY SideFacts
<1>2. \A q \in Sides \ {s} : Results'[q] = Results[q]
  BY <1>1 DEF Results, Local
<1>3. /\ Results' = [q \in Sides |-> Results'[q]] /\ Results = [q \in Sides |-> Results[q]]
  BY DEF Results
<1>4. CASE at[s] \in Final
  <2>1. Results'[s] = Results[s]
    BY <1>4 DEF Results, Local
  <2> QED
    BY <1>2, <1>3, <2>1
<1>5. CASE at[s] \notin Final
  <2>1. Results[s] = <<>>
    BY <1>5 DEF Results
  <2>2. CASE at'[s] \in Final /\ ~failed'[s]
    <3>1. chunk'[s] = SumOfAll /\ joined' = Sides
      <4>1. Progress(s)' /\ TypeOK'
        BY DEF ExchangeInv
      <4>2. ChunksAre(s, Full, Full)' /\ joined' = Sides /\ chunk'[s] \in [ChunkIds -> Value]
        BY <2>2, <4>1 DEF Progress, TypeOK
      <4>3. \A c \in ChunkIds : chunk'[s][c] = Full
        BY <4>2, SideFacts DEF ChunksAre, Full
      <4> QED
        BY <4>2, <4>3 DEF SumOfAll, Full
    <3>2. Results'[s] = SumOfAll
      BY <2>2, <3>1 DEF Results
    <3> QED
      BY <1>2, <1>3, <2>1, <3>1, <3>2
  <2>3. CASE ~(at'[s] \in Final /\ ~failed'[s])
    <3>1. Results'[s] = <<>>
      BY <2>3 DEF Results
    <3> QED
      BY <1>2, <1>3, <2>1, <3>1
  <2> QED
    BY <2>2, <2>3
<1> QED
  BY <1>4, <1>5

\* The exchange is an allreduce for each side that has had no failure: its
\* result is the sum of both vectors, it has it only after both contributed,
\* and it keeps it, whatever fails at the other side (IsAllReduce).
THEOREM ImplementsAllReduce == Spec => IsAllReduce
<1>1. Init => Reduction!Init
  <2> SUFFICES ASSUME Init PROVE Reduction!Init
    OBVIOUS
  <2>1. \A s \in Sides : at[s] \notin {"flush", "close", "sync", "barrier", "over"}
    BY DEF Init, Sides
  <2>2. joined = {}
    BY DEF Init
  <2> QED
    BY <2>1, <2>2 DEF Reduction!Init
<1>2. ExchangeInv /\ ExchangeInv' /\ [Next]_vars => [Reduction!Next]_(Reduction!vars)
  <2> SUFFICES ASSUME ExchangeInv, ExchangeInv', [Next]_vars
               PROVE  [Reduction!Next]_(Reduction!vars)
    OBVIOUS
  <2>1. TypeOK
    BY DEF ExchangeInv
  <2>2. CASE KillClient \/ UNCHANGED vars
    BY <2>2 DEF KillClient, vars, data, Reduction!vars
  <2>3. ASSUME NEW s \in Sides, (s = "client" /\ Client) \/ (s = "server" /\ Server)
        PROVE  [Reduction!Next]_(Reduction!vars)
    <3>1. Local(s) /\ (joined' = joined \/ SendOwn(s))
      BY <2>1, <2>3, StepsAreLocal
    <3>2. CASE joined' = joined
      <4>1. \/ Results' = Results
            \/ /\ joined = Sides /\ Results[s] = <<>>
               /\ Results' = [Results EXCEPT ![s] = SumOfAll]
        BY <3>1, <3>2, LocalMaps
      <4>2. CASE Results' = Results
        BY <3>2, <4>2 DEF Results, Reduction!vars
      <4>3. CASE /\ joined = Sides /\ Results[s] = <<>>
                 /\ Results' = [Results EXCEPT ![s] = SumOfAll]
        <5>1. Reduction!Finish(s)
          BY <3>2, <4>3 DEF Results, Reduction!Finish
        <5> QED
          BY <5>1 DEF Reduction!Next
      <4> QED
        BY <4>1, <4>2, <4>3
    <3>3. CASE SendOwn(s) /\ joined' # joined
      <4>1. joined' = joined \cup {s} /\ at[s] = "sendOwn" /\ s \notin joined
        BY <3>3 DEF SendOwn
      <4>2. Results' = Results
        <5>1. at'[s] = "reduce"
          <6>1. PICK result \in SendResults : Go(s, IF result = "error" THEN "reduce" ELSE "reduce")
            BY <3>3 DEF SendOwn, SendBlock
          <6> QED
            BY <2>1, <6>1 DEF Go, TypeOK
        <5>2. \A q \in Sides : q = s \/ q = Peer(s)
          BY SideFacts
        <5>3. \A q \in Sides : Results'[q] = Results[q]
          BY <3>1, <4>1, <5>1, <5>2 DEF Results, Local
        <5> QED
          BY <5>3 DEF Results
      <4>3. Reduction!Contribute(s)
        BY <4>1, <4>2 DEF Results, Reduction!Contribute
      <4> QED
        BY <4>3 DEF Reduction!Next
    <3> QED
      BY <3>1, <3>2, <3>3
  <2> QED
    BY <2>2, <2>3 DEF Next, Run, Ended, Sides
<1> QED
  BY <1>1, <1>2, ExchangeHolds, PTL DEF Spec, IsAllReduce
=============================================================================
