------------------------------ MODULE Schedule ------------------------------
(***************************************************************************)
(* A schedule: what xml_parser.cc reads from the XML file, and the facts   *)
(* every interpreter derives from it before a thread runs.                 *)
(*                                                                         *)
(* Sched[r] is rank r: the number of chunks of each of its buffers and the *)
(* sequence of its thread blocks (tbs); a thread block is a sequence of    *)
(* steps.  Rank, tb and step numbers are positions in the file, from 0, as *)
(* in the code; in every shipped schedule the ids are the positions.       *)
(***************************************************************************)
EXTENDS Integers, Sequences, FiniteSets

CONSTANTS NRanks,  \* world_size
          Sched    \* xmlparser.ranks

Ranks == 0 .. NRanks - 1

BufferType == {"i", "o", "s"}   \* input, output, scratch

\* The op_type values, grouped by what the interpreter does for them.
Receiving  == {"r", "rrc", "rrs", "rrcs", "rcs"}
Reducing   == {"rrc", "rrs", "rrcs"}
Forwarding == {"rrs", "rrcs", "rcs"}
OpType     == Receiving \cup {"s", "re", "nop"}

Step == [type : OpType, srcbuf : BufferType, srcoff : Int,
         dstbuf : BufferType, dstoff : Int, cnt : Nat,
         depid : Int, deps : Int, hasdep : Nat]

ThreadBlock == [send : Int, recv : Int, chan : Int, steps : Seq(Step)]

Rank == [chunks : [BufferType -> Nat], tbs : Seq(ThreadBlock)]

-----------------------------------------------------------------------------
\* A thread is named by its rank and its tb id, a place by its thread and
\* the number of a step.
Threads == UNION {{<<r, t>> : t \in 0 .. Len(Sched[r].tbs) - 1} : r \in Ranks}

RankThreads(r) == {th \in Threads : th[1] = r}

Block(th) == Sched[th[1]].tbs[th[2] + 1]

NSteps(th) == Len(Block(th).steps)

Places == UNION {{<<th, s>> : s \in 0 .. NSteps(th) - 1} : th \in Threads}

StepAt(p) == Block(p[1]).steps[p[2] + 1]

\* init_sem_hash: one semaphore for each step that others depend on.
Keys == {p \in Places : StepAt(p).hasdep # 0}

\* The places that wait for another step, and the key "depid/deps" they wait on.
Waits == {p \in Places : StepAt(p).depid # -1}

DepKey(p) == <<<<p[1][1], StepAt(p).depid>>, StepAt(p).deps>>

Waiters == [k \in Keys |-> {p \in Waits : DepKey(p) = k}]

\* connect_to_peer: the tbs of the peer rank that receive from this rank on
\* this channel; the first one is the peer.
PeerCandidates(th) ==
  {q \in Threads : /\ q[1] = Block(th).send
                   /\ Block(q).recv = th[1]
                   /\ Block(q).chan = Block(th).chan}

Peer == [th \in {q \in Threads : PeerCandidates(q) # {}} |->
           CHOOSE q \in PeerCandidates(th) :
             \A p \in PeerCandidates(th) : q[2] =< p[2]]

-----------------------------------------------------------------------------
\* The chunks of all the buffers of all the ranks, and cnt adjacent ones.
Slots == UNION {UNION {{<<r, b, c>> : c \in 0 .. Sched[r].chunks[b] - 1} :
                          b \in BufferType} : r \in Ranks}

Span(r, buf, off, n) == {<<r, buf, c>> : c \in off .. off + n - 1}

\* The chunks of its own rank a step reads and writes.
Reads == [p \in Places |->
  LET st == StepAt(p) IN
  IF st.type \in {"s", "re"}
  THEN Span(p[1][1], st.srcbuf, st.srcoff, st.cnt) ELSE {}]

Writes == [p \in Places |->
  LET st == StepAt(p) IN
  IF st.type \in Receiving \cup {"re"}
  THEN Span(p[1][1], st.dstbuf, st.dstoff, st.cnt) ELSE {}]

-----------------------------------------------------------------------------
\* What the interpreter takes for granted about the file.
ASSUME RanksAssumption == NRanks \in Nat \ {0}

ASSUME SchedAssumption == Sched \in [Ranks -> Rank]

\* connect_to_peer finds a tb for every thread that sends.
ASSUME PeersAssumption ==
  \A p \in Places : StepAt(p).type \in Forwarding \cup {"s"} =>
                      PeerCandidates(p[1]) # {}

\* Every key that is waited on was created by init_sem_hash.
ASSUME DepsAssumption == \A p \in Waits : DepKey(p) \in Keys

\* Every chunk a step touches is inside its buffer.
ASSUME SlotsAssumption == \A p \in Places : Reads[p] \cup Writes[p] \subseteq Slots

-----------------------------------------------------------------------------
(* What a schedule should be like, beyond that: all the shipped ones are.   *)

\* Each step's hasdep is the number of steps that wait for it.
Balanced == \A k \in Keys : Cardinality(Waiters[k]) = StepAt(k).hasdep

\* Every tb that names a rank to send to is received from there.
PeersFound == \A th \in Threads : Block(th).send # -1 => PeerCandidates(th) # {}

\* The steps that must be completed before q starts, of its tb and by depid.
Predecessors(q) == {<<q[1], s>> : s \in 0 .. q[2] - 1}
                     \cup (IF q \in Waits THEN {DepKey(q)} ELSE {})

\* p is one of those, or one of theirs, and so on.
Before(p, q) ==
  \A C \in SUBSET {x \in Places : x[1][1] = q[1][1]} :
    Predecessors(q) \subseteq C /\ (\A x \in C : Predecessors(x) \subseteq C) => p \in C

\* Of two steps of different tbs of a rank that access a chunk, one of them
\* writing it, one comes before the other by the dependencies alone.
ConflictsOrdered ==
  \A p, q \in Places :
    p[1] # q[1] /\ Writes[p] \cap (Reads[q] \cup Writes[q]) # {} =>
      Before(p, q) \/ Before(q, p)

\* Every tb has a step that comes after one of each other tb of its rank, so
\* that none of them ends before all have begun.
Interlocked ==
  \A a, b \in Threads :
    a # b /\ a[1] = b[1] =>
      \E p, q \in Places : p[1] = b /\ q[1] = a /\ Before(p, q)

\* The steps of a tb that send, and those that receive, with tag t.
Sends(th, t) == {p \in Places : /\ p[1] = th /\ StepAt(p).dstoff = t
                                /\ StepAt(p).type \in Forwarding \cup {"s"}}

Receives(th, t) == {p \in Places : /\ p[1] = th /\ StepAt(p).dstoff = t
                                   /\ StepAt(p).type \in Receiving}

\* How many steps of P come before p in its tb.
NumberIn(P, p) == Cardinality({x \in P : x[2] < p[2]})

\* A tb receives from one tb; of each tag it receives as many messages as that
\* sends, and the n-th of a tag where, and as long as, the n-th was meant.
MessagesPaired ==
  /\ \A q, r \in DOMAIN Peer : Peer[q] = Peer[r] => q = r
  /\ \A q \in DOMAIN Peer : \A t \in {StepAt(p).dstoff : p \in Places} :
       /\ Cardinality(Sends(q, t)) = Cardinality(Receives(Peer[q], t))
       /\ \A s \in Sends(q, t), p \in Receives(Peer[q], t) :
            NumberIn(Sends(q, t), s) = NumberIn(Receives(Peer[q], t), p) =>
              StepAt(s).dstbuf = StepAt(p).dstbuf /\ StepAt(s).cnt = StepAt(p).cnt
=============================================================================
