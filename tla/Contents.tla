------------------------------ MODULE Contents ------------------------------
(***************************************************************************)
(* What a schedule computes, from the file alone: the content that each    *)
(* step leaves in the chunks it writes, if every step finds in a chunk     *)
(* what the last step that comes before it by the order of its tb and by   *)
(* depid has left there, and every message is received by the step it is   *)
(* for.  Computes is then a condition on the schedule that it is an        *)
(* allreduce, of which ScheduleProofs shows that it is enough for every    *)
(* interleaving of the threads that execute it.                            *)
(***************************************************************************)
EXTENDS Interpreter

\* The steps that write chunk x, and the last of those in W.
Writers(x) == {w \in Places : x \in Writes[w]}

LastOf(W) == CHOOSE w \in W : \A v \in W \ {w} : Before(v, w)

\* What is in chunk x when the steps of W have written it, C[w][x] being what
\* step w writes there.
LeftIn(C, W, x) == IF W = {} THEN Initial(x, 0) ELSE C[LastOf(W)][x]

\* What step p finds in chunk x.
Found(C, p, x) == LeftIn(C, {w \in Writers(x) : Before(w, p)}, x)

\* The i-th of the chunks that step p reads, or writes.
Source(p, i) == <<p[1][1], StepAt(p).srcbuf, StepAt(p).srcoff + i - 1>>
Target(p, i) == <<p[1][1], StepAt(p).dstbuf, StepAt(p).dstoff + i - 1>>

SourceData(C, p) == [i \in 1 .. StepAt(p).cnt |-> Found(C, p, Source(p, i))]

\* What a sending step sends: its source, or what it has just written.
Sent(C, s) == IF StepAt(s).type = "s" THEN SourceData(C, s)
              ELSE [i \in 1 .. StepAt(s).cnt |-> C[s][Target(s, i)]]

\* The n-th step that sends a tag to the tb of p, p being the n-th to receive it.
Partners(p) ==
  LET t == StepAt(p).dstoff IN
  {s \in Places : /\ s[1] \in Senders(p[1]) /\ s \in Sends(s[1], t)
                  /\ NumberIn(Sends(s[1], t), s) = NumberIn(Receives(p[1], t), p)}

\* What step p adds to the chunks it writes, or stores in them, and their
\* contents then.
Operand(C, p) == IF StepAt(p).type = "re" THEN SourceData(C, p)
                 ELSE Sent(C, CHOOSE s \in Partners(p) : TRUE)

Result(C, p) ==
  [x \in Writes[p] |->
    LET new == Operand(C, p)[x[3] - StepAt(p).dstoff + 1]
    IN  IF StepAt(p).type \in Reducing \cup {"re"} THEN Plus(Found(C, p, x), new) ELSE new]

Computed[p \in Places] == Result(Computed, p)

-----------------------------------------------------------------------------
\* No step needs its own result.
WellFounded == \A p \in Places : Computed[p] = Result(Computed, p)

\* The chunks of the input buffers end as the sums.
SumsUp == \A r \in Ranks : \A c \in 0 .. Sched[r].chunks["i"] - 1 :
            LeftIn(Computed, Writers(<<r, "i", c>>), <<r, "i", c>>) = SumOf(r)[c]

\* The chunks that step p reads, or adds to.
Needs(p) == Reads[p] \cup (IF StepAt(p).type \in Reducing \cup {"re"} THEN Writes[p] ELSE {})

\* A step finds in the output and scratch buffers only what steps before it have
\* put there, so that it does not matter what an earlier execution has left.
Fresh ==
  \A p \in Places : \A x \in Needs(p) :
    x[2] = "i" \/ \E w \in Writers(x) : Before(w, p)

\* Every rank has an input, and a step that sends.
EachTakesPart ==
  \A r \in Ranks : /\ Sched[r].chunks["i"] > 0
                   /\ \E p \in Places : /\ p[1][1] = r
                                        /\ StepAt(p).type \in Forwarding \cup {"s"}

Computes == WellFounded /\ SumsUp /\ EachTakesPart

\* The inputs have as many chunks on every rank.
SameInputs == \A r, q \in Ranks : Sched[r].chunks["i"] = Sched[q].chunks["i"]
=============================================================================
