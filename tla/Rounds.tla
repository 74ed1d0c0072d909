------------------------------- MODULE Rounds -------------------------------
(***************************************************************************)
(* How main() and the interpreter threads of one rank run the allreduce    *)
(* again and again: mpitest.cc (num_loop times) and perftest.cc (num_loop  *)
(* times for each of a range of buffer sizes).  Main posts one token per   *)
(* thread in sem_4_th_wait, a thread takes one, executes the schedule      *)
(* once, and posts sem_4_main_wait; main collects one token per thread.    *)
(* Nothing ties a token to a thread: a fast thread may take two of them.   *)
(* The execution itself (module Interpreter) is a single step here, and it *)
(* is taken to end.                                                        *)
(***************************************************************************)
EXTENDS Integers, FiniteSets

CONSTANTS Tbs,       \* the threads of the rank
          NumLoops,  \* num_loop
          NumSizes,  \* buffer sizes that perftest.cc tries
          Programs   \* which of "mpitest" and "perftest" may run

ASSUME TbsAssumption == IsFiniteSet(Tbs) /\ Tbs # {}

ASSUME LoopsAssumption == NumLoops \in Nat \ {0} /\ NumSizes \in Nat \ {0}

ASSUME ProgramsAssumption == Programs \subseteq {"mpitest", "perftest"}

N == Cardinality(Tbs)

VARIABLES
  program,  \* which program this is
  main,     \* where main is
  count,    \* tokens posted, or collected, in this loop over the tbs
  round,    \* rounds completed with this buffer size
  size,     \* buffer sizes completed
  thSem,    \* sem_4_th_wait
  mainSem,  \* sem_4_main_wait
  at,       \* thread -> where it is
  loops,    \* thread -> its loop variable
  total,    \* total_elapsed: the threads whose times it is the maximum of
  seen      \* thread -> the total_elapsed it has read

vars == <<program, main, count, round, size, thSem, mainSem, at, loops, total, seen>>

Sweep == program = "perftest"

Init ==
  /\ program \in Programs
  /\ main = "post" /\ count = 0 /\ round = 0 /\ size = 0
  /\ thSem = 0 /\ mainSem = 0
  /\ at = [t \in Tbs |-> "gate"]
  /\ loops = [t \in Tbs |-> 0]
  /\ total = {}
  /\ seen = [t \in Tbs |-> {}]

-----------------------------------------------------------------------------
\* Variant: the posting loop leaves out the last tb.
PostAllButOne ==
  /\ main = "post"
  /\ IF count + 1 >= N - 1
     THEN main' = "collect" /\ count' = 0
     ELSE count' = count + 1 /\ UNCHANGED main
  /\ thSem' = thSem + 1
  /\ UNCHANGED <<program, round, size, mainSem, at, loops, total, seen>>

\* for(i < tbs.size()) sem_post(&sem_4_th_wait)
PostToken ==
  /\ main = "post"
  /\ IF count + 1 = N
     THEN main' = "collect" /\ count' = 0
     ELSE count' = count + 1 /\ UNCHANGED main
  /\ thSem' = thSem + 1
  /\ UNCHANGED <<program, round, size, mainSem, at, loops, total, seen>>

\* Where main goes when all the rounds are done.
AfterRounds == IF Sweep THEN "report" ELSE "join"

\* Variant: main collects one token less than it posted.
CollectAllButOne ==
  /\ main = "collect"
  /\ mainSem > 0
  /\ mainSem' = mainSem - 1
  /\ IF count + 1 >= N - 1
     THEN /\ count' = 0
          /\ round' = round + 1
          /\ main' = IF round + 1 < NumLoops THEN "post" ELSE AfterRounds
     ELSE count' = count + 1 /\ UNCHANGED <<main, round>>
  /\ UNCHANGED <<program, size, thSem, at, loops, total, seen>>

\* for(i < tbs.size()) sem_wait(&sem_4_main_wait); then the next round.
Collect ==
  /\ main = "collect"
  /\ mainSem > 0
  /\ mainSem' = mainSem - 1
  /\ IF count + 1 = N
     THEN /\ count' = 0
          /\ round' = round + 1
          /\ main' = IF round + 1 < NumLoops THEN "post" ELSE AfterRounds
     ELSE count' = count + 1 /\ UNCHANGED <<main, round>>
  /\ UNCHANGED <<program, size, thSem, at, loops, total, seen>>

\* Main prints total_elapsed; perftest.cc does so after every size, and
\* mpitest.cc once, at the end.
Report ==
  /\ main = "report"
  /\ main' = IF Sweep THEN "resize" ELSE "end"
  /\ UNCHANGED <<program, count, round, size, thSem, mainSem, at, loops, total, seen>>

\* perftest.cc: free_buffer_pool, and for the next size init_buffer_pool and
\* total_elapsed = 0.
Resize ==
  /\ main = "resize"
  /\ size' = size + 1
  /\ IF size + 1 < NumSizes
     THEN main' = "post" /\ round' = 0 /\ total' = {}
     ELSE main' = "join" /\ UNCHANGED <<round, total>>
  /\ UNCHANGED <<program, count, thSem, mainSem, at, loops, seen>>

\* wait_threads
Join ==
  /\ main = "join"
  /\ \A t \in Tbs : at[t] = "out"
  /\ main' = IF Sweep THEN "end" ELSE "report"
  /\ UNCHANGED <<program, count, round, size, thSem, mainSem, at, loops, total, seen>>

Main == PostToken \/ Collect \/ Report \/ Resize \/ Join

-----------------------------------------------------------------------------
\* Variant: the result of the wait is ignored.
BeginUnchecked(t) ==
  /\ at[t] = "gate"
  /\ thSem' = thSem - 1
  /\ at' = [at EXCEPT ![t] = "run"]
  /\ UNCHANGED <<program, main, count, round, size, mainSem, loops, total, seen>>

\* sem_wait(&sem_4_th_wait), and the thread executes the schedule.
Begin(t) ==
  /\ at[t] = "gate"
  /\ thSem > 0
  /\ thSem' = thSem - 1
  /\ at' = [at EXCEPT ![t] = "run"]
  /\ UNCHANGED <<program, main, count, round, size, mainSem, loops, total, seen>>

\* Variant: a thread posts twice when it ends its last loop.
FinishTwice(t) ==
  /\ at[t] = "run"
  /\ mainSem' = mainSem + (IF loops[t] + 1 = NumLoops THEN 2 ELSE 1)
  /\ loops' = [loops EXCEPT ![t] = @ + 1]
  /\ at' = [at EXCEPT ![t] = IF loops[t] + 1 = NumLoops THEN "tail" ELSE "gate"]
  /\ UNCHANGED <<program, main, count, round, size, thSem, total, seen>>

\* The schedule and the drain loop are done: sem_post(&sem_4_main_wait).
Finish(t) ==
  /\ at[t] = "run"
  /\ mainSem' = mainSem + 1
  /\ loops' = [loops EXCEPT ![t] = @ + 1]
  /\ at' = [at EXCEPT ![t] = IF loops[t] + 1 = NumLoops THEN "tail" ELSE "gate"]
  /\ UNCHANGED <<program, main, count, round, size, thSem, total, seen>>

\* if (total_elapsed < temp) total_elapsed = temp, without a lock: the thread
\* reads it ...
ReadTotal(t) ==
  /\ at[t] = "tail"
  /\ seen' = [seen EXCEPT ![t] = total]
  /\ at' = [at EXCEPT ![t] = "merge"]
  /\ UNCHANGED <<program, main, count, round, size, thSem, mainSem, loops, total>>

\* ... and writes the larger time.  The thread of mpitest.cc ends; that of
\* perftest.cc starts all over (while(1)).
WriteTotal(t) ==
  /\ at[t] = "merge"
  /\ total' = seen[t] \cup {t}
  /\ seen' = [seen EXCEPT ![t] = {}]
  /\ loops' = [loops EXCEPT ![t] = 0]
  /\ at' = [at EXCEPT ![t] = IF Sweep THEN "gate" ELSE "out"]
  /\ UNCHANGED <<program, main, count, round, size, thSem, mainSem>>

Thread(t) == Begin(t) \/ Finish(t) \/ ReadTotal(t) \/ WriteTotal(t)

Ended == main = "end" /\ UNCHANGED vars

Next == Main \/ (\E t \in Tbs : Thread(t)) \/ Ended

Spec == Init /\ [][Next]_vars

\* The scheduler runs main and every thread that is not blocked.
FairSpec == Spec /\ WF_vars(Main) /\ \A t \in Tbs : WF_vars(Thread(t))

-----------------------------------------------------------------------------
(* Properties. *)

\* The types of the variables.
TypeOK ==
  /\ program \in {"mpitest", "perftest"}
  /\ main \in {"post", "collect", "report", "resize", "join", "end"}
  /\ count \in 0 .. N - 1
  /\ main \notin {"post", "collect"} => count = 0
  /\ round \in Nat /\ size \in Nat /\ thSem \in Nat /\ mainSem \in Nat
  /\ at \in [Tbs -> {"gate", "run", "tail", "merge", "out"}]
  /\ loops \in [Tbs -> Nat]
  /\ total \subseteq Tbs
  /\ seen \in [Tbs -> SUBSET Tbs]

Running == {t \in Tbs : at[t] = "run"}

\* Tokens that main has posted in this round and not collected back.
Outstanding == IF main = "post" THEN count
               ELSE IF main = "collect" THEN N - count ELSE 0

\* No token is lost or forged: each one that main has out is in
\* sem_4_th_wait, with a thread that executes, or in sem_4_main_wait.
TokensBalanced == thSem + Cardinality(Running) + mainSem = Outstanding

\* Main has the rank to itself between two rounds: when it prints, frees or
\* allocates the buffers (perftest.cc: free_buffer_pool, init_buffer_pool) or
\* checks the result (mpitest.cc), no thread is executing the schedule or
\* will before main posts again.
Alone == main \notin {"post", "collect"} \/ (main = "post" /\ count = 0)
Quiescent == Alone => Running = {} /\ thSem = 0 /\ mainSem = 0

\* What the programs print as the total time: the longest of all threads'.
TimesReported ==
  main = (IF Sweep THEN "resize" ELSE "end") => total = Tbs

\* In mpitest.cc num_loop rounds give each thread, in whatever order they take
\* the tokens, the tokens for its num_loop loops: main joins all and ends.
Joined == (program = "mpitest") => <>(main = "end")
=============================================================================
