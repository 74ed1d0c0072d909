---------------------------- MODULE ReduceService ----------------------------
(***************************************************************************)
(* What the servers of test_offload.cc -o promise their clients together:  *)
(* each rank takes the requests that have arrived at it, one at a time,    *)
(* and the n-th reply of a rank is the sum of the n-th requests that the   *)
(* ranks have taken, so it cannot come before every rank has taken its     *)
(* n-th.  Nothing is said of the order in which a rank takes its requests. *)
(* A request whose data is lost on its way is taken and answered like the  *)
(* others, with no request in its place in the sum.                        *)
(***************************************************************************)
EXTENDS Integers, Sequences

CONSTANTS Ranks, Requests

VARIABLES pool,    \* rank -> requests that have arrived and are not taken
          lost,    \* rank -> requests whose data it did not get
          taken,   \* rank -> the requests it has taken, in order
          answers  \* rank -> its replies: the requests in the sum, <<rank, request>>

vars == <<pool, lost, taken, answers>>

Init == /\ pool = [r \in Ranks |-> {}]
        /\ lost = [r \in Ranks |-> {}]
        /\ taken = [r \in Ranks |-> <<>>]
        /\ answers = [r \in Ranks |-> <<>>]

Arrive(r, q) ==
  /\ q \notin pool[r] /\ \A n \in DOMAIN taken[r] : taken[r][n] # q
  /\ pool' = [pool EXCEPT ![r] = @ \cup {q}]
  /\ UNCHANGED <<lost, taken, answers>>

Lose(r) ==
  /\ \E q \in pool[r] : lost' = [lost EXCEPT ![r] = @ \cup {q}]
  /\ UNCHANGED <<pool, taken, answers>>

Take(r) ==
  /\ Len(taken[r]) = Len(answers[r])
  /\ \E q \in pool[r] : /\ taken' = [taken EXCEPT ![r] = Append(@, q)]
                        /\ pool' = [pool EXCEPT ![r] = @ \ {q}]
  /\ UNCHANGED <<lost, answers>>

Answer(r) ==
  LET n == Len(taken[r]) IN
  /\ Len(answers[r]) = n - 1
  /\ \A p \in Ranks : Len(taken[p]) >= n
  /\ answers' = [answers EXCEPT ![r] = Append(@,
                  {<<p, taken[p][n]>> : p \in {q \in Ranks : taken[q][n] \notin lost[q]}})]
  /\ UNCHANGED <<pool, lost, taken>>

Serve(r) == Take(r) \/ Answer(r)

Next == \E r \in Ranks : Serve(r) \/ Lose(r) \/ \E q \in Requests : Arrive(r, q)

Spec == Init /\ [][Next]_vars /\ \A r \in Ranks : WF_vars(Serve(r))
=============================================================================
