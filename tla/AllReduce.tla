----------------------------- MODULE AllReduce -----------------------------
(***************************************************************************)
(* What one execution of a schedule promises: an in-place allreduce.       *)
(* Every rank contributes its input; a rank's own threads end only after   *)
(* every rank has contributed; its input buffer then holds the sum of all  *)
(* the contributions, and keeps it.  This is what the programs test with   *)
(* check_result_vector_buffer after wait_threads.                          *)
(***************************************************************************)
CONSTANTS Ranks,
          Sum,      \* Sum[r]: the content of r's input buffer after the sum
          NoResult  \* no rank's sum

VARIABLES joined,   \* the ranks that have contributed
          result    \* rank -> its input buffer once its threads have ended

vars == <<joined, result>>

Init == joined = {} /\ result = [r \in Ranks |-> NoResult]

Contribute(r) ==
  /\ r \notin joined
  /\ joined' = joined \cup {r}
  /\ UNCHANGED result

Finish(r) ==
  /\ joined = Ranks
  /\ result[r] = NoResult
  /\ result' = [result EXCEPT ![r] = Sum[r]]
  /\ UNCHANGED joined

Next == \E r \in Ranks : Contribute(r) \/ Finish(r)

Spec == Init /\ [][Next]_vars /\ WF_vars(Next)
=============================================================================
