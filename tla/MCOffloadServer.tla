-------------------------- MODULE MCOffloadServer --------------------------
(* OffloadServer on two ranks: server_port has room for no more. *)
EXTENDS OffloadServer, Contents, Schedules

Ring2 == Ring(2)

OneRequest  == 0 .. 1
TwoRequests == 0 .. 2

Ready == {"ready"}

\* One request that may not be pulled, wherever it is nested.
FirstOfOne == {<<0, 1>>}

\* The schedules that are run are such as the theorems ask for, but that the
\* threads of Tree2 do not wait for each other (finding 3).
ASSUME ConditionsHold ==
  /\ Balanced /\ ConflictsOrdered /\ MessagesPaired /\ Computes /\ Fresh /\ SameInputs
  /\ Interlocked <=> Sched # Tree2
=============================================================================
