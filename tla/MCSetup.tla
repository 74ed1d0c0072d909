------------------------------- MODULE MCSetup -------------------------------
(* Setup, and then Interpreter, on a shipped schedule. *)
EXTENDS Setup, Contents, Schedules

OneRun == {0}

ReadyOrQueue == {"ready", "queued"}

\* The schedules that are run are such as the theorems ask for.
ASSUME ConditionsHold ==
  PeersFound /\ Balanced /\ ConflictsOrdered /\ MessagesPaired /\ Computes
=============================================================================
