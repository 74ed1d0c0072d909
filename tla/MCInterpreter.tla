--------------------------- MODULE MCInterpreter ---------------------------
(* Interpreter on shipped schedules and on small ones of the same shapes. *)
EXTENDS Contents, Schedules

\* Two ranks, two ways to sum a chunk.  Chunk 1 is fused at rank 0 as in the
\* ring (rrcs).  Chunk 0 is exchanged as in allreduce_1step_4nodes.xml: each
\* rank reduces what came into its scratch buffer, and a nop waits for the
\* send before that overwrites the chunk.
FusedAndOneStep == [r \in 0 .. 1 |->
  LET k == 1 + r  \* the step that sends chunk 0
  IN Gpu(2, 0, 1,
      <<Tb(-1, -1, 0, <<Op("nop", "i", -1, "o", -1, 0, 1, k, 0),
                        Op("re",  "s", 0,  "i", 0,  1, 1, k + 1, 0)>>),
        Tb(1 - r, 1 - r, 0,
           (IF r = 0 THEN <<Op("rrcs", "i", 1, "i", 1, 1, -1, -1, 0)>>
            ELSE <<Op("s", "i", 1, "i", 1, 1, -1, -1, 0),
                   Op("r", "i", 1, "i", 1, 1, -1, -1, 0)>>)
           \o <<Op("s", "i", 0, "s", 0, 1, -1, -1, 1),
                Op("r", "i", 0, "s", 0, 1, -1, -1, 1)>>)>>)]

OneRun == {0}

Ready        == {"ready"}
ReadyOrQueue == {"ready", "queued"}
AnyResult    == {"ready", "queued", "error"}

\* The schedules that are run are such as the theorems ask for.
ASSUME ConditionsHold == Balanced /\ ConflictsOrdered /\ MessagesPaired /\ Computes
=============================================================================
