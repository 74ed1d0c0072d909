------------------------------ MODULE MCRounds ------------------------------
(* Rounds on three threads, which are interchangeable. *)
EXTENDS Rounds, TLC

CONSTANTS t1, t2, t3

Three == {t1, t2, t3}

Both     == {"mpitest", "perftest"}
PerfTest == {"perftest"}

Symmetry == Permutations(Three)
=============================================================================
