\* mpitest.cc and perftest.cc: three threads, three loops for each of two sizes.
\* The threads of perftest.cc never end, so that its main waits for ever.
SPECIFICATION FairSpec
CONSTANTS
  t1 = t1
  t2 = t2
  t3 = t3
  Tbs <- Three
  NumLoops = 3
  NumSizes = 2
  Programs <- Both
INVARIANTS
  TypeOK
  TokensBalanced
  Quiescent
PROPERTY Joined
CHECK_DEADLOCK FALSE
