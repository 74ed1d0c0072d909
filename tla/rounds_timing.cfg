\* perftest.cc: what is in the time it prints.
SPECIFICATION Spec
CONSTANTS
  t1 = t1
  t2 = t2
  t3 = t3
  Tbs <- Three
  NumLoops = 2
  NumSizes = 2
  Programs <- PerfTest
SYMMETRY Symmetry
INVARIANT TimesReported
CHECK_DEADLOCK FALSE
