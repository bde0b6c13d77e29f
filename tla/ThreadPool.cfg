\* Three threads and three runs: counts of 1 to 3 threads that shrink, grow
\* and stay, with one wake-up out of nowhere.
CONSTANTS
  N = 3
  MaxRuns = 3
  MaxSpurious = 1
SPECIFICATION FairSpec
INVARIANTS TypeOK NoStaleFn NoLostWakeup
PROPERTIES ImplementsForkJoin CallsReturn
