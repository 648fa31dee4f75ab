SPECIFICATION FairSpec
CONSTANTS
  r1 = r1
  r2 = r2
  Last = 3
  PageLimit = 2
  Lease = 3
  Budget = 1
  Poison = {1}
  Runs = {r1, r2}
  NoRun = NoRun
INVARIANTS WorkerInv NoneSkipped
PROPERTIES EveryOpenIsReached
