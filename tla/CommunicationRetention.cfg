SPECIFICATION FairRetention
CONSTANTS
  s1 = s1
  f1 = f1
  k1 = k1
  e1 = e1
  e2 = e2
  Seqs = {s1}
  Files = {f1}
  Kids = {k1}
  ParentOf <- Parent
  Cleanups = {r1}
  Executors = {e1, e2}
  Limit = 2
  Period = 1
  KidPeriod = 1
  MaxTime = 1
  MaxDecisions = 1
  MaxDeaths = 1
  NoKid = NoKid
  NoCleanup = NoCleanup
INVARIANTS RetentionInv CountsAreExact
PROPERTIES HeldIsKept RunsComplete
CHECK_DEADLOCK FALSE
CONSTRAINT Apart
