SPECIFICATION FairSpec
CONSTANTS
  h1 = h1
  h2 = h2
  Handlers = {h1, h2}
  Links = {1, 2, 3}
  Unlinked = {2, 3}
  Long = {3}
  MaxMail = 2
  MaxFaults = 1
  BatchSize = 1
INVARIANTS MailboxInv
PROPERTIES ContactNeverGoesBack ResyncFinishes
CONSTRAINT Modest
