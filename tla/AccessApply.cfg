SPECIFICATION FairSpec
CONSTANTS
  h1 = h1
  h2 = h2
  Handlers = {h1, h2}
  Requests = {"r1"}
  Intent <- OneIntent
  Spaces = {"leasing"}
  Roles = {0, 1}
  First <- Nothing
  MaxVersion = 10
  MaxDirect = 1
  MaxFaults = 2
INVARIANTS ApplyInv
PROPERTIES ChangesAreAudited ClosedStaysClosed ApprovalsEnd
CHECK_DEADLOCK FALSE
