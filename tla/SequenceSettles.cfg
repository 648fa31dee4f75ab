SPECIFICATION FairSpec
CONSTANTS
  ann = ann
  bob = bob
  w1 = w1
  w2 = w2
  wording = wording
  edited = edited
  s1 = s1
  s2 = s2
  Staff = {ann}
  Drafts = {wording}
  Sources = {s1}
  Dispatchers = {w1, w2}
  MaxVersion = 4
  MaxRevision = 2
  MaxSends = 1
  NoAuth = NoAuth
  NoOcc = NoOcc
PROPERTIES DeliveredIsEventuallySettled
CHECK_DEADLOCK FALSE
