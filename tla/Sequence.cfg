SPECIFICATION Spec
CONSTANTS
  ann = ann
  bob = bob
  w1 = w1
  w2 = w2
  wording = wording
  edited = edited
  s1 = s1
  s2 = s2
  Staff = {ann, bob}
  Drafts = {wording, edited}
  Sources = {s1, s2}
  Dispatchers = {w1, w2}
  MaxVersion = 4
  MaxRevision = 2
  MaxSends = 2
  NoAuth = NoAuth
  NoOcc = NoOcc
INVARIANTS RecordIsExact ActiveIsReviewed AnotherCopyNeedsRefusal
PROPERTIES OnlyReviewReactivates
SYMMETRY SameCode
CONSTRAINT MostlyUnchanged
CHECK_DEADLOCK FALSE
