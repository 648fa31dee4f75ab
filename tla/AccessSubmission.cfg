SPECIFICATION FilingSpec
CONSTANTS
  s1 = s1
  s2 = s2
  i1 = i1
  i2 = i2
  i3 = i3
  Intents = {i1, i2, i3}
  Submitters = {s1, s2}
  MaxAttempts = 4
  OpenLimit = 2
  MaxChanges = 1
INVARIANTS FilingInv StorageIsBounded
PROPERTIES AnswersAgree
CHECK_DEADLOCK FALSE
SYMMETRY SameCode
