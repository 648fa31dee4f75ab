SPECIFICATION WritebackSpec
CONSTANTS
  ann = ann
  rent = rent
  o1 = o1
  o2 = o2
  o3 = o3
  r1 = r1
  r2 = r2
  Admins = {ann}
  Global = Global
  Keys = {Global, rent}
  Operations = {o1, o2, o3}
  Requests = {r1, r2}
  MaxSubmissions = 4
  Effects = {"base", "extra"}
  Creates = {"extra"}
  KeyOf <- MCKeyOf
  MaxGenerations = 2
  MaxPreviews = 2
  MaxEdits = 1
  MaxDeaths = 1
  Clear = Clear
  Unreadable = Unreadable
  NoOperation = NoOperation
  NoChange = NoChange
SYMMETRY SameCode
CONSTRAINT Modest
INVARIANTS LeaseInv OutcomesAreTrue PassedWasOpen StopsAreAccounted
PROPERTIES SentWhileOpen
CHECK_DEADLOCK FALSE
