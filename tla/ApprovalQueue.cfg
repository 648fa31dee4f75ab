SPECIFICATION FairSpec
CONSTANTS
  admin = admin
  approver = approver
  editor = editor
  bill = bill
  review = review
  p1 = p1
  Ids = {bill}
  Actors = {admin, approver, editor}
  RoleOf <- MCRoleOf
  Verification = {}
  Previews = {p1}
  RiskOf <- MCRiskOf
  StaffConfirmed = {}
  NoActor = NoActor
  NoPreview = NoPreview
  NoApproval = NoApproval
  Plain = {review}
  MaxItems = 2
INVARIANTS QueueInv DecisionsAgree NobodyApprovesOwnWork
PROPERTIES ClosedStaysClosed PreparedIsQueued
CHECK_DEADLOCK FALSE
CONSTRAINT Apart
