SPECIFICATION Spec
CONSTANTS
  admin = admin
  editor = editor
  canary = canary
  loop = loop
  upload = upload
  label = label
  vendor = vendor
  p1 = p1
  p2 = p2
  Ids = {label, vendor}
  Actors = {admin, editor}
  RoleOf <- MCRoleOf
  Verification = {}
  Previews = {p1}
  RiskOf <- MCRiskOf
  StaffConfirmed = {}
  Requests = {1, 2}
  Channel <- MCChannel
  DependsOn <- MCDependsOn
  NoActor = NoActor
  NoPreview = NoPreview
  NoApproval = NoApproval
  NoId = NoId
INVARIANTS VerdictIsTruthful FenceHolds
CHECK_DEADLOCK FALSE
