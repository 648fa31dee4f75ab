SPECIFICATION FairSpec
CONSTANTS
  admin = admin
  editor = editor
  canary = canary
  loop = loop
  upload = upload
  label = label
  vendor = vendor
  p1 = p1
  p2 = p2
  Ids = {loop}
  Actors = {admin, editor, canary}
  RoleOf <- MCRoleOf
  Verification = {canary}
  Previews = {p1, p2}
  RiskOf <- MCRiskOf
  StaffConfirmed = {loop}
  Requests = {1, 2}
  Channel <- MCChannel
  DependsOn <- MCDependsOn
  NoActor = NoActor
  NoPreview = NoPreview
  NoApproval = NoApproval
  NoId = NoId
INVARIANTS ApprovalBinds AttemptAccounted
PROPERTIES EffectIsEventuallyRecorded
CHECK_DEADLOCK FALSE
