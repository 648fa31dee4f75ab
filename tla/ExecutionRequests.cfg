SPECIFICATION Spec
CONSTANTS
  admin = admin
  editor = editor
  canary = canary
  loop = loop
  upload = upload
  label = label
  vendor = vendor
  p1 = p1
  p2 = p2
  Ids = {loop, upload}
  Actors = {admin, editor}
  RoleOf <- MCRoleOf
  Verification = {}
  Previews = {p1, p2}
  RiskOf <- MCRiskOf
  StaffConfirmed = {loop}
  Requests = {1, 2, 3}
  Channel <- MCChannel
  DependsOn <- MCDependsOn
  NoActor = NoActor
  NoPreview = NoPreview
  NoApproval = NoApproval
  NoId = NoId
INVARIANTS AtMostOneCall EffectIsAuthorized
PROPERTIES ImplementsSingleEffect
CONSTRAINT LoopOrPair
CHECK_DEADLOCK FALSE
