CONSTANTS
  k1 = k1
  ahead = ahead
  back = back
  self = self
  Procs = {c1, c2}
  Key = {k1}
  NoKey = NoKey
  Value = {ahead, back, self}
  DependsOn <- MCDependsOn
  Required <- MCRequired
  NoVersion = NoVersion
  MaxConfigs = 2
  MaxVersions = 2
  MaxRevision = 4
CHECK_DEADLOCK FALSE
SPECIFICATION Spec
SYMMETRY Symmetry
INVARIANTS KeysIndexed EventPerWrite AuditTrailIsPath DependenciesAcyclic
PROPERTIES LifecycleSpec
