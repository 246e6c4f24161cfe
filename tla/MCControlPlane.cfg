CONSTANTS
  Clients = {c1}
  Workers = {w1}
  CallerTokens = {3}
  FailureRates = {10}
  Drafts <- MCDraft
  MinToken <- MCMinToken
  MaxToken = 3
  IdempotencyKey = {}
  NoKey = NoKey
  NoRelease = NoRelease
  MaxReleases = 2
  PageLimit = 2
  Key = {k1}
  Value = {on}
  DependsOn <- NoDependency
  Required <- NoDependency
  NoVersion = NoVersion
  MaxConfigs = 1
  MaxVersions = 2
  MaxRevision = 6
SPECIFICATION FairSpec
INVARIANTS VersionsFollowReleases
PROPERTIES ServedNeverFallsBack RolloutCompletes
