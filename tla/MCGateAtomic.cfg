CONSTANTS
  c1 = c1
  c2 = c2
  w1 = w1
  ref = ref
  key = key
  NoKey = NoKey
  NoRelease = NoRelease
  MinToken <- MCMinToken
  MaxToken = 3
  VersionRef = {ref}
  IdempotencyKey = {key}
  Drafts <- MCDraft
  Clients = {c1, c2}
  Workers = {w1}
  MaxReleases = 1
  PageLimit = 1
  Targets <- MCTargets
  CallerTokens = {1, 3}
  FailureRates = {10}
SPECIFICATION Spec
PROPERTY GateAtomic
