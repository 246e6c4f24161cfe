CONSTANTS
  c1 = c1
  c2 = c2
  w1 = w1
  ref = ref
  key = key
  NoKey = NoKey
  NoRelease = NoRelease
  MinToken <- MCMinToken
  MaxToken = 4
  VersionRef = {ref}
  IdempotencyKey = {key}
  Drafts <- MCDraft
  Clients = {c1, c2}
  Workers = {w1}
  MaxReleases = 2
  PageLimit = 1
  Targets <- MCTargets
  CallerTokens = {2, 4}
  FailureRates = {10}
SPECIFICATION FairSpec
INVARIANTS SucceedsInLastWave CopiesCurrent NoLostUpdate AuditTrail OneReleasePerKey
PROPERTIES FencedTransitions StalePageHarmless LifecycleSpec ReleasesAdvance
