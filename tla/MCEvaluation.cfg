CONSTANTS
  Name = {"tier", "os"}
  Empty = ""
  NoTime = NoTime
  NoBound = NoTime
  NoExperiment = NoExperiment
  NoKey = NoKey
  Refused = Refused
  Names = {1, 2, 3, 4}
  Buckets = 4
  StableBucket <- MCBucket
  Rule <- MCRule
  Subject <- MCSubject
  Version <- MCVersion
  Graph <- MCGraph
  Observation <- MCObservation
  Room = 2
  Threshold = 50
  MaxAt = 3
  MaxChecks = 4
  MaxDelay = 1
  Millisecond = 2
  MaxRules = 3
  MaxWindows = 2
  MaxGroups = 2
  MaxVersions = 2
  MaxObservations = 3
CHECK_DEADLOCK FALSE
SPECIFICATION Spec
INVARIANTS RuleChoice SharesGrow OpeningsAnnounced  CyclesFound HealthFiguresAgree
