\* Two relays, on the claim path, draining or one of each, two events of a latest-only
\* subject; every failure, crash, late publish and lost transaction.
SPECIFICATION DrainSpec
CONSTANTS
  plain = plain  kv = kv
  Events = {1, 2}
  TopicOf <- KvTopics
  LatestOnly = {kv}
  Version <- FallingVersions
  Relays = {r1, r2}
  BatchSize = 2
  DeleteAfterSend = TRUE
  ClaimV2 = FALSE
  StallThreshold = 1
  ReclaimInterval = 1
  MaxAttempts = 2
  BackoffBase = 1
  BackoffMax = 1
  RetryJitter = FALSE
  DeleteOlderThan = 1
  RetainParked = 1
  Duplicates = 2
  UnknownDelay = 1
  DrainMaxFailures = 1
  Punctual = FALSE
  MaxTime = 3
  MaxFaults = 2
INVARIANTS ParkedRightly LatestSurvives ClosedWasSent PublishedByOne
CONSTRAINT Scenario
SYMMETRY Symmetric
\* Operators and the clock stop at their bounds.
CHECK_DEADLOCK FALSE
