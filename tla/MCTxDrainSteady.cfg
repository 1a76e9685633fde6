\* A draining relay and one on the claim path, which never wait; one event, all kinds
\* of failure.  The interval of reclaims is 0, so that they go on once the clock has
\* stopped.
SPECIFICATION SteadySpec
CONSTANTS
  plain = plain  kv = kv
  Events = {1}
  TopicOf <- PlainTopics
  LatestOnly = {kv}
  Version <- NoVersions
  Relays = {r1, r2}
  BatchSize = 2
  DeleteAfterSend = FALSE
  ClaimV2 = TRUE
  StallThreshold = 2
  ReclaimInterval = 0
  MaxAttempts = 2
  BackoffBase = 1
  BackoffMax = 1
  RetryJitter = FALSE
  DeleteOlderThan = 1
  RetainParked = 0
  Duplicates = 4
  UnknownDelay = 1
  DrainMaxFailures = 1
  Punctual = TRUE
  MaxTime = 5
  MaxFaults = 2
INVARIANT OneFailureStoresOnce
PROPERTIES ClosedIsFinal EventuallySent
\* Operators and the clock stop at their bounds.
CHECK_DEADLOCK FALSE
