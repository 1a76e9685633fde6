\* The connection is down and acknowledgements are missing.
SPECIFICATION Spec
CONSTANTS
  plain = plain  kv = kv
  Events = {1}
  TopicOf <- PlainTopics
  LatestOnly = {kv}
  Version <- NoVersions
  Relays = {r1}
  BatchSize = 2
  DeleteAfterSend = FALSE
  ClaimV2 = FALSE
  StallThreshold = 1
  ReclaimInterval = 1
  MaxAttempts = 2
  BackoffBase = 1
  BackoffMax = 1
  RetryJitter = FALSE
  DeleteOlderThan = 1
  RetainParked = 0
  Duplicates = 2
  Punctual = FALSE
  MaxTime = 3
  MaxFaults = 2
INVARIANT OutageNeverParks
SYMMETRY Symmetric
\* Operators and the clock stop at their bounds.
CHECK_DEADLOCK FALSE
