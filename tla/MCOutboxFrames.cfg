\* A relay that does not tarry, four events of two subjects, two faults.
SPECIFICATION FrameSpec
CONSTANTS
  cmd = cmd  other = other  kv = kv
  Events = {1, 2, 3, 4}
  TopicOf <- MCTopics
  LatestOnly = {kv}
  Version <- NoVersions
  Relays = {r1}
  BatchSize = 4
  DeleteAfterSend = TRUE
  ClaimV2 = FALSE
  StallThreshold = 2
  ReclaimInterval = 0
  MaxAttempts = 2
  BackoffBase = 1
  BackoffMax = 1
  RetryJitter = FALSE
  DeleteOlderThan = 1
  RetainParked = 1
  Duplicates = 4
  Punctual = TRUE
  MaxTime = 5
  MaxFaults = 2
  FrameSubjects = {cmd, other}
  Shapes <- AllShapes
  MaxElements = 2
  MaxBytes = 4
  ArrayHeader = 1
INVARIANTS ClosedWasSent FramesKeepOrder FramesFit SameRowsOnce
CONSTRAINT Scenario
\* Everything may have been sent.
CHECK_DEADLOCK FALSE
