SPECIFICATION MCSpec
CONSTANTS
  a1 = a1  a2 = a2  b1 = b1
  Keys <- MCKeys
  OrderOf <- MCOrderOf
  Msgs <- MCMsgs
  Content <- MCContent
  Frames = {1, 4}
  Broken = {4}
  Loops = {1}
  Workers = {1}
  Dedup = TRUE  Ordered = TRUE  PerMessage = TRUE
  RetryBudget = 0  TransientDelay = 1
  BatchMax = 2  MaxAttempts = 2  MaxDeliver = 3
  Delays <- MCDelays
  NakBackoff <- MCNakBackoff
  MaxInFlight = 1
  MaxFaults = 2
INVARIANTS EffectOnce OrderKept VerdictsTrue NothingLost TailBehindHead NilDrainIsQuiet NeverStuck
CHECK_DEADLOCK FALSE
