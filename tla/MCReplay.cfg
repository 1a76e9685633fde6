\* Two calls of Run with one replay id, of what their sources yield at the time.
SPECIFICATION Spec
CONSTANTS
  r1 = r1  r2 = r2  a1 = a1  a2 = a2  b = b  c = c
  Runs = {r1, r2}
  Items = {a1, a2, b, c}
  Bad = {c}
  Sources <- MCSources
  MsgId <- MCMsgId
  PublishAttempts = 2
  MaxFaults = 2
INVARIANTS MarkersTrue SnapshotsInOrder AnswersTrue
\* Both calls may have returned.
CHECK_DEADLOCK FALSE
