\* Three calls, of which two share their id; Drain is called again and again.
SPECIFICATION FairSpec
CONSTANTS
  c1 = c1  c2 = c2  c3 = c3  i1 = i1  i2 = i2  d1 = d1
  Calls = {c1, c2, c3}
  Ids = {i1, i2}
  IdOf <- SharedId
  Drainers = {d1}
  None = None
  MaxReplies = 2
INVARIANTS NeverBlocks Tracked DrainEndsAll
PROPERTY DrainReturns
\* The calls are bounded: all may have ended.
CHECK_DEADLOCK FALSE
