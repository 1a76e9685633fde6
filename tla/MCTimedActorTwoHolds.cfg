\* Two replicas hold the same key, one after the other; no faults.
SPECIFICATION Spec
CONSTANTS
  k1 = k1  ra = ra  rb = rb  wa = wa  wb = wb  pa = pa  pb = pb  h1 = h1  h2 = h2
  Keys <- OneKey
  Replicas = {ra, rb}
  Watchers = {wa}
  Runners = {pa}
  Holders = {h1, h2}
  Host <- HostTwoHolders
  Watches <- WatchesOne
  Timeouts = {0}
  MaxHold = 1
  RescanEnabled = TRUE
  MaxTime = 3
  MaxLog = 3
  MaxFaults = 0
INVARIANT HoldEndsRestored
\* Callers and the clock stop at their bounds.
CHECK_DEADLOCK FALSE
