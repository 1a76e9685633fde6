\* One watcher of one replica, with rescans, failed removals, closed watches and restarts;
\* two faults.
SPECIFICATION FairSpec
CONSTANTS
  k1 = k1  ra = ra  rb = rb  wa = wa  wb = wb  pa = pa  pb = pb  h1 = h1  h2 = h2
  Keys <- OneKey
  Replicas = {ra}
  Watchers = {wa}
  Runners = {pa}
  Holders = {}
  Host <- HostPlain
  Watches <- WatchesOne
  Timeouts = {0}
  MaxHold = 1
  RescanEnabled = TRUE
  MaxTime = 1
  MaxLog = 2
  MaxFaults = 2
INVARIANTS CaughtUpIsCovered
PROPERTY OverdueResolved
\* Callers and the clock stop at their bounds.
CHECK_DEADLOCK FALSE
