\* Two replicas race for a timer, or one holds it while the other fires it; one fault.
SPECIFICATION Spec
CONSTANTS
  k1 = k1  ra = ra  rb = rb  wa = wa  wb = wb  pa = pa  pb = pb  h1 = h1  h2 = h2
  Keys <- OneKey
  Replicas = {ra, rb}
  Watchers = {wa, wb}
  Runners = {pa, pb}
  Holders = {h1}
  Host <- HostHoldAcross
  Watches <- WatchesBoth
  Timeouts = {0, 2}
  MaxHold = 1
  RescanEnabled = FALSE
  MaxTime = 3
  MaxLog = 2
  MaxFaults = 1
INVARIANTS AtMostOnce NoStaleCallback HoldSuppresses HoldEndsRestored
PROPERTY KeepsPromise
CONSTRAINT HoldOrRace
\* Callers and the clock stop at their bounds.
CHECK_DEADLOCK FALSE
