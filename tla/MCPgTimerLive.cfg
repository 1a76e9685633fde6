\* A poller with two slots and two rows, one failure, crash or Stop; a Lease of 4, with
\* HandlerTimeout Lease / 2 and RemoveTimeout Lease / 4, the limits of resolve.go.
SPECIFICATION FairSpec
CONSTANTS
  Timers = {t1, t2}
  Pollers = {p1}
  Concurrency = 2
  Batch = 2
  Lease = 4
  HandlerTimeout = 2
  RemoveTimeout = 1
  MaxDelay = 1
  DueTimes = {0, 1}
  MaxTime = 6
  MaxEdits = 2
  MaxFaults = 1
INVARIANTS NothingLost NoParallelHandlers SlotsAccounted DrainedIsQuiet
PROPERTY EventuallyFires
\* The clock and the service stop at their bounds.
CHECK_DEADLOCK FALSE
