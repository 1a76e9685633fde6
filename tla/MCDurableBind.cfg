\* Two strict replicas, one that is lax and one that binds without Bind, of four builds.
SPECIFICATION Spec
CONSTANTS
  old = old  new = new  other = other  lax = lax
  Replicas = {old, new, other, lax}
  Mode <- MCMode
  Wanted <- MCWanted
  Unapplied = {"legacy"}
  NoFilter = "none"
  None = None
  MaxAttempts = 4
  MaxFaults = 2
INVARIANTS StrictHasWanted StartNotRefused OnlyFaultsExhaust
\* All may have ended.
CHECK_DEADLOCK FALSE
