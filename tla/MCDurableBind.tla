---------------------------- MODULE MCDurableBind ----------------------------
(* An instance of DurableBind small enough for TLC: a rolling update.        *)
EXTENDS DurableBind

CONSTANTS old, new, other, lax

Config(start, fixed, filters) == [start |-> start, fixed |-> fixed, filters |-> filters]

\* The new build filters otherwise and starts elsewhere, that of other changed a field
\* that is fixed, and those of old and lax differ in the start only.
MCWanted ==
  [r \in Replicas |->
     CASE r = old   -> Config("all", "explicit", "one")
       [] r = new   -> Config("seq", "explicit", "many")
       [] r = other -> Config("all", "ackAll", "legacy")
       [] OTHER     -> Config("seq", "explicit", "one")]
MCMode ==
  [r \in Replicas |-> CASE r = old -> "direct" [] r = lax -> "lax" [] OTHER -> "strict"]
=============================================================================
