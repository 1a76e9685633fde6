---------------------------- MODULE DurableBind ----------------------------
(***************************************************************************)
(* Replicas that create, update and bind one durable of a stream, each     *)
(* with the configuration of its own build.  A replica binds strictly      *)
(* ("strict") or not ("lax") by durable.Bind, or, as consumer.New without  *)
(* StrictUpdate does ("direct"), by one call that creates or updates.      *)
(* Every call to the server is a step: between two of a replica, others    *)
(* bind, and an operator may delete the durable.                           *)
(*                                                                         *)
(* A configuration has a start position, which the server never changes,   *)
(* as it never does some other fields (fixed), and what it may change,     *)
(* for which the filters stand.                                            *)
(***************************************************************************)
EXTENDS Naturals

CONSTANTS Replicas,
          Mode,        \* replica -> "strict", "lax" or "direct"
          Wanted,      \* replica -> its configuration
          Unapplied,   \* filters that the server, being older, leaves out
          NoFilter, None,
          MaxAttempts, \* of a strict bind, within retryWindow
          MaxFaults    \* bound: failed calls, deletes and restarts

Configs ==
  LET of(field) == {Wanted[r][field] : r \in Replicas}
  IN [start : of("start"), fixed : of("fixed"), filters : of("filters") \cup {NoFilter}]
Durables == [cfg : Configs, no : Nat]

ASSUME BindSettings ==
  /\ Mode \in [Replicas -> {"strict", "lax", "direct"}] /\ Wanted \in [Replicas -> Configs]
  /\ None \notin Durables /\ MaxAttempts \in Nat \ {0} /\ MaxFaults \in Nat

VARIABLES durable,  \* the configuration on the server and its incarnation, or None
          created,  \* incarnations so far
          bind,     \* replica -> its call of Bind
          refused,  \* history: replicas of which an update was refused for the start
          faults

vars == <<durable, created, bind, refused, faults>>

Ended == {"bound", "failed", "gaveup", "rejected", "mismatch"}
NoBind == [step |-> "lookup", attempt |-> 1, found |-> None, got |-> None]
Goto(r, s) == bind' = [bind EXCEPT ![r].step = s]
Fault == faults < MaxFaults /\ faults' = faults + 1
Strict(r) == Mode[r] = "strict"

-----------------------------------------------------------------------------
(* The server *)

Applied(cfg) == IF cfg.filters \in Unapplied THEN [cfg EXCEPT !.filters = NoFilter] ELSE cfg

Created(cfg) == [cfg |-> Applied(cfg), no |-> created + 1]

Creates(cfg) == durable' = Created(cfg) /\ created' = created + 1
Updates(cfg) == durable' = [durable EXCEPT !.cfg = Applied(cfg)] /\ UNCHANGED created
Unchanged == UNCHANGED <<durable, created>>

Updatable(cfg) == durable.cfg.fixed = cfg.fixed /\ durable.cfg.start = cfg.start

\* The server refuses cfg, and would take it with the start of the durable.
RefusesStart(cfg) == durable.cfg.fixed = cfg.fixed /\ durable.cfg.start # cfg.start

Delete ==
  /\ durable # None /\ Fault
  /\ durable' = None
  /\ UNCHANGED <<created, bind, refused>>

-----------------------------------------------------------------------------
(* Bind *)

\* Variant: a strict bind trusts the server with the filters.
BoundUnchecked(r, cfg) == bind' = [bind EXCEPT ![r].got = cfg, ![r].step = "bound"]

\* A bind succeeds with what the server answered; a strict one compares the filters.
Bound(r, cfg) ==
  bind' = [bind EXCEPT ![r].got = cfg,
             ![r].step = IF Strict(r) /\ cfg.filters # Wanted[r].filters THEN "mismatch" ELSE "bound"]

\* Variant: the failed call is tried again without a new lookup.
RetryInPlace(r) ==
  CASE ~Strict(r) -> Goto(r, "failed")
    [] Strict(r) /\ bind[r].attempt < MaxAttempts -> bind' = [bind EXCEPT ![r].attempt = @ + 1]
    [] OTHER -> Goto(r, "gaveup")

\* Transient errors are tried again by a strict bind, from the lookup.
Retry(r) ==
  CASE ~Strict(r) -> Goto(r, "failed")
    [] Strict(r) /\ bind[r].attempt < MaxAttempts ->
         bind' = [bind EXCEPT ![r].step = "lookup", ![r].attempt = @ + 1]
    [] OTHER -> Goto(r, "gaveup")

Lookup(r) ==
  /\ bind[r].step = "lookup" /\ Mode[r] # "direct"
  /\ IF durable = None
     THEN Goto(r, "create")
     ELSE bind' = [bind EXCEPT ![r].step = "update", ![r].found = durable]
  /\ UNCHANGED <<durable, created, refused, faults>>

\* A configuration that is there already is answered like a new one.
Create(r) ==
  /\ bind[r].step = "create"
  /\ \/ durable = None /\ Creates(Wanted[r]) /\ Bound(r, Applied(Wanted[r]))
     \/ durable # None /\ durable.cfg = Applied(Wanted[r]) /\ Bound(r, durable.cfg) /\ Unchanged
     \/ /\ durable # None /\ durable.cfg # Applied(Wanted[r])
        /\ IF Strict(r) THEN Retry(r) ELSE Goto(r, "existing")
        /\ Unchanged
  /\ UNCHANGED <<refused, faults>>

\* Variant: the configuration is sent as it is.
KeptNothing(r) == Wanted[r]

\* The start of the durable found stays: a changed one is no reason to refuse.
Kept(r) == [Wanted[r] EXCEPT !.start = bind[r].found.cfg.start]

\* The update is refused, or the durable is gone.
NotUpdated(r) ==
  CASE ~Strict(r)                  -> Bound(r, bind[r].found.cfg)
    [] Strict(r) /\ durable = None -> Retry(r)
    [] OTHER                       -> Goto(r, "rejected")

Update(r) ==
  /\ bind[r].step = "update"
  /\ IF durable # None /\ Updatable(Kept(r))
     THEN Updates(Kept(r)) /\ Bound(r, Applied(Kept(r))) /\ UNCHANGED refused
     ELSE /\ NotUpdated(r) /\ Unchanged
          /\ refused' = IF durable # None /\ durable.no = bind[r].found.no /\ RefusesStart(Kept(r))
                        THEN refused \cup {r} ELSE refused
  /\ UNCHANGED faults

\* consumer.New without StrictUpdate.
CreateOrUpdate(r) ==
  /\ bind[r].step = "lookup" /\ Mode[r] = "direct"
  /\ \/ durable = None /\ Creates(Wanted[r]) /\ Bound(r, Applied(Wanted[r])) /\ UNCHANGED refused
     \/ /\ durable # None /\ Updatable(Wanted[r])
        /\ Updates(Wanted[r]) /\ Bound(r, Applied(Wanted[r])) /\ UNCHANGED refused
     \/ /\ durable # None /\ ~Updatable(Wanted[r])
        /\ Goto(r, "existing") /\ Unchanged
        /\ refused' = IF RefusesStart(Wanted[r]) THEN refused \cup {r} ELSE refused
  /\ UNCHANGED faults

\* What is there is used as it is.
Existing(r) ==
  /\ bind[r].step = "existing"
  /\ IF durable = None THEN Goto(r, "failed") ELSE Bound(r, durable.cfg)
  /\ UNCHANGED <<durable, created, refused, faults>>

\* A call fails: a timeout, no responders, 503.  What it asked for may be done all the same.
CallFails(r) ==
  /\ Fault
  /\ \/ bind[r].step = "lookup" /\ Mode[r] # "direct" /\ Retry(r) /\ Unchanged
     \/ /\ bind[r].step = "create" /\ Retry(r)
        /\ Unchanged \/ (durable = None /\ Creates(Wanted[r]))
     \/ /\ bind[r].step = "update"
        /\ IF Strict(r) THEN Retry(r) ELSE Bound(r, bind[r].found.cfg)
        /\ Unchanged \/ (durable # None /\ Updatable(Kept(r)) /\ Updates(Kept(r)))
     \/ /\ bind[r].step = "lookup" /\ Mode[r] = "direct" /\ Goto(r, "existing")
        /\ \/ Unchanged
           \/ durable = None /\ Creates(Wanted[r])
           \/ durable # None /\ Updatable(Wanted[r]) /\ Updates(Wanted[r])
     \/ bind[r].step = "existing" /\ Goto(r, "failed") /\ Unchanged
  /\ UNCHANGED refused

\* The process of r ends and starts again.
Restart(r) ==
  /\ Fault
  /\ bind' = [bind EXCEPT ![r] = NoBind]
  /\ UNCHANGED <<durable, created, refused>>

Init ==
  /\ durable = None
  /\ created = 0
  /\ bind = [r \in Replicas |-> NoBind]
  /\ refused = {}
  /\ faults = 0

Next ==
  \/ \E r \in Replicas :
       \/ Lookup(r) \/ Create(r) \/ Update(r) \/ CreateOrUpdate(r) \/ Existing(r)
       \/ CallFails(r) \/ Restart(r)
  \/ Delete

Spec == Init /\ [][Next]_vars

-----------------------------------------------------------------------------
(* Properties *)

\* A strict bind that succeeds serves the configuration of its replica, but for the
\* start, whatever other replicas wrote meanwhile and whichever answer was lost
\* (bind.go, checkFilters; update_keeping_start.go, rejected).
StrictHasWanted ==
  \A r \in Replicas : Strict(r) /\ bind[r].step = "bound" =>
    bind[r].got.filters = Wanted[r].filters /\ bind[r].got.fixed = Wanted[r].fixed

\* The start of a durable is no reason to refuse an update: Bind sends the one it
\* found (update_keeping_start.go:14-18), unless the durable is another one by then.
StartNotRefused == \A r \in refused : Mode[r] = "direct"

\* Races with other replicas cost a strict bind one attempt, and a failed call or delete
\* two at most: replicas that all start at once never make it give up
\* (bind_retrying.go, is_transient.go), nor do any of those without a fault fail.
OnlyFaultsExhaust ==
  \A r \in Replicas :
    /\ bind[r].step = "gaveup" => MaxAttempts <= 2 * faults + 1
    /\ bind[r].step = "failed" => faults > 0

\* Why they are inductive.
TypeOK ==
  /\ durable \in Durables \cup {None} /\ created \in Nat /\ faults \in Nat
  /\ bind \in [Replicas -> [step : Ended \cup {"lookup", "create", "update", "existing"},
                            attempt : Nat, found : Durables \cup {None}, got : Configs \cup {None}]]

\* An incarnation has one start, and the number of none before it.
SameStart ==
  /\ durable # None => durable.no <= created
  /\ \A r \in Replicas : bind[r].step = "update" =>
       LET found == bind[r].found
       IN /\ found # None /\ found.no <= created
          /\ durable # None /\ durable.no = found.no => durable.cfg.start = found.cfg.start

\* An attempt of a strict bind was lost to a failed call, to a delete between lookup
\* and update, or to the one create that a delete lets win a race.
AttemptsPaid ==
  \A r \in Replicas : Strict(r) /\ bind[r].step \in {"lookup", "create", "update"} =>
    bind[r].attempt <= 2 * faults +
      CASE bind[r].step = "create"                     -> 1
        [] bind[r].step = "lookup" /\ durable = None   -> 1
        [] bind[r].step = "update" /\ durable = None   -> 0
        [] OTHER                                       -> 2

FallsBack ==
  \A r \in Replicas : bind[r].step = "existing" => ~Strict(r) /\ (durable # None \/ faults > 0)

BindInv ==
  /\ TypeOK /\ SameStart /\ AttemptsPaid /\ FallsBack
  /\ StrictHasWanted /\ StartNotRefused /\ OnlyFaultsExhaust
=============================================================================
