------------------------------- MODULE PgTimer -------------------------------
(***************************************************************************)
(* The Postgres timers of pkg/pgtimer.  A row is due at a time; a poller   *)
(* claims due rows by moving their due time a lease ahead, runs the        *)
(* handler, and deletes the row if it still has the due time of the lease. *)
(* The service itself schedules, reschedules and cancels rows meanwhile.   *)
(*                                                                         *)
(* Key, name and attempt of a rescheduled row stay the same here, so that  *)
(* only the due time tells a rescheduled row from a claimed one.           *)
(***************************************************************************)
EXTENDS Integers, FiniteSets

CONSTANTS Timers,         \* rows, by key
          Pollers,        \* processes
          Concurrency,    \* slots of a poller
          Batch,          \* rows a claim takes at most
          Lease, HandlerTimeout, RemoveTimeout,
          MaxDelay,       \* the answer of a claim travels this long at most
          DueTimes,       \* due times the service asks for
          MaxTime,        \* bound: the clock stops here
          MaxEdits,       \* bound: edits of the service
          MaxFaults       \* bound: crashes, failed calls and handlers

ASSUME Settings ==
  /\ Pollers # {}
  /\ Concurrency \in Nat \ {0} /\ Batch \in Nat \ {0}
  /\ Lease \in Nat \ {0} /\ HandlerTimeout \in Nat \ {0}
  /\ RemoveTimeout \in Nat /\ MaxDelay \in Nat
  /\ DueTimes \subseteq Nat
  /\ MaxTime \in Nat /\ MaxEdits \in Nat /\ MaxFaults \in Nat

VARIABLES now,       \* the clock of the database
          row,       \* timer -> its row: due time and (ghost) edit it stems from
          edits,     \* edits made so far; each names a schedule
          proc,      \* poller -> "running", "stopping" (the loop goes on), "waiting",
                     \* "drained" or "cut" (at the deadline), or "down"
          step,      \* poller -> where its loop is
          reserved,  \* poller -> slots the loop has reserved
          slots,     \* poller -> slots taken
          claimed,   \* poller -> rows of a claim whose answer is under way
          answerBy,  \* poller -> when that answer is there at the latest
          fires,     \* poller -> handlers and deletes in progress
          late,      \* deletes given up by the client, maybe not by the server
          succeeded, \* history: edits whose handler returned nil
          cancelled, \* history: edits the service cancelled or replaced
          told,      \* history: pollers of which some Stop has returned nil
          faults

vars == <<now, row, edits, proc, step, reserved, slots, claimed, answerBy,
          fires, late, succeeded, cancelled, told, faults>>
pollers == <<proc, step, reserved, slots, claimed, answerBy, fires>>
history == <<succeeded, cancelled, told>>

NoRow == [due |-> -1, edit |-> 0]
Fault == faults < MaxFaults /\ faults' = faults + 1
Minimum(a, b) == IF a < b THEN a ELSE b

-----------------------------------------------------------------------------
(* The service that owns the table *)

\* What may still act on a claim made earlier, by poller p or by nobody.
Claims(p) == late \cup fires[p] \cup claimed[p]

\* Due times of different writers differ (they have microseconds): an edit
\* neither happens in the instant of the claim it overrides nor asks for the
\* due time of a lease.
DistinctTimes(t, due) ==
  \A p \in Pollers : \A f \in Claims(p) :
    f.timer = t => f.lease # due /\ f.lease # now + Lease

\* The row is inserted, or an existing one gets a new due time.
Schedule(t, due) ==
  /\ edits < MaxEdits
  /\ due >= now /\ DistinctTimes(t, due)
  /\ edits' = edits + 1
  /\ row' = [row EXCEPT ![t] = [due |-> due, edit |-> edits + 1]]
  /\ cancelled' = cancelled \cup ({row[t].edit} \ {0})
  /\ UNCHANGED <<now, pollers, late, succeeded, told, faults>>

Cancel(t) ==
  /\ row[t] # NoRow
  /\ row' = [row EXCEPT ![t] = NoRow]
  /\ cancelled' = cancelled \cup {row[t].edit}
  /\ UNCHANGED <<now, edits, pollers, late, succeeded, told, faults>>

-----------------------------------------------------------------------------
(* The loop of a poller *)

\* The context of the loop is not cancelled yet.
Polling(p) == proc[p] \in {"running", "stopping"}

\* One slot is waited for, further ones are taken while they are free.
Reserve(p) ==
  /\ Polling(p) /\ step[p] = "reserve"
  /\ slots[p] < Concurrency
  /\ LET n == Minimum(Batch, Concurrency - slots[p])
     IN /\ reserved' = [reserved EXCEPT ![p] = n]
        /\ slots' = [slots EXCEPT ![p] = @ + n]
  /\ step' = [step EXCEPT ![p] = "claim"]
  /\ UNCHANGED <<now, row, edits, proc, claimed, answerBy, fires, late, history, faults>>

Due == {t \in Timers : row[t] # NoRow /\ row[t].due <= now}

\* The rows a claim takes: the oldest of the due rows that nobody has locked.
Takes(p, locked, S) ==
  /\ S \subseteq Due \ locked
  /\ Cardinality(S) = Minimum(reserved[p], Cardinality(Due \ locked))
  /\ \A s \in S, u \in (Due \ locked) \ S : row[s].due <= row[u].due

\* Variant: the lease counts from the time the row was due.
LeaseFromDue(p, S) ==
  /\ step[p] = "claim"
  /\ row' = [t \in Timers |-> IF t \in S THEN [row[t] EXCEPT !.due = @ + Lease] ELSE row[t]]
  /\ claimed' = [claimed EXCEPT ![p] =
       {[timer |-> t, edit |-> row[t].edit, lease |-> row[t].due + Lease] : t \in S}]
  /\ answerBy' = [answerBy EXCEPT ![p] = now + MaxDelay]
  /\ step' = [step EXCEPT ![p] = "answer"]
  /\ UNCHANGED <<now, edits, proc, reserved, slots, fires, late, history, faults>>

\* The claim statement: it moves due times a lease ahead.
Claim(p, S) ==
  /\ step[p] = "claim"
  /\ row' = [t \in Timers |-> IF t \in S THEN [row[t] EXCEPT !.due = now + Lease] ELSE row[t]]
  /\ claimed' = [claimed EXCEPT ![p] =
       {[timer |-> t, edit |-> row[t].edit, lease |-> now + Lease] : t \in S}]
  /\ answerBy' = [answerBy EXCEPT ![p] = now + MaxDelay]
  /\ step' = [step EXCEPT ![p] = "answer"]
  /\ UNCHANGED <<now, edits, proc, reserved, slots, fires, late, history, faults>>

AfterClaim(p, full) == step' = [step EXCEPT ![p] = IF full THEN "reserve" ELSE "pause"]

\* Variant: every slot reserved is given back, also those of the rows claimed.
DispatchFreesAll(p) ==
  LET rows == claimed[p]
  IN /\ step[p] = "answer"
     /\ slots' = [slots EXCEPT ![p] = @ - reserved[p]]
     /\ fires' = [fires EXCEPT ![p] = @ \cup
          {[timer |-> c.timer, edit |-> c.edit, lease |-> c.lease,
            step |-> "handler", by |-> now + HandlerTimeout] : c \in rows}]
     /\ AfterClaim(p, Cardinality(rows) = reserved[p])
     /\ reserved' = [reserved EXCEPT ![p] = 0]
     /\ claimed' = [claimed EXCEPT ![p] = {}]
     /\ UNCHANGED <<now, row, edits, proc, answerBy, late, history, faults>>

\* The answer arrives: unused slots are given back, every row is dispatched.
\* This happens even if Stop was called meanwhile.
Dispatch(p) ==
  LET rows == claimed[p]
  IN /\ step[p] = "answer"
     /\ slots' = [slots EXCEPT ![p] = @ - (reserved[p] - Cardinality(rows))]
     /\ fires' = [fires EXCEPT ![p] = @ \cup
          {[timer |-> c.timer, edit |-> c.edit, lease |-> c.lease,
            step |-> "handler", by |-> now + HandlerTimeout] : c \in rows}]
     /\ AfterClaim(p, Cardinality(rows) = reserved[p])
     /\ reserved' = [reserved EXCEPT ![p] = 0]
     /\ claimed' = [claimed EXCEPT ![p] = {}]
     /\ UNCHANGED <<now, row, edits, proc, answerBy, late, history, faults>>

\* Variant: the slots of a failed claim stay taken.
ClaimFailsKeepsSlots(p) ==
  /\ step[p] \in {"claim", "answer"}
  /\ IF Polling(p) THEN Fault ELSE UNCHANGED faults
  /\ reserved' = [reserved EXCEPT ![p] = 0]
  /\ claimed' = [claimed EXCEPT ![p] = {}]
  /\ step' = [step EXCEPT ![p] = IF Polling(p) THEN "pause" ELSE "done"]
  /\ UNCHANGED <<now, row, edits, proc, slots, answerBy, fires, late, history>>

\* The claim fails, before or after it took effect; Stop makes it fail too.
\* Rows it took are nobody's until their lease ends.
ClaimFails(p) ==
  /\ step[p] \in {"claim", "answer"}
  /\ IF Polling(p) THEN Fault ELSE UNCHANGED faults
  /\ slots' = [slots EXCEPT ![p] = @ - reserved[p]]
  /\ reserved' = [reserved EXCEPT ![p] = 0]
  /\ claimed' = [claimed EXCEPT ![p] = {}]
  /\ step' = [step EXCEPT ![p] = IF Polling(p) THEN "pause" ELSE "done"]
  /\ UNCHANGED <<now, row, edits, proc, answerBy, fires, late, history>>

PauseEnds(p) ==
  /\ step[p] = "pause"
  /\ step' = [step EXCEPT ![p] = "reserve"]
  /\ UNCHANGED <<now, row, edits, proc, reserved, slots, claimed, answerBy, fires, late, history, faults>>

\* The loop sees that Stop cancelled its context.
LoopExits(p) ==
  /\ proc[p] = "waiting" /\ step[p] = "reserve"
  /\ step' = [step EXCEPT ![p] = "done"]
  /\ UNCHANGED <<now, row, edits, proc, reserved, slots, claimed, answerBy, fires, late, history, faults>>

-----------------------------------------------------------------------------
(* fire *)

\* The goroutine of a fire ends and gives its slot back.
FireEnds(p, f) ==
  /\ fires' = [fires EXCEPT ![p] = @ \ {f}]
  /\ slots' = [slots EXCEPT ![p] = @ - 1]

\* The handler returns nil; the delete follows.
HandlerSucceeds(p, f) ==
  /\ f.step = "handler"
  /\ fires' = [fires EXCEPT ![p] = (@ \ {f}) \cup
                 {[f EXCEPT !.step = "remove", !.by = now + RemoveTimeout]}]
  /\ succeeded' = succeeded \cup {f.edit}
  /\ UNCHANGED <<now, row, edits, proc, step, reserved, slots, claimed, answerBy, late, cancelled, told, faults>>

\* The handler fails, panics or runs into its deadline; the row stays.
HandlerFails(p, f) ==
  /\ f.step = "handler"
  /\ IF proc[p] = "cut" THEN UNCHANGED faults ELSE Fault
  /\ FireEnds(p, f)
  /\ UNCHANGED <<now, row, edits, proc, step, reserved, claimed, answerBy, late, history>>

\* Variant: the delete goes by the key alone.
MatchesKey(f) == row[f.timer] # NoRow

\* Does the delete match the row?
Matches(f) == row[f.timer].due = f.lease

Delete(f) == row' = IF Matches(f) THEN [row EXCEPT ![f.timer] = NoRow] ELSE row

Remove(p, f) ==
  /\ f.step = "remove"
  /\ Delete(f)
  /\ FireEnds(p, f)
  /\ UNCHANGED <<now, edits, proc, step, reserved, claimed, answerBy, late, history, faults>>

\* The delete fails or times out; the server may still carry it out.
RemoveFails(p, f) ==
  /\ f.step = "remove"
  /\ Fault
  /\ FireEnds(p, f)
  /\ late' \in {late, late \cup {[timer |-> f.timer, edit |-> f.edit, lease |-> f.lease]}}
  /\ UNCHANGED <<now, row, edits, proc, step, reserved, claimed, answerBy, history>>

LateRemove(f) ==
  /\ Delete(f)
  /\ late' = late \ {f}
  /\ UNCHANGED <<now, edits, pollers, history, faults>>

-----------------------------------------------------------------------------
(* Stop and crash *)

\* The first Stop of a running poller: from here on it counts as stopped.
Stop(p) ==
  /\ proc[p] = "running" /\ Fault
  /\ proc' = [proc EXCEPT ![p] = "stopping"]
  /\ UNCHANGED <<now, row, edits, step, reserved, slots, claimed, answerBy, fires, late, history>>

\* The lock given up, it cancels the loop and waits for it.
StopCancels(p) ==
  /\ proc[p] = "stopping"
  /\ proc' = [proc EXCEPT ![p] = "waiting"]
  /\ UNCHANGED <<now, row, edits, step, reserved, slots, claimed, answerBy, fires, late, history, faults>>

\* Any other Stop returns nil at once, also while the first one waits or after its
\* deadline; one before Start keeps the poller from ever starting.
StopAtOnce(p) ==
  /\ proc[p] # "running"
  /\ told' = told \cup {p}
  /\ IF proc[p] = "down"
     THEN /\ Fault
          /\ proc' = [proc EXCEPT ![p] = "drained"]
          /\ step' = [step EXCEPT ![p] = "done"]
     ELSE UNCHANGED <<proc, step, faults>>
  /\ UNCHANGED <<now, row, edits, reserved, slots, claimed, answerBy, fires, late, succeeded, cancelled>>

\* Every fire has ended, or the deadline passes and the handlers are cancelled.
FiresAwaited(p) ==
  /\ \/ /\ fires[p] = {}
        /\ proc' = [proc EXCEPT ![p] = "drained"]
        /\ told' = told \cup {p}
     \/ proc' = [proc EXCEPT ![p] = "cut"] /\ UNCHANGED told
  /\ UNCHANGED <<now, row, edits, step, reserved, slots, claimed, answerBy, fires, late,
                 succeeded, cancelled, faults>>

\* Variant: Stop waits for the fires but not for the loop.
StopSkipsLoop(p) == proc[p] = "waiting" /\ FiresAwaited(p)

\* The first Stop returns: the loop has ended, then it waits for the fires.
StopReturns(p) == proc[p] = "waiting" /\ step[p] = "done" /\ FiresAwaited(p)

\* The process ends, after Stop or by a crash; a delete sent may be carried out.
Die(p) ==
  /\ proc[p] # "down"
  /\ IF proc[p] \in {"drained", "cut"} THEN UNCHANGED faults ELSE Fault
  /\ proc' = [proc EXCEPT ![p] = "down"]
  /\ step' = [step EXCEPT ![p] = "reserve"]
  /\ reserved' = [reserved EXCEPT ![p] = 0]
  /\ slots' = [slots EXCEPT ![p] = 0]
  /\ claimed' = [claimed EXCEPT ![p] = {}]
  /\ fires' = [fires EXCEPT ![p] = {}]
  /\ \E sent \in SUBSET {f \in fires[p] : f.step = "remove"} :
       late' = late \cup {[timer |-> f.timer, edit |-> f.edit, lease |-> f.lease] : f \in sent}
  /\ told' = told \ {p}
  /\ UNCHANGED <<now, row, edits, answerBy, succeeded, cancelled>>

Start(p) ==
  /\ proc[p] = "down"
  /\ proc' = [proc EXCEPT ![p] = "running"]
  /\ UNCHANGED <<now, row, edits, step, reserved, slots, claimed, answerBy, fires, late, history, faults>>

\* Time passes, but not beyond the deadline of an answer, a handler or a
\* delete: a handler returns when its context is done.
Tick ==
  /\ now < MaxTime
  /\ \A p \in Pollers : /\ step[p] = "answer" => now < answerBy[p]
                        /\ \A f \in fires[p] : now < f.by
  /\ now' = now + 1
  /\ UNCHANGED <<row, edits, pollers, late, history, faults>>

Init ==
  /\ now = 0 /\ edits = 0 /\ faults = 0
  /\ row = [t \in Timers |-> NoRow]
  /\ proc = [p \in Pollers |-> "down"]
  /\ step = [p \in Pollers |-> "reserve"]
  /\ reserved = [p \in Pollers |-> 0]
  /\ slots = [p \in Pollers |-> 0]
  /\ claimed = [p \in Pollers |-> {}]
  /\ answerBy = [p \in Pollers |-> 0]
  /\ fires = [p \in Pollers |-> {}]
  /\ late = {}
  /\ succeeded = {} /\ cancelled = {} /\ told = {}

Claiming(p) == \E locked \in SUBSET Timers : \E S \in SUBSET Due : Takes(p, locked, S) /\ Claim(p, S)

Looping(p) == \/ Reserve(p) \/ Claiming(p) \/ Dispatch(p) \/ ClaimFails(p)
              \/ PauseEnds(p) \/ LoopExits(p)
Firing(p)  == \E f \in fires[p] : \/ HandlerSucceeds(p, f) \/ HandlerFails(p, f)
                                  \/ Remove(p, f) \/ RemoveFails(p, f)
Serving(p) == \/ Stop(p) \/ StopCancels(p) \/ StopReturns(p) \/ StopAtOnce(p)
              \/ Die(p) \/ Start(p)

Next ==
  \/ Tick
  \/ \E t \in Timers : Cancel(t) \/ \E due \in DueTimes : Schedule(t, due)
  \/ \E p \in Pollers : Looping(p) \/ Firing(p) \/ Serving(p)
  \/ \E f \in late : LateRemove(f)

Spec == Init /\ [][Next]_vars

-----------------------------------------------------------------------------
(* Properties *)

\* The types of the table and of what pollers know of it.
RowsType ==
  /\ now \in Nat /\ faults \in Nat /\ edits \in Nat
  /\ row \in [Timers -> [due : Nat \cup {-1}, edit : 0..edits]]
  /\ claimed \in [Pollers -> SUBSET [timer : Timers, edit : 1..edits, lease : Nat]]
  /\ fires \in [Pollers -> SUBSET [timer : Timers, edit : 1..edits, lease : Nat,
                                   step : {"handler", "remove"}, by : Nat]]
  /\ late \subseteq [timer : Timers, edit : 1..edits, lease : Nat]
  /\ succeeded \subseteq 1..edits /\ cancelled \subseteq 1..edits

\* A slot is taken for each row the loop may still claim and each goroutine of
\* a fire, and for nothing else: no path of the loop leaks one or gives one
\* back twice (loop.go, reserve and release).
SlotsAccounted ==
  \A p \in Pollers : slots[p] = reserved[p] + Cardinality(fires[p])

\* What was scheduled is in the table until a handler for just that schedule
\* returned nil or the service itself took it back: a delete, late as it may
\* be, spares a row rescheduled meanwhile, and no crash, failed claim or Stop
\* loses a row (README, pgtimer: "Nothing claimed is lost").
NothingLost ==
  \A e \in 1..edits : \/ e \in succeeded \cup cancelled
                      \/ \E t \in Timers : row[t].edit = e

\* While a handler runs for a schedule no other does, on any poller: it ends
\* before its lease if the answer of the claim was not slower than MaxDelay.
NoParallelHandlers ==
  \A p, q \in Pollers : \A f \in fires[p], g \in fires[q] :
    /\ f.step = "handler" /\ g.step = "handler"
    /\ f.timer = g.timer /\ f.edit = g.edit
    => p = q /\ f = g

\* Once any Stop of a poller has returned nil, nothing of it is under way: no row is
\* left to dispatch, no handler and no delete (stop.go: the loop has ended before the
\* fires are waited for).  Unless the first Stop still waits, since another returns
\* at once; if the first one was cut by its deadline, only handlers and deletes that
\* had begun go on.
DrainedIsQuiet ==
  \A p \in told : proc[p] \notin {"stopping", "waiting"} =>
    /\ claimed[p] = {}
    /\ proc[p] # "cut" => fires[p] = {}

\* Why NothingLost is inductive.  A claim knows the schedule of the row that
\* still has its lease as due time; only succeeded schedules are deleted.
LeaseNamesEdit ==
  \A p \in Pollers : \A f \in Claims(p) :
    row[f.timer].due = f.lease => row[f.timer].edit = f.edit
DeletesSucceeded ==
  /\ \A p \in Pollers : \A f \in fires[p] : f.step = "remove" => f.edit \in succeeded
  /\ \A f \in late : f.edit \in succeeded

\* No lease reaches further than one begun now, and a row is not due again in
\* the instant it was claimed.
LeasesAhead ==
  \A p \in Pollers : \A f \in Claims(p) :
    /\ f.lease <= now + Lease
    /\ f.lease = now + Lease => row[f.timer].due \in {-1, f.lease}
RowsAreEdits ==
  \A t \in Timers : row[t] = NoRow \/ (row[t].due >= 0 /\ row[t].edit > 0)

IInv == /\ RowsType /\ RowsAreEdits /\ LeasesAhead /\ LeaseNamesEdit
        /\ DeletesSucceeded /\ NothingLost

\* Why SlotsAccounted is inductive.  Slots are reserved, and rows claimed, only
\* between a reservation and the answer of its claim; no lease is held twice, so
\* that every fire counts as one; and only finitely many rows can be claimed.
LoopType ==
  /\ proc \in [Pollers -> {"running", "stopping", "waiting", "drained", "cut", "down"}]
  /\ told \subseteq Pollers
  /\ step \in [Pollers -> {"reserve", "claim", "answer", "pause", "done"}]
  /\ reserved \in [Pollers -> Nat] /\ slots \in [Pollers -> Int]
  /\ answerBy \in [Pollers -> Nat]
LoopHolds ==
  \A p \in Pollers :
    /\ step[p] \notin {"claim", "answer"} => reserved[p] = 0
    /\ step[p] # "answer" => claimed[p] = {}
HeldFinite ==
  /\ IsFiniteSet({t \in Timers : row[t] # NoRow})
  /\ \A p \in Pollers : IsFiniteSet(claimed[p]) /\ IsFiniteSet(fires[p])
SameLease(f, g) == f.timer = g.timer /\ f.lease = g.lease
LeasesApart ==
  \A p, q \in Pollers :
    /\ \A f \in fires[p], g \in fires[q] : SameLease(f, g) => p = q /\ f = g
    /\ \A c \in claimed[p], d \in claimed[q] : SameLease(c, d) => p = q /\ c = d
    /\ \A f \in fires[p], c \in claimed[q] : ~SameLease(f, c)

\* Why DrainedIsQuiet is inductive: a loop that Stop waited for is done, and a
\* poller that was stopped does not start again.
StopWaited ==
  \A p \in Pollers :
    /\ proc[p] \in {"drained", "cut"} => step[p] = "done"
    /\ proc[p] = "down" => step[p] = "reserve"
    /\ proc[p] \in {"drained", "down"} => fires[p] = {}
    /\ p \in told => proc[p] \notin {"running", "down"}

SlotInv == LoopType /\ LoopHolds /\ HeldFinite /\ LeasesApart /\ StopWaited /\ SlotsAccounted

\* Why NoParallelHandlers is inductive.  What is under way for a schedule ends
\* before its lease, and the row is not due before that lease unless the
\* service rescheduled it.
LeaseCovers == MaxDelay + HandlerTimeout < Lease

Handlers(p) == {f \in fires[p] : f.step = "handler"}
EndsInLease ==
  \A p \in Pollers :
    /\ step[p] = "answer" => now <= answerBy[p]
    /\ \A c \in claimed[p] : answerBy[p] + HandlerTimeout < c.lease
    /\ \A f \in Handlers(p) : now <= f.by /\ f.by < f.lease
RowAfterLease ==
  \A p \in Pollers : \A f \in fires[p] \cup claimed[p] :
    row[f.timer].edit = f.edit => row[f.timer].due >= f.lease
SameEdit(f, g) == f.timer = g.timer /\ f.edit = g.edit
OneHolder ==
  \A p, q \in Pollers :
    /\ \A c \in claimed[p], d \in claimed[q] : SameEdit(c, d) => p = q /\ c = d
    /\ \A f \in Handlers(p), c \in claimed[q] : ~SameEdit(f, c)

HandlerInv == EndsInLease /\ RowAfterLease /\ OneHolder /\ NoParallelHandlers

\* The loop runs, the database answers and executes what it was sent, a row is
\* not locked by others every time, handlers return, and dead processes come back.
Fairness ==
  /\ WF_vars(Tick)
  /\ \A p \in Pollers :
       /\ WF_vars(Reserve(p) \/ Dispatch(p) \/ PauseEnds(p) \/ LoopExits(p))
       /\ SF_vars(\E S \in SUBSET Due : Takes(p, {}, S) /\ Claim(p, S))
       /\ WF_vars(\E f \in fires[p] : HandlerSucceeds(p, f) \/ Remove(p, f))
       /\ WF_vars(StopCancels(p) \/ StopReturns(p))
       /\ WF_vars(Die(p) /\ proc[p] \in {"drained", "cut"})
       /\ WF_vars(Start(p))

FairSpec == Spec /\ Fairness

\* Every schedule is carried out or taken back, if only the clock goes on long
\* enough: failed claims, deletes and handlers, crashes and Stop merely delay.
EventuallyFires ==
  \A e \in 1..MaxEdits :
    (\E t \in Timers : row[t].edit = e)
      ~> \A t \in Timers : row[t].edit = e => row[t].due > MaxTime
=============================================================================
