----------------------------- MODULE TimedActor -----------------------------
(***************************************************************************)
(* The distributed timer of pkg/timedactor: replicas share a key-value     *)
(* bucket (a log of revisions, the last one of a key being its value),     *)
(* watch it, keep an in-memory timer per key, and race to remove an        *)
(* expired key under a revision guard; the winner calls back.              *)
(*                                                                         *)
(* Goroutines are explicit: watchers (one per subscribed pattern, which    *)
(* also rescan the bucket), timer goroutines (runners) and the goroutines  *)
(* that end a hold.  Every remote call is a step of its own.               *)
(***************************************************************************)
EXTENDS Naturals, Sequences, FiniteSets

CONSTANTS Keys, Replicas,
          Watchers,       \* watcher goroutines: one per replica and pattern
          Runners,        \* goroutines of elapsed timers (bound)
          Holders,        \* slots for calls of Hold (bound)
          Host,           \* watcher, runner or holder -> its replica
          Watches,        \* watcher -> the keys its pattern matches
          Timeouts,       \* timeouts a caller of Add may ask for
          MaxHold,        \* Config.MaxHoldDuration
          RescanEnabled,  \* Config.RescanInterval > 0
          MaxTime,        \* bound: the clock stops here
          MaxLog,         \* bound: callers write no further revision
          MaxFaults       \* bound: crashes, stops and failed calls

Procs == Runners \cup Watchers

ASSUME Parameters ==
  /\ Host \in [Procs \cup Holders -> Replicas]
  /\ Watches \in [Watchers -> SUBSET Keys]
  /\ Runners \cap Watchers = {}
  /\ Timeouts \subseteq Nat
  /\ MaxHold \in Nat /\ MaxTime \in Nat /\ MaxLog \in Nat /\ MaxFaults \in Nat
  /\ RescanEnabled \in BOOLEAN

VARIABLES now,
          log,       \* every revision ever written, in order
          last,      \* key -> its last revision, 0 if it never had one
          pending,   \* watcher -> revisions it has not been handed yet
          status,    \* replica -> "up", "stopped" (Stop was called), "down"
          timers,    \* replica -> key -> the timer its map refers to
          orphans,   \* replica -> running timers the map lost track of
          attempt,   \* runner or watcher -> its tryFireCallback in progress
          watch,     \* watcher -> its loop: closed, idle, or in a rescan
          hold,      \* holder -> its Hold in progress
          clearing,  \* replica -> keys Clear removed, local timer not stopped
          fired,     \* history: callbacks made, in order
          faults

store == <<log, last, pending>>
vars == <<now, log, last, pending, status, timers, orphans, attempt, watch,
          hold, clearing, fired, faults>>

NoTimer   == [rev |-> 0, due |-> 0, running |-> FALSE]
NoAttempt == [step |-> "idle", rev |-> 0]
NoHold    == [step |-> "idle", orig |-> 0, rev |-> 0]
Idle      == [step |-> "idle", todo |-> {}, rev |-> 0, at |-> 0]
Closed    == [Idle EXCEPT !.step = "closed"]

-----------------------------------------------------------------------------
(* The bucket *)

\* A stored payload keeps, beside its expiry, the revision of the Add whose
\* metadata it carries: Hold copies the metadata, Add brings a new one.
Put(k, exp, add) == [op |-> "put", key |-> k, exp |-> exp, add |-> add]
\* A delete marker; op tells who wrote it, add the revision a guard named.
Marker(op, k, rev) == [op |-> op, key |-> k, exp |-> 0, add |-> rev]

KeyOf(n) == log[n].key
Live(k) == last[k] # 0 /\ log[last[k]].op = "put"
Overdue(k) == Live(k) /\ now > log[last[k]].exp

\* The server appends a revision and hands it to every open watcher.
Write(e) ==
  /\ log' = Append(log, e)
  /\ last' = [last EXCEPT ![e.key] = Len(log) + 1]
  /\ pending' = [w \in Watchers |->
       IF watch[w].step # "closed" /\ e.key \in Watches[w]
       THEN pending[w] \cup {Len(log) + 1} ELSE pending[w]]

Fault == faults < MaxFaults /\ faults' = faults + 1

-----------------------------------------------------------------------------
(* In-memory timers *)

StopTimer(r, k) == timers' = [timers EXCEPT ![r][k] = NoTimer]

\* Replaces, and so stops, the timer the map has for the key.
ScheduleTimer(r, n, due) ==
  timers' = [timers EXCEPT ![r][KeyOf(n)] =
               [rev |-> n, due |-> due, running |-> TRUE]]

Begin(p, n) == attempt' = [attempt EXCEPT ![p] = [step |-> "start", rev |-> n]]
End(p) == attempt' = [attempt EXCEPT ![p] = NoAttempt]
Goto(p, s) == attempt' = [attempt EXCEPT ![p].step = s]

\* A timer of the map elapses; the map still refers to it.
TimerElapses(p, k) ==
  LET t == timers[Host[p]][k]
  IN /\ attempt[p] = NoAttempt
     /\ t.running /\ t.due <= now
     /\ timers' = [timers EXCEPT ![Host[p]][k].running = FALSE]
     /\ Begin(p, t.rev)
     /\ UNCHANGED <<now, store, status, orphans, watch, hold, clearing, fired, faults>>

\* A timer nothing refers to, and so nothing can stop, elapses.
OrphanElapses(p) ==
  /\ attempt[p] = NoAttempt
  /\ \E t \in orphans[Host[p]] :
       /\ t.due <= now
       /\ orphans' = [orphans EXCEPT ![Host[p]] = @ \ {t}]
       /\ Begin(p, t.rev)
  /\ UNCHANGED <<now, store, status, timers, watch, hold, clearing, fired, faults>>

-----------------------------------------------------------------------------
(* tryFireCallback, run by a timer goroutine or inside a watcher's rescan *)

\* The reference of the map goes first, whatever timer it is to.
DropReference(p) ==
  LET r == Host[p]
      k == KeyOf(attempt[p].rev)
      t == timers[r][k]
  IN /\ attempt[p].step = "start"
     /\ orphans' = [orphans EXCEPT ![r] = @ \cup
                      {[rev |-> u.rev, due |-> u.due] : u \in {v \in {t} : v.running}}]
     /\ StopTimer(r, k)
     /\ IF status[r] = "up" THEN Goto(p, "removing") ELSE End(p)
     /\ UNCHANGED <<now, store, status, watch, hold, clearing, fired, faults>>

\* Variant: the removal carries no revision.
RemovalUnguarded(n) == n \in 1..Len(log)

\* Does the server accept a removal guarded by LastRevision(n)?
RemovalAccepted(n) == last[KeyOf(n)] = n

Remove(p) ==
  LET n == attempt[p].rev
  IN /\ attempt[p].step = "removing"
     /\ IF RemovalAccepted(n)
        THEN Write(Marker("fire", KeyOf(n), n)) /\ Goto(p, "won")
        ELSE End(p) /\ UNCHANGED store
     /\ UNCHANGED <<now, status, timers, orphans, watch, hold, clearing, fired, faults>>

\* The call fails: the server never saw it, or accepted it and the answer is
\* lost.  Stop cancels the context of the call and so needs no other fault.
RemoveFails(p) ==
  LET n == attempt[p].rev
  IN /\ attempt[p].step = "removing"
     /\ \/ UNCHANGED store
        \/ RemovalAccepted(n) /\ Write(Marker("fire", KeyOf(n), n))
     /\ Goto(p, "failed")
     /\ IF status[Host[p]] = "up" THEN Fault ELSE UNCHANGED faults
     /\ UNCHANGED <<now, status, timers, orphans, watch, hold, clearing, fired>>

\* Variant: the retry takes the place of whatever timer the map has.
RetryReplaces(p) ==
  LET n == attempt[p].rev
  IN /\ attempt[p].step = "failed"
     /\ IF RescanEnabled /\ status[Host[p]] = "up"
        THEN ScheduleTimer(Host[p], n, now) ELSE UNCHANGED timers
     /\ End(p)
     /\ UNCHANGED <<now, store, status, orphans, watch, hold, clearing, fired, faults>>

\* The retry keeps the revision; its delay (CheckInterval) is left to the
\* runner, which may take any time to start.
RetryLater(p) ==
  LET r == Host[p]
      n == attempt[p].rev
  IN /\ attempt[p].step = "failed"
     /\ IF RescanEnabled /\ status[r] = "up" /\ timers[r][KeyOf(n)] = NoTimer
        THEN ScheduleTimer(r, n, now) ELSE UNCHANGED timers
     /\ End(p)
     /\ UNCHANGED <<now, store, status, orphans, watch, hold, clearing, fired, faults>>

Callback(p) ==
  /\ attempt[p].step = "won"
  /\ fired' = Append(fired, [rev |-> attempt[p].rev, at |-> now])
  /\ End(p)
  /\ UNCHANGED <<now, store, status, timers, orphans, watch, hold, clearing, faults>>

-----------------------------------------------------------------------------
(* A watcher's loop *)

\* The watch starts with the current value of every key it matches; markers
\* with a TTL may be gone by then.
OpenWatch(w) ==
  /\ watch[w] = Closed
  /\ status[Host[w]] = "up"
  /\ \E gone \in SUBSET {k \in Watches[w] : ~Live(k)} :
       pending' = [pending EXCEPT ![w] =
                     {last[k] : k \in {j \in Watches[w] \ gone : last[j] # 0}}]
  /\ watch' = [watch EXCEPT ![w] = Idle]
  /\ UNCHANGED <<now, log, last, status, timers, orphans, attempt, hold, clearing, fired, faults>>

\* The loop returns: the channel was closed under it, or Stop was called.
CloseWatch(w) ==
  /\ watch[w] = Idle
  /\ IF status[Host[w]] = "up" THEN Fault ELSE UNCHANGED faults
  /\ watch' = [watch EXCEPT ![w] = Closed]
  /\ pending' = [pending EXCEPT ![w] = {}]
  /\ UNCHANGED <<now, log, last, status, timers, orphans, attempt, hold, clearing, fired>>

\* The bucket keeps one revision per key: one superseded before it was
\* delivered may never be.
SkipSuperseded(w) ==
  /\ \E n \in pending[w] : /\ n # last[KeyOf(n)]
                           /\ pending' = [pending EXCEPT ![w] = @ \ {n}]
  /\ UNCHANGED <<now, log, last, status, timers, orphans, attempt, watch, hold, clearing, fired, faults>>

HandleWatchEntry(w) ==
  /\ watch[w] = Idle
  /\ \E n \in pending[w] :
       /\ \A m \in pending[w] : n <= m
       /\ pending' = [pending EXCEPT ![w] = @ \ {n}]
       /\ IF log[n].op = "put" THEN ScheduleTimer(Host[w], n, log[n].exp)
                               ELSE StopTimer(Host[w], KeyOf(n))
  /\ UNCHANGED <<now, log, last, status, orphans, attempt, watch, hold, clearing, fired, faults>>

\* The ticker (or the end of the initial values): the keys without a timer
\* are taken down, and the time.  Which of them exist is settled key by key.
Untracked(r) == {k \in Keys : timers[r][k] = NoTimer}

RescanStart(w) ==
  /\ watch[w] = Idle
  /\ status[Host[w]] = "up"
  /\ Untracked(Host[w]) # {}
  /\ watch' = [watch EXCEPT ![w] =
       [step |-> "scan", rev |-> 0, at |-> now, todo |-> Untracked(Host[w])]]
  /\ UNCHANGED <<now, store, status, timers, orphans, attempt, hold, clearing, fired, faults>>

\* Get of the next key: its revision, or nothing (removed, or the call fails).
RescanGet(w) ==
  /\ watch[w].step = "scan"
  /\ attempt[w] = NoAttempt
  /\ \E k \in watch[w].todo :
       \/ /\ Live(k) /\ status[Host[w]] = "up"
          /\ watch' = [watch EXCEPT ![w].step = "got", ![w].rev = last[k],
                                    ![w].todo = @ \ {k}]
          /\ UNCHANGED faults
       \/ /\ IF Live(k) /\ status[Host[w]] = "up" THEN Fault ELSE UNCHANGED faults
          /\ watch' = [watch EXCEPT ![w].todo = @ \ {k}]
  /\ UNCHANGED <<now, store, status, timers, orphans, attempt, hold, clearing, fired>>

\* Variant: an overdue key is left to its timer.
RescanSchedulesOnly(w) ==
  LET n == watch[w].rev
  IN /\ watch[w].step = "got"
     /\ IF watch[w].at > log[n].exp
        THEN UNCHANGED timers ELSE ScheduleTimer(Host[w], n, log[n].exp)
     /\ watch' = [watch EXCEPT ![w].step = "scan", ![w].rev = 0]
     /\ UNCHANGED <<now, store, status, attempt, orphans, hold, clearing, fired, faults>>

\* The key found is attempted if it was overdue when the rescan began, and
\* scheduled otherwise.
RescanAct(w) ==
  LET n == watch[w].rev
  IN /\ watch[w].step = "got"
     /\ IF watch[w].at > log[n].exp
        THEN Begin(w, n) /\ UNCHANGED timers
        ELSE ScheduleTimer(Host[w], n, log[n].exp) /\ UNCHANGED attempt
     /\ watch' = [watch EXCEPT ![w].step = "scan", ![w].rev = 0]
     /\ UNCHANGED <<now, store, status, orphans, hold, clearing, fired, faults>>

RescanEnd(w) ==
  /\ watch[w].step = "scan" /\ watch[w].todo = {}
  /\ attempt[w] = NoAttempt
  /\ watch' = [watch EXCEPT ![w] = Idle]
  /\ UNCHANGED <<now, store, status, timers, orphans, attempt, hold, clearing, fired, faults>>

-----------------------------------------------------------------------------
(* Add, Hold, Clear *)

CallerMayWrite == Len(log) < MaxLog

Add(k) ==
  /\ CallerMayWrite
  /\ \E t \in Timeouts : /\ now + t < MaxTime
                         /\ Write(Put(k, now + t, Len(log) + 1))
  /\ UNCHANGED <<now, status, timers, orphans, attempt, watch, hold, clearing, fired, faults>>

HoldRead(h, k) ==
  /\ CallerMayWrite
  /\ hold[h] = NoHold /\ status[Host[h]] # "down"
  /\ Live(k)
  /\ hold' = [hold EXCEPT ![h] = [step |-> "read", orig |-> last[k], rev |-> 0]]
  /\ UNCHANGED <<now, store, status, timers, orphans, attempt, watch, clearing, fired, faults>>

\* Variant: the hold always ends MaxHold from now.
HoldDeadlineFromNow(exp) == now + MaxHold

\* holdDeadline: never earlier than the expiry that is held back.
HoldDeadline(exp) == IF exp > now + MaxHold THEN exp ELSE now + MaxHold

\* A payload for the same key and metadata, with another expiry.
Repeat(n, exp) == Put(KeyOf(n), exp, log[n].add)

\* The update, guarded by the revision read.
HoldUpdate(h) ==
  LET n == hold[h].orig
  IN /\ hold[h].step = "read"
     /\ now + MaxHold < MaxTime
     /\ IF last[KeyOf(n)] = n
        THEN /\ Write(Repeat(n, HoldDeadline(log[n].exp)))
             /\ hold' = [hold EXCEPT ![h] = [step |-> "held", orig |-> n, rev |-> Len(log) + 1]]
        ELSE hold' = [hold EXCEPT ![h] = NoHold] /\ UNCHANGED store
     /\ UNCHANGED <<now, status, timers, orphans, attempt, watch, clearing, fired, faults>>

\* The update fails, or takes effect and Hold is told it failed: nobody is
\* left to restore the expiry.
HoldUpdateFails(h) ==
  LET n == hold[h].orig
  IN /\ hold[h].step = "read"
     /\ now + MaxHold < MaxTime
     /\ Fault
     /\ \/ UNCHANGED store
        \/ last[KeyOf(n)] = n /\ Write(Repeat(n, HoldDeadline(log[n].exp)))
     /\ hold' = [hold EXCEPT ![h] = NoHold]
     /\ UNCHANGED <<now, status, timers, orphans, attempt, watch, clearing, fired>>

\* The caller cancels the context of the hold.
Release(h) ==
  /\ hold[h].step = "held"
  /\ hold' = [hold EXCEPT ![h].step = "released"]
  /\ UNCHANGED <<now, store, status, timers, orphans, attempt, watch, clearing, fired, faults>>

\* The goroutine reads the key again: only its own revision is restored.
HoldCheck(h) ==
  /\ hold[h].step = "released"
  /\ status[Host[h]] = "up"
  /\ hold' = IF last[KeyOf(hold[h].rev)] = hold[h].rev
             THEN [hold EXCEPT ![h].step = "restoring"]
             ELSE [hold EXCEPT ![h] = NoHold]
  /\ UNCHANGED <<now, store, status, timers, orphans, attempt, watch, clearing, fired, faults>>

\* Variant: the payload of the hold itself is written back.
RestoreHeldPayload(h) ==
  LET n == hold[h].rev
  IN /\ hold[h].step = "restoring"
     /\ IF last[KeyOf(n)] = n THEN Write(Repeat(n, log[n].exp)) ELSE UNCHANGED store
     /\ hold' = [hold EXCEPT ![h] = NoHold]
     /\ UNCHANGED <<now, status, timers, orphans, attempt, watch, clearing, fired, faults>>

\* The restoring update is guarded by the revision of the hold.
HoldRestore(h) ==
  LET n == hold[h].orig
  IN /\ hold[h].step = "restoring"
     /\ IF last[KeyOf(n)] = hold[h].rev
        THEN Write(Repeat(n, log[n].exp)) ELSE UNCHANGED store
     /\ hold' = [hold EXCEPT ![h] = NoHold]
     /\ UNCHANGED <<now, status, timers, orphans, attempt, watch, clearing, fired, faults>>

\* The goroutine gives up: a call of its fails, or the actor was stopped.
HoldAbandoned(h) ==
  /\ \/ hold[h].step \in {"released", "restoring"} /\ status[Host[h]] = "up" /\ Fault
     \/ hold[h].step \in {"held", "released", "restoring"}
          /\ status[Host[h]] = "stopped" /\ UNCHANGED faults
  /\ hold' = [hold EXCEPT ![h] = NoHold]
  /\ UNCHANGED <<now, store, status, timers, orphans, attempt, watch, clearing, fired>>

\* Clear removes the key whatever its revision; if the answer is lost the
\* caller is told of a failure and the local timer is left to the watcher.
Clear(r, k) ==
  /\ CallerMayWrite
  /\ status[r] # "down"
  /\ Write(Marker("clear", k, 0))
  /\ \/ clearing' = [clearing EXCEPT ![r] = @ \cup {k}] /\ UNCHANGED faults
     \/ Fault /\ UNCHANGED clearing
  /\ UNCHANGED <<now, status, timers, orphans, attempt, watch, hold, fired>>

\* Then it stops the timer the map has by now.
ClearStopTimer(r, k) ==
  /\ k \in clearing[r]
  /\ StopTimer(r, k)
  /\ clearing' = [clearing EXCEPT ![r] = @ \ {k}]
  /\ UNCHANGED <<now, store, status, orphans, attempt, watch, hold, fired, faults>>

-----------------------------------------------------------------------------
(* Processes and time *)

\* Stop cancels the root context and stops the timers the map refers to;
\* timer goroutines and orphans are not waited for.
Stop(r) ==
  /\ status[r] = "up" /\ Fault
  /\ status' = [status EXCEPT ![r] = "stopped"]
  /\ timers' = [timers EXCEPT ![r] = [k \in Keys |-> NoTimer]]
  /\ UNCHANGED <<now, store, orphans, attempt, watch, hold, clearing, fired>>

\* The process ends, after Stop or by a crash, with all it had in memory.
Die(r) ==
  /\ status[r] # "down"
  /\ IF status[r] = "up" THEN Fault ELSE UNCHANGED faults
  /\ status' = [status EXCEPT ![r] = "down"]
  /\ timers' = [timers EXCEPT ![r] = [k \in Keys |-> NoTimer]]
  /\ orphans' = [orphans EXCEPT ![r] = {}]
  /\ clearing' = [clearing EXCEPT ![r] = {}]
  /\ attempt' = [p \in Procs |-> IF Host[p] = r THEN NoAttempt ELSE attempt[p]]
  /\ watch' = [w \in Watchers |-> IF Host[w] = r THEN Closed ELSE watch[w]]
  /\ pending' = [w \in Watchers |-> IF Host[w] = r THEN {} ELSE pending[w]]
  /\ hold' = [h \in Holders |-> IF Host[h] = r THEN NoHold ELSE hold[h]]
  /\ UNCHANGED <<now, log, last, fired>>

Start(r) ==
  /\ status[r] = "down"
  /\ status' = [status EXCEPT ![r] = "up"]
  /\ UNCHANGED <<now, store, timers, orphans, attempt, watch, hold, clearing, fired, faults>>

Tick ==
  /\ now < MaxTime
  /\ now' = now + 1
  /\ UNCHANGED <<store, status, timers, orphans, attempt, watch, hold, clearing, fired, faults>>

Init ==
  /\ now = 0
  /\ log = <<>> /\ last = [k \in Keys |-> 0]
  /\ pending = [w \in Watchers |-> {}]
  /\ status = [r \in Replicas |-> "up"]
  /\ timers = [r \in Replicas |-> [k \in Keys |-> NoTimer]]
  /\ orphans = [r \in Replicas |-> {}]
  /\ attempt = [p \in Procs |-> NoAttempt]
  /\ watch = [w \in Watchers |-> Closed]
  /\ hold = [h \in Holders |-> NoHold]
  /\ clearing = [r \in Replicas |-> {}]
  /\ fired = <<>>
  /\ faults = 0

TryFire(p) == \/ DropReference(p) \/ Remove(p) \/ RemoveFails(p)
              \/ RetryLater(p) \/ Callback(p)
Watching(w) == \/ OpenWatch(w) \/ CloseWatch(w) \/ SkipSuperseded(w)
               \/ HandleWatchEntry(w) \/ RescanStart(w) \/ RescanGet(w)
               \/ RescanAct(w) \/ RescanEnd(w)
Holding(h) == \/ \E k \in Keys : HoldRead(h, k)
              \/ HoldUpdate(h) \/ HoldUpdateFails(h) \/ Release(h)
              \/ HoldCheck(h) \/ HoldRestore(h) \/ HoldAbandoned(h)

Next ==
  \/ Tick
  \/ \E k \in Keys : Add(k)
  \/ \E p \in Procs : TryFire(p)
  \/ \E p \in Runners : OrphanElapses(p) \/ \E k \in Keys : TimerElapses(p, k)
  \/ \E w \in Watchers : Watching(w)
  \/ \E h \in Holders : Holding(h)
  \/ \E r \in Replicas : \/ Stop(r) \/ Die(r) \/ Start(r)
                         \/ \E k \in Keys : Clear(r, k) \/ ClearStopTimer(r, k)

Spec == Init /\ [][Next]_vars

-----------------------------------------------------------------------------
(* Properties *)

\* The add a callback made, or about to be made, is for.
FiredAdd(i) == log[fired[i].rev].add
WonAdd(p)   == log[attempt[p].rev].add

\* The revisions a goroutine may refer to: only puts are ever scheduled, fired,
\* rescanned or held.
Puts  == {n \in 1..Len(log) : log[n].op = "put"}
Revs  == Puts \cup {0}
Entry == [op : {"put", "fire", "clear"}, key : Keys, exp : Nat, add : Nat]
Timer == [rev : Revs, due : Nat, running : BOOLEAN]

StoreType ==
  /\ log \in Seq(Entry)
  /\ last \in [Keys -> 0..Len(log)]
  /\ pending \in [Watchers -> SUBSET (1..Len(log))]

TimersType ==
  /\ timers \in [Replicas -> [Keys -> Timer]]
  /\ \A r \in Replicas, k \in Keys : timers[r][k].running => timers[r][k].rev \in Puts

OrphansType == orphans \in [Replicas -> SUBSET [rev : Puts, due : Nat]]

AttemptType ==
  /\ attempt \in [Procs -> [step : {"idle", "start", "removing", "failed", "won"}, rev : Revs]]
  /\ \A p \in Procs : attempt[p].step # "idle" => attempt[p].rev \in Puts

WatchType ==
  /\ watch \in [Watchers -> [step : {"closed", "idle", "scan", "got"},
                             todo : SUBSET Keys, rev : Revs, at : Nat]]
  /\ \A w \in Watchers : watch[w].step = "got" => watch[w].rev \in Puts

HoldType ==
  /\ hold \in [Holders -> [step : {"idle", "read", "held", "released", "restoring"},
                           orig : Revs, rev : Revs]]
  /\ \A h \in Holders : /\ hold[h].step # "idle" => hold[h].orig \in Puts
                        /\ hold[h].step \notin {"idle", "read"} => hold[h].rev \in Puts
                        /\ hold[h].step = "read" => hold[h].rev = 0

FiredType == fired \in Seq([rev : Puts, at : Nat])

\* Types and the shape of the state of every goroutine.
TypeOK ==
  /\ now \in Nat /\ faults \in Nat
  /\ status \in [Replicas -> {"up", "stopped", "down"}]
  /\ clearing \in [Replicas -> SUBSET Keys]
  /\ StoreType /\ TimersType /\ OrphansType /\ AttemptType
  /\ WatchType /\ HoldType /\ FiredType

\* Every Add leads to at most one callback, over all replicas, and over the
\* revisions Hold makes of it, whatever crashes or answers get lost: the
\* revision guard of removeKey (actor.go, tryFireCallback).
AtMostOnce == \A i, j \in DOMAIN fired : i # j => FiredAdd(i) # FiredAdd(j)

\* A callback is only made for the revision that was the value of its key
\* when the timer removed it: no timer of an expiry since replaced by Add or
\* Hold, or cleared, calls back, however late its watcher is.
NoStaleCallback ==
  \A i \in DOMAIN fired :
    LET n == fired[i].rev
    IN \E m \in (n + 1)..Len(log) :
         /\ log[m] = Marker("fire", KeyOf(n), n)
         /\ \A j \in (n + 1)..(m - 1) : KeyOf(j) # KeyOf(n)

\* While the hold of a timer is on, its callback waits for the deadline the
\* hold gave it, on all replicas (actor.go, comment of Hold).
HoldSuppresses ==
  \A h \in Holders, i \in DOMAIN fired :
    hold[h].step = "held" /\ FiredAdd(i) = log[hold[h].rev].add
      => fired[i].at >= log[hold[h].rev].exp

\* Between holds a timer has the expiry its Add asked for: a hold that ended
\* without an Add restored it (actor.go, comment of Hold; README, Hold
\* Scenarios).  A fault may keep a hold from ending: it is no longer claimed.
HoldEndsRestored ==
  \A k \in Keys :
    faults = 0 /\ Live(k) /\ log[last[k]].exp # log[log[last[k]].add].exp
      => \E h \in Holders : hold[h].rev = last[k]

\* A replica whose watchers have all caught up with the bucket has a running
\* timer, in its map or orphaned, for the value of every key they match, or is
\* firing it: the rescan is a safety net that is not needed.  Not so for a key
\* that was ever cleared (the late stopTimer of Clear may hit the timer of a
\* newer Add), when the removals of two revisions fail together (retryLater of
\* the newer one yields to the retry of the older), or with several patterns
\* subscribed (the rescan of one watcher acts on a revision it read before
\* another watcher scheduled a newer one).
CaughtUpIsCovered ==
  \A r \in Replicas : \A k \in Keys :
    LET n == last[k]
    IN /\ \E w \in Watchers :
            /\ {v \in Watchers : Host[v] = r} = {w} /\ k \in Watches[w]
            /\ watch[w] = Idle /\ pending[w] = {}
       /\ status[r] = "up" /\ Live(k)
       /\ \A m \in 1..Len(log) : ~(log[m].op = "clear" /\ KeyOf(m) = k)
       => \/ timers[r][k].running /\ timers[r][k].rev = n
          \/ \E t \in orphans[r] : t.rev = n
          \/ \E p \in Procs : Host[p] = r /\ attempt[p].rev = n

\* The reasons AtMostOnce is inductive.  A payload names an Add of its own key,
\* and a hold only repeats the metadata of the revision it replaced.
PayloadsOK ==
  /\ \A n \in Puts : log[n].add \in 1..n /\ KeyOf(log[n].add) = KeyOf(n)
  /\ \A k \in Keys : last[k] # 0 => KeyOf(last[k]) = k
  /\ \A h \in Holders : hold[h].step \notin {"idle", "read"} =>
       /\ KeyOf(hold[h].rev) = KeyOf(hold[h].orig)
       /\ log[hold[h].rev].add = log[hold[h].orig].add

\* An Add that was won is not live any more, and is won and called back once.
SpentOnce ==
  /\ \A k \in Keys : Live(k) =>
       /\ \A p \in Procs : attempt[p].step = "won" => WonAdd(p) # log[last[k]].add
       /\ \A i \in DOMAIN fired : FiredAdd(i) # log[last[k]].add
  /\ \A p, q \in Procs : attempt[p].step = "won" /\ attempt[q].step = "won" /\ p # q
       => WonAdd(p) # WonAdd(q)
  /\ \A p \in Procs, i \in DOMAIN fired : attempt[p].step = "won" => WonAdd(p) # FiredAdd(i)

IInv == TypeOK /\ PayloadsOK /\ SpentOnce /\ AtMostOnce

\* The promise to users, on the last revision of every key.
Adds == {n \in 1..Len(log) : log[n].op = "put" /\ log[n].add = n}

\* The reasons KeepsPromise holds.  No timer runs, and no attempt is made, before
\* the expiry of its revision; and no revision expires before its Add asked for.
NotEarly ==
  /\ \A r \in Replicas, k \in Keys :
       timers[r][k].running => log[timers[r][k].rev].exp <= timers[r][k].due
  /\ \A r \in Replicas : \A t \in orphans[r] : log[t.rev].exp <= t.due
  /\ \A p \in Procs : attempt[p].step # "idle" => log[attempt[p].rev].exp <= now
  /\ \A w \in Watchers : watch[w].at <= now
InForce(h) == hold[h].step \notin {"idle", "read"}
NeverSooner ==
  /\ \A n \in Puts : log[n].add \in Adds /\ log[log[n].add].exp <= log[n].exp
  /\ \A h \in Holders : InForce(h) => log[hold[h].orig].exp <= log[hold[h].rev].exp
  /\ Adds # {} => \E a \in Adds : \A b \in Adds : b <= a

\* The reasons HoldSuppresses holds.  A hold replaces just the revision it read,
\* no two holds write one revision, and while a hold is on, what is written after
\* it for its Add does not expire earlier.
HoldsChain ==
  /\ \A h \in Holders : InForce(h) =>
       /\ hold[h].orig < hold[h].rev
       /\ \A j \in (hold[h].orig + 1)..(hold[h].rev - 1) : KeyOf(j) # KeyOf(hold[h].rev)
  /\ \A h, g \in Holders : InForce(h) /\ InForce(g) /\ hold[h].rev = hold[g].rev => h = g
HeldFloor ==
  \A h \in Holders, n \in Puts :
    hold[h].step = "held" /\ n >= hold[h].rev /\ log[n].add = log[hold[h].rev].add
      => log[n].exp >= log[hold[h].rev].exp
WonAfterHold ==
  \A h \in Holders, p \in Procs :
    /\ hold[h].step = "held" /\ attempt[p].step = "won"
    /\ WonAdd(p) = log[hold[h].rev].add
    => log[attempt[p].rev].exp >= log[hold[h].rev].exp
HInv == HoldsChain /\ HeldFloor /\ WonAfterHold /\ HoldSuppresses

\* The reason HoldEndsRestored holds with a single holder: the expiry it read,
\* and will restore, is the one the Add asked for.
ReadsOwn ==
  faults = 0 =>
    /\ \A r \in Replicas : status[r] = "up"
    /\ \A h \in Holders : hold[h].step # "idle" =>
         log[hold[h].orig].exp = log[log[hold[h].orig].add].exp
RInv == ReadsOwn /\ HoldEndsRestored

Armed    == IF Adds = {} THEN 0 ELSE CHOOSE a \in Adds : \A b \in Adds : b <= a
Slot     == [k \in Keys |-> IF Live(k)
                            THEN [add |-> log[last[k]].add, due |-> log[last[k]].exp]
                            ELSE [add |-> 0, due |-> 0]]
Deadline == [a \in Adds |-> log[a].exp]
Claimed  == {WonAdd(p) : p \in {q \in Procs : attempt[q].step = "won"}}
Called   == {FiredAdd(i) : i \in DOMAIN fired}

Promise == INSTANCE TimerPromise WITH
  clock <- now, armed <- Armed, slot <- Slot, deadline <- Deadline,
  claimed <- Claimed, called <- Called

\* The actor implements the promise: at most one claim per timer, only when
\* due, only claimed timers are called back, and a hold only delays.
KeepsPromise == Promise!Promise

\* Goroutines are scheduled, the ticker and the watch channel are both served
\* by the select of a watcher (which chooses at random, hence SF), the clock
\* advances, elapsed timers start, and a process that ends is started again.
Fairness ==
  /\ WF_vars(Tick)
  /\ \A p \in Procs : WF_vars(DropReference(p) \/ Remove(p) \/ RetryLater(p) \/ Callback(p))
  /\ \A p \in Runners : SF_vars(OrphanElapses(p) \/ \E k \in Keys : TimerElapses(p, k))
  /\ \A w \in Watchers : /\ WF_vars(OpenWatch(w) \/ RescanGet(w) \/ RescanAct(w) \/ RescanEnd(w))
                         /\ SF_vars(HandleWatchEntry(w)) /\ SF_vars(RescanStart(w))
  /\ \A r \in Replicas : /\ WF_vars(Die(r) /\ status[r] = "stopped")
                         /\ WF_vars(Start(r))

FairSpec == Spec /\ Fairness

\* A timer whose expiry has passed does not stay: it is removed by a replica
\* or replaced, after crashes, lost calls, closed watches and late Clears,
\* thanks to the rescan.
OverdueResolved == \A k \in Keys : Overdue(k) ~> ~Overdue(k)
=============================================================================
