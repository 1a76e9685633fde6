-------------------------- MODULE TimedActorProofs --------------------------
(***************************************************************************)
(* Theorems of TimedActor, for any number of keys, replicas, watchers,     *)
(* timer goroutines, calls of Hold, revisions and faults: its safety, that *)
(* it implements TimerPromise, what a hold does, and that a replica that   *)
(* is caught up has a timer for the value of every key.                    *)
(***************************************************************************)
EXTENDS TimedActor, SequenceTheorems, TLAPS

\* What a write does to the bucket: the log grows by one entry and no
\* revision changes.
LEMMA WriteGrows ==
  ASSUME TypeOK, NEW e \in Entry, Write(e)
  PROVE  /\ Len(log) \in Nat
         /\ log' \in Seq(Entry)
         /\ Len(log') = Len(log) + 1
         /\ \A n \in 1..Len(log) : log'[n] = log[n]
         /\ log'[Len(log) + 1] = e
         /\ Puts \subseteq Puts'
         /\ e.op = "put" => Len(log) + 1 \in Puts'
         /\ last' \in [Keys -> 0..Len(log')]
         /\ last'[e.key] = Len(log) + 1
         /\ \A k \in Keys : k # e.key => last'[k] = last[k]
         /\ pending' \in [Watchers -> SUBSET (1..Len(log'))]
<1>1. /\ Len(log) \in Nat
      /\ log' = Append(log, e)
  BY DEF TypeOK, StoreType, Write
<1>2. /\ log' \in Seq(Entry)
      /\ Len(log') = Len(log) + 1
      /\ \A n \in 1..Len(log) : log'[n] = log[n]
      /\ log'[Len(log) + 1] = e
  BY <1>1 DEF TypeOK, StoreType
<1>3. Puts \subseteq Puts' /\ (e.op = "put" => Len(log) + 1 \in Puts')
  BY <1>1, <1>2 DEF Puts
<1>4. e.key \in Keys
  BY DEF Entry
<1>5. /\ last' \in [Keys -> 0..Len(log')]
      /\ last'[e.key] = Len(log) + 1
      /\ \A k \in Keys : k # e.key => last'[k] = last[k]
  BY <1>1, <1>2, <1>4 DEF TypeOK, StoreType, Write
<1>6. pending' \in [Watchers -> SUBSET (1..Len(log'))]
  BY <1>1, <1>2 DEF TypeOK, StoreType, Write
<1>. QED
  BY <1>1, <1>2, <1>3, <1>5, <1>6

LEMMA PutsAreRevisions ==
  ASSUME StoreType
  PROVE  /\ Len(log) \in Nat
         /\ \A n \in 1..Len(log) : log[n] \in Entry
         /\ \A n \in Puts : /\ n \in 1..Len(log)
                            /\ n # 0
                            /\ KeyOf(n) \in Keys
                            /\ log[n].exp \in Nat
                            /\ log[n].add \in Nat
<1>1. Len(log) \in Nat /\ \A n \in 1..Len(log) : log[n] \in Entry
  BY DEF StoreType
<1>. QED
  BY <1>1 DEF Puts, Entry, KeyOf

\* References stay well typed while the set of puts grows.
LEMMA TypesGrow ==
  ASSUME TypeOK, Puts \subseteq Puts'
  PROVE  /\ UNCHANGED timers => TimersType'
         /\ UNCHANGED orphans => OrphansType'
         /\ UNCHANGED attempt => AttemptType'
         /\ UNCHANGED watch => WatchType'
         /\ UNCHANGED hold => HoldType'
         /\ UNCHANGED fired => FiredType'
<1>1. Revs \subseteq Revs'
  BY DEF Revs
<1>2. Timer \subseteq Timer'
  BY <1>1 DEF Timer
<1>3. UNCHANGED timers => TimersType'
  <2>1. timers \in [Replicas -> [Keys -> Timer']]
    BY <1>2 DEF TypeOK, TimersType
  <2>. QED
    BY <2>1 DEF TypeOK, TimersType
<1>4. UNCHANGED orphans => OrphansType'
  <2>1. [rev : Puts, due : Nat] \subseteq [rev : Puts', due : Nat]
    OBVIOUS
  <2>. QED
    BY <2>1 DEF TypeOK, OrphansType
<1>5. UNCHANGED attempt => AttemptType'
  BY <1>1 DEF TypeOK, AttemptType
<1>6. UNCHANGED watch => WatchType'
  BY <1>1 DEF TypeOK, WatchType
<1>7. UNCHANGED hold => HoldType'
  BY <1>1 DEF TypeOK, HoldType
<1>8. UNCHANGED fired => FiredType'
  <2>1. [rev : Puts, at : Nat] \subseteq [rev : Puts', at : Nat]
    OBVIOUS
  <2>. QED
    BY <2>1, SeqMonotonic DEF TypeOK, FiredType
<1>. QED
  BY <1>3, <1>4, <1>5, <1>6, <1>7, <1>8

\* What the steps on timers and goroutines make of them.
LEMMA TimerSteps ==
  ASSUME TypeOK, UNCHANGED <<log, last>>, NEW r \in Replicas, NEW k \in Keys
  PROVE  /\ StopTimer(r, k) => TimersType'
         /\ \A n \in Puts, due \in Nat : ScheduleTimer(r, n, due) => TimersType'
         /\ timers' = [timers EXCEPT ![r][k].running = FALSE] => TimersType'
         /\ timers' = [timers EXCEPT ![r] = [j \in Keys |-> NoTimer]] => TimersType'
<1>0. Puts' = Puts /\ Timer' = Timer
  BY DEF Puts, Timer, Revs
<1>1. NoTimer \in Timer /\ ~NoTimer.running
  BY DEF NoTimer, Timer, Revs
<1>2. StopTimer(r, k) => TimersType'
  BY <1>0, <1>1 DEF StopTimer, TypeOK, TimersType
<1>3. ASSUME NEW n \in Puts, NEW due \in Nat, ScheduleTimer(r, n, due) PROVE TimersType'
  <2>1. KeyOf(n) \in Keys
    BY PutsAreRevisions DEF TypeOK
  <2>2. [rev |-> n, due |-> due, running |-> TRUE] \in Timer
    BY DEF Timer, Revs
  <2>. QED
    BY <1>0, <1>3, <2>1, <2>2 DEF ScheduleTimer, TypeOK, TimersType
<1>4. ASSUME timers' = [timers EXCEPT ![r][k].running = FALSE] PROVE TimersType'
  <2>. DEFINE t == timers[r][k]
  <2>0. t \in Timer
    BY DEF TypeOK, TimersType
  <2>1. [t EXCEPT !.running = FALSE] \in Timer
    BY <2>0 DEF Timer
  <2>2. ~[t EXCEPT !.running = FALSE].running
    BY <2>0 DEF Timer
  <2>. HIDE DEF t
  <2>3. timers' = [timers EXCEPT ![r] = [timers[r] EXCEPT ![k] = [t EXCEPT !.running = FALSE]]]
    BY <1>4 DEF t
  <2>. QED
    BY <1>0, <2>1, <2>2, <2>3 DEF TypeOK, TimersType
<1>5. ASSUME timers' = [timers EXCEPT ![r] = [j \in Keys |-> NoTimer]] PROVE TimersType'
  BY <1>0, <1>1, <1>5 DEF TypeOK, TimersType
<1>. QED
  BY <1>2, <1>3, <1>4, <1>5

LEMMA AttemptSteps ==
  ASSUME TypeOK, Puts \subseteq Puts', NEW p \in Procs
  PROVE  /\ \A n \in Puts : Begin(p, n) => AttemptType'
         /\ End(p) => AttemptType'
         /\ \A s \in {"removing", "failed", "won"} :
              attempt[p].step # "idle" /\ Goto(p, s) => AttemptType'
<1>1. Revs \subseteq Revs' /\ Puts' \subseteq Revs' /\ 0 \in Revs'
  BY DEF Revs
<1>2. ASSUME NEW n \in Puts, Begin(p, n) PROVE AttemptType'
  BY <1>1, <1>2 DEF Begin, TypeOK, AttemptType
<1>3. ASSUME End(p) PROVE AttemptType'
  BY <1>1, <1>3 DEF End, NoAttempt, TypeOK, AttemptType
<1>4. ASSUME NEW s \in {"removing", "failed", "won"}, attempt[p].step # "idle", Goto(p, s)
      PROVE AttemptType'
  BY <1>1, <1>4 DEF Goto, TypeOK, AttemptType
<1>. QED
  BY <1>2, <1>3, <1>4

-----------------------------------------------------------------------------
(* Type correctness *)

LEMMA TypeInit == Parameters /\ Init => TypeOK
<1>. SUFFICES ASSUME Parameters, Init PROVE TypeOK
  OBVIOUS
<1>1. Puts = {} /\ StoreType
  BY DEF Init, Puts, StoreType, Entry
<1>2. TimersType /\ OrphansType
  BY <1>1 DEF Init, TimersType, OrphansType, NoTimer, Timer, Revs
<1>3. AttemptType /\ WatchType /\ HoldType
  BY <1>1 DEF Init, AttemptType, WatchType, HoldType, NoAttempt, NoHold, Closed, Idle, Revs
<1>4. FiredType
  BY DEF Init, FiredType
<1>. QED
  BY <1>1, <1>2, <1>3, <1>4 DEF Init, TypeOK

\* A timer elapses, or is retried or fired, with the bucket left alone.
LEMMA TypeTryFire ==
  ASSUME TypeOK, Parameters, NEW p \in Procs,
         \/ DropReference(p) \/ RetryLater(p) \/ Callback(p)
         \/ OrphanElapses(p) \/ \E k \in Keys : TimerElapses(p, k)
  PROVE  TypeOK'
<1>0. Puts' = Puts /\ Len(log') = Len(log) /\ UNCHANGED <<log, last, pending>>
  BY DEF Puts, DropReference, RetryLater, Callback, OrphanElapses, TimerElapses, store
<1>1. StoreType'
  BY <1>0 DEF TypeOK, StoreType, Entry
<1>2. Host[p] \in Replicas
  BY DEF Parameters
<1>3. attempt[p].step # "idle" => attempt[p].rev \in Puts /\ KeyOf(attempt[p].rev) \in Keys
  BY PutsAreRevisions DEF TypeOK, AttemptType
<1>4. CASE DropReference(p)
  <2>. DEFINE t == timers[Host[p]][KeyOf(attempt[p].rev)]
  <2>1. TimersType'
    BY <1>0, <1>2, <1>3, <1>4, TimerSteps DEF DropReference
  <2>2. AttemptType'
    BY <1>0, <1>4, AttemptSteps DEF DropReference
  <2>3. t.running => [rev |-> t.rev, due |-> t.due] \in [rev : Puts, due : Nat]
    BY <1>2, <1>3, <1>4 DEF DropReference, TypeOK, TimersType, Timer
  <2>4. OrphansType'
    BY <1>0, <1>2, <1>4, <2>3 DEF DropReference, TypeOK, OrphansType
  <2>. QED
    BY <1>0, <1>1, <1>4, <2>1, <2>2, <2>4, TypesGrow DEF DropReference, TypeOK
<1>5. CASE RetryLater(p)
  <2>1. TimersType'
    BY <1>0, <1>2, <1>3, <1>5, TimerSteps, TypesGrow DEF RetryLater, TypeOK
  <2>2. AttemptType'
    BY <1>0, <1>5, AttemptSteps DEF RetryLater
  <2>. QED
    BY <1>0, <1>1, <1>5, <2>1, <2>2, TypesGrow DEF RetryLater, TypeOK
<1>6. CASE Callback(p)
  <2>1. FiredType'
    BY <1>0, <1>3, <1>6 DEF Callback, TypeOK, FiredType
  <2>2. AttemptType'
    BY <1>0, <1>6, AttemptSteps DEF Callback
  <2>. QED
    BY <1>0, <1>1, <1>6, <2>1, <2>2, TypesGrow DEF Callback, TypeOK
<1>7. CASE OrphanElapses(p)
  <2>1. PICK t \in orphans[Host[p]] :
          /\ orphans' = [orphans EXCEPT ![Host[p]] = @ \ {t}]
          /\ Begin(p, t.rev)
    BY <1>7 DEF OrphanElapses
  <2>2. t.rev \in Puts
    BY <1>2 DEF TypeOK, OrphansType
  <2>3. AttemptType'
    BY <1>0, <2>1, <2>2, AttemptSteps
  <2>4. OrphansType'
    BY <1>0, <1>2, <2>1 DEF TypeOK, OrphansType
  <2>. QED
    BY <1>0, <1>1, <1>7, <2>3, <2>4, TypesGrow DEF OrphanElapses, TypeOK
<1>8. ASSUME NEW k \in Keys, TimerElapses(p, k) PROVE TypeOK'
  <2>1. timers[Host[p]][k].rev \in Puts
    BY <1>2, <1>8 DEF TimerElapses, TypeOK, TimersType
  <2>2. AttemptType'
    BY <1>0, <1>8, <2>1, AttemptSteps DEF TimerElapses
  <2>3. TimersType'
    BY <1>0, <1>2, <1>8, TimerSteps DEF TimerElapses
  <2>. QED
    BY <1>0, <1>1, <1>8, <2>2, <2>3, TypesGrow DEF TimerElapses, TypeOK
<1>. QED
  BY <1>4, <1>5, <1>6, <1>7, <1>8

\* A watcher leaves the log and the last revisions alone.
LEMMA TypeWatching ==
  ASSUME TypeOK, Parameters, NEW w \in Watchers, Watching(w)
  PROVE  TypeOK'
<1>0. Puts' = Puts /\ Revs' = Revs /\ Len(log') = Len(log) /\ UNCHANGED <<log, last>>
  BY DEF Puts, Revs, Watching, OpenWatch, CloseWatch, SkipSuperseded, HandleWatchEntry,
         RescanStart, RescanGet, RescanAct, RescanEnd, store
<1>1. Host[w] \in Replicas /\ Watches[w] \subseteq Keys /\ w \in Procs
  BY DEF Parameters, Procs
<1>2. /\ UNCHANGED pending => StoreType'
      /\ \A s \in SUBSET (1..Len(log)) : pending' = [pending EXCEPT ![w] = s] => StoreType'
  BY <1>0 DEF TypeOK, StoreType, Entry
<1>3. Idle \in [step : {"closed", "idle", "scan", "got"}, todo : SUBSET Keys, rev : Revs, at : Nat]
      /\ Closed \in [step : {"closed", "idle", "scan", "got"}, todo : SUBSET Keys, rev : Revs, at : Nat]
      /\ Idle.step # "got" /\ Closed.step # "got"
  BY DEF Idle, Closed, Revs
<1>4. \A v \in [step : {"closed", "idle", "scan", "got"}, todo : SUBSET Keys, rev : Revs, at : Nat] :
        (v.step = "got" => v.rev \in Puts) /\ watch' = [watch EXCEPT ![w] = v] => WatchType'
  BY <1>0 DEF TypeOK, WatchType
<1>5. CASE OpenWatch(w)
  <2>1. PICK gone \in SUBSET {k \in Watches[w] : ~Live(k)} :
          pending' = [pending EXCEPT ![w] = {last[k] : k \in {j \in Watches[w] \ gone : last[j] # 0}}]
    BY <1>5 DEF OpenWatch
  <2>2. {last[k] : k \in {j \in Watches[w] \ gone : last[j] # 0}} \subseteq 1..Len(log)
    BY <1>1 DEF TypeOK, StoreType
  <2>3. StoreType'
    BY <1>2, <2>1, <2>2
  <2>4. WatchType'
    BY <1>3, <1>4, <1>5 DEF OpenWatch
  <2>. QED
    BY <1>0, <1>5, <2>3, <2>4, TypesGrow DEF OpenWatch, TypeOK
<1>6. CASE CloseWatch(w)
  <2>1. StoreType' /\ WatchType'
    BY <1>2, <1>3, <1>4, <1>6 DEF CloseWatch
  <2>2. faults' \in Nat
    BY <1>6 DEF CloseWatch, Fault, TypeOK
  <2>. QED
    BY <1>0, <1>6, <2>1, <2>2, TypesGrow DEF CloseWatch, TypeOK
<1>7. CASE SkipSuperseded(w)
  <2>1. StoreType'
    BY <1>2, <1>7 DEF SkipSuperseded, TypeOK, StoreType
  <2>. QED
    BY <1>0, <1>7, <2>1, TypesGrow DEF SkipSuperseded, TypeOK
<1>8. CASE HandleWatchEntry(w)
  <2>1. PICK n \in pending[w] :
          /\ pending' = [pending EXCEPT ![w] = @ \ {n}]
          /\ IF log[n].op = "put" THEN ScheduleTimer(Host[w], n, log[n].exp)
                                  ELSE StopTimer(Host[w], KeyOf(n))
    BY <1>8 DEF HandleWatchEntry
  <2>2. n \in 1..Len(log) /\ pending[w] \ {n} \subseteq 1..Len(log)
    BY DEF TypeOK, StoreType
  <2>3. StoreType'
    BY <1>2, <2>1, <2>2
  <2>4. CASE log[n].op = "put"
    <3>1. n \in Puts /\ log[n].exp \in Nat /\ KeyOf(n) \in Keys
      BY <2>2, <2>4, PutsAreRevisions DEF Puts, TypeOK
    <3>. QED
      BY <1>0, <1>1, <1>8, <2>1, <2>3, <2>4, <3>1, TimerSteps, TypesGrow DEF HandleWatchEntry, TypeOK
  <2>5. CASE log[n].op # "put"
    <3>1. KeyOf(n) \in Keys
      BY <2>2, PutsAreRevisions DEF TypeOK, KeyOf, Entry
    <3>. QED
      BY <1>0, <1>1, <1>8, <2>1, <2>3, <2>5, <3>1, TimerSteps, TypesGrow DEF HandleWatchEntry, TypeOK
  <2>. QED
    BY <2>4, <2>5
<1>9. CASE RescanStart(w)
  <2>1. WatchType'
    BY <1>4, <1>9 DEF RescanStart, Untracked, Revs, TypeOK
  <2>. QED
    BY <1>0, <1>2, <1>9, <2>1, TypesGrow DEF RescanStart, store, TypeOK
<1>10. CASE RescanGet(w)
  <2>1. faults' \in Nat
    BY <1>10 DEF RescanGet, Fault, TypeOK
  <2>2. \A k \in Keys : Live(k) => last[k] \in Puts
    BY DEF Live, Puts, TypeOK, StoreType
  <2>3. WatchType'
    BY <1>0, <1>10, <2>2 DEF RescanGet, TypeOK, WatchType, Revs
  <2>. QED
    BY <1>0, <1>2, <1>10, <2>1, <2>3, TypesGrow DEF RescanGet, store, TypeOK
<1>11. CASE RescanAct(w)
  <2>1. watch[w].rev \in Puts /\ log[watch[w].rev].exp \in Nat /\ KeyOf(watch[w].rev) \in Keys
    BY <1>11, PutsAreRevisions DEF RescanAct, TypeOK, WatchType
  <2>2. TimersType' /\ AttemptType'
    <3>1. CASE watch[w].at > log[watch[w].rev].exp
      <4>1. Begin(w, watch[w].rev) /\ UNCHANGED timers
        BY <1>11, <3>1 DEF RescanAct
      <4>. QED
        BY <1>0, <1>1, <2>1, <4>1, AttemptSteps, TypesGrow
    <3>2. CASE ~(watch[w].at > log[watch[w].rev].exp)
      <4>1. ScheduleTimer(Host[w], watch[w].rev, log[watch[w].rev].exp) /\ UNCHANGED <<log, last, attempt>>
        BY <1>11, <3>2 DEF RescanAct, store
      <4>2. TimersType'
        BY <1>1, <2>1, <4>1, TimerSteps
      <4>3. AttemptType'
        BY <1>0, <4>1, TypesGrow
      <4>. QED
        BY <4>2, <4>3
    <3>. QED
      BY <3>1, <3>2
  <2>3. WatchType'
    <3>1. watch' = [watch EXCEPT ![w].step = "scan", ![w].rev = 0]
      BY <1>11 DEF RescanAct
    <3>2. watch' \in [Watchers -> [step : {"closed", "idle", "scan", "got"},
                                   todo : SUBSET Keys, rev : Revs, at : Nat]]
      <4>. DEFINE v == [watch EXCEPT ![w].step = "scan"]
      <4>1. v \in [Watchers -> [step : {"closed", "idle", "scan", "got"},
                              todo : SUBSET Keys, rev : Revs, at : Nat]]
        BY DEF TypeOK, WatchType
      <4>2. watch' = [v EXCEPT ![w].rev = 0]
        BY <3>1 DEF TypeOK, WatchType
      <4>. HIDE DEF v
      <4>. QED
        BY <4>1, <4>2 DEF Revs
    <3>3. ASSUME NEW u \in Watchers, watch'[u].step = "got" PROVE watch'[u].rev \in Puts
      <4>1. u # w /\ watch'[u] = watch[u]
        BY <3>1, <3>3 DEF TypeOK, WatchType
      <4>. QED
        BY <3>3, <4>1 DEF TypeOK, WatchType
    <3>. QED
      BY <1>0, <3>2, <3>3 DEF WatchType
  <2>. QED
    BY <1>0, <1>2, <1>11, <2>2, <2>3, TypesGrow DEF RescanAct, store, TypeOK
<1>12. CASE RescanEnd(w)
  <2>1. WatchType'
    BY <1>3, <1>4, <1>12 DEF RescanEnd
  <2>. QED
    BY <1>0, <1>2, <1>12, <2>1, TypesGrow DEF RescanEnd, store, TypeOK
<1>. QED
  BY <1>5, <1>6, <1>7, <1>8, <1>9, <1>10, <1>11, <1>12 DEF Watching

\* The steps of Hold that write nothing.
LEMMA TypeHolding ==
  ASSUME TypeOK, NEW h \in Holders,
         \/ \E k \in Keys : HoldRead(h, k)
         \/ Release(h) \/ HoldCheck(h) \/ HoldAbandoned(h)
  PROVE  TypeOK'
<1>0. Puts' = Puts /\ Revs' = Revs /\ UNCHANGED <<log, last, pending>>
  BY DEF Puts, Revs, HoldRead, Release, HoldCheck, HoldAbandoned, store
<1>1. StoreType'
  BY <1>0 DEF TypeOK, StoreType, Entry
<1>2. \A k \in Keys : Live(k) => last[k] \in Puts
  BY DEF Live, Puts, TypeOK, StoreType
<1>3. NoHold \in [step : {"idle", "read", "held", "released", "restoring"}, orig : Revs, rev : Revs]
      /\ NoHold.step = "idle"
  BY DEF NoHold, Revs
<1>4. ASSUME NEW k \in Keys, HoldRead(h, k) PROVE TypeOK'
  <2>1. HoldType'
    BY <1>0, <1>2, <1>4 DEF HoldRead, TypeOK, HoldType, Revs
  <2>. QED
    BY <1>0, <1>1, <1>4, <2>1, TypesGrow DEF HoldRead, TypeOK
<1>5. CASE Release(h)
  <2>1. HoldType'
    BY <1>0, <1>5 DEF Release, TypeOK, HoldType
  <2>. QED
    BY <1>0, <1>1, <1>5, <2>1, TypesGrow DEF Release, TypeOK
<1>6. CASE HoldCheck(h)
  <2>1. HoldType'
    BY <1>0, <1>3, <1>6 DEF HoldCheck, TypeOK, HoldType
  <2>. QED
    BY <1>0, <1>1, <1>6, <2>1, TypesGrow DEF HoldCheck, TypeOK
<1>7. CASE HoldAbandoned(h)
  <2>1. HoldType'
    BY <1>0, <1>3, <1>7 DEF HoldAbandoned, TypeOK, HoldType
  <2>2. faults' \in Nat
    BY <1>7 DEF HoldAbandoned, Fault, TypeOK
  <2>. QED
    BY <1>0, <1>1, <1>7, <2>1, <2>2, TypesGrow DEF HoldAbandoned, TypeOK
<1>. QED
  BY <1>4, <1>5, <1>6, <1>7

\* Processes stop, die and start; a Clear ends.
LEMMA TypeProcesses ==
  ASSUME TypeOK, Parameters, NEW r \in Replicas,
         \/ Stop(r) \/ Die(r) \/ Start(r)
         \/ \E k \in Keys : ClearStopTimer(r, k)
  PROVE  TypeOK'
<1>0. Puts' = Puts /\ Revs' = Revs /\ UNCHANGED <<log, last>>
  BY DEF Puts, Revs, Stop, Die, Start, ClearStopTimer, store
<1>1. CASE Stop(r)
  <2>1. StoreType'
    BY <1>0, <1>1 DEF Stop, store, TypeOK, StoreType, Entry
  <2>2. TimersType'
    <3>1. NoTimer \in Timer' /\ ~NoTimer.running
      BY DEF NoTimer, Timer, Revs
    <3>2. Timer' = Timer
      BY <1>0 DEF Timer
    <3>. QED
      BY <1>0, <1>1, <3>1, <3>2 DEF Stop, TypeOK, TimersType
  <2>3. faults' \in Nat
    BY <1>1 DEF Stop, Fault, TypeOK
  <2>. QED
    BY <1>0, <1>1, <2>1, <2>2, <2>3, TypesGrow DEF Stop, TypeOK
<1>2. CASE Die(r)
  <2>1. StoreType'
    BY <1>0, <1>2 DEF Die, TypeOK, StoreType, Entry
  <2>2. TimersType'
    <3>1. NoTimer \in Timer' /\ ~NoTimer.running
      BY DEF NoTimer, Timer, Revs
    <3>2. Timer' = Timer
      BY <1>0 DEF Timer
    <3>. QED
      BY <1>0, <1>2, <3>1, <3>2 DEF Die, TypeOK, TimersType
  <2>3. OrphansType'
    BY <1>0, <1>2 DEF Die, TypeOK, OrphansType
  <2>4. AttemptType'
    BY <1>0, <1>2 DEF Die, TypeOK, AttemptType, NoAttempt, Revs
  <2>5. WatchType'
    BY <1>0, <1>2 DEF Die, TypeOK, WatchType, Closed, Idle, Revs
  <2>6. HoldType'
    BY <1>0, <1>2 DEF Die, TypeOK, HoldType, NoHold, Revs
  <2>7. faults' \in Nat
    BY <1>2 DEF Die, Fault, TypeOK
  <2>. QED
    BY <1>0, <1>2, <2>1, <2>2, <2>3, <2>4, <2>5, <2>6, <2>7, TypesGrow DEF Die, TypeOK
<1>3. CASE Start(r)
  <2>1. StoreType'
    BY <1>0, <1>3 DEF Start, store, TypeOK, StoreType, Entry
  <2>. QED
    BY <1>0, <1>3, <2>1, TypesGrow DEF Start, TypeOK
<1>4. ASSUME NEW k \in Keys, ClearStopTimer(r, k) PROVE TypeOK'
  <2>1. StoreType' /\ TimersType'
    BY <1>0, <1>4, TimerSteps DEF ClearStopTimer, store, TypeOK, StoreType, Entry
  <2>. QED
    BY <1>0, <1>4, <2>1, TypesGrow DEF ClearStopTimer, TypeOK
<1>. QED
  BY <1>1, <1>2, <1>3, <1>4

-----------------------------------------------------------------------------
(* The steps that write *)

\* The entries written are well formed.
LEMMA Entries ==
  ASSUME TypeOK
  PROVE  /\ \A k \in Keys, n \in Nat : Marker("fire", k, n) \in Entry /\ Marker("clear", k, n) \in Entry
         /\ \A k \in Keys, x, a \in Nat : Put(k, x, a) \in Entry
         /\ \A n \in Puts, x \in Nat : Repeat(n, x) \in Entry
BY PutsAreRevisions DEF TypeOK, Marker, Put, Repeat, Entry

LEMMA TypeWrites ==
  ASSUME TypeOK, Parameters, NEW e \in Entry, Write(e)
  PROVE  /\ StoreType' /\ Puts \subseteq Puts' /\ Revs \subseteq Revs'
         /\ e.op = "put" => Len(log) + 1 \in Puts'
<1>1. StoreType'
  BY WriteGrows DEF StoreType, Entry
<1>. QED
  BY <1>1, WriteGrows DEF Revs

LEMMA TypeRemove ==
  ASSUME TypeOK, Parameters, NEW p \in Procs, Remove(p) \/ RemoveFails(p)
  PROVE  TypeOK'
<1>. DEFINE n == attempt[p].rev
            e == Marker("fire", KeyOf(n), n)
<1>1. n \in Puts /\ e \in Entry
  BY PutsAreRevisions, Entries DEF Remove, RemoveFails, TypeOK, AttemptType
<1>2. StoreType' /\ Puts \subseteq Puts'
  <2>1. CASE Write(e)
    BY <1>1, <2>1, TypeWrites
  <2>2. CASE UNCHANGED store
    BY <2>2 DEF store, TypeOK, StoreType, Puts, Entry
  <2>. QED
    BY <2>1, <2>2 DEF Remove, RemoveFails
<1>3. AttemptType'
  BY <1>2, AttemptSteps DEF Remove, RemoveFails
<1>4. faults' \in Nat
  BY DEF Remove, RemoveFails, Fault, TypeOK
<1>. QED
  BY <1>2, <1>3, <1>4, TypesGrow DEF Remove, RemoveFails, TypeOK

LEMMA TypeHoldWrites ==
  ASSUME TypeOK, Parameters, NEW h \in Holders,
         HoldUpdate(h) \/ HoldUpdateFails(h) \/ HoldRestore(h)
  PROVE  TypeOK'
<1>. DEFINE n == hold[h].orig
<1>1. n \in Puts /\ log[n].exp \in Nat /\ HoldDeadline(log[n].exp) \in Nat
  BY PutsAreRevisions DEF HoldUpdate, HoldUpdateFails, HoldRestore, HoldDeadline,
     TypeOK, HoldType, Parameters
<1>2. \A x \in Nat : Write(Repeat(n, x)) =>
        StoreType' /\ Puts \subseteq Puts' /\ Len(log) + 1 \in Puts'
  BY <1>1, Entries, TypeWrites DEF Repeat, Put
<1>3. UNCHANGED store => StoreType' /\ Puts \subseteq Puts'
  BY DEF store, TypeOK, StoreType, Puts, Entry
<1>4. StoreType' /\ Puts \subseteq Puts'
  BY <1>1, <1>2, <1>3 DEF HoldUpdate, HoldUpdateFails, HoldRestore
<1>5. Puts' \subseteq Revs' /\ Revs \subseteq Revs' /\ 0 \in Revs'
  BY <1>4 DEF Revs
<1>6. HoldType'
  <2>1. hold' = [hold EXCEPT ![h] = NoHold] => HoldType'
    BY <1>4, <1>5 DEF NoHold, TypeOK, HoldType
  <2>2. Len(log) + 1 \in Puts' /\
        hold' = [hold EXCEPT ![h] = [step |-> "held", orig |-> n, rev |-> Len(log) + 1]] => HoldType'
    BY <1>1, <1>4, <1>5 DEF TypeOK, HoldType
  <2>. QED
    BY <1>1, <1>2, <2>1, <2>2 DEF HoldUpdate, HoldUpdateFails, HoldRestore
<1>7. faults' \in Nat
  BY DEF HoldUpdate, HoldUpdateFails, HoldRestore, Fault, TypeOK
<1>. QED
  BY <1>4, <1>6, <1>7, TypesGrow DEF HoldUpdate, HoldUpdateFails, HoldRestore, TypeOK

LEMMA TypeAddClear ==
  ASSUME TypeOK, Parameters, NEW k \in Keys,
         Add(k) \/ \E r \in Replicas : Clear(r, k)
  PROVE  TypeOK'
<1>1. CASE Add(k)
  <2>1. PICK t \in Timeouts : Write(Put(k, now + t, Len(log) + 1))
    BY <1>1 DEF Add
  <2>2. Put(k, now + t, Len(log) + 1) \in Entry
    <3>1. now + t \in Nat /\ Len(log) + 1 \in Nat
      BY PutsAreRevisions DEF TypeOK, Parameters
    <3>. QED
      BY <3>1, Entries
  <2>3. StoreType' /\ Puts \subseteq Puts'
    BY <2>1, <2>2, TypeWrites
  <2>. QED
    BY <1>1, <2>3, TypesGrow DEF Add, TypeOK
<1>2. ASSUME NEW r \in Replicas, Clear(r, k) PROVE TypeOK'
  <2>1. Marker("clear", k, 0) \in Entry
    BY Entries
  <2>2. StoreType' /\ Puts \subseteq Puts'
    BY <1>2, <2>1, TypeWrites DEF Clear
  <2>3. faults' \in Nat /\ clearing' \in [Replicas -> SUBSET Keys]
    BY <1>2 DEF Clear, Fault, TypeOK
  <2>. QED
    BY <1>2, <2>2, <2>3, TypesGrow DEF Clear, TypeOK
<1>. QED
  BY <1>1, <1>2

LEMMA TypeNext == ASSUME TypeOK, Parameters, [Next]_vars PROVE TypeOK'
<1>1. CASE UNCHANGED vars
  BY <1>1 DEF vars, TypeOK, StoreType, TimersType, OrphansType, AttemptType, WatchType,
     HoldType, FiredType, Puts, Revs, Timer, Entry
<1>2. CASE Tick
  <2>1. Puts' = Puts /\ StoreType'
    BY <1>2 DEF Tick, store, Puts, TypeOK, StoreType, Entry
  <2>. QED
    BY <1>2, <2>1, TypesGrow DEF Tick, TypeOK
<1>3. ASSUME NEW p \in Procs, TryFire(p) PROVE TypeOK'
  BY <1>3, TypeTryFire, TypeRemove DEF TryFire
<1>4. ASSUME NEW p \in Runners, OrphanElapses(p) \/ \E k \in Keys : TimerElapses(p, k)
      PROVE TypeOK'
  BY <1>4, TypeTryFire DEF Procs
<1>5. ASSUME NEW h \in Holders, Holding(h) PROVE TypeOK'
  BY <1>5, TypeHolding, TypeHoldWrites DEF Holding
<1>6. ASSUME NEW r \in Replicas,
             Stop(r) \/ Die(r) \/ Start(r) \/ \E k \in Keys : Clear(r, k) \/ ClearStopTimer(r, k)
      PROVE TypeOK'
  BY <1>6, TypeProcesses, TypeAddClear
<1>. QED
  BY <1>1, <1>2, <1>3, <1>4, <1>5, <1>6, TypeWatching, TypeAddClear DEF Next

\* Type correctness: references held by timers, attempts, rescans and holds
\* always name a put of the log (actor.go, handleWatchEntry: a delete marker
\* is never scheduled).
THEOREM TypeCorrect == Spec => []TypeOK
<1>1. Init => TypeOK
  BY TypeInit, Parameters
<1>2. TypeOK /\ [Next]_vars => TypeOK'
  BY TypeNext, Parameters
<1>. QED
  BY <1>1, <1>2, PTL DEF Spec

-----------------------------------------------------------------------------
(* At most one callback per Add *)

\* No attempt becomes a won one, and no callback is made.
NoNewWin ==
  /\ UNCHANGED fired
  /\ \A p \in Procs : attempt'[p].step = "won" =>
       attempt[p].step = "won" /\ attempt'[p].rev = attempt[p].rev

\* No hold takes effect.
NoNewHold ==
  \A h \in Holders : hold'[h].step \notin {"idle", "read"} =>
    /\ hold[h].step \notin {"idle", "read"}
    /\ hold'[h].rev = hold[h].rev /\ hold'[h].orig = hold[h].orig

\* What the spent adds are: known before the log grows.
LEMMA SpentAdds ==
  ASSUME TypeOK, PayloadsOK
  PROVE  /\ Len(log) \in Nat
         /\ \A p \in Procs : attempt[p].step = "won" =>
              attempt[p].rev \in Puts /\ WonAdd(p) \in 1..Len(log)
         /\ \A i \in DOMAIN fired : fired[i].rev \in Puts /\ FiredAdd(i) \in 1..Len(log)
         /\ \A k \in Keys : Live(k) => last[k] \in Puts /\ KeyOf(log[last[k]].add) = k
<1>1. \A n \in Puts : log[n].add \in 1..Len(log)
  BY PutsAreRevisions DEF PayloadsOK, TypeOK
<1>2. \A i \in DOMAIN fired : fired[i].rev \in Puts
  <2>. DEFINE Calls == [rev : Puts, at : Nat]
  <2>0. fired \in Seq(Calls)
    BY DEF TypeOK, FiredType
  <2>1. \A i \in DOMAIN fired : fired[i] \in Calls
    <3>. HIDE DEF Calls
    <3>. QED
      BY <2>0, ElementOfSeq, LenProperties
  <2>. QED
    BY <2>1
<1>3. \A p \in Procs : attempt[p].step = "won" => attempt[p].rev \in Puts
  BY DEF TypeOK, AttemptType
<1>4. \A k \in Keys : Live(k) => last[k] \in Puts
  BY DEF Live, Puts, TypeOK, StoreType
<1>. QED
  BY <1>1, <1>2, <1>3, <1>4, PutsAreRevisions DEF WonAdd, FiredAdd, PayloadsOK, TypeOK, Live

\* A step that leaves the bucket alone and wins nothing keeps the invariant.
LEMMA QuietKeeps ==
  ASSUME IInv, TypeOK', UNCHANGED <<log, last>>, NoNewWin, NoNewHold
  PROVE  IInv'
<1>1. Puts' = Puts /\ \A n : KeyOf(n)' = KeyOf(n)
  BY DEF Puts, KeyOf
<1>2. PayloadsOK'
  BY <1>1 DEF IInv, PayloadsOK, NoNewHold, KeyOf
<1>3. \A k \in Keys : Live(k)' = Live(k)
  BY DEF Live
<1>4. /\ \A i : FiredAdd(i)' = FiredAdd(i)
      /\ \A p \in Procs : attempt'[p].step = "won" => WonAdd(p)' = WonAdd(p)
  BY DEF FiredAdd, WonAdd, NoNewWin
<1>5. SpentOnce'
  BY <1>3, <1>4 DEF IInv, SpentOnce, NoNewWin
<1>6. AtMostOnce'
  BY <1>4 DEF IInv, AtMostOnce, NoNewWin
<1>. QED
  BY <1>2, <1>5, <1>6 DEF IInv

\* Called back, the won add moves from one side to the other.
LEMMA CallbackKeeps ==
  ASSUME IInv, TypeOK', NEW p \in Procs, Callback(p)
  PROVE  IInv'
<1>1. /\ UNCHANGED <<log, last, hold>>
      /\ attempt[p].step = "won"
      /\ fired' = Append(fired, [rev |-> attempt[p].rev, at |-> now])
      /\ attempt' = [attempt EXCEPT ![p] = NoAttempt]
  BY DEF Callback, End, store
<1>2. Puts' = Puts /\ (\A n : KeyOf(n)' = KeyOf(n)) /\ \A k \in Keys : Live(k)' = Live(k)
  BY <1>1 DEF Puts, KeyOf, Live
<1>3. PayloadsOK'
  BY <1>1, <1>2 DEF IInv, PayloadsOK, KeyOf
<1>4. \A q \in Procs : attempt'[q].step = "won" =>
        q # p /\ attempt[q].step = "won" /\ WonAdd(q)' = WonAdd(q)
  BY <1>1 DEF IInv, TypeOK, AttemptType, NoAttempt, WonAdd
<1>5. /\ DOMAIN fired' = 1..(Len(fired) + 1) /\ DOMAIN fired = 1..Len(fired) /\ Len(fired) \in Nat
      /\ \A i \in DOMAIN fired : FiredAdd(i)' = FiredAdd(i)
      /\ log'[fired'[Len(fired) + 1].rev].add = WonAdd(p)
  <2>1. /\ DOMAIN fired' = 1..(Len(fired) + 1) /\ DOMAIN fired = 1..Len(fired) /\ Len(fired) \in Nat
        /\ \A i \in 1..Len(fired) : fired'[i] = fired[i]
        /\ fired'[Len(fired) + 1] = [rev |-> attempt[p].rev, at |-> now]
    BY <1>1 DEF IInv, TypeOK, FiredType
  <2>. QED
    BY <1>1, <2>1 DEF FiredAdd, WonAdd
<1>6. SpentOnce'
  <2>1. ASSUME NEW k \in Keys, Live(k)', NEW i \in DOMAIN fired'
        PROVE FiredAdd(i)' # log'[last'[k]].add
    <3>1. CASE i = Len(fired) + 1
      BY <1>1, <1>2, <1>5, <2>1, <3>1 DEF IInv, SpentOnce, FiredAdd
    <3>2. CASE i \in DOMAIN fired
      BY <1>1, <1>2, <1>5, <2>1, <3>2 DEF IInv, SpentOnce
    <3>. QED
      BY <1>5, <3>1, <3>2
  <2>2. ASSUME NEW q \in Procs, attempt'[q].step = "won", NEW i \in DOMAIN fired'
        PROVE WonAdd(q)' # FiredAdd(i)'
    <3>1. CASE i = Len(fired) + 1
      BY <1>1, <1>4, <1>5, <2>2, <3>1 DEF IInv, SpentOnce, FiredAdd
    <3>2. CASE i \in DOMAIN fired
      BY <1>1, <1>4, <1>5, <2>2, <3>2 DEF IInv, SpentOnce
    <3>. QED
      BY <1>5, <3>1, <3>2
  <2>. QED
    BY <1>1, <1>2, <1>4, <2>1, <2>2 DEF IInv, SpentOnce
<1>7. AtMostOnce'
  <2>1. \A i \in DOMAIN fired : FiredAdd(i) # WonAdd(p)
    BY <1>1 DEF IInv, SpentOnce
  <2>. QED
    BY <1>5, <2>1 DEF IInv, AtMostOnce, FiredAdd
<1>. QED
  BY <1>3, <1>6, <1>7 DEF IInv

\* After a write every revision keeps its entry, and only the key written has
\* another value.
LEMMA AfterWrite ==
  ASSUME TypeOK, PayloadsOK, NEW e \in Entry, Write(e)
  PROVE  /\ \A n \in Puts : KeyOf(n)' = KeyOf(n) /\ log'[n].add = log[n].add
                            /\ log[n].add \in 1..Len(log) /\ KeyOf(log[n].add)' = KeyOf(n)
         /\ Puts' \subseteq Puts \cup {Len(log) + 1}
         /\ log'[Len(log) + 1] = e
         /\ Live(e.key)' = (e.op = "put")
         /\ \A k \in Keys : k # e.key =>
              /\ Live(k)' = Live(k)
              /\ Live(k) => log'[last'[k]] = log[last[k]]
         /\ \A k \in Keys : last'[k] # 0 => KeyOf(last[k])' = k
<1>1. /\ Len(log) \in Nat /\ Len(log') = Len(log) + 1
      /\ \A n \in 1..Len(log) : log'[n] = log[n]
      /\ log'[Len(log) + 1] = e
      /\ last'[e.key] = Len(log) + 1
      /\ \A k \in Keys : k # e.key => last'[k] = last[k]
  BY WriteGrows
<1>2. \A n \in Puts : n \in 1..Len(log) /\ log[n].add \in 1..Len(log)
  BY <1>1 DEF Puts, PayloadsOK
<1>3. \A n \in Puts : KeyOf(n)' = KeyOf(n) /\ log'[n].add = log[n].add
                      /\ log[n].add \in 1..Len(log) /\ KeyOf(log[n].add)' = KeyOf(n)
  BY <1>1, <1>2 DEF KeyOf, PayloadsOK
<1>4. Puts' \subseteq Puts \cup {Len(log) + 1}
  BY <1>1 DEF Puts
<1>5. \A k \in Keys : last[k] \in 0..Len(log)
  BY DEF TypeOK, StoreType
<1>6. \A k \in Keys : k # e.key =>
        /\ Live(k)' = Live(k)
        /\ Live(k) => log'[last'[k]] = log[last[k]]
  BY <1>1, <1>5 DEF Live
<1>7. Live(e.key)' = (e.op = "put")
  BY <1>1 DEF Live, KeyOf
<1>8. \A k \in Keys : last'[k] # 0 => KeyOf(last[k])' = k
  BY <1>1, <1>5 DEF KeyOf, PayloadsOK
<1>. QED
  BY <1>1, <1>3, <1>4, <1>6, <1>7, <1>8

\* A write keeps the invariant unless it wins, provided a payload written is
\* that of a new Add or repeats the metadata of the value it replaces.
LEMMA WriteKeeps ==
  ASSUME IInv, TypeOK', NEW e \in Entry, Write(e), NoNewWin,
         e.op = "put" => \/ e.add = Len(log) + 1
                         \/ Live(e.key) /\ e.add = log[last[e.key]].add,
         \A h \in Holders : hold'[h].step \notin {"idle", "read"} =>
           \/ /\ hold[h].step \notin {"idle", "read"}
              /\ hold'[h].rev = hold[h].rev /\ hold'[h].orig = hold[h].orig
           \/ /\ hold'[h].rev = Len(log) + 1
              /\ hold'[h].orig \in Puts
              /\ e.key = KeyOf(hold'[h].orig) /\ e.add = log[hold'[h].orig].add
  PROVE  IInv'
<1>0. TypeOK /\ PayloadsOK /\ e.key \in Keys
  BY DEF IInv, Entry
<1>1. /\ Len(log) \in Nat
      /\ \A p \in Procs : attempt[p].step = "won" => WonAdd(p) \in 1..Len(log)
      /\ \A i \in DOMAIN fired : FiredAdd(i) \in 1..Len(log)
      /\ \A i \in DOMAIN fired : FiredAdd(i)' = FiredAdd(i)
      /\ \A p \in Procs : attempt'[p].step = "won" =>
           attempt[p].step = "won" /\ WonAdd(p)' = WonAdd(p)
  BY <1>0, SpentAdds, AfterWrite DEF NoNewWin, WonAdd, FiredAdd
<1>2. PayloadsOK'
  <2>1. ASSUME NEW n \in Puts' PROVE log'[n].add \in 1..n /\ log'[log'[n].add].key = log'[n].key
    <3>1. CASE n \in Puts
      BY <1>0, <3>1, AfterWrite DEF PayloadsOK, KeyOf
    <3>2. CASE n = Len(log) + 1
      <4>1. e.op = "put" /\ log'[n] = e
        BY <1>0, <2>1, <3>2, AfterWrite DEF Puts
      <4>2. CASE e.add = Len(log) + 1
        BY <1>1, <3>2, <4>1, <4>2
      <4>3. CASE Live(e.key) /\ e.add = log[last[e.key]].add
        <5>1. last[e.key] \in Puts /\ KeyOf(last[e.key]) = e.key
          BY <1>0, <4>3, SpentAdds DEF PayloadsOK, Live
        <5>2. e.add \in 1..Len(log) /\ log'[e.add].key = e.key
          BY <1>0, <4>3, <5>1, AfterWrite DEF KeyOf
        <5>. QED
          BY <1>1, <3>2, <4>1, <5>2
      <4>. QED
        BY <4>1, <4>2, <4>3
    <3>. QED
      BY <1>0, <3>1, <3>2, AfterWrite
  <2>2. ASSUME NEW h \in Holders, hold'[h].step \notin {"idle", "read"}
        PROVE log'[hold'[h].rev].key = log'[hold'[h].orig].key
              /\ log'[hold'[h].rev].add = log'[hold'[h].orig].add
    <3>1. CASE /\ hold[h].step \notin {"idle", "read"}
               /\ hold'[h].rev = hold[h].rev /\ hold'[h].orig = hold[h].orig
      <4>1. hold[h].rev \in Puts /\ hold[h].orig \in Puts
        BY <1>0, <3>1 DEF TypeOK, HoldType
      <4>2. \A n \in Puts : log'[n].key = log[n].key /\ log'[n].add = log[n].add
        BY <1>0, AfterWrite DEF KeyOf
      <4>3. log[hold[h].rev].key = log[hold[h].orig].key /\ log[hold[h].rev].add = log[hold[h].orig].add
        BY <1>0, <3>1 DEF PayloadsOK, KeyOf
      <4>. QED
        BY <3>1, <4>1, <4>2, <4>3
    <3>2. CASE /\ hold'[h].rev = Len(log) + 1
               /\ hold'[h].orig \in Puts
               /\ e.key = KeyOf(hold'[h].orig) /\ e.add = log[hold'[h].orig].add
      BY <1>0, <3>2, AfterWrite DEF KeyOf
    <3>. QED
      BY <2>2, <3>1, <3>2
  <2>. QED
    BY <1>0, <2>1, <2>2, AfterWrite DEF PayloadsOK, KeyOf
<1>3. SpentOnce'
  <2>1. ASSUME NEW k \in Keys, Live(k)',
               NEW a \in 1..Len(log), Live(k) => a # log[last[k]].add,
               k = e.key => e.op = "put" /\ log'[last'[k]] = e
        PROVE a # log'[last'[k]].add
    BY <1>0, <1>1, <2>1, AfterWrite
  <2>2. \A k \in Keys : Live(k)' => (k = e.key => e.op = "put" /\ log'[last'[k]] = e)
    BY <1>0, WriteGrows, AfterWrite
  <2>3. ASSUME NEW k \in Keys, Live(k)', NEW p \in Procs, attempt'[p].step = "won"
        PROVE WonAdd(p)' # log'[last'[k]].add
    BY <1>1, <2>1, <2>2, <2>3 DEF IInv, SpentOnce
  <2>4. ASSUME NEW k \in Keys, Live(k)', NEW i \in DOMAIN fired
        PROVE FiredAdd(i)' # log'[last'[k]].add
    BY <1>1, <2>1, <2>2, <2>4 DEF IInv, SpentOnce
  <2>. QED
    BY <1>1, <2>3, <2>4 DEF IInv, SpentOnce, NoNewWin
<1>4. AtMostOnce'
  BY <1>1 DEF IInv, AtMostOnce, NoNewWin
<1>. QED
  BY <1>2, <1>3, <1>4 DEF IInv

\* The removal that wins: the add of the value removed is spent now, and was
\* not spent before.
LEMMA RemoveKeeps ==
  ASSUME IInv, TypeOK', NEW p \in Procs, Remove(p)
  PROVE  IInv'
<1>. DEFINE n == attempt[p].rev
            e == Marker("fire", KeyOf(n), n)
<1>0. TypeOK /\ PayloadsOK /\ n \in Puts /\ KeyOf(n) \in Keys /\ e \in Entry /\ attempt[p].step = "removing"
  BY Entries, PutsAreRevisions DEF IInv, Remove, TypeOK, AttemptType
<1>1. UNCHANGED <<hold, fired>>
  BY DEF Remove
<1>2. CASE ~RemovalAccepted(n)
  BY <1>0, <1>1, <1>2, QuietKeeps
     DEF Remove, End, store, NoNewWin, NoNewHold, NoAttempt, TypeOK, AttemptType
<1>3. CASE RemovalAccepted(n)
  <2>1. Write(e) /\ Goto(p, "won") /\ last[KeyOf(n)] = n
    BY <1>3 DEF Remove, RemovalAccepted
  <2>2. e.op = "fire" /\ e.key = KeyOf(n)
    BY DEF Marker
  <2>3. Live(KeyOf(n))
    BY <1>0, <2>1, PutsAreRevisions DEF Live, Puts, TypeOK
  <2>4. /\ attempt'[p].step = "won" /\ WonAdd(p)' = log[n].add
        /\ \A q \in Procs : q # p /\ attempt'[q].step = "won" =>
             attempt[q].step = "won" /\ WonAdd(q)' = WonAdd(q)
        /\ \A i \in DOMAIN fired : FiredAdd(i)' = FiredAdd(i)
    <3>1. attempt' = [attempt EXCEPT ![p].step = "won"]
      BY <2>1 DEF Goto
    <3>2. /\ attempt'[p].step = "won" /\ attempt'[p].rev = n
          /\ \A q \in Procs : q # p => attempt'[q] = attempt[q]
      BY <1>0, <3>1 DEF TypeOK, AttemptType
    <3>. QED
      BY <1>0, <1>1, <2>1, <3>2, SpentAdds, AfterWrite DEF WonAdd, FiredAdd
  <2>5. \A q \in Procs : attempt[q].step = "won" => WonAdd(q) # log[n].add
    BY <1>0, <2>1, <2>3 DEF IInv, SpentOnce
  <2>6. \A i \in DOMAIN fired : FiredAdd(i) # log[n].add
    BY <1>0, <2>1, <2>3 DEF IInv, SpentOnce
  <2>7. ASSUME NEW k \in Keys, Live(k)'
        PROVE k # KeyOf(n) /\ Live(k) /\ log'[last'[k]].add = log[last[k]].add
              /\ log[last[k]].add # log[n].add
    <3>1. k # KeyOf(n) /\ Live(k) /\ log'[last'[k]].add = log[last[k]].add
      BY <1>0, <2>1, <2>2, <2>7, AfterWrite
    <3>2. KeyOf(log[last[k]].add) = k /\ KeyOf(log[n].add) = KeyOf(n)
      BY <1>0, <3>1, SpentAdds DEF PayloadsOK
    <3>. QED
      BY <3>1, <3>2
  <2>8. SpentOnce'
    BY <1>1, <2>4, <2>5, <2>6, <2>7 DEF IInv, SpentOnce
  <2>9. PayloadsOK'
    <3>1. Puts' \subseteq Puts
      BY <1>0, <2>1, <2>2, AfterWrite DEF Puts
    <3>2. \A h \in Holders : hold[h].step \notin {"idle", "read"} =>
            hold[h].rev \in Puts /\ hold[h].orig \in Puts
      BY <1>0 DEF TypeOK, HoldType
    <3>4. ASSUME NEW m \in Puts' PROVE log'[m].add \in 1..m /\ log'[log'[m].add].key = log'[m].key
      <4>1. m \in Puts /\ log[m].add \in 1..m
        BY <1>0, <3>1 DEF PayloadsOK
      <4>2. log'[m].add = log[m].add /\ log'[m].key = log[m].key /\ log'[log[m].add].key = log[m].key
        BY <1>0, <2>1, <4>1, AfterWrite DEF KeyOf
      <4>. QED
        BY <4>1, <4>2
    <3>5. ASSUME NEW h \in Holders, hold'[h].step \notin {"idle", "read"}
          PROVE  log'[hold'[h].rev].key = log'[hold'[h].orig].key /\ log'[hold'[h].rev].add = log'[hold'[h].orig].add
      <4>1. hold' = hold /\ hold[h].rev \in Puts /\ hold[h].orig \in Puts
        BY <1>1, <3>2, <3>5
      <4>2. log[hold[h].rev].key = log[hold[h].orig].key /\ log[hold[h].rev].add = log[hold[h].orig].add
        BY <1>0, <3>5, <4>1 DEF PayloadsOK, KeyOf
      <4>3. \A m \in Puts : log'[m].key = log[m].key /\ log'[m].add = log[m].add
        BY <1>0, <2>1, AfterWrite DEF KeyOf
      <4>. QED
        BY <4>1, <4>2, <4>3
    <3>6. \A k \in Keys : last'[k] # 0 => log'[last'[k]].key = k
      BY <1>0, <2>1, AfterWrite DEF KeyOf
    <3>. QED
      BY <3>4, <3>5, <3>6 DEF PayloadsOK, KeyOf
  <2>10. AtMostOnce'
    BY <1>1, <2>4 DEF IInv, AtMostOnce
  <2>. QED
    BY <2>8, <2>9, <2>10 DEF IInv
<1>. QED
  BY <1>2, <1>3

\* A removal whose answer is lost spends the add without a callback.
LEMMA RemoveFailsKeeps ==
  ASSUME IInv, TypeOK', NEW p \in Procs, RemoveFails(p)
  PROVE  IInv'
<1>. DEFINE n == attempt[p].rev
            e == Marker("fire", KeyOf(n), n)
<1>0. TypeOK /\ n \in Puts /\ KeyOf(n) \in Keys
  BY PutsAreRevisions DEF IInv, RemoveFails, TypeOK, AttemptType
<1>1. e \in Entry /\ e.op = "fire"
  <2>1. n \in Nat
    BY <1>0, PutsAreRevisions DEF TypeOK
  <2>2. e \in Entry
    BY <1>0, <2>1, Entries
  <2>. QED
    BY <2>2 DEF Marker
<1>2. NoNewWin /\ NoNewHold /\ UNCHANGED hold
  BY DEF RemoveFails, Goto, NoNewWin, NoNewHold, IInv, TypeOK, AttemptType
<1>3. CASE UNCHANGED store
  BY <1>2, <1>3, QuietKeeps DEF store
<1>4. CASE Write(e)
  BY <1>1, <1>2, <1>4, WriteKeeps
<1>. QED
  BY <1>3, <1>4 DEF RemoveFails

LEMMA AddClearKeeps ==
  ASSUME IInv, TypeOK', Parameters, NEW k \in Keys, Add(k) \/ \E r \in Replicas : Clear(r, k)
  PROVE  IInv'
<1>1. NoNewWin /\ UNCHANGED hold
  BY DEF Add, Clear, NoNewWin
<1>2. CASE Add(k)
  <2>1. PICK t \in Timeouts : Write(Put(k, now + t, Len(log) + 1))
    BY <1>2 DEF Add
  <2>2. now + t \in Nat /\ Len(log) + 1 \in Nat
    BY PutsAreRevisions DEF IInv, TypeOK, Parameters
  <2>3. Put(k, now + t, Len(log) + 1) \in Entry
    BY <2>2, Entries DEF IInv
  <2>4. Put(k, now + t, Len(log) + 1).add = Len(log) + 1
    BY DEF Put
  <2>. QED
    BY <1>1, <2>1, <2>3, <2>4, WriteKeeps
<1>3. ASSUME NEW r \in Replicas, Clear(r, k) PROVE IInv'
  <2>1. Marker("clear", k, 0) \in Entry /\ Marker("clear", k, 0).op = "clear"
    BY Entries DEF IInv, Marker
  <2>. QED
    BY <1>1, <1>3, <2>1, WriteKeeps DEF Clear
<1>. QED
  BY <1>2, <1>3

\* Hold and its restore repeat the metadata of the value they replace.
LEMMA HoldWritesKeep ==
  ASSUME IInv, TypeOK', Parameters, NEW h \in Holders,
         HoldUpdate(h) \/ HoldUpdateFails(h) \/ HoldRestore(h)
  PROVE  IInv'
<1>. DEFINE n == hold[h].orig
<1>0. TypeOK /\ PayloadsOK /\ NoNewWin /\ n \in Puts /\ log[n].exp \in Nat
      /\ HoldDeadline(log[n].exp) \in Nat /\ KeyOf(n) \in Keys
  BY PutsAreRevisions DEF IInv, HoldUpdate, HoldUpdateFails, HoldRestore, NoNewWin, TypeOK,
     HoldType, HoldDeadline, Parameters
<1>1. \A j \in Holders : hold'[j].step \notin {"idle", "read"} =>
        \/ hold'[j] = hold[j]
        \/ j = h /\ hold'[j] = [step |-> "held", orig |-> n, rev |-> Len(log) + 1]
             /\ Write(Repeat(n, HoldDeadline(log[n].exp)))
  BY DEF HoldUpdate, HoldUpdateFails, HoldRestore, NoHold, IInv, TypeOK, HoldType
<1>2. \A x : Repeat(n, x).op = "put" /\ Repeat(n, x).key = KeyOf(n) /\ Repeat(n, x).add = log[n].add
  BY DEF Repeat, Put
<1>3. \A x \in Nat : Repeat(n, x) \in Entry
  BY <1>0, Entries
<1>4. last[KeyOf(n)] = n => Live(KeyOf(n)) /\ log[last[KeyOf(n)]].add = log[n].add
  BY <1>0, PutsAreRevisions DEF Live, Puts, TypeOK
<1>5. CASE UNCHANGED store
  <2>1. NoNewHold
    <3>1. log' = log /\ Len(log) \in Nat
      BY <1>0, <1>5, PutsAreRevisions DEF store, TypeOK
    <3>2. ~Write(Repeat(n, HoldDeadline(log[n].exp)))
      BY <1>0, <1>3, <3>1, WriteGrows
    <3>. QED
      BY <1>1, <3>2 DEF NoNewHold
  <2>. QED
    BY <1>0, <1>5, <2>1, QuietKeeps DEF store
<1>6. CASE Write(Repeat(n, HoldDeadline(log[n].exp))) /\ last[KeyOf(n)] = n
  BY <1>0, <1>1, <1>2, <1>3, <1>4, <1>6, WriteKeeps
<1>7. CASE HoldRestore(h) /\ last[KeyOf(n)] = hold[h].rev
  <2>1. Write(Repeat(n, log[n].exp)) /\ hold' = [hold EXCEPT ![h] = NoHold]
    BY <1>7 DEF HoldRestore
  <2>2. /\ hold[h].rev \in Puts
        /\ KeyOf(hold[h].rev) = KeyOf(n) /\ log[hold[h].rev].add = log[n].add
    BY <1>0, <1>7 DEF HoldRestore, TypeOK, HoldType, PayloadsOK
  <2>3. Live(KeyOf(n)) /\ log[last[KeyOf(n)]].add = log[n].add
    BY <1>0, <1>7, <2>2, PutsAreRevisions DEF Live, Puts, TypeOK
  <2>4. \A j \in Holders : hold'[j].step \notin {"idle", "read"} => hold'[j] = hold[j]
    BY <2>1 DEF NoHold, IInv, TypeOK, HoldType
  <2>. QED
    BY <1>0, <1>2, <1>3, <2>1, <2>3, <2>4, WriteKeeps
<1>. QED
  BY <1>5, <1>6, <1>7 DEF HoldUpdate, HoldUpdateFails, HoldRestore

\* The steps that neither write, win nor hold.
LEMMA QuietSteps ==
  ASSUME TypeOK,
         \/ Tick
         \/ \E p \in Procs : DropReference(p) \/ RetryLater(p)
         \/ \E p \in Runners : OrphanElapses(p) \/ \E k \in Keys : TimerElapses(p, k)
         \/ \E w \in Watchers : Watching(w)
         \/ \E h \in Holders : \/ \E k \in Keys : HoldRead(h, k)
                               \/ Release(h) \/ HoldCheck(h) \/ HoldAbandoned(h)
         \/ \E r \in Replicas : \/ Stop(r) \/ Die(r) \/ Start(r)
                                \/ \E k \in Keys : ClearStopTimer(r, k)
         \/ UNCHANGED vars
  PROVE  UNCHANGED <<log, last>> /\ NoNewWin /\ NoNewHold
<1>1. CASE Tick \/ UNCHANGED vars
  BY <1>1 DEF Tick, vars, store, NoNewWin, NoNewHold
<1>2. ASSUME NEW p \in Procs, DropReference(p) \/ RetryLater(p)
      PROVE UNCHANGED <<log, last>> /\ NoNewWin /\ NoNewHold
  BY <1>2 DEF DropReference, RetryLater, Goto, End, NoAttempt, store, NoNewWin, NoNewHold, TypeOK, AttemptType
<1>b. ASSUME NEW p \in Procs, NEW n, Begin(p, n), UNCHANGED fired PROVE NoNewWin
  <2>1. attempt' = [attempt EXCEPT ![p] = [step |-> "start", rev |-> n]]
    BY <1>b DEF Begin
  <2>. QED
    BY <1>b, <2>1 DEF NoNewWin, TypeOK, AttemptType
<1>3. ASSUME NEW p \in Runners, OrphanElapses(p) \/ \E k \in Keys : TimerElapses(p, k)
      PROVE UNCHANGED <<log, last>> /\ NoNewWin /\ NoNewHold
  BY <1>3, <1>b DEF OrphanElapses, TimerElapses, store, NoNewHold, Procs
<1>4. ASSUME NEW w \in Watchers, Watching(w)
      PROVE UNCHANGED <<log, last>> /\ NoNewWin /\ NoNewHold
  <2>1. UNCHANGED attempt /\ UNCHANGED fired => NoNewWin
    BY DEF NoNewWin
  <2>. QED
    BY <1>4, <1>b, <2>1 DEF Watching, OpenWatch, CloseWatch, SkipSuperseded, HandleWatchEntry,
       RescanStart, RescanGet, RescanAct, RescanEnd, store, NoNewHold, Procs
<1>5. ASSUME NEW h \in Holders,
             \/ \E k \in Keys : HoldRead(h, k)
             \/ Release(h) \/ HoldCheck(h) \/ HoldAbandoned(h)
      PROVE UNCHANGED <<log, last>> /\ NoNewWin /\ NoNewHold
  BY <1>5 DEF HoldRead, Release, HoldCheck, HoldAbandoned, NoHold, store, NoNewWin, NoNewHold, TypeOK, HoldType
<1>6. ASSUME NEW r \in Replicas,
             \/ Stop(r) \/ Die(r) \/ Start(r)
             \/ \E k \in Keys : ClearStopTimer(r, k)
      PROVE UNCHANGED <<log, last>> /\ NoNewWin /\ NoNewHold
  BY <1>6 DEF Stop, Die, Start, ClearStopTimer, NoAttempt, NoHold, store, NoNewWin, NoNewHold
<1>. QED
  BY <1>1, <1>2, <1>3, <1>4, <1>5, <1>6

LEMMA IInvNext == ASSUME IInv, Parameters, [Next]_vars PROVE IInv'
<1>0. TypeOK /\ TypeOK'
  BY TypeNext DEF IInv
<1>1. ASSUME UNCHANGED <<log, last>>, NoNewWin, NoNewHold PROVE IInv'
  BY <1>0, <1>1, QuietKeeps
<1>2. ASSUME NEW p \in Procs, TryFire(p) PROVE IInv'
  BY <1>0, <1>1, <1>2, QuietSteps, RemoveKeeps, RemoveFailsKeeps, CallbackKeeps DEF TryFire
<1>3. ASSUME NEW h \in Holders, Holding(h) PROVE IInv'
  BY <1>0, <1>1, <1>3, QuietSteps, HoldWritesKeep DEF Holding
<1>4. ASSUME NEW k \in Keys, Add(k) \/ \E r \in Replicas : Clear(r, k) PROVE IInv'
  BY <1>0, <1>4, AddClearKeeps
<1>5. CASE \/ Tick \/ UNCHANGED vars
           \/ \E p \in Runners : OrphanElapses(p) \/ \E k \in Keys : TimerElapses(p, k)
           \/ \E w \in Watchers : Watching(w)
           \/ \E r \in Replicas : \/ Stop(r) \/ Die(r) \/ Start(r)
                                  \/ \E k \in Keys : ClearStopTimer(r, k)
  BY <1>0, <1>1, <1>5, QuietSteps
<1>. QED
  BY <1>2, <1>3, <1>4, <1>5 DEF Next

\* Every Add leads to at most one callback over all replicas, whatever fails:
\* the removal guarded by the revision (actor.go, tryFireCallback) is won once,
\* and Hold never revives an add that was won.
THEOREM CallbackAtMostOnce == Spec => []AtMostOnce
<1>1. Init => IInv
  <2>1. Init => TypeOK
    BY TypeInit, Parameters
  <2>2. Init => Puts = {} /\ DOMAIN fired = {}
    BY DEF Init, Puts
  <2>. QED
    BY <2>1, <2>2 DEF Init, IInv, PayloadsOK, SpentOnce, AtMostOnce, Live, NoAttempt, NoHold
<1>2. IInv /\ [Next]_vars => IInv'
  BY IInvNext, Parameters
<1>3. IInv => AtMostOnce
  BY DEF IInv
<1>. QED
  BY <1>1, <1>2, <1>3, PTL DEF Spec

-----------------------------------------------------------------------------
(* No stale callback *)

\* Revision n was removed by a fire marker while it was the value of its key.
Removed(n) ==
  \E m \in (n + 1)..Len(log) :
    /\ log[m] = Marker("fire", KeyOf(n), n)
    /\ \A j \in (n + 1)..(m - 1) : KeyOf(j) # KeyOf(n)

\* The value of a key is the last revision of it.
LastIsLast == \A k \in Keys : \A j \in (last[k] + 1)..Len(log) : KeyOf(j) # k

WonRemoved == \A p \in Procs : attempt[p].step = "won" => Removed(attempt[p].rev)

SInv == LastIsLast /\ WonRemoved /\ NoStaleCallback

LEMMA CallsOfPuts == ASSUME TypeOK, NEW i \in DOMAIN fired PROVE fired[i].rev \in Puts
<1>. DEFINE Calls == [rev : Puts, at : Nat]
<1>1. fired \in Seq(Calls)
  BY DEF TypeOK, FiredType
<1>2. fired[i] \in Calls
  <2>. HIDE DEF Calls
  <2>. QED
    BY <1>1, ElementOfSeq, LenProperties
<1>. QED
  BY <1>2

\* A removal stays one while the log grows.
LEMMA RemovedStays ==
  ASSUME TypeOK, NEW n \in Puts, Removed(n), NEW e \in Entry, Write(e)
  PROVE  Removed(n)'
<1>1. /\ Len(log) \in Nat /\ Len(log') = Len(log) + 1 /\ n \in 1..Len(log)
      /\ \A j \in 1..Len(log) : KeyOf(j)' = KeyOf(j) /\ log'[j] = log[j]
  BY WriteGrows DEF Puts, KeyOf
<1>2. PICK m \in (n + 1)..Len(log) :
        /\ log[m] = Marker("fire", KeyOf(n), n)
        /\ \A j \in (n + 1)..(m - 1) : KeyOf(j) # KeyOf(n)
  BY DEF Removed
<1>3. m \in (n + 1)..Len(log') /\ log'[m] = Marker("fire", KeyOf(n)', n)
  BY <1>1, <1>2 DEF Marker
<1>4. \A j \in (n + 1)..(m - 1) : KeyOf(j)' # KeyOf(n)'
  BY <1>1, <1>2
<1>. QED
  BY <1>3, <1>4 DEF Removed, Marker

LEMMA LastIsLastStays ==
  ASSUME TypeOK, LastIsLast, NEW e \in Entry, Write(e)
  PROVE  LastIsLast'
<1>. SUFFICES ASSUME NEW k \in Keys, NEW j \in (last'[k] + 1)..Len(log') PROVE KeyOf(j)' # k
  BY DEF LastIsLast
<1>1. /\ Len(log) \in Nat /\ Len(log') = Len(log) + 1 /\ last[k] \in Nat
      /\ log'[Len(log) + 1] = e
      /\ \A i \in 1..Len(log) : log'[i] = log[i]
      /\ last'[k] = IF k = e.key THEN Len(log) + 1 ELSE last[k]
  BY WriteGrows DEF TypeOK, StoreType
<1>2. CASE j = Len(log) + 1
  BY <1>1, <1>2 DEF KeyOf
<1>3. CASE j \in (last[k] + 1)..Len(log)
  BY <1>1, <1>3 DEF KeyOf, LastIsLast
<1>. QED
  BY <1>1, <1>2, <1>3

\* What a guarded removal writes: the revision was the value of its key.
LEMMA RemoveRemoves ==
  ASSUME TypeOK, LastIsLast, NEW n \in Puts, last[KeyOf(n)] = n,
         Write(Marker("fire", KeyOf(n), n))
  PROVE  Removed(n)'
<1>. DEFINE e == Marker("fire", KeyOf(n), n)
<1>1. n \in 1..Len(log) /\ KeyOf(n) \in Keys /\ e \in Entry /\ Len(log) \in Nat
  BY PutsAreRevisions, Entries DEF TypeOK
<1>2. /\ Len(log') = Len(log) + 1 /\ log'[Len(log) + 1] = e
      /\ \A j \in 1..Len(log) : KeyOf(j)' = KeyOf(j)
  <2>. HIDE DEF e
  <2>1. Write(e)
    BY DEF e
  <2>. QED
    BY <1>1, <2>1, WriteGrows DEF KeyOf
<1>3. \A j \in (n + 1)..Len(log) : KeyOf(j)' # KeyOf(n)'
  BY <1>1, <1>2 DEF LastIsLast
<1>4. Len(log) + 1 \in (n + 1)..Len(log') /\ log'[Len(log) + 1] = Marker("fire", KeyOf(n)', n)
  BY <1>1, <1>2 DEF Marker
<1>. QED
  BY <1>1, <1>3, <1>4 DEF Removed, Marker

\* Steps that win nothing, with the bucket left alone or written.
LEMMA FreshQuiet ==
  ASSUME TypeOK, SInv, NoNewWin, UNCHANGED <<log, last>> \/ \E e \in Entry : Write(e)
  PROVE  SInv'
<1>1. CASE UNCHANGED <<log, last>>
  <2>1. \A n : Removed(n)' <=> Removed(n)
    BY <1>1 DEF Removed, KeyOf, Marker
  <2>2. LastIsLast'
    BY <1>1 DEF SInv, LastIsLast, KeyOf
  <2>. QED
    BY <1>1, <2>1, <2>2 DEF SInv, WonRemoved, NoStaleCallback, NoNewWin, Removed
<1>2. ASSUME NEW e \in Entry, Write(e) PROVE SInv'
  <2>1. \A n \in Puts : Removed(n) => Removed(n)'
    BY <1>2, RemovedStays
  <2>2. WonRemoved'
    BY <2>1 DEF SInv, WonRemoved, NoNewWin, TypeOK, AttemptType
  <2>3. \A i \in DOMAIN fired : fired[i].rev \in Puts /\ Removed(fired[i].rev)
    BY CallsOfPuts DEF SInv, NoStaleCallback, Removed
  <2>4. NoStaleCallback'
    <3>. SUFFICES ASSUME NEW i \in DOMAIN fired', NEW m, m = fired[i].rev
                  PROVE  Removed(m)'
      BY DEF NoStaleCallback, Removed, NoNewWin
    <3>. QED
      BY <2>1, <2>3 DEF NoNewWin
  <2>. QED
    BY <1>2, <2>2, <2>4, LastIsLastStays DEF SInv
<1>. QED
  BY <1>1, <1>2

LEMMA FreshRemove ==
  ASSUME TypeOK, SInv, NEW p \in Procs, Remove(p)
  PROVE  SInv'
<1>0. PICK n \in Puts : n = attempt[p].rev
  BY DEF Remove, TypeOK, AttemptType
<1>. DEFINE e == Marker("fire", KeyOf(n), n)
<1>1. n \in Puts /\ e \in Entry /\ UNCHANGED fired
  <2>1. n \in Nat /\ KeyOf(n) \in Keys
    BY PutsAreRevisions DEF TypeOK
  <2>. QED
    BY <2>1, Entries DEF Remove
<1>2. CASE Write(e) /\ Goto(p, "won") /\ last[KeyOf(n)] = n
  <2>1. Removed(n)' /\ LastIsLast'
    BY <1>1, <1>2, RemoveRemoves, LastIsLastStays DEF SInv
  <2>2. \A m \in Puts : Removed(m) => Removed(m)'
    BY <1>1, <1>2, RemovedStays
  <2>3. \A q \in Procs : attempt'[q].step = "won" =>
           \/ q = p /\ attempt'[q].rev = n
           \/ attempt[q].step = "won" /\ attempt'[q] = attempt[q]
    BY <1>0, <1>2 DEF Goto, TypeOK, AttemptType
  <2>4. WonRemoved'
    BY <2>1, <2>2, <2>3 DEF SInv, WonRemoved, TypeOK, AttemptType
  <2>5. \A i \in DOMAIN fired : fired[i].rev \in Puts /\ Removed(fired[i].rev)
    BY CallsOfPuts DEF SInv, NoStaleCallback, Removed
  <2>6. NoStaleCallback'
    <3>. SUFFICES ASSUME NEW i \in DOMAIN fired', NEW m, m = fired[i].rev
                  PROVE  Removed(m)'
      BY <1>1 DEF NoStaleCallback, Removed
    <3>. QED
      BY <1>1, <2>2, <2>5
  <2>. QED
    BY <2>1, <2>4, <2>6 DEF SInv
<1>3. CASE End(p) /\ UNCHANGED store
  <2>1. NoNewWin
    BY <1>1, <1>3 DEF NoNewWin, End, NoAttempt, TypeOK, AttemptType
  <2>2. UNCHANGED <<log, last>>
    BY <1>3 DEF store
  <2>. QED
    BY <2>1, <2>2, FreshQuiet
<1>. QED
  BY <1>0, <1>2, <1>3 DEF Remove, RemovalAccepted

LEMMA FreshCallback ==
  ASSUME TypeOK, SInv, NEW p \in Procs, Callback(p)
  PROVE  SInv'
<1>1. /\ UNCHANGED <<log, last>> /\ attempt[p].step = "won"
      /\ fired' = Append(fired, [rev |-> attempt[p].rev, at |-> now])
      /\ attempt' = [attempt EXCEPT ![p] = NoAttempt]
  BY DEF Callback, End, store
<1>2. \A n : Removed(n)' <=> Removed(n)
  BY <1>1 DEF Removed, KeyOf, Marker
<1>3. LastIsLast'
  BY <1>1 DEF SInv, LastIsLast, KeyOf
<1>4. WonRemoved'
  <2>1. \A q \in Procs : attempt'[q].step = "won" => attempt[q].step = "won" /\ attempt'[q] = attempt[q]
    BY <1>1 DEF NoAttempt, TypeOK, AttemptType
  <2>. QED
    BY <1>2, <2>1 DEF SInv, WonRemoved
<1>5. /\ DOMAIN fired' = 1..(Len(fired) + 1) /\ DOMAIN fired = 1..Len(fired) /\ Len(fired) \in Nat
      /\ \A i \in 1..Len(fired) : fired'[i] = fired[i]
      /\ fired'[Len(fired) + 1] = [rev |-> attempt[p].rev, at |-> now]
  BY <1>1 DEF TypeOK, FiredType
<1>6. \A i \in DOMAIN fired' : Removed(fired'[i].rev)
  <2>1. Removed(attempt[p].rev) /\ \A i \in DOMAIN fired : Removed(fired[i].rev)
    BY <1>1 DEF SInv, WonRemoved, NoStaleCallback, Removed
  <2>. QED
    BY <1>5, <2>1
<1>7. NoStaleCallback'
  BY <1>2, <1>6 DEF NoStaleCallback, Removed
<1>. QED
  BY <1>3, <1>4, <1>7 DEF SInv

LEMMA FreshNext == ASSUME TypeOK, SInv, Parameters, [Next]_vars PROVE SInv'
<1>1. CASE \E p \in Procs : Remove(p)
  BY <1>1, FreshRemove
<1>2. CASE \E p \in Procs : Callback(p)
  BY <1>2, FreshCallback
<1>3. CASE \E p \in Procs : RemoveFails(p)
  <2>1. PICK p \in Procs : RemoveFails(p)
    BY <1>3
  <2>. DEFINE n == attempt[p].rev
              e == Marker("fire", KeyOf(n), n)
  <2>2. e \in Entry
    BY <2>1, PutsAreRevisions, Entries DEF RemoveFails, TypeOK, AttemptType
  <2>3. UNCHANGED <<log, last>> \/ Write(e)
    BY <2>1 DEF RemoveFails, store
  <2>4. NoNewWin
    BY <2>1 DEF RemoveFails, Goto, NoNewWin, TypeOK, AttemptType
  <2>. QED
    BY <2>2, <2>3, <2>4, FreshQuiet
<1>4. CASE \/ \E k \in Keys : Add(k)
           \/ \E r \in Replicas, k \in Keys : Clear(r, k)
  <2>1. NoNewWin
    BY <1>4 DEF Add, Clear, NoNewWin
  <2>2. \E e \in Entry : Write(e)
    BY <1>4, Entries, PutsAreRevisions DEF Add, Clear, TypeOK, Parameters
  <2>. QED
    BY <2>1, <2>2, FreshQuiet
<1>5. CASE \E h \in Holders : HoldUpdate(h) \/ HoldUpdateFails(h) \/ HoldRestore(h)
  <2>1. PICK h \in Holders : HoldUpdate(h) \/ HoldUpdateFails(h) \/ HoldRestore(h)
    BY <1>5
  <2>. DEFINE n == hold[h].orig
  <2>2. n \in Puts /\ log[n].exp \in Nat /\ HoldDeadline(log[n].exp) \in Nat
    BY <2>1, PutsAreRevisions DEF HoldUpdate, HoldUpdateFails, HoldRestore, HoldDeadline, TypeOK, HoldType, Parameters
  <2>3. UNCHANGED <<log, last>> \/ \E e \in Entry : Write(e)
    BY <2>1, <2>2, Entries DEF HoldUpdate, HoldUpdateFails, HoldRestore, store
  <2>4. NoNewWin
    BY <2>1 DEF HoldUpdate, HoldUpdateFails, HoldRestore, NoNewWin
  <2>. QED
    BY <2>3, <2>4, FreshQuiet
<1>6. CASE UNCHANGED <<log, last>> /\ NoNewWin
  BY <1>6, FreshQuiet
<1>. QED
  BY <1>1, <1>2, <1>3, <1>4, <1>5, <1>6, QuietSteps DEF Next, TryFire, Holding

\* A callback is only ever made for a revision that was the value of its key when it
\* was removed (actor.go, tryFireCallback: the removal names the revision), not for one
\* that an Add, a Hold or a Clear had replaced, however late the watcher was.
THEOREM CallbackIsCurrent == Spec => []NoStaleCallback
<1>1. Init => SInv
  BY DEF Init, SInv, LastIsLast, WonRemoved, NoStaleCallback, NoAttempt
<1>2. Spec => []TypeOK
  BY TypeCorrect
<1>3. TypeOK /\ SInv /\ [Next]_vars => SInv'
  BY FreshNext, Parameters
<1>4. SInv => NoStaleCallback
  BY DEF SInv
<1>. QED
  BY <1>1, <1>2, <1>3, <1>4, PTL DEF Spec

-----------------------------------------------------------------------------
(* Nothing is fired before its expiry *)

\* What the steps on the map of timers leave in it.
LEMMA TimersLeft ==
  ASSUME TypeOK, NEW r \in Replicas
  PROVE  /\ \A k \in Keys : StopTimer(r, k) =>
              \A q \in Replicas, j \in Keys : timers'[q][j] \in {timers[q][j], NoTimer}
         /\ \A n \in Puts, due \in Nat : ScheduleTimer(r, n, due) =>
              \A q \in Replicas, j \in Keys :
                timers'[q][j] \in {timers[q][j], [rev |-> n, due |-> due, running |-> TRUE]}
         /\ timers' = [timers EXCEPT ![r] = [k \in Keys |-> NoTimer]] =>
              \A q \in Replicas, j \in Keys : timers'[q][j] \in {timers[q][j], NoTimer}
<1>1. \A n \in Puts : KeyOf(n) \in Keys
  BY PutsAreRevisions DEF TypeOK
<1>2. \A k \in Keys : \A t : timers' = [timers EXCEPT ![r][k] = t] =>
        \A q \in Replicas, j \in Keys : timers'[q][j] \in {timers[q][j], t}
  BY DEF TypeOK, TimersType
<1>3. \A k \in Keys : StopTimer(r, k) =>
        \A q \in Replicas, j \in Keys : timers'[q][j] \in {timers[q][j], NoTimer}
  BY <1>2 DEF StopTimer
<1>4. \A n \in Puts, due \in Nat : ScheduleTimer(r, n, due) =>
        \A q \in Replicas, j \in Keys :
          timers'[q][j] \in {timers[q][j], [rev |-> n, due |-> due, running |-> TRUE]}
  BY <1>1, <1>2 DEF ScheduleTimer
<1>5. timers' = [timers EXCEPT ![r] = [k \in Keys |-> NoTimer]] =>
        \A q \in Replicas, j \in Keys : timers'[q][j] \in {timers[q][j], NoTimer}
  BY DEF TypeOK, TimersType
<1>. QED
  BY <1>3, <1>4, <1>5

\* A step keeps NotEarly if what it schedules, abandons or attempts is not early.
LEMMA EarlyFrame ==
  ASSUME TypeOK, NotEarly, now' \in Nat, now <= now',
         \A n \in Puts : log'[n].exp = log[n].exp,
         \A r \in Replicas, k \in Keys : timers'[r][k].running =>
           \/ timers'[r][k] = timers[r][k]
           \/ timers'[r][k].rev \in Puts /\ log[timers'[r][k].rev].exp <= timers'[r][k].due,
         \A r \in Replicas : \A t \in orphans'[r] :
           t \in orphans[r] \/ (t.rev \in Puts /\ log[t.rev].exp <= t.due),
         \A p \in Procs : attempt'[p].step # "idle" =>
           \/ attempt[p].step # "idle" /\ attempt'[p].rev = attempt[p].rev
           \/ attempt'[p].rev \in Puts /\ log[attempt'[p].rev].exp <= now,
         \A w \in Watchers : watch'[w].at \in {0, now, watch[w].at}
  PROVE  NotEarly'
<1>1. now \in Nat /\ \A n \in Puts : log[n].exp \in Nat
  BY PutsAreRevisions DEF TypeOK
<1>2. ASSUME NEW r \in Replicas, NEW k \in Keys, timers'[r][k].running
      PROVE  log'[timers'[r][k].rev].exp <= timers'[r][k].due
  <2>1. timers[r][k].running => timers[r][k].rev \in Puts
    BY DEF TypeOK, TimersType
  <2>. QED
    BY <1>2, <2>1 DEF NotEarly
<1>3. ASSUME NEW r \in Replicas, NEW t \in orphans'[r] PROVE log'[t.rev].exp <= t.due
  <2>1. t \in orphans[r] => t.rev \in Puts
    BY DEF TypeOK, OrphansType
  <2>. QED
    BY <2>1 DEF NotEarly
<1>4. ASSUME NEW p \in Procs, attempt'[p].step # "idle" PROVE log'[attempt'[p].rev].exp <= now'
  <2>1. attempt[p].step # "idle" => attempt[p].rev \in Puts
    BY DEF TypeOK, AttemptType
  <2>. QED
    BY <1>1, <1>4, <2>1 DEF NotEarly
<1>5. \A w \in Watchers : watch'[w].at <= now'
  BY <1>1 DEF NotEarly, TypeOK, WatchType
<1>. QED
  BY <1>2, <1>3, <1>4, <1>5 DEF NotEarly

\* A write leaves the expiry of every put as it was.
LEMMA ExpiryStays ==
  ASSUME TypeOK, NEW n \in Puts, UNCHANGED log \/ \E e \in Entry : Write(e)
  PROVE  log'[n] = log[n] /\ n \in Puts'
<1>1. CASE UNCHANGED log
  BY <1>1 DEF Puts
<1>2. CASE \E e \in Entry : Write(e)
  BY <1>2, WriteGrows DEF Puts
<1>. QED
  BY <1>1, <1>2

\* What a step may write, if it writes at all.
LEMMA StepsWrite ==
  ASSUME TypeOK, Parameters, [Next]_vars
  PROVE  UNCHANGED <<log, last>> \/ \E e \in Entry : Write(e)
<1>1. CASE \E p \in Procs : Remove(p) \/ RemoveFails(p)
  <2>1. PICK p \in Procs : Remove(p) \/ RemoveFails(p)
    BY <1>1
  <2>. DEFINE n == attempt[p].rev
              e == Marker("fire", KeyOf(n), n)
  <2>2. e \in Entry
    BY <2>1, PutsAreRevisions, Entries DEF Remove, RemoveFails, TypeOK, AttemptType
  <2>3. UNCHANGED <<log, last>> \/ Write(e)
    BY <2>1 DEF Remove, RemoveFails, store
  <2>. QED
    BY <2>2, <2>3
<1>2. CASE \/ \E k \in Keys : Add(k)
           \/ \E r \in Replicas, k \in Keys : Clear(r, k)
  BY <1>2, Entries, PutsAreRevisions DEF Add, Clear, TypeOK, Parameters
<1>3. CASE \E h \in Holders : HoldUpdate(h) \/ HoldUpdateFails(h) \/ HoldRestore(h)
  <2>1. PICK h \in Holders : HoldUpdate(h) \/ HoldUpdateFails(h) \/ HoldRestore(h)
    BY <1>3
  <2>. DEFINE n == hold[h].orig
  <2>2. n \in Puts /\ log[n].exp \in Nat /\ HoldDeadline(log[n].exp) \in Nat
    BY <2>1, PutsAreRevisions DEF HoldUpdate, HoldUpdateFails, HoldRestore, HoldDeadline, TypeOK, HoldType, Parameters
  <2>. QED
    BY <2>1, <2>2, Entries DEF HoldUpdate, HoldUpdateFails, HoldRestore, store
<1>4. CASE \E p \in Procs : Callback(p)
  BY <1>4 DEF Callback, store
<1>. QED
  BY <1>1, <1>2, <1>3, <1>4, QuietSteps DEF Next, TryFire, Holding

\* The steps that schedule, abandon or attempt.
LEMMA EarlyAttempts ==
  ASSUME TypeOK, NotEarly, Parameters,
         \/ \E p \in Procs : DropReference(p) \/ RetryLater(p)
         \/ \E p \in Runners : OrphanElapses(p) \/ \E k \in Keys : TimerElapses(p, k)
         \/ \E w \in Watchers : HandleWatchEntry(w) \/ RescanStart(w) \/ RescanAct(w)
  PROVE  NotEarly'
<1>0. /\ now \in Nat /\ UNCHANGED <<now, log>> /\ ~NoTimer.running
      /\ \A n \in Puts : log[n].exp \in Nat
      /\ \A p \in Procs : Host[p] \in Replicas
  BY PutsAreRevisions DEF DropReference, RetryLater, OrphanElapses, TimerElapses, HandleWatchEntry,
     RescanStart, RescanAct, store, NoTimer, TypeOK, Parameters
<1>1. ASSUME NEW p \in Procs, DropReference(p) PROVE NotEarly'
  <2>. DEFINE r == Host[p]
              k == KeyOf(attempt[p].rev)
              t == timers[r][k]
  <2>1. /\ attempt[p].step = "start" /\ k \in Keys /\ r \in Replicas
        /\ orphans' = [orphans EXCEPT ![r] = @ \cup
              {[rev |-> u.rev, due |-> u.due] : u \in {v \in {t} : v.running}}]
        /\ StopTimer(r, k) /\ (Goto(p, "removing") \/ End(p))
        /\ UNCHANGED watch
    BY <1>0, <1>1, PutsAreRevisions DEF DropReference, TypeOK, AttemptType
  <2>2. \A q \in Procs : attempt'[q].step # "idle" =>
          attempt[q].step # "idle" /\ attempt'[q].rev = attempt[q].rev
    BY <2>1 DEF Goto, End, NoAttempt, TypeOK, AttemptType
  <2>3. \A q \in Replicas : \A u \in orphans'[q] :
          u \in orphans[q] \/ (t.running /\ u.rev = t.rev /\ u.due = t.due)
    BY <2>1 DEF TypeOK, OrphansType
  <2>4. t.running => t.rev \in Puts /\ log[t.rev].exp <= t.due
    BY <2>1 DEF NotEarly, TypeOK, TimersType
  <2>5. \A q \in Replicas, j \in Keys : timers'[q][j] \in {timers[q][j], NoTimer}
    BY <2>1, TimersLeft
  <2>. HIDE DEF t, k, r
  <2>. QED
    BY <1>0, <2>1, <2>2, <2>3, <2>4, <2>5, EarlyFrame
<1>2. ASSUME NEW p \in Procs, RetryLater(p) PROVE NotEarly'
  <2>. DEFINE n == attempt[p].rev
  <2>1. /\ attempt[p].step = "failed" /\ n \in Puts
        /\ ScheduleTimer(Host[p], n, now) \/ UNCHANGED timers
        /\ End(p) /\ UNCHANGED <<orphans, watch>>
    BY <1>2 DEF RetryLater, TypeOK, AttemptType
  <2>2. \A q \in Procs : attempt'[q].step # "idle" =>
          attempt[q].step # "idle" /\ attempt'[q].rev = attempt[q].rev
    BY <2>1 DEF End, NoAttempt, TypeOK, AttemptType
  <2>3. log[n].exp <= now
    BY <2>1 DEF NotEarly
  <2>4. \A q \in Replicas, j \in Keys :
          timers'[q][j] \in {timers[q][j], [rev |-> n, due |-> now, running |-> TRUE]}
    BY <1>0, <2>1, TimersLeft
  <2>. QED
    BY <1>0, <2>1, <2>2, <2>3, <2>4, EarlyFrame
<1>3. ASSUME NEW p \in Procs, NEW n \in Puts, Begin(p, n), log[n].exp <= now
      PROVE  \A q \in Procs : attempt'[q].step # "idle" =>
               \/ attempt[q].step # "idle" /\ attempt'[q].rev = attempt[q].rev
               \/ attempt'[q].rev \in Puts /\ log[attempt'[q].rev].exp <= now
  BY <1>3 DEF Begin, TypeOK, AttemptType
<1>4. ASSUME NEW p \in Runners, OrphanElapses(p) PROVE NotEarly'
  <2>1. PICK t \in orphans[Host[p]] :
          /\ t.due <= now
          /\ orphans' = [orphans EXCEPT ![Host[p]] = @ \ {t}]
          /\ Begin(p, t.rev)
    BY <1>4 DEF OrphanElapses
  <2>2. p \in Procs /\ t.rev \in Puts /\ t.due \in Nat /\ log[t.rev].exp <= t.due
    BY <1>0 DEF Procs, NotEarly, TypeOK, OrphansType
  <2>3. log[t.rev].exp <= now
    BY <1>0, <2>1, <2>2
  <2>4. \A r \in Replicas : orphans'[r] \subseteq orphans[r]
    BY <2>1 DEF TypeOK, OrphansType
  <2>5. UNCHANGED <<timers, watch>>
    BY <1>4 DEF OrphanElapses
  <2>. QED
    BY <1>0, <1>3, <2>1, <2>2, <2>3, <2>4, <2>5, EarlyFrame
<1>5. ASSUME NEW p \in Runners, NEW k \in Keys, TimerElapses(p, k) PROVE NotEarly'
  <2>. DEFINE r == Host[p]
              t == timers[r][k]
  <2>1. /\ t.running /\ t.due <= now
        /\ timers' = [timers EXCEPT ![r][k].running = FALSE]
        /\ Begin(p, t.rev) /\ UNCHANGED <<orphans, watch>>
    BY <1>5 DEF TimerElapses
  <2>2. p \in Procs /\ r \in Replicas
    BY <1>0 DEF Procs
  <2>3. t.rev \in Puts /\ t.due \in Nat /\ log[t.rev].exp <= t.due
    BY <2>1, <2>2 DEF NotEarly, TypeOK, TimersType, Timer
  <2>4. \A q \in Replicas, j \in Keys : timers'[q][j].running => timers'[q][j] = timers[q][j]
    BY <2>1, <2>2 DEF TypeOK, TimersType, Timer
  <2>5. log[t.rev].exp <= now
    BY <1>0, <2>1, <2>3
  <2>. HIDE DEF t, r
  <2>. QED
    BY <1>0, <1>3, <2>1, <2>2, <2>3, <2>4, <2>5, EarlyFrame
<1>6. ASSUME NEW w \in Watchers, HandleWatchEntry(w) \/ RescanStart(w) PROVE NotEarly'
  <2>1. UNCHANGED <<orphans, attempt>> /\ Host[w] \in Replicas
    BY <1>0, <1>6 DEF HandleWatchEntry, RescanStart, Procs
  <2>2. \A v \in Watchers : watch'[v].at \in {0, now, watch[v].at}
    BY <1>6 DEF HandleWatchEntry, RescanStart, TypeOK, WatchType
  <2>3. \A r \in Replicas, k \in Keys : timers'[r][k].running =>
           \/ timers'[r][k] = timers[r][k]
           \/ timers'[r][k].rev \in Puts /\ log[timers'[r][k].rev].exp <= timers'[r][k].due
    <3>1. CASE RescanStart(w)
      BY <3>1 DEF RescanStart
    <3>2. CASE HandleWatchEntry(w)
      <4>1. PICK n \in pending[w] : IF log[n].op = "put" THEN ScheduleTimer(Host[w], n, log[n].exp)
                                                         ELSE StopTimer(Host[w], KeyOf(n))
        BY <3>2 DEF HandleWatchEntry
      <4>2. n \in 1..Len(log) /\ KeyOf(n) \in Keys
        BY PutsAreRevisions DEF TypeOK, StoreType, Entry, KeyOf
      <4>3. CASE log[n].op = "put"
        BY <1>0, <2>1, <4>1, <4>2, <4>3, TimersLeft DEF Puts
      <4>4. CASE log[n].op # "put"
        BY <1>0, <2>1, <4>1, <4>2, <4>4, TimersLeft
      <4>. QED
        BY <4>3, <4>4
    <3>. QED
      BY <1>6, <3>1, <3>2
  <2>. QED
    BY <1>0, <2>1, <2>2, <2>3, EarlyFrame
<1>7. ASSUME NEW w \in Watchers, RescanAct(w) PROVE NotEarly'
  <2>. DEFINE n == watch[w].rev
  <2>1. /\ n \in Puts /\ w \in Procs /\ Host[w] \in Replicas
        /\ UNCHANGED orphans
        /\ IF watch[w].at > log[n].exp
           THEN Begin(w, n) /\ UNCHANGED timers
           ELSE ScheduleTimer(Host[w], n, log[n].exp) /\ UNCHANGED attempt
    BY <1>0, <1>7 DEF RescanAct, TypeOK, WatchType, Procs
  <2>2. \A v \in Watchers : watch'[v].at = watch[v].at
    BY <1>7 DEF RescanAct, TypeOK, WatchType
  <2>3. watch[w].at \in Nat /\ watch[w].at <= now
    BY DEF NotEarly, TypeOK, WatchType
  <2>4. CASE watch[w].at > log[n].exp
    <3>1. log[n].exp <= now
      BY <1>0, <2>1, <2>3, <2>4
    <3>. QED
      BY <1>0, <1>3, <2>1, <2>2, <2>4, <3>1, EarlyFrame
  <2>5. CASE ~(watch[w].at > log[n].exp)
    <3>1. \A q \in Replicas, j \in Keys :
            timers'[q][j] \in {timers[q][j], [rev |-> n, due |-> log[n].exp, running |-> TRUE]}
      BY <1>0, <2>1, <2>5, TimersLeft
    <3>. QED
      BY <1>0, <2>1, <2>2, <2>5, <3>1, EarlyFrame
  <2>. QED
    BY <2>4, <2>5
<1>. QED
  BY <1>1, <1>2, <1>4, <1>5, <1>6, <1>7

\* What the other steps leave of timers, orphans, attempts and rescans.
NothingScheduled ==
  /\ \A r \in Replicas, k \in Keys : timers'[r][k] \in {timers[r][k], NoTimer}
  /\ \A r \in Replicas : orphans'[r] \subseteq orphans[r]
  /\ \A p \in Procs : attempt'[p].step # "idle" =>
       attempt[p].step # "idle" /\ attempt'[p].rev = attempt[p].rev
  /\ \A w \in Watchers : watch'[w].at \in {0, watch[w].at}

LEMMA EarlyKept ==
  ASSUME TypeOK, NotEarly, Parameters, [Next]_vars, now' \in Nat, now <= now', NothingScheduled
  PROVE  NotEarly'
<1>1. \A n \in Puts : log'[n].exp = log[n].exp
  BY StepsWrite, ExpiryStays
<1>2. ~NoTimer.running
  BY DEF NoTimer
<1>. QED
  BY <1>1, <1>2, EarlyFrame DEF NothingScheduled

LEMMA QuietTimers ==
  ASSUME TypeOK, Parameters,
         \/ Tick \/ UNCHANGED vars
         \/ \E k \in Keys : Add(k)
         \/ \E p \in Procs : Remove(p) \/ RemoveFails(p) \/ Callback(p)
         \/ \E w \in Watchers : \/ OpenWatch(w) \/ CloseWatch(w) \/ SkipSuperseded(w)
                                \/ RescanGet(w) \/ RescanEnd(w)
         \/ \E h \in Holders : Holding(h)
         \/ \E r \in Replicas : \/ Stop(r) \/ Die(r) \/ Start(r)
                                \/ \E k \in Keys : Clear(r, k) \/ ClearStopTimer(r, k)
  PROVE  NothingScheduled /\ now' \in Nat /\ now <= now'
<1>0. now \in Nat
  BY DEF TypeOK
<1>1. CASE \/ Tick \/ UNCHANGED vars
           \/ \E k \in Keys : Add(k)
           \/ \E h \in Holders : Holding(h)
           \/ \E r \in Replicas : Start(r) \/ \E k \in Keys : Clear(r, k)
  <2>1. UNCHANGED <<timers, orphans, attempt, watch>>
    BY <1>1 DEF Tick, vars, Add, Start, Clear, Holding, HoldRead, HoldUpdate, HoldUpdateFails,
       Release, HoldCheck, HoldRestore, HoldAbandoned
  <2>2. now' = now \/ now' = now + 1
    BY <1>1 DEF Tick, vars, Add, Start, Clear, Holding, HoldRead, HoldUpdate, HoldUpdateFails,
       Release, HoldCheck, HoldRestore, HoldAbandoned
  <2>. QED
    BY <1>0, <2>1, <2>2 DEF NothingScheduled
<1>2. ASSUME NEW p \in Procs, Remove(p) \/ RemoveFails(p) \/ Callback(p)
      PROVE NothingScheduled /\ now' = now
  <2>1. UNCHANGED <<timers, orphans, watch, now>>
    BY <1>2 DEF Remove, RemoveFails, Callback
  <2>2. attempt[p].step # "idle"
    BY <1>2 DEF Remove, RemoveFails, Callback
  <2>3. End(p) \/ \E s \in {"won", "failed"} : Goto(p, s)
    BY <1>2 DEF Remove, RemoveFails, Callback
  <2>4. \A q \in Procs : attempt'[q].step # "idle" =>
          attempt[q].step # "idle" /\ attempt'[q].rev = attempt[q].rev
    BY <2>2, <2>3 DEF End, Goto, NoAttempt, TypeOK, AttemptType
  <2>. QED
    BY <2>1, <2>4 DEF NothingScheduled
<1>3. ASSUME NEW w \in Watchers,
             OpenWatch(w) \/ CloseWatch(w) \/ SkipSuperseded(w) \/ RescanGet(w) \/ RescanEnd(w)
      PROVE NothingScheduled /\ now' = now
  <2>1. UNCHANGED <<timers, orphans, attempt, now>>
    BY <1>3 DEF OpenWatch, CloseWatch, SkipSuperseded, RescanGet, RescanEnd
  <2>2. \A v \in Watchers : watch'[v].at \in {0, watch[v].at}
    <3>1. CASE OpenWatch(w) \/ CloseWatch(w) \/ RescanEnd(w)
      <4>1. watch' = [watch EXCEPT ![w] = Idle] \/ watch' = [watch EXCEPT ![w] = Closed]
        BY <3>1 DEF OpenWatch, CloseWatch, RescanEnd
      <4>2. Idle.at = 0 /\ Closed.at = 0
        BY DEF Idle, Closed
      <4>. QED
        BY <4>1, <4>2 DEF TypeOK, WatchType
    <3>2. CASE SkipSuperseded(w)
      BY <3>2 DEF SkipSuperseded
    <3>3. CASE RescanGet(w)
      <4>1. PICK k \in watch[w].todo :
              \/ watch' = [watch EXCEPT ![w].step = "got", ![w].rev = last[k], ![w].todo = @ \ {k}]
              \/ watch' = [watch EXCEPT ![w].todo = @ \ {k}]
        BY <3>3 DEF RescanGet
      <4>2. \A v \in Watchers : v # w => watch'[v] = watch[v]
        BY <4>1 DEF TypeOK, WatchType
      <4>3. watch'[w].at = watch[w].at
        BY <4>1 DEF TypeOK, WatchType
      <4>. QED
        BY <4>2, <4>3
    <3>. QED
      BY <1>3, <3>1, <3>2, <3>3
  <2>. QED
    BY <2>1, <2>2 DEF NothingScheduled
<1>4. ASSUME NEW r \in Replicas, Stop(r) \/ Die(r) \/ \E k \in Keys : ClearStopTimer(r, k)
      PROVE NothingScheduled /\ now' = now
  <2>1. now' = now
    BY <1>4 DEF Stop, Die, ClearStopTimer
  <2>2. \A q \in Replicas, j \in Keys : timers'[q][j] \in {timers[q][j], NoTimer}
    BY <1>4, TimersLeft DEF Stop, Die, ClearStopTimer
  <2>3. \A q \in Replicas : orphans'[q] \subseteq orphans[q]
    BY <1>4 DEF Stop, Die, ClearStopTimer, TypeOK, OrphansType
  <2>4. \A q \in Procs : attempt'[q] \in {attempt[q], NoAttempt}
    BY <1>4 DEF Stop, Die, ClearStopTimer
  <2>5. \A w \in Watchers : watch'[w].at \in {0, watch[w].at}
    BY <1>4 DEF Stop, Die, ClearStopTimer, Closed, Idle
  <2>. QED
    BY <2>1, <2>2, <2>3, <2>4, <2>5 DEF NothingScheduled, NoAttempt
<1>. QED
  BY <1>0, <1>1, <1>2, <1>3, <1>4

LEMMA EarlyNext ==
  ASSUME TypeOK, NotEarly, Parameters, [Next]_vars
  PROVE  NotEarly'
<1>1. CASE \/ \E p \in Procs : DropReference(p) \/ RetryLater(p)
           \/ \E p \in Runners : OrphanElapses(p) \/ \E k \in Keys : TimerElapses(p, k)
           \/ \E w \in Watchers : HandleWatchEntry(w) \/ RescanStart(w) \/ RescanAct(w)
  BY <1>1, EarlyAttempts
<1>2. CASE \/ Tick \/ UNCHANGED vars
           \/ \E k \in Keys : Add(k)
           \/ \E p \in Procs : Remove(p) \/ RemoveFails(p) \/ Callback(p)
           \/ \E w \in Watchers : \/ OpenWatch(w) \/ CloseWatch(w) \/ SkipSuperseded(w)
                                  \/ RescanGet(w) \/ RescanEnd(w)
           \/ \E h \in Holders : Holding(h)
           \/ \E r \in Replicas : \/ Stop(r) \/ Die(r) \/ Start(r)
                                  \/ \E k \in Keys : Clear(r, k) \/ ClearStopTimer(r, k)
  BY <1>2, QuietTimers, EarlyKept
<1>. QED
  BY <1>1, <1>2 DEF Next, TryFire, Watching

-----------------------------------------------------------------------------
(* No revision expires before its Add asked for *)

LEMMA AddsGrow ==
  ASSUME TypeOK, NEW e \in Entry, Write(e)
  PROVE  /\ Len(log) \in Nat
         /\ Adds \subseteq Puts /\ Adds \subseteq 1..Len(log)
         /\ Adds' = Adds \cup {n \in {Len(log) + 1} : e.op = "put" /\ e.add = n}
<1>1. /\ Len(log) \in Nat /\ Len(log') = Len(log) + 1
      /\ \A n \in 1..Len(log) : log'[n] = log[n]
      /\ log'[Len(log) + 1] = e
  BY WriteGrows
<1>2. Adds \subseteq Puts /\ Adds \subseteq 1..Len(log)
  BY DEF Adds, Puts
<1>3. 1..Len(log') = 1..Len(log) \cup {Len(log) + 1}
  BY <1>1
<1>4. Adds' = Adds \cup {n \in {Len(log) + 1} : e.op = "put" /\ e.add = n}
  BY <1>1, <1>3 DEF Adds
<1>. QED
  BY <1>1, <1>2, <1>4

LEMMA SoonerQuiet ==
  ASSUME NeverSooner, UNCHANGED <<log, last>>, NoNewHold
  PROVE  NeverSooner'
<1>1. Puts' = Puts /\ Adds' = Adds
  BY DEF Puts, Adds
<1>2. \A h \in Holders : InForce(h)' =>
        InForce(h) /\ hold'[h].rev = hold[h].rev /\ hold'[h].orig = hold[h].orig
  BY DEF InForce, NoNewHold
<1>. QED
  BY <1>1, <1>2 DEF NeverSooner

\* A payload written is a new Add's, or expires no earlier than its Add asked for.
LEMMA SoonerWrite ==
  ASSUME TypeOK, NeverSooner, NEW e \in Entry, Write(e),
         e.op = "put" => \/ e.add = Len(log) + 1
                         \/ e.add \in Adds /\ log[e.add].exp <= e.exp,
         \A h \in Holders : InForce(h)' =>
           \/ InForce(h) /\ hold'[h].rev = hold[h].rev /\ hold'[h].orig = hold[h].orig
           \/ /\ hold'[h].rev = Len(log) + 1 /\ hold'[h].orig \in Puts
              /\ log[hold'[h].orig].exp <= e.exp
  PROVE  NeverSooner'
<1>1. /\ Len(log) \in Nat /\ log'[Len(log) + 1] = e
      /\ \A n \in Puts : log'[n] = log[n] /\ n \in 1..Len(log)
      /\ Puts' \subseteq Puts \cup {Len(log) + 1}
      /\ e.exp \in Nat
  <2>1. /\ Len(log) \in Nat /\ log'[Len(log) + 1] = e /\ Len(log') = Len(log) + 1
        /\ \A n \in 1..Len(log) : log'[n] = log[n]
    BY WriteGrows
  <2>2. \A n \in Puts : log'[n] = log[n] /\ n \in 1..Len(log)
    BY <2>1 DEF Puts
  <2>3. Puts' \subseteq Puts \cup {Len(log) + 1}
    BY <2>1 DEF Puts
  <2>4. e.exp \in Nat
    BY DEF Entry
  <2>. QED
    BY <2>1, <2>2, <2>3, <2>4
<1>2. Adds \subseteq Puts /\ Adds' = Adds \cup {n \in {Len(log) + 1} : e.op = "put" /\ e.add = n}
  BY AddsGrow
<1>3. ASSUME NEW n \in Puts' PROVE log'[n].add \in Adds' /\ log'[log'[n].add].exp <= log'[n].exp
  <2>1. CASE n \in Puts
    BY <1>1, <1>2, <2>1 DEF NeverSooner
  <2>2. CASE n = Len(log) + 1
    <3>1. e.op = "put"
      BY <1>1, <1>3, <2>2 DEF Puts
    <3>2. CASE e.add = Len(log) + 1
      BY <1>1, <1>2, <2>2, <3>1, <3>2
    <3>3. CASE e.add \in Adds /\ log[e.add].exp <= e.exp
      BY <1>1, <1>2, <2>2, <3>3
    <3>. QED
      BY <3>1, <3>2, <3>3
  <2>. QED
    BY <1>1, <2>1, <2>2
<1>4. ASSUME NEW h \in Holders, InForce(h)' PROVE log'[hold'[h].orig].exp <= log'[hold'[h].rev].exp
  <2>1. InForce(h) => hold[h].orig \in Puts /\ hold[h].rev \in Puts
    BY DEF InForce, TypeOK, HoldType
  <2>. QED
    BY <1>1, <1>4, <2>1 DEF NeverSooner
<1>5. Adds' # {} => \E a \in Adds' : \A b \in Adds' : b <= a
  <2>1. CASE Adds' = Adds
    BY <2>1 DEF NeverSooner
  <2>2. CASE Len(log) + 1 \in Adds'
    <3>1. \A b \in Adds' : b <= Len(log) + 1
      BY <1>1, <1>2
    <3>. QED
      BY <2>2, <3>1
  <2>. QED
    BY <1>2, <2>1, <2>2
<1>. QED
  BY <1>3, <1>4, <1>5 DEF NeverSooner

\* The deadline of a hold is no earlier than the expiry it holds back.
LEMMA HoldDelays ==
  ASSUME TypeOK, Parameters, NEW x \in Nat
  PROVE  HoldDeadline(x) \in Nat /\ x <= HoldDeadline(x) /\ now <= HoldDeadline(x)
BY DEF HoldDeadline, TypeOK, Parameters

LEMMA SoonerNext ==
  ASSUME IInv, NeverSooner, Parameters, [Next]_vars
  PROVE  NeverSooner'
<1>0. TypeOK /\ PayloadsOK
  BY DEF IInv
<1>1. CASE \/ \E p \in Procs : Remove(p) \/ RemoveFails(p)
           \/ \E r \in Replicas, k \in Keys : Clear(r, k)
  <2>1. \/ UNCHANGED <<log, last>>
        \/ \E e \in Entry : Write(e) /\ e.op # "put"
    <3>1. \A p \in Procs : Remove(p) \/ RemoveFails(p) =>
            Marker("fire", KeyOf(attempt[p].rev), attempt[p].rev) \in Entry
      BY <1>0, PutsAreRevisions, Entries DEF Remove, RemoveFails, TypeOK, AttemptType
    <3>2. \A k \in Keys : Marker("clear", k, 0) \in Entry
      BY <1>0, Entries
    <3>3. \A s, k, n : Marker(s, k, n).op = s
      BY DEF Marker
    <3>4. ASSUME NEW p \in Procs, Remove(p) \/ RemoveFails(p)
          PROVE UNCHANGED <<log, last>> \/ Write(Marker("fire", KeyOf(attempt[p].rev), attempt[p].rev))
      BY <3>4 DEF Remove, RemoveFails, store
    <3>5. ASSUME NEW r \in Replicas, NEW k \in Keys, Clear(r, k) PROVE Write(Marker("clear", k, 0))
      BY <3>5 DEF Clear
    <3>6. \A s \in {"fire", "clear"} : s # "put"
      OBVIOUS
    <3>. QED
      BY <1>1, <3>1, <3>2, <3>3, <3>4, <3>5, <3>6
  <2>2. UNCHANGED hold
    BY <1>1 DEF Remove, RemoveFails, Clear
  <2>3. NoNewHold /\ \A h \in Holders : InForce(h)' => InForce(h)
    BY <2>2 DEF NoNewHold, InForce
  <2>. QED
    BY <1>0, <2>1, <2>2, <2>3, SoonerQuiet, SoonerWrite
<1>2. ASSUME NEW k \in Keys, Add(k) PROVE NeverSooner'
  <2>1. PICK t \in Timeouts : Write(Put(k, now + t, Len(log) + 1))
    BY <1>2 DEF Add
  <2>2. Put(k, now + t, Len(log) + 1) \in Entry
    <3>1. now + t \in Nat /\ Len(log) + 1 \in Nat
      BY <1>0, PutsAreRevisions DEF TypeOK, Parameters
    <3>. QED
      BY <1>0, <3>1, Entries
  <2>3. Put(k, now + t, Len(log) + 1).add = Len(log) + 1
    BY DEF Put
  <2>4. \A h \in Holders : InForce(h)' =>
          InForce(h) /\ hold'[h].rev = hold[h].rev /\ hold'[h].orig = hold[h].orig
    BY <1>2 DEF Add, InForce
  <2>. QED
    BY <1>0, <2>1, <2>2, <2>3, <2>4, SoonerWrite
<1>3. ASSUME NEW h \in Holders, HoldUpdate(h) \/ HoldUpdateFails(h) \/ HoldRestore(h)
      PROVE NeverSooner'
  <2>. DEFINE n == hold[h].orig
  <2>1. n \in Puts /\ log[n].exp \in Nat
    BY <1>0, <1>3, PutsAreRevisions DEF HoldUpdate, HoldUpdateFails, HoldRestore, TypeOK, HoldType
  <2>2. log[n].add \in Adds /\ log[log[n].add].exp <= log[n].exp /\ log[log[n].add].exp \in Nat
    BY <1>0, <2>1, PutsAreRevisions DEF NeverSooner, Adds, Puts, TypeOK
  <2>3. \A x : Repeat(n, x).op = "put" /\ Repeat(n, x).exp = x /\ Repeat(n, x).add = log[n].add
    BY DEF Repeat, Put
  <2>4. \A x \in Nat : Repeat(n, x) \in Entry
    BY <1>0, <2>1, Entries
  <2>5. CASE hold' = [hold EXCEPT ![h] = NoHold]
    <3>1. \A j \in Holders : InForce(j)' => InForce(j) /\ hold'[j] = hold[j]
      BY <1>0, <2>5 DEF InForce, NoHold, TypeOK, HoldType
    <3>2. NoNewHold
      BY <3>1 DEF NoNewHold, InForce
    <3>3. UNCHANGED <<log, last>> \/ \E x \in Nat : log[n].exp <= x /\ Write(Repeat(n, x))
      BY <1>0, <1>3, <2>1, HoldDelays DEF HoldUpdate, HoldUpdateFails, HoldRestore, store
    <3>4. CASE UNCHANGED <<log, last>>
      BY <3>2, <3>4, SoonerQuiet
    <3>5. ASSUME NEW x \in Nat, log[n].exp <= x, Write(Repeat(n, x)) PROVE NeverSooner'
      <4>1. log[log[n].add].exp <= x
        BY <2>1, <2>2, <3>5
      <4>. QED
        BY <1>0, <2>2, <2>3, <2>4, <3>1, <3>5, <4>1, SoonerWrite
    <3>. QED
      BY <3>3, <3>4, <3>5
  <2>6. CASE hold' # [hold EXCEPT ![h] = NoHold]
    <3>. DEFINE x == HoldDeadline(log[n].exp)
    <3>1. /\ Write(Repeat(n, x))
          /\ hold' = [hold EXCEPT ![h] = [step |-> "held", orig |-> n, rev |-> Len(log) + 1]]
      BY <1>3, <2>6 DEF HoldUpdate, HoldUpdateFails, HoldRestore
    <3>2. x \in Nat /\ log[n].exp <= x
      BY <1>0, <2>1, HoldDelays
    <3>. HIDE DEF x
    <3>3. \A j \in Holders : InForce(j)' =>
           \/ InForce(j) /\ hold'[j].rev = hold[j].rev /\ hold'[j].orig = hold[j].orig
           \/ hold'[j].rev = Len(log) + 1 /\ hold'[j].orig = n
      BY <1>0, <3>1 DEF InForce, TypeOK, HoldType
    <3>4. log[log[n].add].exp <= x
      BY <2>1, <2>2, <3>2
    <3>. QED
      BY <1>0, <2>1, <2>2, <2>3, <2>4, <3>1, <3>2, <3>3, <3>4, SoonerWrite
  <2>. QED
    BY <2>5, <2>6
<1>4. CASE UNCHANGED <<log, last>> /\ NoNewHold
  BY <1>4, SoonerQuiet
<1>5. CASE \E p \in Procs : Callback(p)
  <2>1. UNCHANGED <<log, last>> /\ NoNewHold
    BY <1>5 DEF Callback, store, NoNewHold
  <2>. QED
    BY <2>1, SoonerQuiet
<1>. QED
  BY <1>0, <1>1, <1>2, <1>3, <1>4, <1>5, QuietSteps DEF Next, TryFire, Holding

\* The invariant the promise and the holds rest on.
PInv == IInv /\ SInv /\ NotEarly /\ NeverSooner

LEMMA PromiseInvariant == Spec => []PInv
<1>1. Init => PInv
  <2>1. Init => TypeOK
    BY TypeInit, Parameters
  <2>2. Init => Puts = {} /\ Adds = {} /\ DOMAIN fired = {}
    BY DEF Init, Puts, Adds
  <2>3. Init => IInv
    BY <2>1, <2>2 DEF Init, IInv, PayloadsOK, SpentOnce, AtMostOnce, Live, NoAttempt, NoHold
  <2>4. Init => SInv
    BY DEF Init, SInv, LastIsLast, WonRemoved, NoStaleCallback, NoAttempt
  <2>5. Init => NotEarly
    <3>1. ~NoTimer.running /\ NoAttempt.step = "idle" /\ Closed.at = 0
      BY DEF NoTimer, NoAttempt, Closed, Idle
    <3>. QED
      BY <3>1 DEF Init, NotEarly
  <2>6. Init => NeverSooner
    BY <2>2 DEF Init, NeverSooner, InForce, NoHold
  <2>. QED
    BY <2>3, <2>4, <2>5, <2>6 DEF PInv
<1>2. PInv /\ [Next]_vars => PInv'
  BY IInvNext, FreshNext, EarlyNext, SoonerNext, Parameters DEF PInv, IInv
<1>. QED
  BY <1>1, <1>2, PTL DEF Spec

-----------------------------------------------------------------------------
(* The actor keeps the promise *)

LEMMA LargestOfSet ==
  ASSUME NEW S \in SUBSET Nat, NEW m \in S, \A b \in S : b <= m
  PROVE  (CHOOSE a \in S : \A b \in S : b <= a) = m
<1>. DEFINE c == CHOOSE a \in S : \A b \in S : b <= a
<1>1. c \in S /\ \A b \in S : b <= c
  OBVIOUS
<1>2. c <= m /\ m <= c /\ c \in Nat /\ m \in Nat
  BY <1>1
<1>3. c = m
  BY <1>2
<1>. QED
  BY <1>3

LEMMA ArmedIsRevision ==
  ASSUME TypeOK, NeverSooner
  PROVE  Armed \in 0..Len(log) /\ Len(log) \in Nat
<1>1. Adds \subseteq 1..Len(log) /\ Len(log) \in Nat
  BY PutsAreRevisions DEF Adds, TypeOK
<1>2. CASE Adds = {}
  BY <1>1, <1>2 DEF Armed
<1>3. CASE Adds # {}
  <2>1. PICK m \in Adds : \A b \in Adds : b <= m
    BY <1>3 DEF NeverSooner
  <2>2. Armed = m
    BY <1>1, <1>3, <2>1, LargestOfSet DEF Armed
  <2>. QED
    BY <1>1, <2>2
<1>. QED
  BY <1>2, <1>3

LEMMA SlotOfKey ==
  ASSUME TypeOK, PayloadsOK, NEW k \in Keys, Live(k)
  PROVE  /\ last[k] \in Puts /\ KeyOf(last[k]) = k
         /\ Slot[k] = [add |-> log[last[k]].add, due |-> log[last[k]].exp]
         /\ Slot[k] # Promise!None
<1>1. last[k] \in Puts /\ KeyOf(last[k]) = k
  BY SpentAdds DEF PayloadsOK, Live
<1>2. Slot[k] = [add |-> log[last[k]].add, due |-> log[last[k]].exp]
  BY DEF Slot
<1>3. log[last[k]].add # 0
  BY <1>1, PutsAreRevisions DEF PayloadsOK, TypeOK
<1>. QED
  BY <1>1, <1>2, <1>3 DEF Promise!None

LEMMA BucketLeft ==
  ASSUME UNCHANGED <<log, last>>
  PROVE  Armed' = Armed /\ Slot' = Slot /\ Deadline' = Deadline
<1>1. Adds' = Adds
  BY DEF Adds
<1>2. \A k \in Keys : Live(k)' = Live(k)
  BY DEF Live
<1>. QED
  BY <1>1, <1>2 DEF Armed, Slot, Deadline

\* A write sets the slot of its key.
LEMMA SlotWritten ==
  ASSUME TypeOK, PayloadsOK, NEW e \in Entry, Write(e)
  PROVE  Slot' = [Slot EXCEPT ![e.key] = IF e.op = "put" THEN [add |-> e.add, due |-> e.exp]
                                                         ELSE Promise!None]
<1>1. e.key \in Keys /\ last'[e.key] = Len(log) + 1 /\ log'[Len(log) + 1] = e
  BY WriteGrows DEF Entry
<1>2. ASSUME NEW k \in Keys, k # e.key PROVE Slot'[k] = Slot[k]
  BY <1>2, AfterWrite DEF Slot
<1>3. Slot'[e.key] = IF e.op = "put" THEN [add |-> e.add, due |-> e.exp] ELSE Promise!None
  BY <1>1, AfterWrite DEF Slot, Promise!None
<1>4. Slot = [k \in Keys |-> Slot[k]] /\ Slot' = [k \in Keys |-> Slot'[k]]
  BY DEF Slot
<1>. QED
  <2>. DEFINE v == IF e.op = "put" THEN [add |-> e.add, due |-> e.exp] ELSE Promise!None
  <2>1. [Slot EXCEPT ![e.key] = v] = [k \in Keys |-> IF k = e.key THEN v ELSE Slot[k]]
    BY <1>1, <1>4, Zenon
  <2>2. Slot'[e.key] = v
    BY <1>3
  <2>. HIDE DEF v
  <2>3. \A k \in Keys : Slot'[k] = IF k = e.key THEN v ELSE Slot[k]
    BY <1>2, <2>2
  <2>4. Slot' = [k \in Keys |-> IF k = e.key THEN v ELSE Slot[k]]
    BY <1>4, <2>3, Zenon
  <2>5. Slot' = [Slot EXCEPT ![e.key] = v]
    BY <2>1, <2>4
  <2>. QED
    BY <2>5 DEF v

\* Only a new Add arms.
LEMMA NothingArmed ==
  ASSUME TypeOK, NEW e \in Entry, Write(e), e.op = "put" => e.add # Len(log) + 1
  PROVE  Armed' = Armed /\ Deadline' = Deadline
<1>1. Adds' = Adds /\ Adds \subseteq Puts
  <2>1. {n \in {Len(log) + 1} : e.op = "put" /\ e.add = n} = {}
    OBVIOUS
  <2>. QED
    BY <2>1, AddsGrow
<1>2. \A a \in Adds : log'[a] = log[a]
  BY <1>1, ExpiryStays
<1>. QED
  BY <1>1, <1>2 DEF Armed, Deadline

LEMMA AddArms ==
  ASSUME TypeOK, NEW e \in Entry, Write(e), e.op = "put", e.add = Len(log) + 1
  PROVE  /\ Armed' = e.add
         /\ Deadline' = [a \in DOMAIN Deadline \cup {e.add} |->
                           IF a = e.add THEN e.exp ELSE Deadline[a]]
<1>1. /\ Len(log) \in Nat /\ Adds \subseteq Puts /\ Adds \subseteq 1..Len(log)
      /\ Adds' = Adds \cup {e.add}
  BY AddsGrow
<1>2. \A a \in Adds : log'[a] = log[a] /\ a # e.add
  <2>1. \A a \in Adds : log'[a] = log[a]
    BY <1>1, ExpiryStays
  <2>. QED
    BY <1>1, <2>1
<1>3. log'[e.add] = e
  BY WriteGrows
<1>4. Armed' = e.add
  <2>0. e.add \in Nat /\ \A b \in Adds : b \in Nat /\ b <= e.add
    BY <1>1
  <2>1. Adds' \subseteq Nat /\ e.add \in Adds' /\ \A b \in Adds' : b <= e.add
    <3>1. e.add \in Adds' /\ \A b \in Adds' : b \in Adds \/ b = e.add
      BY <1>1
    <3>2. e.add <= e.add
      BY <2>0
    <3>3. \A b \in Adds' : b \in Nat /\ b <= e.add
      BY <2>0, <3>1, <3>2, Zenon
    <3>. QED
      BY <3>1, <3>3
  <2>2. (CHOOSE a \in Adds' : \A b \in Adds' : b <= a) = e.add
    BY <2>1, LargestOfSet
  <2>. QED
    BY <2>1, <2>2 DEF Armed
<1>5. Deadline' = [a \in DOMAIN Deadline \cup {e.add} |-> IF a = e.add THEN e.exp ELSE Deadline[a]]
  BY <1>1, <1>2, <1>3 DEF Deadline
<1>. QED
  BY <1>4, <1>5

\* What was won and called back is named by the same Adds while the log grows.
LEMMA NamesStay ==
  ASSUME TypeOK, PayloadsOK, UNCHANGED log \/ \E e \in Entry : Write(e)
  PROVE  /\ \A n \in Puts : log'[n].add = log[n].add
         /\ UNCHANGED fired => Called' = Called
         /\ UNCHANGED attempt => Claimed' = Claimed
         /\ NoNewWin => Claimed' \subseteq Claimed
<1>1. \A n \in Puts : log'[n].add = log[n].add
  BY ExpiryStays
<1>2. /\ \A i \in DOMAIN fired : fired[i].rev \in Puts
      /\ \A p \in Procs : attempt[p].step = "won" => attempt[p].rev \in Puts
  BY SpentAdds
<1>3. UNCHANGED fired => Called' = Called
  BY <1>1, <1>2 DEF Called, FiredAdd
<1>4. UNCHANGED attempt => Claimed' = Claimed
  BY <1>1, <1>2 DEF Claimed, WonAdd
<1>5. NoNewWin => Claimed' \subseteq Claimed
  BY <1>1, <1>2 DEF Claimed, WonAdd, NoNewWin
<1>. QED
  BY <1>1, <1>3, <1>4, <1>5

\* A step that leaves the bucket alone and wins nothing loses claims at most.
LEMMA QuietPromise ==
  ASSUME IInv, UNCHANGED <<now, log, last>>, NoNewWin
  PROVE  Promise!LoseClaims
<1>1. Claimed' \subseteq Claimed /\ Called' = Called
  BY NamesStay DEF IInv, NoNewWin
<1>. QED
  BY <1>1, BucketLeft DEF Promise!LoseClaims

LEMMA TickPromise == ASSUME IInv, Tick PROVE Promise!Tick
<1>1. UNCHANGED <<log, last, attempt, fired>> /\ now' = now + 1
  BY DEF Tick, store
<1>. QED
  BY <1>1, BucketLeft, NamesStay DEF IInv, Promise!Tick

LEMMA AddPromise ==
  ASSUME PInv, Parameters, NEW k \in Keys, Add(k)
  PROVE  Promise!Arm(k)
<1>0. TypeOK /\ PayloadsOK /\ now \in Nat /\ UNCHANGED <<now, attempt, fired>>
  BY DEF PInv, IInv, TypeOK, Add
<1>1. PICK t \in Timeouts : Write(Put(k, now + t, Len(log) + 1))
  BY DEF Add
<1>. DEFINE e == Put(k, now + t, Len(log) + 1)
<1>2. /\ Len(log) \in Nat /\ now + t \in Nat /\ now + t >= now
      /\ e.op = "put" /\ e.key = k /\ e.exp = now + t /\ e.add = Len(log) + 1
  BY <1>0, PutsAreRevisions DEF TypeOK, Parameters, Put
<1>3. e \in Entry
  BY <1>0, <1>2, Entries
<1>. HIDE DEF e
<1>4. Write(e)
  BY <1>1 DEF e
<1>5. /\ Armed' = e.add
      /\ Deadline' = [a \in DOMAIN Deadline \cup {e.add} |->
                        IF a = e.add THEN e.exp ELSE Deadline[a]]
  BY <1>0, <1>2, <1>3, <1>4, AddArms
<1>6. Slot' = [Slot EXCEPT ![k] = [add |-> e.add, due |-> e.exp]]
  BY <1>0, <1>2, <1>3, <1>4, SlotWritten
<1>7. Slot'[k] = [add |-> e.add, due |-> e.exp]
  BY <1>6 DEF Slot
<1>8. Claimed' = Claimed /\ Called' = Called
  BY <1>0, <1>3, <1>4, NamesStay
<1>9. e.add > Armed
  BY <1>0, <1>2, ArmedIsRevision DEF PInv
<1>10. PICK s : s = Slot'[k]
  OBVIOUS
<1>11. s.add = e.add /\ s.due = e.exp
  BY <1>7, <1>10
<1>12. s.add > Armed /\ Armed' = s.add /\ s.due >= now
  BY <1>2, <1>5, <1>9, <1>11
<1>13. Slot' = [Slot EXCEPT ![k] = s]
  BY <1>6, <1>7, <1>10
<1>14. Deadline' = [a \in DOMAIN Deadline \cup {s.add} |-> IF a = s.add THEN s.due ELSE Deadline[a]]
  BY <1>5, <1>11
<1>. QED
  BY <1>0, <1>8, <1>10, <1>12, <1>13, <1>14 DEF Promise!Arm

LEMMA ClearPromise ==
  ASSUME IInv, NEW r \in Replicas, NEW k \in Keys, Clear(r, k)
  PROVE  Promise!Cancel(k)
<1>. DEFINE e == Marker("clear", k, 0)
<1>0. TypeOK /\ PayloadsOK /\ UNCHANGED <<now, attempt, fired>>
  BY DEF IInv, Clear
<1>1. e \in Entry /\ e.key = k /\ e.op = "clear" /\ Write(e)
  BY <1>0, Entries DEF Marker, Clear
<1>. HIDE DEF e
<1>2. Slot' = [Slot EXCEPT ![k] = Promise!None]
  BY <1>0, <1>1, SlotWritten
<1>3. Armed' = Armed /\ Deadline' = Deadline
  BY <1>0, <1>1, NothingArmed
<1>4. Claimed' = Claimed /\ Called' = Called
  BY <1>0, <1>1, NamesStay
<1>. QED
  BY <1>0, <1>2, <1>3, <1>4 DEF Promise!Cancel

\* An accepted removal, told or not, is a claim: the value removed was due.
LEMMA RemovePromise ==
  ASSUME PInv, Parameters, NEW p \in Procs, Remove(p) \/ RemoveFails(p)
  PROVE  Promise!LoseClaims \/ \E k \in Keys : Promise!Claim(k)
<1>0. TypeOK /\ PayloadsOK /\ IInv /\ NotEarly
  BY DEF PInv, IInv
<1>1. PICK n \in Puts : n = attempt[p].rev
  BY <1>0 DEF Remove, RemoveFails, TypeOK, AttemptType
<1>. DEFINE k == KeyOf(n)
            e == Marker("fire", k, n)
<1>2. /\ n \in Nat /\ k \in Keys /\ e \in Entry /\ e.op = "fire" /\ e.key = k
      /\ UNCHANGED <<now, fired>> /\ attempt[p].step = "removing"
  <2>1. n \in Nat /\ k \in Keys
    BY <1>0, PutsAreRevisions DEF TypeOK
  <2>. QED
    BY <1>0, <2>1, Entries DEF Remove, RemoveFails, Marker
<1>3. \/ UNCHANGED <<log, last>> /\ (End(p) \/ Goto(p, "failed"))
      \/ /\ Write(e) /\ last[k] = n
         /\ \/ Goto(p, "won")
            \/ Goto(p, "failed")
  BY <1>1 DEF Remove, RemoveFails, RemovalAccepted, store
<1>. HIDE DEF e, k
<1>4. CASE UNCHANGED <<log, last>> /\ (End(p) \/ Goto(p, "failed"))
  <2>1. NoNewWin
    BY <1>0, <1>2, <1>4 DEF NoNewWin, End, Goto, NoAttempt, TypeOK, AttemptType
  <2>. QED
    BY <1>0, <1>2, <1>4, <2>1, QuietPromise
<1>5. CASE Write(e) /\ last[k] = n /\ (Goto(p, "won") \/ Goto(p, "failed"))
  <2>1. Live(k)
    BY <1>0, <1>1, <1>5, PutsAreRevisions DEF Live, Puts, TypeOK
  <2>2. Slot[k] = [add |-> log[n].add, due |-> log[n].exp] /\ Slot[k] # Promise!None
    BY <1>0, <1>2, <1>5, <2>1, SlotOfKey
  <2>3. Slot[k].due <= now
    BY <1>0, <1>1, <1>2, <2>2 DEF NotEarly
  <2>4. Slot' = [Slot EXCEPT ![k] = Promise!None]
    BY <1>0, <1>2, <1>5, SlotWritten
  <2>5. Armed' = Armed /\ Deadline' = Deadline /\ Called' = Called
    BY <1>0, <1>2, <1>5, NothingArmed, NamesStay
  <2>6. Claimed' \in {Claimed, Claimed \cup {Slot[k].add}}
    <3>1. /\ \A q \in Procs : q # p => attempt'[q] = attempt[q]
          /\ attempt'[p].rev = n /\ attempt'[p].step \in {"won", "failed"}
          /\ attempt'[p].step = "won" \/ attempt'[p].step = "failed"
      BY <1>0, <1>1, <1>5 DEF Goto, TypeOK, AttemptType
    <3>2. \A m \in Puts : log'[m].add = log[m].add
      BY <1>0, <1>2, <1>5, NamesStay
    <3>3. \A q \in Procs : attempt[q].step = "won" => attempt[q].rev \in Puts
      BY <1>0, SpentAdds
    <3>4. \A q \in Procs : attempt[q].step = "won" =>
            attempt'[q].step = "won" /\ WonAdd(q)' = WonAdd(q)
      BY <1>2, <3>1, <3>2, <3>3 DEF WonAdd
    <3>5. \A q \in Procs : q # p /\ attempt'[q].step = "won" =>
            attempt[q].step = "won" /\ WonAdd(q)' = WonAdd(q)
      BY <3>1, <3>4
    <3>6. WonAdd(p)' = log[n].add
      BY <3>1, <3>2 DEF WonAdd
    <3>7. CASE attempt'[p].step = "won"
      <4>1. Claimed' = Claimed \cup {log[n].add}
        BY <3>4, <3>5, <3>6, <3>7 DEF Claimed
      <4>. QED
        BY <2>2, <4>1
    <3>8. CASE attempt'[p].step = "failed"
      <4>1. Claimed' = Claimed
        BY <1>2, <3>4, <3>5, <3>8 DEF Claimed
      <4>. QED
        BY <4>1
    <3>. QED
      BY <3>1, <3>7, <3>8
  <2>7. Promise!Claim(k)
    BY <1>2, <2>2, <2>3, <2>4, <2>5, <2>6 DEF Promise!Claim
  <2>. QED
    BY <1>2, <2>7
<1>. QED
  BY <1>3, <1>4, <1>5

LEMMA CallbackPromise ==
  ASSUME IInv, NEW p \in Procs, Callback(p)
  PROVE  WonAdd(p) \in Claimed /\ Promise!Call(WonAdd(p))
<1>1. /\ UNCHANGED <<now, log, last>> /\ attempt[p].step = "won"
      /\ fired' = Append(fired, [rev |-> attempt[p].rev, at |-> now])
      /\ attempt' = [attempt EXCEPT ![p] = NoAttempt]
  BY DEF Callback, End, store
<1>2. WonAdd(p) \in Claimed
  BY <1>1 DEF Claimed
<1>3. Claimed' = Claimed \ {WonAdd(p)}
  <2>1. \A q \in Procs : attempt'[q].step = "won" <=> q # p /\ attempt[q].step = "won"
    BY <1>1 DEF NoAttempt, IInv, TypeOK, AttemptType
  <2>2. \A q \in Procs : q # p => WonAdd(q)' = WonAdd(q)
    BY <1>1 DEF WonAdd, IInv, TypeOK, AttemptType
  <2>3. \A q \in Procs : q # p /\ attempt[q].step = "won" => WonAdd(q) # WonAdd(p)
    BY <1>1 DEF IInv, SpentOnce
  <2>. QED
    BY <2>1, <2>2, <2>3 DEF Claimed
<1>4. Called' = Called \cup {WonAdd(p)}
  <2>1. /\ DOMAIN fired' = DOMAIN fired \cup {Len(fired) + 1}
        /\ \A i \in DOMAIN fired : fired'[i] = fired[i]
        /\ fired'[Len(fired) + 1] = [rev |-> attempt[p].rev, at |-> now]
    BY <1>1 DEF IInv, TypeOK, FiredType
  <2>2. \A i \in DOMAIN fired : FiredAdd(i)' = FiredAdd(i)
    BY <1>1, <2>1 DEF FiredAdd
  <2>3. log'[fired'[Len(fired) + 1].rev].add = WonAdd(p)
    BY <1>1, <2>1 DEF WonAdd
  <2>4. Called' = {log'[fired'[i].rev].add : i \in DOMAIN fired'}
    BY DEF Called, FiredAdd
  <2>5. Called = {log'[fired'[i].rev].add : i \in DOMAIN fired}
    BY <1>1, <2>1 DEF Called, FiredAdd
  <2>. QED
    BY <2>1, <2>3, <2>4, <2>5
<1>. QED
  BY <1>1, <1>2, <1>3, <1>4, BucketLeft DEF Promise!Call

\* What Hold writes postpones, what its end writes puts back.
LEMMA HoldPromise ==
  ASSUME PInv, Parameters, NEW h \in Holders,
         HoldUpdate(h) \/ HoldUpdateFails(h) \/ HoldRestore(h)
  PROVE  Promise!LoseClaims \/ \E k \in Keys : Promise!Postpone(k) \/ Promise!PutBack(k)
<1>0. TypeOK /\ PayloadsOK /\ IInv /\ NeverSooner /\ NoNewWin /\ UNCHANGED <<now, attempt, fired>>
  BY DEF PInv, IInv, HoldUpdate, HoldUpdateFails, HoldRestore, NoNewWin
<1>1. PICK n \in Puts : n = hold[h].orig
  BY <1>0 DEF HoldUpdate, HoldUpdateFails, HoldRestore, TypeOK, HoldType
<1>2. PICK k \in Keys : k = KeyOf(n)
  BY <1>0, PutsAreRevisions DEF TypeOK
<1>3. log[n].exp \in Nat /\ log[n].add \in Nat
  BY <1>0, PutsAreRevisions DEF TypeOK
<1>4. log[n].add \in Adds /\ log[log[n].add].exp <= log[n].exp /\ log[log[n].add].exp \in Nat
  BY <1>0, <1>3, PutsAreRevisions DEF NeverSooner, Adds, Puts, TypeOK
<1>5. ASSUME NEW x \in Nat, Write(Repeat(n, x)), last[k] \in Puts,
             log[last[k]].add = log[n].add
      PROVE  /\ Live(k) /\ Slot[k] = [add |-> log[n].add, due |-> log[last[k]].exp]
             /\ Slot[k] # Promise!None
             /\ Slot'[k].due = x
             /\ Slot' = [Slot EXCEPT ![k].due = x]
             /\ Armed' = Armed /\ Deadline' = Deadline /\ Claimed' = Claimed /\ Called' = Called
  <2>. DEFINE e == Repeat(n, x)
  <2>1. e \in Entry /\ e.op = "put" /\ e.key = k /\ e.exp = x /\ e.add = log[n].add
    BY <1>0, <1>2, Entries DEF Repeat, Put
  <2>. HIDE DEF e
  <2>2. Write(e)
    BY <1>5 DEF e
  <2>3. Live(k)
    BY <1>0, <1>5, PutsAreRevisions DEF Live, Puts, TypeOK
  <2>4. Slot[k] = [add |-> log[n].add, due |-> log[last[k]].exp] /\ Slot[k] # Promise!None
    BY <1>0, <1>5, <2>3, SlotOfKey
  <2>5. Slot' = [Slot EXCEPT ![k] = [add |-> e.add, due |-> x]]
    BY <1>0, <2>1, <2>2, SlotWritten
  <2>6. Slot' = [Slot EXCEPT ![k].due = x] /\ Slot'[k].due = x
    <3>1. [Slot[k] EXCEPT !.due = x] = [add |-> e.add, due |-> x]
      BY <2>1, <2>4
    <3>2. k \in DOMAIN Slot
      BY DEF Slot
    <3>. QED
      BY <2>5, <3>1, <3>2
  <2>7. e.add # Len(log) + 1
    BY <1>0, <1>1, <2>1, PutsAreRevisions DEF PayloadsOK, TypeOK
  <2>8. Armed' = Armed /\ Deadline' = Deadline
    BY <1>0, <2>1, <2>2, <2>7, NothingArmed
  <2>9. Claimed' = Claimed /\ Called' = Called
    BY <1>0, <2>1, <2>2, NamesStay
  <2>. QED
    BY <2>3, <2>4, <2>6, <2>8, <2>9
<1>6. CASE UNCHANGED <<log, last>>
  BY <1>0, <1>6, QuietPromise
<1>7. CASE Write(Repeat(n, HoldDeadline(log[n].exp))) /\ last[k] = n
  <2>. DEFINE x == HoldDeadline(log[n].exp)
  <2>1. x \in Nat /\ log[n].exp <= x
    BY <1>0, <1>3, HoldDelays
  <2>2. /\ Slot[k] = [add |-> log[n].add, due |-> log[n].exp] /\ Slot[k] # Promise!None
        /\ Slot'[k].due = x /\ Slot' = [Slot EXCEPT ![k].due = x]
        /\ Armed' = Armed /\ Deadline' = Deadline /\ Claimed' = Claimed /\ Called' = Called
    BY <1>5, <1>7, <2>1
  <2>. HIDE DEF x
  <2>3. Slot'[k].due >= Slot[k].due
    BY <1>3, <2>1, <2>2
  <2>4. Slot' = [Slot EXCEPT ![k].due = Slot'[k].due]
    BY <2>2
  <2>. QED
    BY <1>0, <2>2, <2>3, <2>4 DEF Promise!Postpone
<1>8. CASE /\ hold[h].step = "restoring" /\ last[k] = hold[h].rev
           /\ Write(Repeat(n, log[n].exp))
  <2>1. hold[h].rev \in Puts /\ log[hold[h].rev].add = log[n].add
    BY <1>0, <1>1, <1>8 DEF TypeOK, HoldType, PayloadsOK
  <2>2. /\ Slot[k] = [add |-> log[n].add, due |-> log[hold[h].rev].exp] /\ Slot[k] # Promise!None
        /\ Slot'[k].due = log[n].exp /\ Slot' = [Slot EXCEPT ![k].due = log[n].exp]
        /\ Armed' = Armed /\ Deadline' = Deadline /\ Claimed' = Claimed /\ Called' = Called
    BY <1>3, <1>5, <1>8, <2>1
  <2>3. Slot'[k].due <= Slot[k].due
    BY <1>0, <1>1, <1>8, <2>2 DEF NeverSooner, InForce
  <2>4. Deadline[Slot[k].add] = log[log[n].add].exp
    BY <1>4, <2>2 DEF Deadline
  <2>5. Slot'[k].due >= Deadline[Slot[k].add]
    BY <1>3, <1>4, <2>2, <2>4
  <2>6. Slot' = [Slot EXCEPT ![k].due = Slot'[k].due]
    BY <2>2
  <2>. QED
    BY <1>0, <2>2, <2>3, <2>5, <2>6 DEF Promise!PutBack
<1>. QED
  BY <1>1, <1>2, <1>6, <1>7, <1>8 DEF HoldUpdate, HoldUpdateFails, HoldRestore, store

LEMMA PromiseNext ==
  ASSUME PInv, Parameters, [Next]_vars
  PROVE  [Promise!Next]_(Promise!promiseVars)
<1>0. TypeOK /\ IInv
  BY DEF PInv, IInv
<1>1. CASE Tick
  BY <1>0, <1>1, TickPromise DEF Promise!Next
<1>2. ASSUME NEW k \in Keys, Add(k) PROVE Promise!Next
  BY <1>2, AddPromise DEF Promise!Next
<1>3. ASSUME NEW r \in Replicas, NEW k \in Keys, Clear(r, k) PROVE Promise!Next
  BY <1>0, <1>3, ClearPromise DEF Promise!Next
<1>4. ASSUME NEW p \in Procs, Remove(p) \/ RemoveFails(p) PROVE Promise!Next
  BY <1>4, RemovePromise DEF Promise!Next
<1>5. ASSUME NEW p \in Procs, Callback(p) PROVE Promise!Next
  BY <1>0, <1>5, CallbackPromise DEF Promise!Next
<1>6. ASSUME NEW h \in Holders, HoldUpdate(h) \/ HoldUpdateFails(h) \/ HoldRestore(h)
      PROVE Promise!Next
  BY <1>6, HoldPromise DEF Promise!Next
<1>7. CASE UNCHANGED vars
  <2>1. /\ UNCHANGED <<now, log, last, attempt, fired>>
    BY <1>7 DEF vars
  <2>. QED
    BY <1>0, <2>1, BucketLeft, NamesStay DEF IInv, Promise!promiseVars
<1>8. CASE \/ \E p \in Procs : DropReference(p) \/ RetryLater(p)
           \/ \E p \in Runners : OrphanElapses(p) \/ \E k \in Keys : TimerElapses(p, k)
           \/ \E w \in Watchers : Watching(w)
           \/ \E h \in Holders : \/ \E k \in Keys : HoldRead(h, k)
                                 \/ Release(h) \/ HoldCheck(h) \/ HoldAbandoned(h)
           \/ \E r \in Replicas : \/ Stop(r) \/ Die(r) \/ Start(r)
                                  \/ \E k \in Keys : ClearStopTimer(r, k)
  <2>1. UNCHANGED <<log, last>> /\ NoNewWin
    BY <1>0, <1>8, QuietSteps
  <2>2. UNCHANGED now
    BY <1>8 DEF DropReference, RetryLater, OrphanElapses, TimerElapses, Watching, OpenWatch,
       CloseWatch, SkipSuperseded, HandleWatchEntry, RescanStart, RescanGet, RescanAct, RescanEnd,
       HoldRead, Release, HoldCheck, HoldAbandoned, Stop, Die, Start, ClearStopTimer
  <2>. QED
    BY <1>0, <2>1, <2>2, QuietPromise DEF Promise!Next
<1>. QED
  BY <1>1, <1>2, <1>3, <1>4, <1>5, <1>6, <1>7, <1>8 DEF Next, TryFire, Holding

\* The actor implements TimerPromise: a timer is claimed at most once and only when
\* due, only claimed timers are called back, and a hold only delays (actor.go,
\* tryFireCallback and Hold; README, Exactly-Once Guarantee).
THEOREM ActorKeepsPromise == Spec => KeepsPromise
<1>1. Init => Promise!Init
  <2>. SUFFICES ASSUME Init PROVE Promise!Init
    OBVIOUS
  <2>1. Adds = {} /\ DOMAIN fired = {} /\ (\A k \in Keys : ~Live(k)) /\ now = 0
    BY DEF Init, Adds, Live
  <2>2. Armed = 0 /\ Deadline = [a \in {} |-> 0]
    BY <2>1 DEF Armed, Deadline
  <2>3. Slot = [k \in Keys |-> Promise!None]
    BY <2>1 DEF Slot, Promise!None
  <2>4. Claimed = {} /\ Called = {}
    BY <2>1 DEF Claimed, Called, Init, NoAttempt
  <2>. QED
    BY <2>1, <2>2, <2>3, <2>4 DEF Promise!Init
<1>2. PInv /\ [Next]_vars => [Promise!Next]_(Promise!promiseVars)
  BY PromiseNext, Parameters
<1>. QED
  BY <1>1, <1>2, PromiseInvariant, PTL DEF Spec, KeepsPromise, Promise!Promise

-----------------------------------------------------------------------------
(* A hold holds *)

\* No hold is put on.
StillHeld == \A h \in Holders : hold'[h].step = "held" => hold[h].step = "held"

\* A hold in force is of a revision no later than the value of its key.
LEMMA HeldIsPast ==
  ASSUME TypeOK, PayloadsOK, LastIsLast, NEW h \in Holders, InForce(h),
         NEW n \in Puts, log[n].add = log[hold[h].rev].add
  PROVE  /\ hold[h].rev \in Puts /\ hold[h].rev \in 1..Len(log) /\ Len(log) \in Nat
         /\ KeyOf(hold[h].rev) = KeyOf(n) /\ KeyOf(n) \in Keys
         /\ hold[h].rev <= last[KeyOf(n)]
<1>1. /\ hold[h].rev \in Puts /\ hold[h].rev \in 1..Len(log) /\ Len(log) \in Nat
      /\ KeyOf(n) \in Keys /\ last[KeyOf(n)] \in Nat
  BY PutsAreRevisions DEF InForce, TypeOK, HoldType, StoreType
<1>2. KeyOf(hold[h].rev) = KeyOf(n)
  BY <1>1 DEF PayloadsOK
<1>3. hold[h].rev <= last[KeyOf(n)]
  BY <1>1, <1>2 DEF LastIsLast
<1>. QED
  BY <1>1, <1>2, <1>3

LEMMA HoldQuiet ==
  ASSUME HInv, UNCHANGED <<log, last>>, NoNewWin, NoNewHold, StillHeld
  PROVE  HInv'
<1>0. /\ Puts' = Puts /\ (\A n : KeyOf(n)' = KeyOf(n)) /\ \A i : FiredAdd(i)' = FiredAdd(i)
      /\ \A p \in Procs : attempt'[p].step = "won" => WonAdd(p)' = WonAdd(p)
  BY DEF Puts, KeyOf, FiredAdd, WonAdd, NoNewWin
<1>1. \A h \in Holders : InForce(h)' =>
        InForce(h) /\ hold'[h].rev = hold[h].rev /\ hold'[h].orig = hold[h].orig
  BY DEF InForce, NoNewHold
<1>2. \A h \in Holders : hold'[h].step = "held" =>
        hold[h].step = "held" /\ hold'[h].rev = hold[h].rev
  BY <1>1 DEF InForce, StillHeld
<1>3. HoldsChain'
  BY <1>0, <1>1 DEF HInv, HoldsChain, KeyOf
<1>4. HeldFloor'
  BY <1>0, <1>2 DEF HInv, HeldFloor
<1>5. WonAfterHold'
  BY <1>0, <1>2 DEF HInv, WonAfterHold, NoNewWin
<1>6. HoldSuppresses'
  BY <1>0, <1>2 DEF HInv, HoldSuppresses, NoNewWin
<1>. QED
  BY <1>3, <1>4, <1>5, <1>6 DEF HInv

\* A write of a payload that no hold on forbids; it may put on one new hold, of an
\* Add that was neither won nor called back.
LEMMA HoldWrite ==
  ASSUME TypeOK, PayloadsOK, HInv, NEW e \in Entry, Write(e), NoNewWin,
         e.op = "put" =>
           \/ e.add = Len(log) + 1
           \/ \A g \in Holders : hold[g].step = "held" /\ log[hold[g].rev].add = e.add
                => e.exp >= log[hold[g].rev].exp,
         NEW new \in SUBSET Holders,
         \A h, g \in new : h = g,
         \A h \in Holders \ new : InForce(h)' =>
           InForce(h) /\ hold'[h].rev = hold[h].rev /\ hold'[h].orig = hold[h].orig,
         \A h \in Holders \ new : hold'[h].step = "held" => hold[h].step = "held",
         \A h \in new :
           /\ hold'[h].rev = Len(log) + 1 /\ hold'[h].orig \in 1..Len(log)
           /\ \A j \in (hold'[h].orig + 1)..Len(log) : KeyOf(j) # e.key
           /\ \A p \in Procs : attempt[p].step = "won" => WonAdd(p) # e.add
           /\ \A i \in DOMAIN fired : FiredAdd(i) # e.add
  PROVE  HInv'
<1>1. /\ Len(log) \in Nat /\ log'[Len(log) + 1] = e
      /\ \A n \in 1..Len(log) : log'[n] = log[n] /\ KeyOf(n)' = KeyOf(n)
      /\ e.exp \in Nat
  <2>1. Len(log) \in Nat /\ log'[Len(log) + 1] = e /\ \A n \in 1..Len(log) : log'[n] = log[n]
    BY WriteGrows
  <2>2. e.exp \in Nat
    BY DEF Entry
  <2>. QED
    BY <2>1, <2>2 DEF KeyOf
<1>2. /\ Puts' \subseteq Puts \cup {Len(log) + 1}
      /\ \A n \in Puts : n \in 1..Len(log) /\ log[n].add \in 1..Len(log) /\ log[n].exp \in Nat
  BY AfterWrite, PutsAreRevisions DEF TypeOK
<1>3. \A h \in Holders : InForce(h) =>
        hold[h].rev \in Puts /\ hold[h].orig \in Puts
  BY DEF InForce, TypeOK, HoldType
<1>4. \A h \in Holders \ new : InForce(h)' =>
        InForce(h) /\ hold'[h].rev = hold[h].rev /\ hold'[h].orig = hold[h].orig
  OBVIOUS
<1>5. \A h \in Holders \ new : hold'[h].step = "held" =>
        /\ hold[h].step = "held" /\ hold'[h].rev = hold[h].rev
        /\ hold[h].rev \in Puts /\ log'[hold[h].rev] = log[hold[h].rev]
  <2>1. \A h \in Holders : (hold'[h].step = "held" => InForce(h)') /\ (hold[h].step = "held" => InForce(h))
    BY DEF InForce
  <2>. QED
    BY <1>1, <1>2, <1>3, <1>4, <2>1
<1>6. HoldsChain'
  <2>1. ASSUME NEW h \in Holders, InForce(h)'
        PROVE  /\ hold'[h].orig < hold'[h].rev
               /\ \A j \in (hold'[h].orig + 1)..(hold'[h].rev - 1) : KeyOf(j)' # log'[hold'[h].rev].key
    <3>1. CASE h \in new
      BY <1>1, <3>1 DEF KeyOf
    <3>2. CASE h \notin new
      <4>1. /\ InForce(h) /\ hold'[h].rev = hold[h].rev /\ hold'[h].orig = hold[h].orig
            /\ hold[h].rev \in 1..Len(log) /\ hold[h].orig \in 1..Len(log)
        BY <1>2, <1>3, <2>1, <3>2
      <4>2. /\ hold[h].orig < hold[h].rev
            /\ \A j \in (hold[h].orig + 1)..(hold[h].rev - 1) :
                 j \in 1..Len(log) /\ KeyOf(j) # KeyOf(hold[h].rev)
        BY <1>1, <4>1 DEF HInv, HoldsChain
      <4>3. log'[hold'[h].rev].key = KeyOf(hold[h].rev)
        BY <1>1, <4>1 DEF KeyOf
      <4>. QED
        BY <1>1, <4>1, <4>2, <4>3
    <3>. QED
      BY <3>1, <3>2
  <2>2. ASSUME NEW h \in Holders, NEW g \in Holders, InForce(h)', InForce(g)', hold'[h].rev = hold'[g].rev
        PROVE  h = g
    <3>1. CASE h \in new /\ g \in new
      BY <3>1
    <3>2. CASE h \notin new /\ g \notin new
      BY <2>2, <3>2 DEF HInv, HoldsChain
    <3>3. \A f \in Holders \ new : InForce(f)' => hold'[f].rev # Len(log) + 1
      BY <1>1, <1>2, <1>3, <1>4
    <3>. QED
      BY <2>2, <3>1, <3>2, <3>3
  <2>. QED
    BY <2>1, <2>2 DEF HoldsChain, KeyOf
<1>7. HeldFloor'
  <2>. SUFFICES ASSUME NEW h \in Holders, NEW n \in Puts',
                       hold'[h].step = "held", n >= hold'[h].rev, log'[n].add = log'[hold'[h].rev].add
                PROVE  log'[n].exp >= log'[hold'[h].rev].exp
    BY DEF HeldFloor
  <2>1. CASE h \in new
    <3>1. n = Len(log) + 1
      BY <1>1, <1>2, <2>1
    <3>. QED
      BY <1>1, <2>1, <3>1
  <2>2. CASE h \notin new
    <3>1. CASE n \in Puts
      <4>1. /\ hold[h].step = "held" /\ hold'[h].rev = hold[h].rev
            /\ log'[hold[h].rev] = log[hold[h].rev] /\ log'[n] = log[n]
        BY <1>1, <1>2, <1>5, <2>2, <3>1
      <4>2. n >= hold[h].rev /\ log[n].add = log[hold[h].rev].add
        BY <4>1
      <4>3. log[n].exp >= log[hold[h].rev].exp
        BY <3>1, <4>1, <4>2 DEF HInv, HeldFloor
      <4>. QED
        BY <4>1, <4>3
    <3>2. CASE n = Len(log) + 1
      <4>1. e.op = "put"
        BY <1>1, <3>2 DEF Puts
      <4>2. e.add = log[hold[h].rev].add /\ hold[h].step = "held" /\ log'[hold'[h].rev] = log[hold[h].rev]
        BY <1>1, <1>5, <2>2, <3>2
      <4>3. e.add # Len(log) + 1
        BY <1>1, <1>2, <1>5, <2>2, <4>2
      <4>. QED
        BY <1>1, <3>2, <4>1, <4>2, <4>3
    <3>. QED
      BY <1>2, <3>1, <3>2
  <2>. QED
    BY <2>1, <2>2
<1>8. \A p \in Procs : attempt'[p].step = "won" =>
        /\ attempt[p].step = "won" /\ attempt'[p].rev = attempt[p].rev
        /\ log'[attempt[p].rev] = log[attempt[p].rev] /\ WonAdd(p)' = WonAdd(p)
  BY <1>1, <1>2, SpentAdds DEF NoNewWin, WonAdd
<1>9. fired' = fired /\ \A i \in DOMAIN fired : FiredAdd(i)' = FiredAdd(i)
  BY <1>1, <1>2, SpentAdds DEF NoNewWin, FiredAdd
<1>10. WonAfterHold'
  <2>. SUFFICES ASSUME NEW h \in Holders, NEW p \in Procs,
                       hold'[h].step = "held", attempt'[p].step = "won",
                       WonAdd(p)' = log'[hold'[h].rev].add
                PROVE  log'[attempt'[p].rev].exp >= log'[hold'[h].rev].exp
    BY DEF WonAfterHold
  <2>1. h \notin new
    BY <1>1, <1>8
  <2>. QED
    BY <1>5, <1>8, <2>1 DEF HInv, WonAfterHold
<1>11. HoldSuppresses'
  <2>. SUFFICES ASSUME NEW h \in Holders, NEW i \in DOMAIN fired,
                       hold'[h].step = "held", FiredAdd(i)' = log'[hold'[h].rev].add
                PROVE  fired[i].at >= log'[hold'[h].rev].exp
    BY <1>9 DEF HoldSuppresses
  <2>1. h \notin new
    BY <1>1, <1>9
  <2>. QED
    BY <1>5, <1>9, <2>1 DEF HInv, HoldSuppresses
<1>. QED
  BY <1>6, <1>7, <1>10, <1>11 DEF HInv

\* The removal that wins: what it removes does not expire before the deadline of a
\* hold of the same Add.
LEMMA HoldRemove ==
  ASSUME PInv, HInv, NEW p \in Procs, Remove(p)
  PROVE  HInv'
<1>0. TypeOK /\ PayloadsOK /\ LastIsLast
  BY DEF PInv, IInv, SInv
<1>1. PICK n \in Puts : n = attempt[p].rev
  BY <1>0 DEF Remove, TypeOK, AttemptType
<1>. DEFINE e == Marker("fire", KeyOf(n), n)
<1>2. e \in Entry /\ e.op = "fire" /\ UNCHANGED <<hold, fired>> /\ n \in Nat /\ KeyOf(n) \in Keys
  <2>1. n \in Nat /\ KeyOf(n) \in Keys
    BY <1>0, PutsAreRevisions DEF TypeOK
  <2>. QED
    BY <1>0, <2>1, Entries DEF Remove, Marker
<1>3. CASE End(p) /\ UNCHANGED store
  <2>1. NoNewWin /\ NoNewHold /\ StillHeld /\ UNCHANGED <<log, last>>
    BY <1>0, <1>2, <1>3 DEF NoNewWin, NoNewHold, StillHeld, End, NoAttempt, store, TypeOK, AttemptType
  <2>. QED
    BY <2>1, HoldQuiet
<1>4. CASE Write(e) /\ Goto(p, "won") /\ last[KeyOf(n)] = n
  <2>. HIDE DEF e
  <2>1. /\ \A m \in Puts : m \in 1..Len(log) /\ log'[m] = log[m] /\ KeyOf(m)' = KeyOf(m)
        /\ Puts' \subseteq Puts /\ Len(log) \in Nat
    <3>1. /\ Len(log) \in Nat /\ log'[Len(log) + 1] = e
          /\ \A m \in 1..Len(log) : log'[m] = log[m]
      BY <1>2, <1>4, <1>0, WriteGrows
    <3>2. Puts' \subseteq Puts
      BY <1>0, <1>2, <1>4, <3>1, AfterWrite DEF Puts
    <3>. QED
      BY <3>1, <3>2 DEF Puts, KeyOf
  <2>2. \A j \in 1..Len(log) : log'[j] = log[j]
    BY <1>0, <1>2, <1>4, WriteGrows
  <2>3. \A h \in Holders : InForce(h) =>
          /\ hold[h].rev \in Puts /\ hold[h].orig \in Puts
          /\ hold[h].rev \in 1..Len(log) /\ hold[h].orig \in 1..Len(log)
    BY <1>0, <2>1 DEF InForce, TypeOK, HoldType
  <2>4. HoldsChain'
    <3>1. \A h \in Holders : InForce(h)' <=> InForce(h)
      BY <1>2 DEF InForce
    <3>2. ASSUME NEW h \in Holders, InForce(h)
          PROVE  /\ hold[h].orig < hold[h].rev
                 /\ \A j \in (hold[h].orig + 1)..(hold[h].rev - 1) : log'[j].key # log'[hold[h].rev].key
      <4>1. /\ hold[h].orig < hold[h].rev
            /\ \A j \in (hold[h].orig + 1)..(hold[h].rev - 1) :
                 j \in 1..Len(log) /\ log[j].key # log[hold[h].rev].key
        BY <2>1, <2>3, <3>2 DEF HInv, HoldsChain, KeyOf
      <4>. QED
        BY <2>2, <2>3, <3>2, <4>1
    <3>. QED
      BY <1>2, <3>1, <3>2 DEF HInv, HoldsChain, KeyOf
  <2>5. \A h \in Holders : hold[h].step = "held" => InForce(h)
    BY DEF InForce
  <2>6. HeldFloor'
    BY <1>2, <2>1, <2>3, <2>5 DEF HInv, HeldFloor
  <2>7. \A q \in Procs : attempt'[q].step = "won" =>
          \/ q = p /\ attempt'[q].rev = n
          \/ attempt[q].step = "won" /\ attempt'[q] = attempt[q]
    BY <1>0, <1>1, <1>4 DEF Goto, TypeOK, AttemptType
  <2>8. WonAfterHold'
    <3>. SUFFICES ASSUME NEW h \in Holders, NEW q \in Procs,
                         hold[h].step = "held", attempt'[q].step = "won",
                         log'[attempt'[q].rev].add = log'[hold[h].rev].add
                  PROVE  log'[attempt'[q].rev].exp >= log'[hold[h].rev].exp
      BY <1>2 DEF WonAfterHold, WonAdd
    <3>1. InForce(h) /\ hold[h].rev \in Puts /\ log'[hold[h].rev] = log[hold[h].rev]
      BY <2>1, <2>3, <2>5
    <3>2. CASE q = p /\ attempt'[q].rev = n
      <4>1. log[n].add = log[hold[h].rev].add
        BY <2>1, <3>1, <3>2
      <4>2. hold[h].rev <= n /\ hold[h].rev \in Nat
        BY <1>0, <1>4, <3>1, <4>1, HeldIsPast
      <4>3. log[n].exp >= log[hold[h].rev].exp
        BY <1>2, <4>1, <4>2 DEF HInv, HeldFloor
      <4>. QED
        BY <2>1, <3>1, <3>2, <4>3
    <3>3. CASE attempt[q].step = "won" /\ attempt'[q] = attempt[q]
      <4>1. attempt[q].rev \in Puts /\ log'[attempt[q].rev] = log[attempt[q].rev]
        BY <1>0, <2>1, <3>3, SpentAdds
      <4>. QED
        BY <3>1, <3>3, <4>1 DEF HInv, WonAfterHold, WonAdd
    <3>. QED
      BY <2>7, <3>2, <3>3
  <2>9. HoldSuppresses'
    <3>1. \A i \in DOMAIN fired : log'[fired[i].rev] = log[fired[i].rev]
      BY <1>0, <2>1, SpentAdds
    <3>. QED
      BY <1>2, <2>1, <2>3, <2>5, <3>1 DEF HInv, HoldSuppresses, FiredAdd
  <2>. QED
    BY <2>4, <2>6, <2>8, <2>9 DEF HInv
<1>. QED
  BY <1>1, <1>3, <1>4 DEF Remove, RemovalAccepted

\* The callback is made no earlier than what was won expired.
LEMMA HoldCallback ==
  ASSUME PInv, HInv, NEW p \in Procs, Callback(p)
  PROVE  HInv'
<1>0. TypeOK /\ PayloadsOK /\ NotEarly
  BY DEF PInv, IInv
<1>1. /\ UNCHANGED <<log, last, hold>> /\ attempt[p].step = "won"
      /\ fired' = Append(fired, [rev |-> attempt[p].rev, at |-> now])
      /\ attempt' = [attempt EXCEPT ![p] = NoAttempt]
  BY DEF Callback, End, store
<1>2. HoldsChain' /\ HeldFloor'
  BY <1>1 DEF HInv, HoldsChain, HeldFloor, InForce, KeyOf, Puts
<1>3. WonAfterHold'
  <2>1. \A q \in Procs : attempt'[q].step = "won" => attempt[q].step = "won" /\ attempt'[q] = attempt[q]
    BY <1>0, <1>1 DEF NoAttempt, TypeOK, AttemptType
  <2>. QED
    BY <1>1, <2>1 DEF HInv, WonAfterHold, WonAdd
<1>4. HoldSuppresses'
  <2>1. /\ DOMAIN fired' = 1..(Len(fired) + 1) /\ DOMAIN fired = 1..Len(fired) /\ Len(fired) \in Nat
        /\ \A i \in 1..Len(fired) : fired'[i] = fired[i]
        /\ fired'[Len(fired) + 1] = [rev |-> attempt[p].rev, at |-> now]
    BY <1>0, <1>1 DEF TypeOK, FiredType
  <2>. SUFFICES ASSUME NEW h \in Holders, NEW i \in DOMAIN fired',
                       hold[h].step = "held", log[fired'[i].rev].add = log[hold[h].rev].add
                PROVE  fired'[i].at >= log[hold[h].rev].exp
    BY <1>1 DEF HoldSuppresses, FiredAdd
  <2>2. CASE i \in 1..Len(fired)
    BY <2>1, <2>2 DEF HInv, HoldSuppresses, FiredAdd
  <2>3. CASE i = Len(fired) + 1
    <3>1. log[attempt[p].rev].exp >= log[hold[h].rev].exp
      BY <1>1, <2>1, <2>3 DEF HInv, WonAfterHold, WonAdd
    <3>2. /\ log[attempt[p].rev].exp \in Nat /\ log[hold[h].rev].exp \in Nat /\ now \in Nat
          /\ log[attempt[p].rev].exp <= now
      BY <1>0, <1>1, PutsAreRevisions DEF NotEarly, TypeOK, AttemptType, HoldType
    <3>. QED
      BY <2>1, <2>3, <3>1, <3>2
  <2>. QED
    BY <2>1, <2>2, <2>3
<1>. QED
  BY <1>2, <1>3, <1>4 DEF HInv

\* Add, Clear and a removal that calls nobody back write nothing a hold forbids.
LEMMA HoldOthersWrite ==
  ASSUME PInv, HInv, Parameters,
         \/ \E k \in Keys : Add(k) \/ \E r \in Replicas : Clear(r, k)
         \/ \E p \in Procs : RemoveFails(p)
  PROVE  HInv'
<1>0. TypeOK /\ PayloadsOK
  BY DEF PInv, IInv
<1>1. UNCHANGED hold /\ NoNewWin
  BY <1>0 DEF Add, Clear, RemoveFails, Goto, NoNewWin, TypeOK, AttemptType
<1>2. NoNewHold /\ StillHeld
  BY <1>1 DEF NoNewHold, StillHeld
<1>3. \/ UNCHANGED <<log, last>>
      \/ \E e \in Entry : Write(e) /\ (e.op = "put" => e.add = Len(log) + 1)
  <2>1. ASSUME NEW k \in Keys, Add(k)
        PROVE  \E e \in Entry : Write(e) /\ e.add = Len(log) + 1
    <3>1. PICK t \in Timeouts : Write(Put(k, now + t, Len(log) + 1))
      BY <2>1 DEF Add
    <3>2. now + t \in Nat /\ Len(log) + 1 \in Nat
      BY <1>0, PutsAreRevisions DEF TypeOK, Parameters
    <3>3. Put(k, now + t, Len(log) + 1) \in Entry /\ Put(k, now + t, Len(log) + 1).add = Len(log) + 1
      BY <1>0, <3>2, Entries DEF Put
    <3>. QED
      BY <3>1, <3>3
  <2>2. ASSUME NEW k \in Keys, NEW r \in Replicas, Clear(r, k)
        PROVE  \E e \in Entry : Write(e) /\ e.op # "put"
    <3>1. Marker("clear", k, 0) \in Entry /\ Marker("clear", k, 0).op = "clear"
      BY <1>0, Entries DEF Marker
    <3>. QED
      BY <2>2, <3>1 DEF Clear
  <2>3. ASSUME NEW p \in Procs, RemoveFails(p)
        PROVE  UNCHANGED <<log, last>> \/ \E e \in Entry : Write(e) /\ e.op # "put"
    <3>. DEFINE n == attempt[p].rev
                e == Marker("fire", KeyOf(n), n)
    <3>1. n \in Nat /\ KeyOf(n) \in Keys
      BY <1>0, <2>3, PutsAreRevisions DEF RemoveFails, TypeOK, AttemptType
    <3>2. e \in Entry /\ e.op = "fire"
      BY <1>0, <3>1, Entries DEF Marker
    <3>3. UNCHANGED <<log, last>> \/ Write(e)
      BY <2>3 DEF RemoveFails, store
    <3>. HIDE DEF e
    <3>. QED
      BY <3>2, <3>3
  <2>. QED
    BY <2>1, <2>2, <2>3
<1>4. CASE UNCHANGED <<log, last>>
  BY <1>1, <1>2, <1>4, HoldQuiet
<1>5. ASSUME NEW e \in Entry, Write(e), e.op = "put" => e.add = Len(log) + 1
      PROVE  HInv'
  <2>. DEFINE new == {}
  <2>1. \A h \in Holders \ new : InForce(h)' =>
          InForce(h) /\ hold'[h].rev = hold[h].rev /\ hold'[h].orig = hold[h].orig
    BY <1>1 DEF InForce
  <2>2. \A h \in Holders \ new : hold'[h].step = "held" => hold[h].step = "held"
    BY <1>1
  <2>3. new \in SUBSET Holders /\ \A h \in new : FALSE
    OBVIOUS
  <2>. HIDE DEF new
  <2>. QED
    BY <1>0, <1>1, <1>5, <2>1, <2>2, <2>3, HoldWrite
<1>. QED
  BY <1>3, <1>4, <1>5

\* What Hold writes does not expire earlier than what it replaces.
LEMMA HoldUpdateHolds ==
  ASSUME PInv, HInv, Parameters, NEW h \in Holders,
         HoldUpdate(h) \/ HoldUpdateFails(h)
  PROVE  HInv'
<1>0. TypeOK /\ PayloadsOK /\ LastIsLast /\ SpentOnce /\ NoNewWin
  BY DEF PInv, IInv, SInv, HoldUpdate, HoldUpdateFails, NoNewWin
<1>1. PICK n \in Puts : n = hold[h].orig
  BY <1>0 DEF HoldUpdate, HoldUpdateFails, TypeOK, HoldType
<1>2. /\ n \in 1..Len(log) /\ Len(log) \in Nat /\ KeyOf(n) \in Keys /\ log[n].exp \in Nat
      /\ log[n].add \in Nat
  BY <1>0, PutsAreRevisions DEF TypeOK
<1>3. CASE UNCHANGED store /\ hold' = [hold EXCEPT ![h] = NoHold]
  <2>1. NoNewHold /\ StillHeld /\ UNCHANGED <<log, last>>
    BY <1>0, <1>3 DEF NoNewHold, StillHeld, NoHold, store, TypeOK, HoldType
  <2>. QED
    BY <1>0, <2>1, HoldQuiet
<1>4. CASE /\ last[KeyOf(n)] = n /\ Write(Repeat(n, HoldDeadline(log[n].exp)))
           /\ \/ hold' = [hold EXCEPT ![h] = NoHold]
              \/ hold' = [hold EXCEPT ![h] = [step |-> "held", orig |-> n, rev |-> Len(log) + 1]]
  <2>. DEFINE x == HoldDeadline(log[n].exp)
              e == Repeat(n, x)
  <2>1. x \in Nat /\ log[n].exp <= x
    BY <1>0, <1>2, HoldDelays
  <2>2. e \in Entry /\ e.op = "put" /\ e.key = KeyOf(n) /\ e.exp = x /\ e.add = log[n].add
    BY <1>0, <2>1, Entries DEF Repeat, Put
  <2>3. Write(e)
    BY <1>4
  <2>. HIDE DEF e, x
  <2>4. ASSUME NEW g \in Holders, hold[g].step = "held", log[hold[g].rev].add = e.add
        PROVE  e.exp >= log[hold[g].rev].exp
    <3>1. InForce(g)
      BY <2>4 DEF InForce
    <3>2. hold[g].rev \in Puts /\ hold[g].rev \in Nat /\ hold[g].rev <= n
      BY <1>0, <1>4, <2>2, <2>4, <3>1, HeldIsPast
    <3>3. log[n].exp >= log[hold[g].rev].exp /\ log[hold[g].rev].exp \in Nat
      BY <1>0, <1>2, <2>2, <2>4, <3>2, PutsAreRevisions DEF HInv, HeldFloor, TypeOK
    <3>. QED
      BY <1>2, <2>1, <2>2, <3>3
  <2>5. /\ \A p \in Procs : attempt[p].step = "won" => WonAdd(p) # e.add
        /\ \A i \in DOMAIN fired : FiredAdd(i) # e.add
    <3>1. Live(KeyOf(n))
      BY <1>2, <1>4, PutsAreRevisions DEF Live, Puts
    <3>. QED
      BY <1>0, <1>2, <1>4, <2>2, <3>1 DEF SpentOnce
  <2>6. \A j \in (n + 1)..Len(log) : KeyOf(j) # e.key
    BY <1>0, <1>2, <1>4, <2>2 DEF LastIsLast
  <2>7. CASE hold' = [hold EXCEPT ![h] = NoHold]
    <3>. DEFINE new == {}
    <3>1. \A g \in Holders \ new : InForce(g)' =>
            InForce(g) /\ hold'[g].rev = hold[g].rev /\ hold'[g].orig = hold[g].orig
      BY <1>0, <2>7 DEF InForce, NoHold, TypeOK, HoldType
    <3>2. \A g \in Holders \ new : hold'[g].step = "held" => hold[g].step = "held"
      BY <1>0, <2>7 DEF NoHold, TypeOK, HoldType
    <3>3. new \in SUBSET Holders /\ \A g \in new : FALSE
      OBVIOUS
    <3>. HIDE DEF new
    <3>. QED
      BY <1>0, <2>2, <2>3, <2>4, <3>1, <3>2, <3>3, HoldWrite
  <2>8. CASE hold' = [hold EXCEPT ![h] = [step |-> "held", orig |-> n, rev |-> Len(log) + 1]]
    <3>. DEFINE new == {h}
    <3>1. \A g \in Holders \ new : InForce(g)' =>
            InForce(g) /\ hold'[g].rev = hold[g].rev /\ hold'[g].orig = hold[g].orig
      BY <1>0, <2>8 DEF InForce, TypeOK, HoldType
    <3>2. \A g \in Holders \ new : hold'[g].step = "held" => hold[g].step = "held"
      BY <1>0, <2>8 DEF TypeOK, HoldType
    <3>3. new \in SUBSET Holders /\ \A f, g \in new : f = g
      OBVIOUS
    <3>4. \A g \in new : hold'[g].rev = Len(log) + 1 /\ hold'[g].orig = n
      BY <1>0, <2>8 DEF TypeOK, HoldType
    <3>. HIDE DEF new
    <3>5. \A g \in new :
            /\ hold'[g].rev = Len(log) + 1 /\ hold'[g].orig \in 1..Len(log)
            /\ \A j \in (hold'[g].orig + 1)..Len(log) : KeyOf(j) # e.key
            /\ \A p \in Procs : attempt[p].step = "won" => WonAdd(p) # e.add
            /\ \A i \in DOMAIN fired : FiredAdd(i) # e.add
      BY <1>2, <2>5, <2>6, <3>4
    <3>. QED
      BY <1>0, <2>2, <2>3, <2>4, <3>1, <3>2, <3>3, <3>5, HoldWrite
  <2>. QED
    BY <1>4, <2>7, <2>8
<1>. QED
  BY <1>1, <1>3, <1>4 DEF HoldUpdate, HoldUpdateFails

\* The expiry put back is not earlier than the deadline of another hold on the Add:
\* that hold was there before this one.
LEMMA HoldRestoreHolds ==
  ASSUME PInv, HInv, Parameters, NEW g \in Holders, HoldRestore(g)
  PROVE  HInv'
<1>0. TypeOK /\ PayloadsOK /\ LastIsLast /\ NoNewWin
  BY DEF PInv, IInv, SInv, HoldRestore, NoNewWin
<1>1. PICK n \in Puts : n = hold[g].orig
  BY <1>0 DEF HoldRestore, TypeOK, HoldType
<1>2. /\ n \in 1..Len(log) /\ Len(log) \in Nat /\ KeyOf(n) \in Keys /\ log[n].exp \in Nat
      /\ log[n].add \in Nat
  BY <1>0, PutsAreRevisions DEF TypeOK
<1>3. hold' = [hold EXCEPT ![g] = NoHold] /\ hold[g].step = "restoring" /\ InForce(g)
  BY DEF HoldRestore, InForce
<1>4. CASE UNCHANGED store
  <2>1. NoNewHold /\ StillHeld /\ UNCHANGED <<log, last>>
    BY <1>0, <1>3, <1>4 DEF NoNewHold, StillHeld, NoHold, store, TypeOK, HoldType
  <2>. QED
    BY <1>0, <2>1, HoldQuiet
<1>5. CASE last[KeyOf(n)] = hold[g].rev /\ Write(Repeat(n, log[n].exp))
  <2>. DEFINE e == Repeat(n, log[n].exp)
  <2>1. e \in Entry /\ e.op = "put" /\ e.key = KeyOf(n) /\ e.exp = log[n].exp /\ e.add = log[n].add
    BY <1>0, <1>2, Entries DEF Repeat, Put
  <2>2. Write(e)
    BY <1>5
  <2>. HIDE DEF e
  <2>3. ASSUME NEW h \in Holders, hold[h].step = "held", log[hold[h].rev].add = e.add
        PROVE  e.exp >= log[hold[h].rev].exp
    <3>1. InForce(h) /\ h # g
      BY <1>3, <2>3 DEF InForce
    <3>2. /\ hold[h].rev \in Puts /\ hold[h].rev \in 1..Len(log) /\ hold[h].rev <= hold[g].rev
          /\ KeyOf(hold[h].rev) = KeyOf(n)
      BY <1>0, <1>5, <2>1, <2>3, <3>1, HeldIsPast
    <3>3. hold[h].rev # hold[g].rev
      BY <1>3, <3>1 DEF HInv, HoldsChain
    <3>4. hold[g].rev \in Nat /\ hold[g].rev \in Puts /\ KeyOf(hold[g].rev) = KeyOf(n)
      BY <1>0, <1>1, <1>3, PutsAreRevisions DEF TypeOK, HoldType, PayloadsOK
    <3>5. \A j \in (n + 1)..(hold[g].rev - 1) : KeyOf(j) # KeyOf(n)
      BY <1>1, <1>3, <3>4 DEF HInv, HoldsChain
    <3>6. hold[h].rev <= n
      BY <1>2, <3>2, <3>3, <3>4, <3>5
    <3>. QED
      BY <1>2, <2>1, <2>3, <3>6 DEF HInv, HeldFloor
  <2>. DEFINE new == {}
  <2>4. \A h \in Holders \ new : InForce(h)' =>
          InForce(h) /\ hold'[h].rev = hold[h].rev /\ hold'[h].orig = hold[h].orig
    BY <1>0, <1>3 DEF InForce, NoHold, TypeOK, HoldType
  <2>5. \A h \in Holders \ new : hold'[h].step = "held" => hold[h].step = "held"
    BY <1>0, <1>3 DEF NoHold, TypeOK, HoldType
  <2>6. new \in SUBSET Holders /\ \A h \in new : FALSE
    OBVIOUS
  <2>. HIDE DEF new
  <2>. QED
    BY <1>0, <2>1, <2>2, <2>3, <2>4, <2>5, <2>6, HoldWrite
<1>. QED
  BY <1>1, <1>4, <1>5 DEF HoldRestore

LEMMA HoldNext == ASSUME PInv, HInv, Parameters, [Next]_vars PROVE HInv'
<1>0. TypeOK
  BY DEF PInv, IInv
<1>1. ASSUME NEW p \in Procs, Remove(p) \/ RemoveFails(p) \/ Callback(p) PROVE HInv'
  BY <1>1, HoldRemove, HoldOthersWrite, HoldCallback
<1>2. CASE \E k \in Keys : Add(k) \/ \E r \in Replicas : Clear(r, k)
  BY <1>2, HoldOthersWrite
<1>3. ASSUME NEW h \in Holders, HoldUpdate(h) \/ HoldUpdateFails(h) \/ HoldRestore(h) PROVE HInv'
  BY <1>3, HoldUpdateHolds, HoldRestoreHolds
<1>4. CASE \/ Tick \/ UNCHANGED vars
           \/ \E p \in Procs : DropReference(p) \/ RetryLater(p)
           \/ \E p \in Runners : OrphanElapses(p) \/ \E k \in Keys : TimerElapses(p, k)
           \/ \E w \in Watchers : Watching(w)
           \/ \E h \in Holders : \/ \E k \in Keys : HoldRead(h, k)
                                 \/ Release(h) \/ HoldCheck(h) \/ HoldAbandoned(h)
           \/ \E r \in Replicas : \/ Stop(r) \/ Die(r) \/ Start(r)
                                  \/ \E k \in Keys : ClearStopTimer(r, k)
  <2>1. UNCHANGED <<log, last>> /\ NoNewWin /\ NoNewHold
    BY <1>0, <1>4, QuietSteps
  <2>2. StillHeld
    <3>1. CASE UNCHANGED hold
      BY <3>1 DEF StillHeld
    <3>2. ASSUME NEW h \in Holders,
                 \/ \E k \in Keys : HoldRead(h, k)
                 \/ Release(h) \/ HoldCheck(h) \/ HoldAbandoned(h)
          PROVE  StillHeld
      BY <1>0, <3>2 DEF HoldRead, Release, HoldCheck, HoldAbandoned, NoHold, StillHeld, TypeOK, HoldType
    <3>3. ASSUME NEW r \in Replicas, Die(r) PROVE StillHeld
      BY <3>3 DEF Die, NoHold, StillHeld
    <3>. QED
      BY <1>4, <3>1, <3>2, <3>3 DEF Tick, vars, DropReference, RetryLater, OrphanElapses, TimerElapses,
         Watching, OpenWatch, CloseWatch, SkipSuperseded, HandleWatchEntry, RescanStart, RescanGet,
         RescanAct, RescanEnd, Stop, Start, ClearStopTimer
  <2>. QED
    BY <2>1, <2>2, HoldQuiet
<1>. QED
  BY <1>1, <1>2, <1>3, <1>4 DEF Next, TryFire, Holding

\* While a hold is on, no replica calls its timer back before the deadline of the
\* hold, also when other holds of the same timer begin, end, or fail halfway
\* (actor.go, comment of Hold and holdDeadline).
THEOREM HeldTimerWaits == Spec => []HoldSuppresses
<1>1. Init => HInv
  <2>1. Init => (\A h \in Holders : ~InForce(h) /\ hold[h].step # "held")
    BY DEF Init, InForce, NoHold
  <2>. QED
    BY <2>1 DEF HInv, HoldsChain, HeldFloor, WonAfterHold, HoldSuppresses
<1>2. PInv /\ HInv /\ [Next]_vars => HInv'
  BY HoldNext, Parameters
<1>3. HInv => HoldSuppresses
  BY DEF HInv
<1>. QED
  BY <1>1, <1>2, <1>3, PromiseInvariant, PTL DEF Spec

-----------------------------------------------------------------------------
(* A hold that ends gives the expiry back *)

\* Without nested holds: with one, the inner hold puts back the deadline of the outer.
OneHolder == \A h, g \in Holders : h = g

\* Does revision n expire when its Add asked for?
Own(n) == log[n].exp = log[log[n].add].exp

LEMMA OwnStays ==
  ASSUME TypeOK, PayloadsOK, UNCHANGED log \/ \E e \in Entry : Write(e)
  PROVE  \A n \in Puts : /\ Own(n)' <=> Own(n)
                         /\ log'[n] = log[n] /\ log'[log[n].add] = log[log[n].add]
<1>1. Len(log) \in Nat /\ \A n \in 1..Len(log) : log'[n] = log[n]
  BY WriteGrows, PutsAreRevisions DEF TypeOK
<1>2. \A n \in Puts : n \in 1..Len(log) /\ log[n].add \in 1..Len(log)
  BY <1>1 DEF Puts, PayloadsOK
<1>3. \A n \in Puts : log'[n] = log[n] /\ log'[log[n].add] = log[log[n].add]
  BY <1>1, <1>2
<1>. QED
  BY <1>3 DEF Own

\* Without a fault every replica stays up.
LEMMA AllUp ==
  ASSUME TypeOK, RInv, [Next]_vars, faults' = 0
  PROVE  /\ faults = 0 /\ ~Fault
         /\ \A r \in Replicas : status[r] = "up"
         /\ UNCHANGED status
<1>1. faults \in Nat
  BY DEF TypeOK
<1>2. ~Fault
  BY <1>1 DEF Fault
<1>3. UNCHANGED faults
  BY <1>2 DEF Next, vars, Tick, Add, TryFire, DropReference, Remove, RemoveFails, RetryLater, Callback,
     OrphanElapses, TimerElapses, Watching, OpenWatch, CloseWatch, SkipSuperseded, HandleWatchEntry,
     RescanStart, RescanGet, RescanAct, RescanEnd, Holding, HoldRead, HoldUpdate, HoldUpdateFails,
     Release, HoldCheck, HoldRestore, HoldAbandoned, Stop, Die, Start, Clear, ClearStopTimer
<1>4. \A r \in Replicas : status[r] = "up"
  BY <1>3 DEF RInv, ReadsOwn
<1>5. \A r \in Replicas : ~Stop(r) /\ ~Die(r) /\ ~Start(r)
  BY <1>2, <1>4 DEF Stop, Die, Start
<1>6. UNCHANGED status
  BY <1>5 DEF Next, vars, Tick, Add, TryFire, DropReference, Remove, RemoveFails, RetryLater, Callback,
     OrphanElapses, TimerElapses, Watching, OpenWatch, CloseWatch, SkipSuperseded, HandleWatchEntry,
     RescanStart, RescanGet, RescanAct, RescanEnd, Holding, HoldRead, HoldUpdate, HoldUpdateFails,
     Release, HoldCheck, HoldRestore, HoldAbandoned, Clear, ClearStopTimer
<1>. QED
  BY <1>2, <1>3, <1>4, <1>6

LEMMA ReadsOwnKept ==
  ASSUME TypeOK, PayloadsOK, RInv, [Next]_vars, Parameters, faults' = 0,
         \A h \in Holders : hold'[h].step # "idle" =>
           \/ hold[h].step # "idle" /\ hold'[h].orig = hold[h].orig
           \/ hold'[h].orig \in Puts /\ Own(hold'[h].orig)
  PROVE  ReadsOwn'
<1>1. faults = 0 /\ (\A r \in Replicas : status'[r] = "up")
  BY AllUp
<1>2. UNCHANGED log \/ \E e \in Entry : Write(e)
  BY StepsWrite
<1>3. \A h \in Holders : hold[h].step # "idle" => hold[h].orig \in Puts /\ Own(hold[h].orig)
  BY <1>1 DEF RInv, ReadsOwn, TypeOK, HoldType, Own
<1>4. \A h \in Holders : hold'[h].step # "idle" => hold'[h].orig \in Puts /\ Own(hold'[h].orig)
  BY <1>3
<1>5. \A h \in Holders : hold'[h].step # "idle" =>
        log'[hold'[h].orig].exp = log'[log'[hold'[h].orig].add].exp
  BY <1>2, <1>4, OwnStays DEF Own
<1>. QED
  BY <1>1, <1>5 DEF ReadsOwn

\* The bucket is left alone, and a hold only ends if its revision is no value any more.
LEMMA RestoredKept ==
  ASSUME RInv, faults = 0, UNCHANGED <<log, last>>,
         \A h \in Holders, k \in Keys :
           Live(k) /\ hold[h].rev = last[k] => hold'[h].rev = last[k]
  PROVE  HoldEndsRestored'
BY DEF RInv, HoldEndsRestored, Live

\* What is written expires when its Add asked for, or is what a hold in force wrote.
LEMMA RestoredWritten ==
  ASSUME TypeOK, PayloadsOK, RInv, faults = 0, NEW e \in Entry, Write(e),
         \A h \in Holders, k \in Keys :
           k # e.key /\ Live(k) /\ hold[h].rev = last[k] => hold'[h].rev = last[k],
         e.op = "put" => \/ e.add = Len(log) + 1
                         \/ e.add \in 1..Len(log) /\ e.exp = log[e.add].exp
                         \/ \E h \in Holders : hold'[h].rev = Len(log) + 1
  PROVE  HoldEndsRestored'
<1>. SUFFICES ASSUME NEW k \in Keys, Live(k)', log'[last'[k]].exp # log'[log'[last'[k]].add].exp
              PROVE  \E h \in Holders : hold'[h].rev = last'[k]
  BY DEF HoldEndsRestored
<1>1. /\ Len(log) \in Nat /\ log'[Len(log) + 1] = e /\ last'[e.key] = Len(log) + 1
      /\ \A n \in 1..Len(log) : log'[n] = log[n]
      /\ k # e.key => last'[k] = last[k]
  BY WriteGrows
<1>2. CASE k = e.key
  <2>1. last'[k] = Len(log) + 1 /\ log'[last'[k]] = e
    BY <1>1, <1>2
  <2>2. e.op = "put" /\ e.exp # log'[e.add].exp
    BY <2>1 DEF Live
  <2>3. e.add # Len(log) + 1
    BY <2>1, <2>2
  <2>4. ~(e.add \in 1..Len(log) /\ e.exp = log[e.add].exp)
    BY <1>1, <2>2
  <2>5. e.op = "put" => \/ e.add = Len(log) + 1
                        \/ e.add \in 1..Len(log) /\ e.exp = log[e.add].exp
                        \/ \E h \in Holders : hold'[h].rev = Len(log) + 1
    OBVIOUS
  <2>. QED
    BY <2>1, <2>2, <2>3, <2>4, <2>5
<1>3. CASE k # e.key
  <2>1. Live(k) /\ last[k] \in Puts /\ last'[k] = last[k]
    BY <1>1, <1>3, AfterWrite, SpentAdds
  <2>2. log'[last[k]] = log[last[k]] /\ log'[log[last[k]].add] = log[log[last[k]].add]
    BY <2>1, OwnStays
  <2>3. \E h \in Holders : hold[h].rev = last[k]
    BY <2>1, <2>2 DEF RInv, HoldEndsRestored
  <2>. QED
    BY <1>3, <2>1, <2>3
<1>. QED
  BY <1>2, <1>3

\* The steps of the holder.
LEMMA HolderRestores ==
  ASSUME PInv, RInv, OneHolder, Parameters, [Next]_vars, faults' = 0,
         NEW h \in Holders, Holding(h)
  PROVE  RInv'
<1>0. TypeOK /\ PayloadsOK /\ faults = 0 /\ ~Fault /\ status[Host[h]] = "up"
      /\ \A g \in Holders : g = h
  BY AllUp DEF PInv, IInv, Parameters, OneHolder
<1>1. \A k \in Keys : Live(k) =>
        last[k] \in Puts /\ last[k] # 0 /\ KeyOf(last[k]) = k /\ (Own(last[k]) \/ hold[h].rev = last[k])
  BY <1>0, SpentAdds, PutsAreRevisions DEF PayloadsOK, TypeOK, RInv, HoldEndsRestored, Own, Live
<1>2. ASSUME NEW k \in Keys, HoldRead(h, k) PROVE RInv'
  <2>1. /\ Live(k) /\ hold[h] = NoHold /\ UNCHANGED <<log, last>>
        /\ hold' = [hold EXCEPT ![h] = [step |-> "read", orig |-> last[k], rev |-> 0]]
    BY <1>2 DEF HoldRead, store
  <2>2. hold[h].rev = 0
    BY <2>1 DEF NoHold
  <2>3. last[k] \in Puts /\ Own(last[k])
    BY <1>1, <2>1, <2>2
  <2>4. hold'[h].orig = last[k]
    BY <1>0, <2>1 DEF TypeOK, HoldType
  <2>5. ReadsOwn'
    BY <1>0, <2>3, <2>4, ReadsOwnKept
  <2>6. HoldEndsRestored'
    BY <1>0, <1>1, <2>1, <2>2, RestoredKept
  <2>. QED
    BY <2>5, <2>6 DEF RInv
<1>3. CASE HoldUpdate(h) \/ HoldUpdateFails(h)
  <2>. DEFINE n == hold[h].orig
  <2>1. /\ hold[h].step = "read" /\ hold[h].rev = 0 /\ n \in Puts
        /\ ~HoldUpdateFails(h)
    BY <1>0, <1>3 DEF HoldUpdate, HoldUpdateFails, TypeOK, HoldType
  <2>2. CASE last[KeyOf(n)] # n
    <3>1. hold' = [hold EXCEPT ![h] = NoHold] /\ UNCHANGED <<log, last>>
      BY <1>3, <2>1, <2>2 DEF HoldUpdate, store
    <3>2. hold'[h].step = "idle"
      BY <1>0, <3>1 DEF NoHold, TypeOK, HoldType
    <3>3. ReadsOwn'
      BY <1>0, <3>2, ReadsOwnKept
    <3>4. HoldEndsRestored'
      BY <1>0, <1>1, <2>1, <3>1, RestoredKept
    <3>. QED
      BY <3>3, <3>4 DEF RInv
  <2>3. CASE last[KeyOf(n)] = n
    <3>. DEFINE x == HoldDeadline(log[n].exp)
                e == Repeat(n, x)
    <3>1. /\ Write(e)
          /\ hold' = [hold EXCEPT ![h] = [step |-> "held", orig |-> n, rev |-> Len(log) + 1]]
      BY <1>3, <2>1, <2>3 DEF HoldUpdate
    <3>2. e \in Entry
      BY <1>0, <2>1, HoldDelays, Entries, PutsAreRevisions DEF TypeOK
    <3>3. hold'[h].orig = n /\ hold'[h].rev = Len(log) + 1
      BY <1>0, <3>1 DEF TypeOK, HoldType
    <3>4. ReadsOwn'
      BY <1>0, <2>1, <3>3, ReadsOwnKept
    <3>. HIDE DEF e
    <3>5. HoldEndsRestored'
      BY <1>0, <1>1, <2>1, <3>1, <3>2, <3>3, RestoredWritten
    <3>. QED
      BY <3>4, <3>5 DEF RInv
  <2>. QED
    BY <2>2, <2>3
<1>4. CASE Release(h)
  <2>1. hold' = [hold EXCEPT ![h].step = "released"] /\ hold[h].step = "held" /\ UNCHANGED <<log, last>>
    BY <1>4 DEF Release, store
  <2>2. hold'[h].orig = hold[h].orig /\ hold'[h].rev = hold[h].rev
    BY <1>0, <2>1 DEF TypeOK, HoldType
  <2>3. ReadsOwn'
    BY <1>0, <2>1, <2>2, ReadsOwnKept
  <2>4. HoldEndsRestored'
    BY <1>0, <2>1, <2>2, RestoredKept
  <2>. QED
    BY <2>3, <2>4 DEF RInv
<1>5. CASE HoldCheck(h)
  <2>1. hold[h].step = "released" /\ UNCHANGED <<log, last>>
    BY <1>5 DEF HoldCheck, store
  <2>2. CASE last[KeyOf(hold[h].rev)] = hold[h].rev
    <3>1. hold' = [hold EXCEPT ![h].step = "restoring"]
      BY <1>5, <2>2 DEF HoldCheck
    <3>2. hold'[h].orig = hold[h].orig /\ hold'[h].rev = hold[h].rev
      BY <1>0, <3>1 DEF TypeOK, HoldType
    <3>3. ReadsOwn'
      BY <1>0, <2>1, <3>2, ReadsOwnKept
    <3>4. HoldEndsRestored'
      BY <1>0, <2>1, <3>2, RestoredKept
    <3>. QED
      BY <3>3, <3>4 DEF RInv
  <2>3. CASE last[KeyOf(hold[h].rev)] # hold[h].rev
    <3>1. hold' = [hold EXCEPT ![h] = NoHold]
      BY <1>5, <2>3 DEF HoldCheck
    <3>2. hold'[h].step = "idle"
      BY <1>0, <3>1 DEF NoHold, TypeOK, HoldType
    <3>3. ReadsOwn'
      BY <1>0, <3>2, ReadsOwnKept
    <3>4. \A k \in Keys : Live(k) => hold[h].rev # last[k]
      BY <1>1, <2>3
    <3>5. HoldEndsRestored'
      BY <1>0, <2>1, <3>4, RestoredKept
    <3>. QED
      BY <3>3, <3>5 DEF RInv
  <2>. QED
    BY <2>2, <2>3
<1>6. CASE HoldRestore(h)
  <2>. DEFINE n == hold[h].orig
              e == Repeat(n, log[n].exp)
  <2>1. /\ hold[h].step = "restoring" /\ n \in Puts /\ hold' = [hold EXCEPT ![h] = NoHold]
        /\ KeyOf(hold[h].rev) = KeyOf(n)
    BY <1>0, <1>6 DEF HoldRestore, TypeOK, HoldType, PayloadsOK
  <2>2. hold'[h].step = "idle"
    BY <1>0, <2>1 DEF NoHold, TypeOK, HoldType
  <2>3. ReadsOwn'
    BY <1>0, <2>2, ReadsOwnKept
  <2>4. CASE last[KeyOf(n)] # hold[h].rev
    <3>1. UNCHANGED <<log, last>>
      BY <1>6, <2>4 DEF HoldRestore, store
    <3>2. \A k \in Keys : Live(k) => hold[h].rev # last[k]
      BY <1>1, <2>1, <2>4
    <3>. QED
      BY <1>0, <2>3, <3>1, <3>2, RestoredKept DEF RInv
  <2>5. CASE last[KeyOf(n)] = hold[h].rev
    <3>1. Write(e)
      BY <1>6, <2>5 DEF HoldRestore
    <3>2. e \in Entry /\ e.key = KeyOf(n) /\ e.exp = log[n].exp /\ e.add = log[n].add
      <4>1. log[n].exp \in Nat
        BY <1>0, <2>1, PutsAreRevisions DEF TypeOK
      <4>. QED
        BY <1>0, <2>1, <4>1, Entries DEF Repeat, Put
    <3>3. Own(n)
      BY <1>0, <2>1 DEF RInv, ReadsOwn, Own
    <3>4. e.add \in 1..Len(log) /\ e.exp = log[e.add].exp
      <4>1. log[n].add \in 1..Len(log)
        <5>1. n \in 1..Len(log) /\ log[n].add \in 1..n
          BY <1>0, <2>1, PutsAreRevisions DEF PayloadsOK, TypeOK
        <5>. QED
          BY <5>1
      <4>2. log[n].exp = log[log[n].add].exp
        BY <3>3 DEF Own
      <4>. HIDE DEF e
      <4>. QED
        BY <3>2, <4>1, <4>2
    <3>. HIDE DEF e
    <3>5. \A k \in Keys : k # e.key /\ Live(k) => hold[h].rev # last[k]
      BY <1>1, <2>1, <3>2
    <3>6. HoldEndsRestored'
      BY <1>0, <3>1, <3>2, <3>4, <3>5, RestoredWritten
    <3>. QED
      BY <2>3, <3>6 DEF RInv
  <2>. QED
    BY <2>4, <2>5
<1>7. ~HoldAbandoned(h)
  BY <1>0 DEF HoldAbandoned
<1>. QED
  BY <1>2, <1>3, <1>4, <1>5, <1>6, <1>7 DEF Holding

LEMMA RestoreNext ==
  ASSUME PInv, RInv, OneHolder, Parameters, [Next]_vars
  PROVE  RInv'
<1>0. TypeOK /\ PayloadsOK
  BY DEF PInv, IInv
<1>1. CASE faults' # 0
  BY <1>1 DEF RInv, ReadsOwn, HoldEndsRestored
<1>2. CASE faults' = 0 /\ \E h \in Holders : Holding(h)
  BY <1>2, HolderRestores
<1>3. CASE faults' = 0 /\ UNCHANGED hold
  <2>1. faults = 0
    BY <1>0, <1>3, AllUp
  <2>2. ReadsOwn'
    BY <1>0, <1>3, ReadsOwnKept
  <2>3. CASE UNCHANGED <<log, last>>
    BY <1>3, <2>1, <2>2, <2>3, RestoredKept DEF RInv
  <2>4. ASSUME NEW e \in Entry, Write(e), e.op = "put" => e.add = Len(log) + 1 PROVE RInv'
    <3>1. HoldEndsRestored'
      BY <1>0, <1>3, <2>1, <2>4, RestoredWritten
    <3>. QED
      BY <2>2, <3>1 DEF RInv
  <2>5. ASSUME NEW k \in Keys, Add(k) PROVE RInv'
    <3>1. PICK t \in Timeouts : Write(Put(k, now + t, Len(log) + 1))
      BY <2>5 DEF Add
    <3>2. now + t \in Nat /\ Len(log) + 1 \in Nat
      BY <1>0, PutsAreRevisions DEF TypeOK, Parameters
    <3>3. Put(k, now + t, Len(log) + 1) \in Entry /\ Put(k, now + t, Len(log) + 1).add = Len(log) + 1
      BY <1>0, <3>2, Entries DEF Put
    <3>. QED
      BY <2>4, <3>1, <3>3
  <2>6. ASSUME NEW k \in Keys, NEW r \in Replicas, Clear(r, k) PROVE RInv'
    <3>1. Marker("clear", k, 0) \in Entry /\ Marker("clear", k, 0).op = "clear"
      BY <1>0, Entries DEF Marker
    <3>. QED
      BY <2>4, <2>6, <3>1 DEF Clear
  <2>7. ASSUME NEW p \in Procs, Remove(p) \/ RemoveFails(p) PROVE RInv'
    <3>. DEFINE n == attempt[p].rev
                e == Marker("fire", KeyOf(n), n)
    <3>1. n \in Nat /\ KeyOf(n) \in Keys
      BY <1>0, <2>7, PutsAreRevisions DEF Remove, RemoveFails, TypeOK, AttemptType
    <3>2. e \in Entry /\ e.op = "fire"
      BY <1>0, <3>1, Entries DEF Marker
    <3>3. UNCHANGED <<log, last>> \/ Write(e)
      BY <2>7 DEF Remove, RemoveFails, store
    <3>. HIDE DEF e
    <3>. QED
      BY <2>3, <2>4, <3>2, <3>3
  <2>8. ASSUME NEW p \in Procs, Callback(p) PROVE RInv'
    BY <2>3, <2>8 DEF Callback, store
  <2>9. CASE \/ Tick \/ UNCHANGED vars
             \/ \E p \in Procs : DropReference(p) \/ RetryLater(p)
             \/ \E p \in Runners : OrphanElapses(p) \/ \E k \in Keys : TimerElapses(p, k)
             \/ \E w \in Watchers : Watching(w)
             \/ \E r \in Replicas : \/ Stop(r) \/ Die(r) \/ Start(r)
                                    \/ \E k \in Keys : ClearStopTimer(r, k)
    BY <1>0, <2>3, <2>9, QuietSteps
  <2>10. CASE \E h \in Holders : Holding(h)
    BY <1>2, <1>3, <2>10
  <2>. QED
    BY <2>5, <2>6, <2>7, <2>8, <2>9, <2>10 DEF Next, TryFire
<1>4. CASE faults' = 0 /\ ~UNCHANGED hold /\ ~\E h \in Holders : Holding(h)
  <2>1. \A r \in Replicas : ~Die(r)
    <3>1. ~Fault /\ \A r \in Replicas : status[r] = "up"
      BY <1>0, <1>4, AllUp
    <3>. QED
      BY <3>1 DEF Die
  <2>. QED
    BY <1>4, <2>1 DEF Next, vars, Tick, Add, TryFire, DropReference, Remove, RemoveFails, RetryLater,
       Callback, OrphanElapses, TimerElapses, Watching, OpenWatch, CloseWatch, SkipSuperseded,
       HandleWatchEntry, RescanStart, RescanGet, RescanAct, RescanEnd, Stop, Start, Clear, ClearStopTimer
<1>. QED
  BY <1>1, <1>2, <1>3, <1>4

\* A hold that ended without an Add gave the timer the expiry its Add asked for, if
\* nothing failed and holds are not nested (actor.go, comment of Hold).
THEOREM EndedHoldRestores ==
  ASSUME OneHolder PROVE Spec => []HoldEndsRestored
<1>1. Init => RInv
  <2>1. Init => /\ \A k \in Keys : ~Live(k)
                /\ \A h \in Holders : hold[h].step = "idle"
                /\ \A r \in Replicas : status[r] = "up"
    BY DEF Init, Live, NoHold
  <2>. QED
    BY <2>1 DEF RInv, ReadsOwn, HoldEndsRestored
<1>2. PInv /\ RInv /\ [Next]_vars => RInv'
  BY RestoreNext, OneHolder, Parameters
<1>3. RInv => HoldEndsRestored
  BY DEF RInv
<1>. QED
  BY <1>1, <1>2, <1>3, PromiseInvariant, PTL DEF Spec

-----------------------------------------------------------------------------
(* A caught-up replica has a timer for every value *)

Open(w) == watch[w].step # "closed"
\* The only watcher of its replica.
Sole(w) == \A v \in Watchers : Host[v] = Host[w] => v = w
Uncleared(k) == \A m \in 1..Len(log) : ~(log[m].op = "clear" /\ KeyOf(m) = k)

\* The watcher has handed on the value of the key.
Handed(w, k) == Open(w) /\ Live(k) /\ last[k] \notin pending[w]

\* The replica has a timer for the value of the key, or fires it.
HasTimer(r, k) ==
  \/ timers[r][k].running /\ timers[r][k].rev = last[k]
  \/ \E t \in orphans[r] : t.rev = last[k]
  \/ \E p \in Procs : Host[p] = r /\ attempt[p].rev = last[k]

Failed(r) == {p \in Procs : Host[p] = r /\ attempt[p].step = "failed"}

\* A dead process has nothing.
DownIsBare ==
  \A r \in Replicas : status[r] = "down" =>
    /\ \A k \in Keys : timers[r][k] = NoTimer
    /\ orphans[r] = {}
    /\ \A w \in Watchers : Host[w] = r => ~Open(w)
    /\ \A p \in Procs : Host[p] = r => attempt[p] = NoAttempt

\* The map has a timer of a key under that key, and one that has elapsed is
\* referred to only until its goroutine drops the reference.
Elapsed(r, n) == \E p \in Procs : Host[p] = r /\ attempt[p] = [step |-> "start", rev |-> n]
TimersOfKey ==
  \A r \in Replicas, k \in Keys : timers[r][k] # NoTimer =>
    /\ timers[r][k].rev \in Puts /\ KeyOf(timers[r][k].rev) = k
    /\ timers[r][k].running \/ Elapsed(r, timers[r][k].rev)

\* A watcher attempts in a rescan only.
AttemptsInScan == \A w \in Watchers : watch[w].step # "scan" => attempt[w] = NoAttempt

\* A watcher is handed the revisions of a key in order, and what its rescan has read
\* is the value or is to be replaced.
InTurn ==
  \A w \in Watchers : \A k \in Watches[w] :
    /\ Handed(w, k) => \A n \in pending[w] : KeyOf(n) # k
    /\ watch[w].step = "got" /\ KeyOf(watch[w].rev) = k =>
         watch[w].rev = last[k] \/ last[k] \in pending[w]

ClearsLogged == \A r \in Replicas : \A k \in clearing[r] : ~Uncleared(k)

\* Each failed removal is a fault of its own,
FailedByFault ==
  \A r \in Replicas : status[r] = "up" =>
    /\ Failed(r) # {} => faults > 0
    /\ \A p, q \in Failed(r) : p # q => faults > 1

\* and only the retry of one leaves a timer that is not of the value handed on.
RetriedByFault ==
  \A w \in Watchers : \A k \in Watches[w] :
    /\ Sole(w) /\ Handed(w, k) /\ status[Host[w]] = "up"
    /\ timers[Host[w]][k] # NoTimer /\ timers[Host[w]][k].rev # last[k]
    => faults > 0 /\ (Failed(Host[w]) # {} => faults > 1)

CoverInv == /\ DownIsBare /\ TimersOfKey /\ AttemptsInScan /\ InTurn /\ ClearsLogged
            /\ FailedByFault /\ RetriedByFault

HandedIsCovered ==
  \A w \in Watchers : \A k \in Watches[w] :
    Sole(w) /\ Handed(w, k) /\ status[Host[w]] = "up" /\ Uncleared(k) => HasTimer(Host[w], k)

\* A failed removal of the value of a key is retried: the rescan is on, and the map
\* has no timer of another revision that retryLater would leave in place.
WillRetry(r, k) ==
  \A p \in Failed(r) : attempt[p].rev = last[k] =>
    RescanEnabled /\ timers[r][k].rev \in {0, last[k]}
FailuresRetried == \A r \in Replicas, k \in Keys : status[r] = "up" /\ Live(k) => WillRetry(r, k)

\* No call has failed and no process stopped, or a single one and the rescan is on.
FewFaults == faults = 0 \/ (faults = 1 /\ RescanEnabled)

\* What the bucket keeps in a step.
LEMMA LogKept ==
  ASSUME TypeOK, Parameters, [Next]_vars
  PROVE  /\ Len(log) \in Nat /\ Len(log') \in Nat /\ Len(log) <= Len(log')
         /\ \A n \in 1..Len(log) : log'[n] = log[n] /\ KeyOf(n)' = KeyOf(n)
         /\ Puts \subseteq Puts'
         /\ \A k : Uncleared(k)' => Uncleared(k)
<1>1. /\ Len(log) \in Nat /\ Len(log') \in Nat /\ Len(log) <= Len(log')
      /\ \A n \in 1..Len(log) : log'[n] = log[n]
      /\ Puts \subseteq Puts'
  <2>1. CASE UNCHANGED <<log, last>>
    BY <2>1, PutsAreRevisions DEF TypeOK, Puts
  <2>2. CASE \E e \in Entry : Write(e)
    BY <2>2, WriteGrows
  <2>. QED
    BY <2>1, <2>2, StepsWrite
<1>. QED
  BY <1>1 DEF KeyOf, Uncleared

\* The new status, and what a step does to the number of faults.
LEMMA FaultsKept ==
  ASSUME TypeOK, [Next]_vars
  PROVE  faults' \in Nat /\ (faults' = faults \/ faults' = faults + 1)
<1>1. UNCHANGED faults \/ Fault
  <2>1. CASE \/ Tick \/ UNCHANGED vars \/ \E k \in Keys : Add(k)
             \/ \E p \in Procs : TryFire(p)
             \/ \E p \in Runners : OrphanElapses(p) \/ \E k \in Keys : TimerElapses(p, k)
    BY <2>1 DEF vars, Tick, Add, TryFire, DropReference, Remove, RemoveFails, RetryLater, Callback,
                OrphanElapses, TimerElapses
  <2>2. CASE \E w \in Watchers : Watching(w)
    BY <2>2 DEF Watching, OpenWatch, CloseWatch, SkipSuperseded, HandleWatchEntry, RescanStart, RescanGet,
                RescanAct, RescanEnd
  <2>3. CASE \E h \in Holders : Holding(h)
    BY <2>3 DEF Holding, HoldRead, HoldUpdate, HoldUpdateFails, Release, HoldCheck, HoldRestore, HoldAbandoned
  <2>4. CASE \E r \in Replicas : Stop(r) \/ Die(r) \/ Start(r) \/ \E k \in Keys : Clear(r, k) \/ ClearStopTimer(r, k)
    BY <2>4 DEF Stop, Die, Start, Clear, ClearStopTimer
  <2>. QED
    BY <2>1, <2>2, <2>3, <2>4 DEF Next
<1>. QED
  BY <1>1 DEF Fault, TypeOK

\* How a timer of a map comes about,
Schedules(r, n) ==
  \/ \E v \in Watchers : Host[v] = r /\ HandleWatchEntry(v) /\ n \in pending[v]
  \/ \E v \in Watchers : Host[v] = r /\ RescanAct(v) /\ n = watch[v].rev
  \/ \E p \in Procs : Host[p] = r /\ RetryLater(p) /\ n = attempt[p].rev /\ timers[r][KeyOf(n)] = NoTimer

\* and how it goes.
Drops(r, k) ==
  \/ \E p \in Procs : Host[p] = r /\ DropReference(p) /\ KeyOf(attempt[p].rev) = k
  \/ \E v \in Watchers : Host[v] = r /\ HandleWatchEntry(v) /\ \E n \in pending[v] : KeyOf(n) = k
  \/ ClearStopTimer(r, k)
  \/ status'[r] # "up"

\* What a step does to the timer the map has for a key.
LEMMA TimerMoves ==
  ASSUME TypeOK, Parameters, [Next]_vars, NEW r \in Replicas, NEW k \in Keys
  PROVE  \/ timers'[r][k] = timers[r][k]
         \/ timers'[r][k] = NoTimer /\ Drops(r, k)
         \/ /\ \E p \in Runners : Host[p] = r /\ TimerElapses(p, k)
            /\ timers'[r][k].rev = timers[r][k].rev /\ timers[r][k].running
         \/ /\ timers'[r][k].rev \in Puts /\ KeyOf(timers'[r][k].rev) = k /\ timers'[r][k].running
            /\ Schedules(r, timers'[r][k].rev)
<1>0. /\ \A n \in Puts : KeyOf(n) \in Keys /\ n \in 1..Len(log)
      /\ \A p \in Procs : Host[p] \in Replicas
  BY PutsAreRevisions DEF TypeOK, Parameters
<1>. DEFINE Goal == \/ timers'[r][k] = timers[r][k]
                    \/ timers'[r][k] = NoTimer /\ Drops(r, k)
                    \/ /\ \E p \in Runners : Host[p] = r /\ TimerElapses(p, k)
                       /\ timers'[r][k].rev = timers[r][k].rev /\ timers[r][k].running
                    \/ /\ timers'[r][k].rev \in Puts /\ KeyOf(timers'[r][k].rev) = k /\ timers'[r][k].running
                       /\ Schedules(r, timers'[r][k].rev)
<1>m. \A q \in Replicas, j \in Keys : \A t : timers' = [timers EXCEPT ![q][j] = t] =>
        timers'[r][k] = IF r = q /\ k = j THEN t ELSE timers[r][k]
  BY DEF TypeOK, TimersType
<1>s. ASSUME NEW n \in Puts, NEW due, NEW q \in Replicas, ScheduleTimer(q, n, due),
             r = q => Schedules(r, n)
      PROVE  Goal
  <2>. DEFINE t == [rev |-> n, due |-> due, running |-> TRUE]
  <2>1. timers'[r][k] = IF r = q /\ k = KeyOf(n) THEN t ELSE timers[r][k]
    <3>1. timers' = [timers EXCEPT ![q][KeyOf(n)] = t]
      BY <1>s DEF ScheduleTimer
    <3>2. KeyOf(n) \in Keys
      BY <1>0
    <3>. HIDE DEF t
    <3>. QED
      BY <3>1, <3>2, <1>m
  <2>2. t.rev = n /\ t.running
    OBVIOUS
  <2>. HIDE DEF t
  <2>3. CASE r = q /\ k = KeyOf(n)
    BY <1>s, <2>1, <2>2, <2>3
  <2>. QED
    BY <2>1, <2>3
<1>d. ASSUME NEW q \in Replicas, NEW j \in Keys, StopTimer(q, j), r = q /\ k = j => Drops(r, k)
      PROVE  Goal
  <2>1. timers' = [timers EXCEPT ![q][j] = NoTimer]
    BY <1>d DEF StopTimer
  <2>2. timers'[r][k] = IF r = q /\ k = j THEN NoTimer ELSE timers[r][k]
    BY <2>1, <1>m
  <2>. QED
    BY <1>d, <2>2
<1>1. ASSUME NEW p \in Procs, DropReference(p) PROVE Goal
  <2>1. Host[p] \in Replicas /\ KeyOf(attempt[p].rev) \in Keys /\ StopTimer(Host[p], KeyOf(attempt[p].rev))
    BY <1>0, <1>1 DEF DropReference, TypeOK, AttemptType
  <2>2. r = Host[p] /\ k = KeyOf(attempt[p].rev) => Drops(r, k)
    BY <1>1 DEF Drops
  <2>. HIDE DEF Goal
  <2>. QED
    BY <1>d, <2>1, <2>2
<1>2. ASSUME NEW p \in Procs, RetryLater(p) PROVE Goal
  <2>1. attempt[p].rev \in Puts /\ Host[p] \in Replicas /\ now = now
    BY <1>0, <1>2 DEF RetryLater, TypeOK, AttemptType
  <2>2. CASE UNCHANGED timers
    BY <2>2
  <2>3. CASE ScheduleTimer(Host[p], attempt[p].rev, now) /\ timers[Host[p]][KeyOf(attempt[p].rev)] = NoTimer
    <3>1. r = Host[p] => Schedules(r, attempt[p].rev)
      BY <1>2, <2>3 DEF Schedules
    <3>. HIDE DEF Goal
    <3>. QED
      BY <1>s, <2>1, <2>3, <3>1
  <2>. QED
    BY <1>2, <2>2, <2>3 DEF RetryLater
<1>3. ASSUME NEW p \in Runners, NEW j \in Keys, TimerElapses(p, j) PROVE Goal
  <2>. DEFINE t == timers[Host[p]][j]
              u == [t EXCEPT !.running = FALSE]
  <2>1. Host[p] \in Replicas /\ t.running /\ timers' = [timers EXCEPT ![Host[p]][j] = u]
    BY <1>0, <1>3 DEF TimerElapses, Procs
  <2>2. u.rev = t.rev
    <3>1. t \in Timer
      BY <2>1 DEF TypeOK, TimersType
    <3>. QED
      BY <3>1 DEF Timer
  <2>3. timers'[r][k] = IF r = Host[p] /\ k = j THEN u ELSE timers[r][k]
    <3>. HIDE DEF u
    <3>. QED
      BY <2>1, <1>m
  <2>. HIDE DEF u
  <2>4. CASE r = Host[p] /\ k = j
    BY <1>3, <2>1, <2>2, <2>3, <2>4
  <2>. QED
    BY <2>3, <2>4
<1>4. ASSUME NEW v \in Watchers, HandleWatchEntry(v) PROVE Goal
  <2>1. PICK n \in pending[v] : IF log[n].op = "put" THEN ScheduleTimer(Host[v], n, log[n].exp)
                                                     ELSE StopTimer(Host[v], KeyOf(n))
    BY <1>4 DEF HandleWatchEntry
  <2>2. n \in 1..Len(log) /\ KeyOf(n) \in Keys /\ Host[v] \in Replicas
    <3>1. n \in 1..Len(log) /\ Host[v] \in Replicas
      BY <1>0 DEF TypeOK, StoreType, Procs
    <3>2. log[n] \in Entry
      BY <3>1, PutsAreRevisions DEF TypeOK
    <3>. QED
      BY <3>1, <3>2 DEF KeyOf, Entry
  <2>3. CASE log[n].op = "put"
    <3>1. n \in Puts
      BY <2>2, <2>3 DEF Puts
    <3>2. r = Host[v] => Schedules(r, n)
      BY <1>4 DEF Schedules
    <3>. HIDE DEF Goal
    <3>. QED
      BY <1>s, <2>1, <2>2, <2>3, <3>1, <3>2
  <2>4. CASE log[n].op # "put"
    <3>1. r = Host[v] /\ k = KeyOf(n) => Drops(r, k)
      BY <1>4 DEF Drops
    <3>. HIDE DEF Goal
    <3>. QED
      BY <1>d, <2>1, <2>2, <2>4, <3>1
  <2>. QED
    BY <2>3, <2>4
<1>5. ASSUME NEW v \in Watchers, RescanAct(v) PROVE Goal
  <2>1. watch[v].rev \in Puts /\ Host[v] \in Replicas
    BY <1>0, <1>5 DEF RescanAct, TypeOK, WatchType, Procs
  <2>2. CASE UNCHANGED timers
    BY <2>2
  <2>3. CASE ScheduleTimer(Host[v], watch[v].rev, log[watch[v].rev].exp)
    <3>1. r = Host[v] => Schedules(r, watch[v].rev)
      BY <1>5 DEF Schedules
    <3>. HIDE DEF Goal
    <3>. QED
      BY <1>s, <2>1, <2>3, <3>1
  <2>. QED
    BY <1>5, <2>2, <2>3 DEF RescanAct
<1>6. ASSUME NEW q \in Replicas, Stop(q) \/ Die(q) PROVE Goal
  <2>1. timers' = [timers EXCEPT ![q] = [j \in Keys |-> NoTimer]] /\ status'[q] # "up"
    BY <1>6 DEF Stop, Die, TypeOK
  <2>2. timers'[r][k] = IF r = q THEN NoTimer ELSE timers[r][k]
    BY <2>1 DEF TypeOK, TimersType
  <2>. QED
    BY <2>1, <2>2 DEF Drops
<1>7. ASSUME NEW q \in Replicas, NEW j \in Keys, ClearStopTimer(q, j) PROVE Goal
  <2>1. StopTimer(q, j) /\ (r = q /\ k = j => Drops(r, k))
    BY <1>7 DEF ClearStopTimer, Drops
  <2>. HIDE DEF Goal
  <2>. QED
    BY <1>d, <2>1
<1>9. ASSUME \/ Tick \/ UNCHANGED vars \/ \E k1 \in Keys : Add(k1)
             \/ \E p \in Procs : Remove(p) \/ RemoveFails(p) \/ Callback(p)
             \/ \E p \in Runners : OrphanElapses(p)
             \/ \E w \in Watchers : \/ OpenWatch(w) \/ CloseWatch(w) \/ SkipSuperseded(w)
                                    \/ RescanStart(w) \/ RescanGet(w) \/ RescanEnd(w)
             \/ \E h \in Holders : Holding(h)
             \/ \E q \in Replicas : Start(q) \/ \E k1 \in Keys : Clear(q, k1)
      PROVE Goal
  <2>1. UNCHANGED timers
    <3>1. CASE \/ Tick \/ UNCHANGED vars \/ \E k1 \in Keys : Add(k1)
               \/ \E p \in Procs : Remove(p) \/ RemoveFails(p) \/ Callback(p)
               \/ \E p \in Runners : OrphanElapses(p)
               \/ \E q \in Replicas : Start(q) \/ \E k1 \in Keys : Clear(q, k1)
      BY <3>1 DEF Tick, vars, Add, Remove, RemoveFails, Callback, OrphanElapses, Start, Clear
    <3>2. CASE \E w \in Watchers : \/ OpenWatch(w) \/ CloseWatch(w) \/ SkipSuperseded(w)
                                   \/ RescanStart(w) \/ RescanGet(w) \/ RescanEnd(w)
      BY <3>2 DEF OpenWatch, CloseWatch, SkipSuperseded, RescanStart, RescanGet, RescanEnd
    <3>3. CASE \E h \in Holders : Holding(h)
      BY <3>3 DEF Holding, HoldRead, HoldUpdate, HoldUpdateFails, Release, HoldCheck, HoldRestore, HoldAbandoned
    <3>. QED
      BY <1>9, <3>1, <3>2, <3>3
  <2>. QED
    BY <2>1
<1>. HIDE DEF Goal
<1>10. Goal
  <2>1. CASE \E p \in Procs : TryFire(p)
    BY <1>1, <1>2, <1>9, <2>1 DEF TryFire
  <2>2. CASE \E p \in Runners : OrphanElapses(p) \/ \E j \in Keys : TimerElapses(p, j)
    BY <1>3, <1>9, <2>2
  <2>3. CASE \E w \in Watchers : Watching(w)
    BY <1>4, <1>5, <1>9, <2>3 DEF Watching
  <2>4. CASE \E q \in Replicas : Stop(q) \/ Die(q) \/ Start(q) \/ \E j \in Keys : Clear(q, j) \/ ClearStopTimer(q, j)
    BY <1>6, <1>7, <1>9, <2>4
  <2>. QED
    BY <1>9, <2>1, <2>2, <2>3, <2>4 DEF Next
<1>. QED
  BY <1>10 DEF Goal

\* Which steps change the state of timers and goroutines.
AttemptsMove == \/ \E p \in Procs : TryFire(p)
                \/ \E p \in Runners : OrphanElapses(p) \/ \E k \in Keys : TimerElapses(p, k)
                \/ \E v \in Watchers : RescanAct(v)
                \/ \E q \in Replicas : Die(q)
OrphansMove == \/ \E p \in Procs : DropReference(p)
               \/ \E p \in Runners : OrphanElapses(p)
               \/ \E q \in Replicas : Die(q)
WatchesMove == \/ \E v \in Watchers : \/ OpenWatch(v) \/ CloseWatch(v) \/ RescanStart(v) \/ RescanGet(v)
                                      \/ RescanAct(v) \/ RescanEnd(v)
               \/ \E q \in Replicas : Die(q)
StatusMoves == \E q \in Replicas : Stop(q) \/ Die(q) \/ Start(q)
ClearingMoves == \E q \in Replicas : Die(q) \/ \E k \in Keys : Clear(q, k) \/ ClearStopTimer(q, k)

LEMMA StepsMove ==
  ASSUME [Next]_vars
  PROVE  /\ UNCHANGED attempt \/ AttemptsMove
         /\ UNCHANGED orphans \/ OrphansMove
         /\ UNCHANGED watch \/ WatchesMove
         /\ UNCHANGED status \/ StatusMoves
         /\ UNCHANGED clearing \/ ClearingMoves
<1>. DEFINE Goal == /\ UNCHANGED attempt \/ AttemptsMove
                    /\ UNCHANGED orphans \/ OrphansMove
                    /\ UNCHANGED watch \/ WatchesMove
                    /\ UNCHANGED status \/ StatusMoves
                    /\ UNCHANGED clearing \/ ClearingMoves
<1>1. ASSUME Tick \/ UNCHANGED vars \/ \E k \in Keys : Add(k) PROVE Goal
  BY <1>1 DEF Tick, vars, Add
<1>2. ASSUME NEW p \in Procs, TryFire(p) PROVE Goal
  <2>1. AttemptsMove
    BY <1>2 DEF AttemptsMove
  <2>2. UNCHANGED <<watch, status, clearing>> /\ (UNCHANGED orphans \/ DropReference(p))
    BY <1>2 DEF TryFire, DropReference, Remove, RemoveFails, RetryLater, Callback
  <2>. QED
    BY <2>1, <2>2 DEF OrphansMove
<1>3. ASSUME NEW p \in Runners, OrphanElapses(p) \/ \E k \in Keys : TimerElapses(p, k) PROVE Goal
  <2>1. AttemptsMove
    BY <1>3 DEF AttemptsMove
  <2>2. UNCHANGED <<watch, status, clearing>> /\ (UNCHANGED orphans \/ OrphanElapses(p))
    BY <1>3 DEF OrphanElapses, TimerElapses
  <2>. QED
    BY <2>1, <2>2 DEF OrphansMove
<1>4. ASSUME NEW v \in Watchers, Watching(v) PROVE Goal
  <2>1. UNCHANGED <<orphans, status, clearing>> /\ (UNCHANGED attempt \/ RescanAct(v))
    BY <1>4 DEF Watching, OpenWatch, CloseWatch, SkipSuperseded, HandleWatchEntry, RescanStart, RescanGet,
                RescanAct, RescanEnd
  <2>2. \/ UNCHANGED watch
        \/ OpenWatch(v) \/ CloseWatch(v) \/ RescanStart(v) \/ RescanGet(v) \/ RescanAct(v) \/ RescanEnd(v)
    BY <1>4 DEF Watching, SkipSuperseded, HandleWatchEntry
  <2>. QED
    BY <2>1, <2>2 DEF AttemptsMove, WatchesMove
<1>5. ASSUME NEW h \in Holders, Holding(h) PROVE Goal
  BY <1>5 DEF Holding, HoldRead, HoldUpdate, HoldUpdateFails, Release, HoldCheck, HoldRestore, HoldAbandoned
<1>6. ASSUME NEW q \in Replicas, Stop(q) \/ Start(q) \/ \E k \in Keys : Clear(q, k) \/ ClearStopTimer(q, k)
      PROVE Goal
  <2>1. UNCHANGED <<attempt, orphans, watch>> /\ (UNCHANGED status \/ Stop(q) \/ Start(q))
        /\ (UNCHANGED clearing \/ \E k \in Keys : Clear(q, k) \/ ClearStopTimer(q, k))
    BY <1>6 DEF Stop, Start, Clear, ClearStopTimer
  <2>. QED
    BY <2>1 DEF StatusMoves, ClearingMoves
<1>7. ASSUME NEW q \in Replicas, Die(q) PROVE Goal
  BY <1>7 DEF AttemptsMove, OrphansMove, WatchesMove, StatusMoves, ClearingMoves
<1>. HIDE DEF Goal
<1>8. Goal
  BY <1>1, <1>2, <1>3, <1>4, <1>5, <1>6, <1>7 DEF Next
<1>. QED
  BY <1>8 DEF Goal

\* The life of one process, and the timers it lost track of.
LEMMA StatusOf ==
  ASSUME TypeOK, [Next]_vars, NEW r \in Replicas
  PROVE  \/ status'[r] = status[r]
         \/ Start(r) /\ status[r] = "down" /\ status'[r] = "up"
         \/ Stop(r) /\ status[r] = "up" /\ status'[r] = "stopped"
         \/ Die(r) /\ status'[r] = "down"
<1>1. CASE UNCHANGED status
  BY <1>1
<1>2. ASSUME NEW q \in Replicas, Stop(q) \/ Die(q) \/ Start(q) PROVE
         \/ status'[r] = status[r]
         \/ Start(r) /\ status[r] = "down" /\ status'[r] = "up"
         \/ Stop(r) /\ status[r] = "up" /\ status'[r] = "stopped"
         \/ Die(r) /\ status'[r] = "down"
  <2>1. CASE q # r
    BY <1>2, <2>1 DEF Stop, Die, Start, TypeOK
  <2>2. CASE q = r
    BY <1>2, <2>2 DEF Stop, Die, Start, TypeOK
  <2>. QED
    BY <2>1, <2>2
<1>. QED
  BY <1>1, <1>2, StepsMove DEF StatusMoves

LEMMA OrphanMoves ==
  ASSUME TypeOK, Parameters, [Next]_vars, NEW r \in Replicas
  PROVE  /\ \A t \in orphans[r] : \/ t \in orphans'[r]
                                  \/ status'[r] = "down"
                                  \/ \E p \in Procs : Host[p] = r /\ attempt'[p].rev = t.rev
         /\ \A t \in orphans'[r] : \/ t \in orphans[r]
                                   \/ \E p \in Procs : Host[p] = r /\ DropReference(p)
<1>. DEFINE Goal == /\ \A t \in orphans[r] : \/ t \in orphans'[r]
                                             \/ status'[r] = "down"
                                             \/ \E p \in Procs : Host[p] = r /\ attempt'[p].rev = t.rev
                    /\ \A t \in orphans'[r] : \/ t \in orphans[r]
                                              \/ \E p \in Procs : Host[p] = r /\ DropReference(p)
<1>0. \A p \in Procs : Host[p] \in Replicas
  BY DEF Parameters
<1>1. CASE UNCHANGED orphans
  BY <1>1
<1>2. ASSUME NEW p \in Procs, DropReference(p) PROVE Goal
  <2>1. PICK s : orphans' = [orphans EXCEPT ![Host[p]] = @ \cup s]
    BY <1>2 DEF DropReference
  <2>2. orphans'[r] = IF r = Host[p] THEN orphans[r] \cup s ELSE orphans[r]
    BY <1>0, <2>1 DEF TypeOK, OrphansType
  <2>. QED
    BY <1>2, <2>2
<1>3. ASSUME NEW p \in Runners, OrphanElapses(p) PROVE Goal
  <2>1. PICK u \in orphans[Host[p]] : orphans' = [orphans EXCEPT ![Host[p]] = @ \ {u}] /\ Begin(p, u.rev)
    BY <1>3 DEF OrphanElapses
  <2>2. orphans'[r] = IF r = Host[p] THEN orphans[r] \ {u} ELSE orphans[r]
    BY <2>1 DEF TypeOK, OrphansType
  <2>3. p \in Procs
    BY DEF Procs
  <2>4. attempt'[p].rev = u.rev
    BY <2>1, <2>3 DEF Begin, TypeOK, AttemptType
  <2>. QED
    BY <2>2, <2>3, <2>4
<1>4. ASSUME NEW q \in Replicas, Die(q) PROVE Goal
  <2>1. orphans'[r] = (IF r = q THEN {} ELSE orphans[r]) /\ status'[q] = "down"
    BY <1>4 DEF Die, TypeOK, OrphansType
  <2>. QED
    BY <2>1
<1>. QED
  BY <1>1, <1>2, <1>3, <1>4, StepsMove DEF OrphansMove

\* What becomes of one attempt.
Begins(p) ==
  /\ attempt[p] = NoAttempt
  /\ \E n \in Puts : attempt'[p] = [step |-> "start", rev |-> n]
  /\ \/ p \in Runners /\ (OrphanElapses(p) \/ \E k \in Keys : TimerElapses(p, k))
     \/ p \in Watchers /\ RescanAct(p) /\ attempt'[p].rev = watch[p].rev

AttemptTo(p) ==
  \/ attempt'[p] = attempt[p]
  \/ Begins(p)
  \/ /\ DropReference(p) /\ attempt[p].step = "start"
     /\ IF status[Host[p]] = "up" THEN attempt'[p] = [step |-> "removing", rev |-> attempt[p].rev]
                                  ELSE attempt'[p] = NoAttempt
  \/ Remove(p) /\ (attempt'[p] = NoAttempt \/ attempt'[p] = [step |-> "won", rev |-> attempt[p].rev])
  \/ RemoveFails(p) /\ attempt'[p] = [step |-> "failed", rev |-> attempt[p].rev]
  \/ (RetryLater(p) \/ Callback(p)) /\ attempt'[p] = NoAttempt
  \/ Die(Host[p]) /\ attempt'[p] = NoAttempt /\ status'[Host[p]] = "down"

LEMMA AttemptMoves ==
  ASSUME TypeOK, Parameters, AttemptsInScan, [Next]_vars, NEW p \in Procs
  PROVE  AttemptTo(p)
<1>0. Host[p] \in Replicas
  BY DEF Parameters
<1>b. ASSUME NEW q \in Procs, NEW n, Begin(q, n)
      PROVE IF q = p THEN attempt'[p] = [step |-> "start", rev |-> n] ELSE attempt'[p] = attempt[p]
  <2>. DEFINE a == [step |-> "start", rev |-> n]
  <2>1. attempt' = [attempt EXCEPT ![q] = a]
    BY <1>b DEF Begin
  <2>. HIDE DEF a
  <2>2. IF q = p THEN attempt'[p] = a ELSE attempt'[p] = attempt[p]
    BY <2>1 DEF TypeOK, AttemptType
  <2>. QED
    BY <2>2 DEF a
<1>g. ASSUME NEW q \in Procs, NEW s, Goto(q, s)
      PROVE IF q = p THEN attempt'[p] = [step |-> s, rev |-> attempt[p].rev] ELSE attempt'[p] = attempt[p]
  BY <1>g DEF Goto, TypeOK, AttemptType
<1>e. ASSUME NEW q \in Procs, End(q)
      PROVE IF q = p THEN attempt'[p] = NoAttempt ELSE attempt'[p] = attempt[p]
  BY <1>e DEF End, TypeOK, AttemptType
<1>1. ASSUME NEW q \in Procs, TryFire(q) PROVE AttemptTo(p)
  <2>1. CASE DropReference(q)
    <3>1. attempt[q].step = "start" /\ IF status[Host[q]] = "up" THEN Goto(q, "removing") ELSE End(q)
      BY <2>1 DEF DropReference
    <3>. QED
      BY <1>g, <1>e, <2>1, <3>1 DEF AttemptTo
  <2>2. CASE Remove(q)
    <3>1. Goto(q, "won") \/ End(q)
      BY <2>2 DEF Remove
    <3>. QED
      BY <1>g, <1>e, <2>2, <3>1 DEF AttemptTo
  <2>3. CASE RemoveFails(q)
    <3>1. Goto(q, "failed")
      BY <2>3 DEF RemoveFails
    <3>. QED
      BY <1>g, <2>3, <3>1 DEF AttemptTo
  <2>4. CASE RetryLater(q) \/ Callback(q)
    <3>1. End(q)
      BY <2>4 DEF RetryLater, Callback
    <3>. QED
      BY <1>e, <2>4, <3>1 DEF AttemptTo
  <2>. QED
    BY <1>1, <2>1, <2>2, <2>3, <2>4 DEF TryFire
<1>2. ASSUME NEW q \in Runners, NEW k \in Keys, TimerElapses(q, k) PROVE AttemptTo(p)
  <2>1. q \in Procs /\ Host[q] \in Replicas
    BY DEF Procs, Parameters
  <2>2. attempt[q] = NoAttempt /\ Begin(q, timers[Host[q]][k].rev) /\ timers[Host[q]][k].running
    BY <1>2 DEF TimerElapses
  <2>3. timers[Host[q]][k].rev \in Puts
    BY <2>1, <2>2 DEF TypeOK, TimersType
  <2>. QED
    BY <1>2, <1>b, <2>1, <2>2, <2>3 DEF AttemptTo, Begins
<1>3. ASSUME NEW q \in Runners, OrphanElapses(q) PROVE AttemptTo(p)
  <2>1. q \in Procs /\ Host[q] \in Replicas
    BY DEF Procs, Parameters
  <2>2. PICK t \in orphans[Host[q]] : attempt[q] = NoAttempt /\ Begin(q, t.rev)
    BY <1>3 DEF OrphanElapses
  <2>3. t.rev \in Puts
    BY <2>1 DEF TypeOK, OrphansType
  <2>. QED
    BY <1>3, <1>b, <2>1, <2>2, <2>3 DEF AttemptTo, Begins
<1>4. ASSUME NEW v \in Watchers, RescanAct(v) PROVE AttemptTo(p)
  <2>1. v \in Procs /\ attempt[v] = NoAttempt
    BY <1>4 DEF Procs, RescanAct, AttemptsInScan
  <2>2. watch[v].rev \in Puts
    BY <1>4 DEF RescanAct, TypeOK, WatchType
  <2>3. UNCHANGED attempt \/ Begin(v, watch[v].rev)
    BY <1>4 DEF RescanAct
  <2>4. CASE UNCHANGED attempt
    BY <2>4 DEF AttemptTo
  <2>5. CASE Begin(v, watch[v].rev)
    <3>1. IF v = p THEN attempt'[p] = [step |-> "start", rev |-> watch[v].rev] ELSE attempt'[p] = attempt[p]
      BY <1>b, <2>1, <2>5
    <3>. QED
      BY <1>4, <2>1, <2>2, <3>1 DEF AttemptTo, Begins
  <2>. QED
    BY <2>3, <2>4, <2>5
<1>5. ASSUME NEW q \in Replicas, Die(q) PROVE AttemptTo(p)
  <2>1. attempt'[p] = (IF Host[p] = q THEN NoAttempt ELSE attempt[p]) /\ status'[q] = "down"
    BY <1>5 DEF Die, TypeOK
  <2>. QED
    BY <1>5, <2>1 DEF AttemptTo
<1>6. CASE UNCHANGED attempt
  BY <1>6 DEF AttemptTo
<1>. QED
  BY <1>1, <1>2, <1>3, <1>4, <1>5, <1>6, StepsMove DEF AttemptsMove

\* And of one watcher.
WatchTo(w) ==
  \/ watch'[w] = watch[w]
  \/ OpenWatch(w) /\ watch'[w].step = "idle"
  \/ (CloseWatch(w) \/ Die(Host[w])) /\ watch'[w].step = "closed"
  \/ RescanStart(w) /\ watch'[w].step = "scan"
  \/ /\ RescanGet(w)
     /\ \/ watch'[w].step = "scan"
        \/ watch'[w].step = "got" /\ \E k \in Keys : Live(k) /\ watch'[w].rev = last[k]
  \/ RescanAct(w) /\ watch'[w].step = "scan"
  \/ RescanEnd(w) /\ watch'[w].step = "idle"

LEMMA WatchMoves ==
  ASSUME TypeOK, Parameters, [Next]_vars, NEW w \in Watchers
  PROVE  WatchTo(w)
<1>0. Idle.step = "idle" /\ Closed.step = "closed"
  BY DEF Idle, Closed
<1>1. ASSUME NEW v \in Watchers, NEW s, watch' = [watch EXCEPT ![v] = s]
      PROVE  watch'[w] = IF v = w THEN s ELSE watch[w]
  BY <1>1 DEF TypeOK, WatchType
<1>2. ASSUME NEW v \in Watchers, OpenWatch(v) \/ CloseWatch(v) \/ RescanEnd(v) PROVE WatchTo(w)
  <2>1. \/ OpenWatch(v) /\ watch' = [watch EXCEPT ![v] = Idle]
        \/ CloseWatch(v) /\ watch' = [watch EXCEPT ![v] = Closed]
        \/ RescanEnd(v) /\ watch' = [watch EXCEPT ![v] = Idle]
    BY <1>2 DEF OpenWatch, CloseWatch, RescanEnd
  <2>. QED
    BY <1>0, <1>1, <2>1 DEF WatchTo
<1>3. ASSUME NEW v \in Watchers, RescanStart(v) PROVE WatchTo(w)
  <2>. DEFINE s == [step |-> "scan", rev |-> 0, at |-> now, todo |-> Untracked(Host[v])]
  <2>1. watch' = [watch EXCEPT ![v] = s] /\ s.step = "scan"
    BY <1>3 DEF RescanStart
  <2>. HIDE DEF s
  <2>. QED
    BY <1>1, <1>3, <2>1 DEF WatchTo
<1>4. ASSUME NEW v \in Watchers, RescanGet(v) PROVE WatchTo(w)
  <2>1. CASE v # w
    <3>1. watch'[w] = watch[w]
      BY <1>4, <2>1 DEF RescanGet, TypeOK, WatchType
    <3>. QED
      BY <3>1 DEF WatchTo
  <2>2. CASE v = w
    <3>1. PICK k \in watch[w].todo :
            \/ /\ Live(k)
               /\ watch' = [watch EXCEPT ![w].step = "got", ![w].rev = last[k], ![w].todo = @ \ {k}]
            \/ watch' = [watch EXCEPT ![w].todo = @ \ {k}]
      BY <1>4, <2>2 DEF RescanGet
    <3>2. k \in Keys /\ watch[w].step = "scan"
      BY <1>4, <2>2 DEF RescanGet, TypeOK, WatchType
    <3>3. \/ Live(k) /\ watch'[w].step = "got" /\ watch'[w].rev = last[k]
          \/ watch'[w].step = "scan"
      BY <3>1, <3>2 DEF TypeOK, WatchType
    <3>. QED
      BY <1>4, <2>2, <3>2, <3>3 DEF WatchTo
  <2>. QED
    BY <2>1, <2>2
<1>5. ASSUME NEW v \in Watchers, RescanAct(v) PROVE WatchTo(w)
  <2>1. watch' = [watch EXCEPT ![v].step = "scan", ![v].rev = 0]
    BY <1>5 DEF RescanAct
  <2>2. IF v = w THEN watch'[w].step = "scan" ELSE watch'[w] = watch[w]
    BY <2>1 DEF TypeOK, WatchType
  <2>. QED
    BY <1>5, <2>2 DEF WatchTo
<1>6. ASSUME NEW q \in Replicas, Die(q) PROVE WatchTo(w)
  <2>1. watch'[w] = IF Host[w] = q THEN Closed ELSE watch[w]
    BY <1>6 DEF Die
  <2>. QED
    BY <1>0, <1>6, <2>1 DEF WatchTo
<1>7. CASE UNCHANGED watch
  BY <1>7 DEF WatchTo
<1>. QED
  BY <1>2, <1>3, <1>4, <1>5, <1>6, <1>7, StepsMove DEF WatchesMove

\* What a watcher is handed in a step.
PendingTo(w) ==
  \/ UNCHANGED <<log, last>> /\ pending'[w] = pending[w]
  \/ UNCHANGED <<watch, status>> /\ \E e \in Entry : Write(e)
  \/ /\ UNCHANGED <<log, last, status>> /\ OpenWatch(w)
     /\ \A k \in Watches[w] : Live(k) => last[k] \in pending'[w]
  \/ UNCHANGED <<log, last>> /\ (CloseWatch(w) \/ Die(Host[w])) /\ pending'[w] = {}
  \/ /\ UNCHANGED <<log, last, watch, status>>
     /\ \E n \in pending[w] : n # last[KeyOf(n)] /\ pending'[w] = pending[w] \ {n}
  \/ /\ UNCHANGED <<log, last, watch, status>> /\ HandleWatchEntry(w)
     /\ \E n \in pending[w] : /\ \A m \in pending[w] : n <= m
                              /\ pending'[w] = pending[w] \ {n}
                              /\ IF log[n].op = "put" THEN ScheduleTimer(Host[w], n, log[n].exp)
                                                      ELSE StopTimer(Host[w], KeyOf(n))

LEMMA PendingMoves ==
  ASSUME TypeOK, Parameters, [Next]_vars, NEW w \in Watchers
  PROVE  PendingTo(w)
<1>1. CASE \E p \in Procs : Remove(p) \/ RemoveFails(p)
  <2>1. PICK p \in Procs : Remove(p) \/ RemoveFails(p)
    BY <1>1
  <2>. DEFINE n == attempt[p].rev
              e == Marker("fire", KeyOf(n), n)
  <2>2. e \in Entry
    BY <2>1, PutsAreRevisions, Entries DEF Remove, RemoveFails, TypeOK, AttemptType
  <2>3. (UNCHANGED store \/ Write(e)) /\ UNCHANGED <<watch, status>>
    BY <2>1 DEF Remove, RemoveFails
  <2>. QED
    BY <2>2, <2>3 DEF PendingTo, store
<1>2. CASE \/ \E k \in Keys : Add(k)
           \/ \E r \in Replicas, k \in Keys : Clear(r, k)
  <2>1. \E e \in Entry : Write(e)
    BY <1>2, Entries, PutsAreRevisions DEF Add, Clear, TypeOK, Parameters
  <2>2. UNCHANGED <<watch, status>>
    BY <1>2 DEF Add, Clear
  <2>. QED
    BY <2>1, <2>2 DEF PendingTo
<1>3. CASE \E h \in Holders : HoldUpdate(h) \/ HoldUpdateFails(h) \/ HoldRestore(h)
  <2>1. PICK h \in Holders : HoldUpdate(h) \/ HoldUpdateFails(h) \/ HoldRestore(h)
    BY <1>3
  <2>. DEFINE n == hold[h].orig
  <2>2. n \in Puts /\ log[n].exp \in Nat /\ HoldDeadline(log[n].exp) \in Nat
    BY <2>1, PutsAreRevisions DEF HoldUpdate, HoldUpdateFails, HoldRestore, HoldDeadline, TypeOK, HoldType, Parameters
  <2>3. UNCHANGED store \/ \E e \in Entry : Write(e)
    BY <2>1, <2>2, Entries DEF HoldUpdate, HoldUpdateFails, HoldRestore
  <2>4. UNCHANGED <<watch, status>>
    BY <2>1 DEF HoldUpdate, HoldUpdateFails, HoldRestore
  <2>. QED
    BY <2>3, <2>4 DEF PendingTo, store
<1>4. ASSUME NEW v \in Watchers, Watching(v) PROVE PendingTo(w)
  <2>1. ASSUME NEW s, pending' = [pending EXCEPT ![v] = s]
        PROVE  pending'[w] = IF v = w THEN s ELSE pending[w]
    BY <2>1 DEF TypeOK, StoreType
  <2>2. CASE OpenWatch(v)
    <3>1. PICK gone \in SUBSET {k \in Watches[v] : ~Live(k)} :
            pending' = [pending EXCEPT ![v] = {last[k] : k \in {j \in Watches[v] \ gone : last[j] # 0}}]
      BY <2>2 DEF OpenWatch
    <3>. DEFINE s == {last[k] : k \in {j \in Watches[v] \ gone : last[j] # 0}}
    <3>2. \A k \in Watches[v] : Live(k) => last[k] \in s
      BY DEF Live
    <3>3. pending' = [pending EXCEPT ![v] = s]
      BY <3>1
    <3>. HIDE DEF s
    <3>4. pending'[w] = IF v = w THEN s ELSE pending[w]
      BY <2>1, <3>3
    <3>5. UNCHANGED <<log, last, status>>
      BY <2>2 DEF OpenWatch
    <3>. QED
      BY <2>2, <3>2, <3>4, <3>5 DEF PendingTo
  <2>3. CASE CloseWatch(v)
    <3>1. pending' = [pending EXCEPT ![v] = {}] /\ UNCHANGED <<log, last>>
      BY <2>3 DEF CloseWatch
    <3>. QED
      BY <2>1, <2>3, <3>1 DEF PendingTo
  <2>4. CASE SkipSuperseded(v)
    <3>1. PICK n \in pending[v] : n # last[KeyOf(n)] /\ pending' = [pending EXCEPT ![v] = @ \ {n}]
      BY <2>4 DEF SkipSuperseded
    <3>2. pending'[w] = IF v = w THEN pending[v] \ {n} ELSE pending[w]
      BY <3>1 DEF TypeOK, StoreType
    <3>3. UNCHANGED <<log, last, watch, status>>
      BY <2>4 DEF SkipSuperseded
    <3>. QED
      BY <3>1, <3>2, <3>3 DEF PendingTo
  <2>5. CASE HandleWatchEntry(v)
    <3>1. PICK n \in pending[v] :
            /\ \A m \in pending[v] : n <= m
            /\ pending' = [pending EXCEPT ![v] = @ \ {n}]
            /\ IF log[n].op = "put" THEN ScheduleTimer(Host[v], n, log[n].exp)
                                    ELSE StopTimer(Host[v], KeyOf(n))
      BY <2>5 DEF HandleWatchEntry
    <3>2. pending'[w] = IF v = w THEN pending[v] \ {n} ELSE pending[w]
      BY <3>1 DEF TypeOK, StoreType
    <3>3. UNCHANGED <<log, last, watch, status>>
      BY <2>5 DEF HandleWatchEntry
    <3>. QED
      BY <2>5, <3>1, <3>2, <3>3 DEF PendingTo
  <2>6. CASE RescanStart(v) \/ RescanGet(v) \/ RescanAct(v) \/ RescanEnd(v)
    BY <2>6 DEF RescanStart, RescanGet, RescanAct, RescanEnd, store, PendingTo
  <2>. QED
    BY <1>4, <2>2, <2>3, <2>4, <2>5, <2>6 DEF Watching
<1>5. ASSUME NEW q \in Replicas, Die(q) PROVE PendingTo(w)
  <2>1. pending'[w] = (IF Host[w] = q THEN {} ELSE pending[w]) /\ UNCHANGED <<log, last>>
    BY <1>5 DEF Die
  <2>. QED
    BY <1>5, <2>1 DEF PendingTo
<1>6. CASE UNCHANGED store
  BY <1>6 DEF store, PendingTo
<1>7. CASE \/ Tick \/ UNCHANGED vars
           \/ \E p \in Procs : DropReference(p) \/ RetryLater(p) \/ Callback(p)
           \/ \E p \in Runners : OrphanElapses(p) \/ \E k \in Keys : TimerElapses(p, k)
           \/ \E h \in Holders : \/ \E k \in Keys : HoldRead(h, k)
                                 \/ Release(h) \/ HoldCheck(h) \/ HoldAbandoned(h)
           \/ \E r \in Replicas : Stop(r) \/ Start(r) \/ \E k \in Keys : ClearStopTimer(r, k)
  <2>1. UNCHANGED store
    BY <1>7 DEF Tick, vars, DropReference, RetryLater, Callback, OrphanElapses, TimerElapses, HoldRead,
                Release, HoldCheck, HoldAbandoned, Stop, Start, ClearStopTimer, store
  <2>. QED
    BY <1>6, <2>1
<1>. QED
  BY <1>1, <1>2, <1>3, <1>4, <1>5, <1>7 DEF Next, TryFire, Holding

\* A value handed on after a step was there before, and is handed on by the step only
\* with its timer scheduled.
Scheduled(w, k) ==
  /\ HandleWatchEntry(w) /\ ScheduleTimer(Host[w], last[k], log[last[k]].exp)
  /\ UNCHANGED <<log, last, watch, status>>
  /\ \A m \in pending[w] : last[k] <= m
  /\ pending'[w] = pending[w] \ {last[k]}

LEMMA HandedBefore ==
  ASSUME TypeOK, PayloadsOK, DownIsBare, Parameters, [Next]_vars,
         NEW w \in Watchers, NEW k \in Watches[w], Handed(w, k)'
  PROVE  /\ last'[k] = last[k] /\ k \in Keys /\ Live(k) /\ Open(w)
         /\ last[k] \in Puts /\ KeyOf(last[k]) = k
         /\ \A n \in pending'[w] : n \in pending[w] \/ log'[n].key # k
         /\ status'[Host[w]] = "up" => status[Host[w]] = "up"
         /\ Handed(w, k) \/ Scheduled(w, k)
<1>0. k \in Keys /\ last[k] \in 0..Len(log) /\ Host[w] \in Replicas /\ Len(log) \in Nat
  BY PutsAreRevisions DEF Parameters, TypeOK, StoreType, Procs
<1>h. last'[k] # 0 /\ log'[last'[k]].op = "put" /\ last'[k] \notin pending'[w] /\ watch'[w].step # "closed"
  BY DEF Handed, Live, Open
<1>. DEFINE Kept == /\ last'[k] = last[k] /\ log'[last[k]] = log[last[k]] /\ Open(w)
                    /\ status'[Host[w]] = "up" => status[Host[w]] = "up"
                    /\ \A n \in pending'[w] : n \in pending[w] \/ log'[n].key # k
                    /\ last[k] \notin pending[w] \/ Scheduled(w, k)
<1>1. Kept
  <2>0. Open(w) /\ status'[Host[w]] = "up" => status[Host[w]] = "up"
    <3>1. status[Host[w]] = "down" => ~Open(w)
      BY <1>0 DEF DownIsBare
    <3>. QED
      BY <1>0, <3>1, StatusOf DEF TypeOK
  <2>w. \/ watch'[w] = watch[w]
        \/ OpenWatch(w)
        \/ Open(w)
    <3>1. RescanStart(w) => Open(w)
      BY DEF RescanStart, Open, Idle
    <3>2. RescanGet(w) \/ RescanEnd(w) => watch[w].step = "scan"
      BY Zenon DEF RescanGet, RescanEnd
    <3>3. RescanAct(w) => watch[w].step = "got"
      BY Zenon DEF RescanAct
    <3>. QED
      BY WatchMoves, <1>h, <3>1, <3>2, <3>3 DEF WatchTo, Open
  <2>1. CASE UNCHANGED <<log, last>> /\ pending'[w] = pending[w]
    <3>1. ~OpenWatch(w)
      <4>1. ASSUME OpenWatch(w) PROVE FALSE
        <5>1. PICK gone \in SUBSET {j \in Watches[w] : ~Live(j)} :
                pending' = [pending EXCEPT ![w] = {last[i] : i \in {j \in Watches[w] \ gone : last[j] # 0}}]
          BY <4>1 DEF OpenWatch
        <5>2. pending'[w] = {last[i] : i \in {j \in Watches[w] \ gone : last[j] # 0}}
          BY <5>1 DEF TypeOK, StoreType
        <5>3. k \notin gone /\ last[k] # 0
          BY <1>h, <2>1, <5>1 DEF Live
        <5>. QED
          BY <1>h, <2>1, <5>2, <5>3
      <4>. QED
        BY <4>1
    <3>2. Open(w)
      BY <1>h, <2>w, <3>1 DEF Open
    <3>. QED
      BY <1>h, <2>0, <2>1, <3>2
  <2>2. CASE UNCHANGED <<watch, status>> /\ \E e \in Entry : Write(e)
    <3>1. PICK e \in Entry : Write(e)
      BY <2>2
    <3>2. pending'[w] = IF watch[w].step # "closed" /\ e.key \in Watches[w]
                        THEN pending[w] \cup {Len(log) + 1} ELSE pending[w]
      BY <3>1 DEF Write
    <3>3. last'[e.key] = Len(log) + 1 /\ (k # e.key => last'[k] = last[k]) /\ log'[Len(log) + 1] = e
          /\ \A n \in 1..Len(log) : log'[n] = log[n]
      BY <1>0, <3>1, WriteGrows
    <3>4. watch[w].step # "closed"
      BY <1>h, <2>2
    <3>5. k # e.key
      BY <1>h, <3>2, <3>3, <3>4
    <3>6. log'[last[k]] = log[last[k]]
      BY <1>0, <1>h, <3>3, <3>5
    <3>7. log'[Len(log) + 1].key # k
      BY <3>3, <3>5
    <3>8. last[k] \notin pending[w]
      BY <1>h, <3>2, <3>3, <3>5
    <3>. QED
      BY <2>2, <3>2, <3>3, <3>4, <3>5, <3>6, <3>7, <3>8 DEF Open
  <2>3. CASE OpenWatch(w) /\ UNCHANGED <<log, last>> /\ \A j \in Watches[w] : Live(j) => last[j] \in pending'[w]
    BY <1>h, <2>3 DEF Live
  <2>4. CASE (CloseWatch(w) \/ Die(Host[w])) /\ pending'[w] = {}
    <3>1. CloseWatch(w) => watch'[w] = Closed
      BY DEF CloseWatch, TypeOK, WatchType
    <3>2. Die(Host[w]) => watch'[w] = Closed
      BY DEF Die
    <3>. QED
      BY <1>h, <2>4, <3>1, <3>2 DEF Closed, Idle
  <2>5. CASE /\ UNCHANGED <<log, last, watch, status>>
             /\ \E n \in pending[w] : n # last[KeyOf(n)] /\ pending'[w] = pending[w] \ {n}
    <3>1. PICK n \in pending[w] : n # last[KeyOf(n)] /\ pending'[w] = pending[w] \ {n}
      BY <2>5
    <3>2. KeyOf(last[k]) = k
      BY <1>0, <1>h, <2>5 DEF PayloadsOK
    <3>3. last[k] \notin pending[w]
      BY <1>h, <2>5, <3>1, <3>2
    <3>. QED
      BY <1>h, <2>5, <3>1, <3>3 DEF Open
  <2>6. CASE /\ UNCHANGED <<log, last, watch, status>> /\ HandleWatchEntry(w)
             /\ \E n \in pending[w] : /\ \A m \in pending[w] : n <= m
                                      /\ pending'[w] = pending[w] \ {n}
                                      /\ IF log[n].op = "put" THEN ScheduleTimer(Host[w], n, log[n].exp)
                                                              ELSE StopTimer(Host[w], KeyOf(n))
    <3>1. PICK n \in pending[w] : /\ \A m \in pending[w] : n <= m
                                  /\ pending'[w] = pending[w] \ {n}
                                  /\ IF log[n].op = "put" THEN ScheduleTimer(Host[w], n, log[n].exp)
                                                          ELSE StopTimer(Host[w], KeyOf(n))
      BY <2>6
    <3>2. last[k] \in pending[w] => n = last[k]
      BY <1>h, <2>6, <3>1
    <3>3. last[k] \in pending[w] => Scheduled(w, k)
      BY <1>h, <2>6, <3>1, <3>2 DEF Scheduled
    <3>. QED
      BY <1>h, <2>6, <3>1, <3>3 DEF Open
  <2>. HIDE DEF Kept
  <2>. QED
    BY PendingMoves, <2>1, <2>2, <2>3, <2>4, <2>5, <2>6 DEF PendingTo
<1>2. last[k] \in Puts /\ KeyOf(last[k]) = k /\ Live(k)
  BY <1>0, <1>1, <1>h DEF Puts, PayloadsOK, Live
<1>. QED
  BY <1>0, <1>1, <1>2 DEF Handed

-----------------------------------------------------------------------------
(* The steps keep what covers a value *)

LEMMA StepOf ==
  /\ NoAttempt.step = "idle" /\ NoAttempt.rev = 0 /\ ~NoTimer.running
  /\ Idle.step = "idle" /\ Closed.step = "closed"
BY DEF NoAttempt, NoTimer, Idle, Closed

\* Each step of an attempt has its place, and each step of a watcher.
LEMMA StepAt ==
  /\ \A p : DropReference(p) => attempt[p].step = "start"
  /\ \A p : Remove(p) \/ RemoveFails(p) => attempt[p].step = "removing"
  /\ \A p : RetryLater(p) => attempt[p].step = "failed"
  /\ \A p : Callback(p) => attempt[p].step = "won"
  /\ \A w : OpenWatch(w) => watch[w] = Closed /\ status[Host[w]] = "up"
  /\ \A w : CloseWatch(w) \/ HandleWatchEntry(w) \/ RescanStart(w) => watch[w] = Idle
  /\ \A w : RescanGet(w) => watch[w].step = "scan" /\ attempt[w] = NoAttempt
  /\ \A w : RescanEnd(w) => watch[w].step = "scan" /\ attempt[w] = NoAttempt
  /\ \A w : RescanAct(w) => watch[w].step = "got"
<1>1. \A p : DropReference(p) => attempt[p].step = "start"
  BY Zenon DEF DropReference
<1>2. \A p : Remove(p) \/ RemoveFails(p) => attempt[p].step = "removing"
  BY Zenon DEF Remove, RemoveFails
<1>3. \A p : RetryLater(p) => attempt[p].step = "failed"
  BY Zenon DEF RetryLater
<1>4. \A p : Callback(p) => attempt[p].step = "won"
  BY Zenon DEF Callback
<1>5. \A w : OpenWatch(w) => watch[w] = Closed /\ status[Host[w]] = "up"
  BY Zenon DEF OpenWatch
<1>6. \A w : CloseWatch(w) \/ HandleWatchEntry(w) \/ RescanStart(w) => watch[w] = Idle
  BY Zenon DEF CloseWatch, HandleWatchEntry, RescanStart
<1>7. \A w : RescanGet(w) => watch[w].step = "scan" /\ attempt[w] = NoAttempt
  BY Zenon DEF RescanGet
<1>8. \A w : RescanEnd(w) => watch[w].step = "scan" /\ attempt[w] = NoAttempt
  BY Zenon DEF RescanEnd
<1>9. \A w : RescanAct(w) => watch[w].step = "got"
  BY Zenon DEF RescanAct
<1>. QED
  BY <1>1, <1>2, <1>3, <1>4, <1>5, <1>6, <1>7, <1>8, <1>9

\* A process that is down stays bare until it starts again.
LEMMA DownStays ==
  ASSUME TypeOK, DownIsBare, AttemptsInScan, Parameters, [Next]_vars
  PROVE  DownIsBare'
<1>. SUFFICES ASSUME NEW r \in Replicas, status'[r] = "down"
              PROVE  /\ \A k \in Keys : timers'[r][k] = NoTimer
                     /\ orphans'[r] = {}
                     /\ \A w \in Watchers : Host[w] = r => watch'[w].step = "closed"
                     /\ \A p \in Procs : Host[p] = r => attempt'[p] = NoAttempt
  BY DEF DownIsBare, Open
<1>1. CASE Die(r)
  <2>1. timers' = [timers EXCEPT ![r] = [k \in Keys |-> NoTimer]] /\ orphans' = [orphans EXCEPT ![r] = {}]
    BY <1>1 DEF Die
  <2>2. \A k \in Keys : timers'[r][k] = NoTimer
    BY <2>1 DEF TypeOK, TimersType
  <2>3. orphans'[r] = {}
    BY <2>1 DEF TypeOK, OrphansType
  <2>4. \A w \in Watchers : Host[w] = r => watch'[w].step = "closed"
    BY <1>1, StepOf DEF Die
  <2>5. \A p \in Procs : Host[p] = r => attempt'[p] = NoAttempt
    BY <1>1 DEF Die
  <2>. QED
    BY <2>2, <2>3, <2>4, <2>5
<1>2. CASE ~Die(r)
  <2>0. /\ \A k \in Keys : timers[r][k] = NoTimer
        /\ orphans[r] = {}
        /\ \A w \in Watchers : Host[w] = r => watch[w].step = "closed"
        /\ \A p \in Procs : Host[p] = r => attempt[p] = NoAttempt
    <3>1. status[r] = "down"
      BY <1>2, StatusOf
    <3>. QED
      BY <3>1 DEF DownIsBare, Open
  <2>1. ASSUME NEW k \in Keys PROVE timers'[r][k] = NoTimer
    <3>1. ~timers[r][k].running
      BY <2>0, StepOf
    <3>2. \A n : ~Schedules(r, n)
      BY <2>0, StepAt, StepOf DEF Schedules
    <3>. QED
      BY <2>0, <3>1, <3>2, TimerMoves
  <2>2. orphans'[r] = {}
    BY <2>0, OrphanMoves, StepAt, StepOf
  <2>3. ASSUME NEW w \in Watchers, Host[w] = r PROVE watch'[w].step = "closed"
    <3>1. status[r] = "down"
      BY <1>2, StatusOf
    <3>. QED
      BY <2>0, <2>3, <3>1, WatchMoves, StepAt, StepOf DEF WatchTo
  <2>4. ASSUME NEW p \in Procs, Host[p] = r PROVE attempt'[p] = NoAttempt
    <3>1. attempt[p] = NoAttempt
      BY <2>0, <2>4
    <3>2. ~Begins(p)
      <4>1. OrphanElapses(p) => orphans[r] # {}
        BY <2>4 DEF OrphanElapses
      <4>2. \A k \in Keys : ~TimerElapses(p, k)
        BY <2>0, <2>4, StepOf DEF TimerElapses
      <4>3. p \in Watchers => watch[p].step # "got"
        BY <2>0, <2>4
      <4>. QED
        BY <2>0, <4>1, <4>2, <4>3, StepAt DEF Begins
    <3>. QED
      BY <3>1, <3>2, AttemptMoves, StepAt, StepOf DEF AttemptTo
  <2>. QED
    BY <2>1, <2>2, <2>3, <2>4
<1>. QED
  BY <1>1, <1>2

LEMMA ScanStays ==
  ASSUME TypeOK, AttemptsInScan, Parameters, [Next]_vars
  PROVE  AttemptsInScan'
<1>. SUFFICES ASSUME NEW w \in Watchers, watch'[w].step # "scan" PROVE attempt'[w] = NoAttempt
  BY DEF AttemptsInScan
<1>0. w \in Procs /\ w \notin Runners
  BY DEF Procs, Parameters
<1>1. CASE watch[w].step # "scan"
  <2>1. attempt[w] = NoAttempt
    BY <1>1 DEF AttemptsInScan
  <2>2. ~RescanAct(w)
    <3>1. RescanAct(w) => watch'[w].step = "scan"
      BY DEF RescanAct, TypeOK, WatchType
    <3>. QED
      BY <3>1
  <2>. QED
    BY <1>0, <2>1, <2>2, AttemptMoves, StepAt, StepOf DEF AttemptTo, Begins
<1>2. CASE watch[w].step = "scan"
  <2>1. CASE Die(Host[w])
    BY <1>0, <2>1 DEF Die
  <2>2. CASE ~Die(Host[w])
    <3>1. RescanGet(w) \/ RescanEnd(w)
      BY <1>2, <2>2, WatchMoves, StepAt, StepOf DEF WatchTo
    <3>2. attempt[w] = NoAttempt /\ UNCHANGED attempt
      BY <3>1, StepAt DEF RescanGet, RescanEnd
    <3>. QED
      BY <3>2
  <2>. QED
    BY <2>1, <2>2
<1>. QED
  BY <1>1, <1>2

\* A timer that elapses has its attempt begin, and dropping the reference ends both.
LEMMA TimersOfKeyStay ==
  ASSUME TypeOK, TimersOfKey, AttemptsInScan, Parameters, [Next]_vars
  PROVE  TimersOfKey'
<1>. SUFFICES ASSUME NEW r \in Replicas, NEW k \in Keys, timers'[r][k] # NoTimer
              PROVE  /\ timers'[r][k].rev \in Puts' /\ log'[timers'[r][k].rev].key = k
                     /\ \/ timers'[r][k].running
                        \/ \E p \in Procs :
                             Host[p] = r /\ attempt'[p] = [step |-> "start", rev |-> timers'[r][k].rev]
  BY DEF TimersOfKey, Elapsed, KeyOf
<1>0. \A n \in Puts : n \in Puts' /\ log'[n].key = KeyOf(n)
  BY LogKept DEF Puts, KeyOf
<1>1. CASE timers'[r][k] = timers[r][k] /\ timers[r][k].running
  BY <1>0, <1>1 DEF TimersOfKey
<1>2. CASE timers'[r][k] = timers[r][k] /\ ~timers[r][k].running
  <2>. DEFINE n == timers[r][k].rev
  <2>1. n \in Puts /\ KeyOf(n) = k /\ Elapsed(r, n)
    BY <1>2 DEF TimersOfKey
  <2>2. PICK p \in Procs : Host[p] = r /\ attempt[p] = [step |-> "start", rev |-> n]
    BY <2>1 DEF Elapsed
  <2>3. attempt[p].step = "start" /\ attempt[p].rev = n
    BY <2>2
  <2>4. ~DropReference(p)
    <3>1. ASSUME DropReference(p) PROVE FALSE
      <4>1. StopTimer(r, k)
        BY <2>1, <2>2, <2>3, <3>1 DEF DropReference
      <4>2. timers'[r][k] = NoTimer
        BY <4>1 DEF StopTimer, TypeOK, TimersType
      <4>. QED
        BY <4>2
    <3>. QED
      BY <3>1
  <2>5. ~Die(r)
    <3>1. Die(r) => timers'[r][k] = NoTimer
      BY DEF Die, TypeOK, TimersType
    <3>. QED
      BY <3>1
  <2>6. attempt'[p] = attempt[p]
    <3>1. attempt[p] # NoAttempt
      BY <2>3, StepOf
    <3>. QED
      BY <2>2, <2>3, <2>4, <2>5, <3>1, AttemptMoves, StepAt DEF AttemptTo, Begins
  <2>. QED
    BY <1>0, <1>2, <2>1, <2>2, <2>6
<1>3. ASSUME NEW p \in Runners, Host[p] = r, TimerElapses(p, k),
             timers'[r][k].rev = timers[r][k].rev, timers[r][k].running
      PROVE  /\ timers'[r][k].rev \in Puts' /\ log'[timers'[r][k].rev].key = k
             /\ \E q \in Procs : Host[q] = r /\ attempt'[q] = [step |-> "start", rev |-> timers'[r][k].rev]
  <2>. DEFINE n == timers[r][k].rev
  <2>1. n \in Puts /\ KeyOf(n) = k /\ p \in Procs
    BY <1>3, StepOf DEF TimersOfKey, Procs
  <2>2. Begin(p, n)
    BY <1>3 DEF TimerElapses
  <2>3. attempt'[p] = [step |-> "start", rev |-> n]
    <3>. DEFINE a == [step |-> "start", rev |-> n]
    <3>1. attempt' = [attempt EXCEPT ![p] = a]
      BY <2>2 DEF Begin
    <3>. HIDE DEF a
    <3>2. attempt'[p] = a
      BY <2>1, <3>1 DEF TypeOK, AttemptType
    <3>. QED
      BY <3>2 DEF a
  <2>. QED
    BY <1>0, <1>3, <2>1, <2>3
<1>4. CASE timers'[r][k].rev \in Puts /\ KeyOf(timers'[r][k].rev) = k /\ timers'[r][k].running
  BY <1>0, <1>4
<1>. QED
  BY <1>1, <1>2, <1>3, <1>4, TimerMoves

\* What a watcher has still to hand on comes after what it has handed on.
LEMMA InTurnStays ==
  ASSUME TypeOK, PayloadsOK, LastIsLast, DownIsBare, InTurn, Parameters, [Next]_vars
  PROVE  InTurn'
<1>. SUFFICES ASSUME NEW w \in Watchers, NEW k \in Watches[w]
              PROVE  /\ Handed(w, k)' => \A n \in pending'[w] : log'[n].key # k
                     /\ watch'[w].step = "got" /\ log'[watch'[w].rev].key = k =>
                          watch'[w].rev = last'[k] \/ last'[k] \in pending'[w]
  BY DEF InTurn, KeyOf
<1>0. /\ k \in Keys /\ last[k] \in 0..Len(log) /\ Len(log) \in Nat /\ pending[w] \subseteq 1..Len(log)
      /\ \A n \in 1..Len(log) : log'[n].key = KeyOf(n)
  BY PutsAreRevisions, LogKept DEF Parameters, TypeOK, StoreType, KeyOf
<1>1. ASSUME Handed(w, k)', NEW n \in pending'[w] PROVE log'[n].key # k
  <2>1. (n \in pending[w] \/ log'[n].key # k) /\ (Handed(w, k) \/ Scheduled(w, k))
    BY <1>1, HandedBefore
  <2>2. CASE n \in pending[w] /\ Handed(w, k)
    BY <1>0, <2>2 DEF InTurn
  <2>3. CASE n \in pending[w] /\ Scheduled(w, k)
    <3>1. n # last[k] /\ last[k] <= n /\ n \in 1..Len(log)
      BY <1>0, <1>1, <2>3 DEF Scheduled
    <3>2. n \in (last[k] + 1)..Len(log)
      BY <1>0, <3>1
    <3>. QED
      BY <1>0, <3>1, <3>2 DEF LastIsLast
  <2>. QED
    BY <2>1, <2>2, <2>3
<1>2. ASSUME watch'[w].step = "got", log'[watch'[w].rev].key = k
      PROVE  watch'[w].rev = last'[k] \/ last'[k] \in pending'[w]
  <2>1. CASE watch'[w] = watch[w]
    <3>. DEFINE n == watch[w].rev
    <3>1. n \in Puts /\ n \in 1..Len(log)
      BY <1>2, <2>1 DEF TypeOK, WatchType, Puts
    <3>2. n = last[k] \/ last[k] \in pending[w]
      BY <1>0, <1>2, <2>1, <3>1 DEF InTurn
    <3>. HIDE DEF n
    <3>3. ~(CloseWatch(w) \/ HandleWatchEntry(w) \/ OpenWatch(w)) /\ ~Die(Host[w])
      <4>1. Die(Host[w]) => watch'[w].step = "closed"
        BY StepOf DEF Die
      <4>. QED
        BY <1>2, <2>1, <4>1, StepAt, StepOf
    <3>4. CASE UNCHANGED <<watch, status>> /\ \E e \in Entry : Write(e)
      <4>1. PICK e \in Entry : Write(e)
        BY <3>4
      <4>2. pending'[w] = IF watch[w].step # "closed" /\ e.key \in Watches[w]
                          THEN pending[w] \cup {Len(log) + 1} ELSE pending[w]
        BY <4>1 DEF Write
      <4>3. last'[e.key] = Len(log) + 1 /\ (k # e.key => last'[k] = last[k])
        BY <1>0, <4>1, WriteGrows
      <4>. QED
        BY <1>2, <2>1, <3>2, <4>2, <4>3 DEF n
    <3>5. CASE UNCHANGED <<log, last>> /\ pending'[w] = pending[w]
      BY <2>1, <3>2, <3>5 DEF n
    <3>6. CASE /\ UNCHANGED <<log, last, watch, status>>
               /\ \E m \in pending[w] : m # last[KeyOf(m)] /\ pending'[w] = pending[w] \ {m}
      <4>1. PICK m \in pending[w] : m # last[KeyOf(m)] /\ pending'[w] = pending[w] \ {m}
        BY <3>6
      <4>2. last[k] \in pending[w] => KeyOf(last[k]) = k
        BY <1>0 DEF PayloadsOK
      <4>. QED
        BY <2>1, <3>2, <3>6, <4>1, <4>2 DEF n
    <3>. QED
      BY <3>3, <3>4, <3>5, <3>6, PendingMoves DEF PendingTo
  <2>2. CASE RescanGet(w) /\ \E j \in Keys : Live(j) /\ watch'[w].rev = last[j]
    <3>1. PICK j \in Keys : Live(j) /\ watch'[w].rev = last[j]
      BY <2>2
    <3>2. UNCHANGED <<log, last>>
      BY <2>2 DEF RescanGet, store
    <3>3. KeyOf(last[j]) = j
      BY <3>1 DEF PayloadsOK, Live
    <3>. QED
      BY <1>2, <3>1, <3>2, <3>3 DEF KeyOf
  <2>. QED
    BY <1>2, <2>1, <2>2, WatchMoves DEF WatchTo
<1>. QED
  BY <1>1, <1>2

LEMMA ClearsStayLogged ==
  ASSUME TypeOK, ClearsLogged, Parameters, [Next]_vars
  PROVE  ClearsLogged'
<1>. SUFFICES ASSUME NEW r \in Replicas, NEW k \in clearing'[r] PROVE ~Uncleared(k)'
  BY DEF ClearsLogged
<1>1. CASE k \in clearing[r]
  BY <1>1, LogKept DEF ClearsLogged
<1>2. ASSUME NEW q \in Replicas, NEW j \in Keys, Clear(q, j), k \notin clearing[r] PROVE ~Uncleared(k)'
  <2>. DEFINE e == Marker("clear", j, 0)
  <2>1. Write(e) /\ e \in Entry /\ e.op = "clear" /\ e.key = j
    BY <1>2, Entries DEF Clear, Marker
  <2>2. k = j
    BY <1>2 DEF Clear, TypeOK
  <2>. HIDE DEF e
  <2>3. Len(log') = Len(log) + 1 /\ log'[Len(log) + 1] = e /\ Len(log) \in Nat
    BY <2>1, WriteGrows
  <2>. QED
    BY <2>1, <2>2, <2>3 DEF Uncleared, KeyOf
<1>3. ASSUME NEW q \in Replicas, Die(q) \/ \E j \in Keys : ClearStopTimer(q, j)
      PROVE k \in clearing[r]
  BY <1>3 DEF Die, ClearStopTimer, TypeOK
<1>. QED
  BY <1>1, <1>2, <1>3, StepsMove DEF ClearingMoves

\* A removal fails in this step, or failed before.
LEMMA FailedBefore ==
  ASSUME TypeOK, AttemptsInScan, DownIsBare, Parameters, [Next]_vars,
         NEW p \in Procs, status'[Host[p]] = "up", attempt'[p].step = "failed"
  PROVE  /\ status[Host[p]] = "up"
         /\ \/ attempt[p].step = "failed"
            \/ RemoveFails(p) /\ faults' = faults + 1 /\ \A q \in Procs : q # p => attempt'[q] = attempt[q]
<1>0. Host[p] \in Replicas
  BY DEF Parameters
<1>1. attempt[p].step = "failed" \/ RemoveFails(p)
  <2>1. ~Begins(p)
    <3>1. ASSUME Begins(p) PROVE FALSE
      <4>1. PICK n \in Puts : attempt'[p] = [step |-> "start", rev |-> n]
        BY <3>1 DEF Begins
      <4>2. attempt'[p].step = "start"
        BY <4>1
      <4>. QED
        BY <4>2
    <3>. QED
      BY <3>1
  <2>2. \A a : /\ attempt'[p] # [step |-> "removing", rev |-> a]
               /\ attempt'[p] # [step |-> "won", rev |-> a]
               /\ attempt'[p] # NoAttempt
    BY StepOf
  <2>3. AttemptTo(p)
    BY AttemptMoves
  <2>. QED
    BY <2>1, <2>2, <2>3 DEF AttemptTo
<1>2. attempt[p] # NoAttempt
  BY <1>1, StepAt, StepOf
<1>3. status[Host[p]] = "up"
  <2>1. status[Host[p]] # "down"
    BY <1>0, <1>2 DEF DownIsBare
  <2>. QED
    BY <1>0, <2>1, StatusOf
<1>4. RemoveFails(p) => faults' = faults + 1 /\ \A q \in Procs : q # p => attempt'[q] = attempt[q]
  BY <1>3 DEF RemoveFails, Fault, Goto, TypeOK, AttemptType
<1>. QED
  BY <1>1, <1>3, <1>4

LEMMA FailuresStay ==
  ASSUME TypeOK, AttemptsInScan, DownIsBare, FailedByFault, Parameters, [Next]_vars
  PROVE  FailedByFault'
<1>. SUFFICES ASSUME NEW r \in Replicas, status'[r] = "up"
              PROVE  /\ \A p \in Procs : Host[p] = r /\ attempt'[p].step = "failed" => faults' > 0
                     /\ \A p, q \in Procs :
                          /\ Host[p] = r /\ attempt'[p].step = "failed"
                          /\ Host[q] = r /\ attempt'[q].step = "failed"
                          /\ p # q
                          => faults' > 1
  BY DEF FailedByFault, Failed
<1>0. faults \in Nat /\ faults' \in Nat /\ (faults' = faults \/ faults' = faults + 1)
  BY FaultsKept DEF TypeOK
<1>1. ASSUME NEW p \in Procs, Host[p] = r, attempt[p].step = "failed", status[r] = "up" PROVE faults > 0
  BY <1>1 DEF FailedByFault, Failed
<1>2. ASSUME NEW p \in Procs, NEW q \in Procs, p # q, Host[p] = r, attempt[p].step = "failed",
             Host[q] = r, attempt[q].step = "failed", status[r] = "up"
      PROVE  faults > 1
  BY <1>2 DEF FailedByFault, Failed
<1>3. ASSUME NEW p \in Procs, Host[p] = r, attempt'[p].step = "failed" PROVE faults' > 0
  BY <1>0, <1>1, <1>3, FailedBefore
<1>4. ASSUME NEW p \in Procs, NEW q \in Procs, p # q, Host[p] = r, attempt'[p].step = "failed",
             Host[q] = r, attempt'[q].step = "failed"
      PROVE  faults' > 1
  <2>1. /\ status[r] = "up"
        /\ \/ attempt[p].step = "failed"
           \/ RemoveFails(p) /\ faults' = faults + 1 /\ \A i \in Procs : i # p => attempt'[i] = attempt[i]
    BY <1>4, FailedBefore
  <2>2. \/ attempt[q].step = "failed"
        \/ RemoveFails(q) /\ faults' = faults + 1 /\ \A i \in Procs : i # q => attempt'[i] = attempt[i]
    BY <1>4, FailedBefore
  <2>3. CASE attempt[p].step = "failed" /\ attempt[q].step = "failed"
    <3>1. faults > 1
      BY <1>2, <1>4, <2>1, <2>3
    <3>. QED
      BY <1>0, <3>1
  <2>4. CASE attempt[p].step # "failed"
    <3>1. attempt[q].step = "failed" /\ faults' = faults + 1
      BY <1>4, <2>1, <2>4
    <3>2. faults > 0
      BY <1>1, <1>4, <2>1, <3>1
    <3>. QED
      BY <1>0, <3>1, <3>2
  <2>5. CASE attempt[q].step # "failed"
    <3>1. attempt[p].step = "failed" /\ faults' = faults + 1
      BY <1>4, <2>2, <2>5
    <3>2. faults > 0
      BY <1>1, <1>4, <2>1, <3>1
    <3>. QED
      BY <1>0, <3>1, <3>2
  <2>. QED
    BY <2>3, <2>4, <2>5
<1>. QED
  BY <1>3, <1>4

\* The retry of another revision takes an attempt that failed before it.
LEMMA RetriesStay ==
  ASSUME TypeOK, PayloadsOK, DownIsBare, AttemptsInScan, InTurn, FailedByFault, RetriedByFault,
         Parameters, [Next]_vars
  PROVE  RetriedByFault'
<1>. SUFFICES ASSUME NEW w \in Watchers, NEW k \in Watches[w], NEW r \in Replicas, r = Host[w],
                     Sole(w), Handed(w, k)', status'[r] = "up",
                     timers'[r][k] # NoTimer, timers'[r][k].rev # last'[k]
              PROVE  /\ faults' > 0
                     /\ \A p \in Procs : Host[p] = r /\ attempt'[p].step = "failed" => faults' > 1
  <2>1. \A w \in Watchers : Host[w] \in Replicas
    BY DEF Parameters, Procs
  <2>. QED
    BY <2>1 DEF RetriedByFault, Failed, Sole
<1>0. /\ last'[k] = last[k] /\ k \in Keys /\ last[k] \in Puts /\ KeyOf(last[k]) = k /\ status[r] = "up"
      /\ Handed(w, k) \/ Scheduled(w, k)
  BY HandedBefore
<1>1. ~Scheduled(w, k)
  <2>1. ASSUME Scheduled(w, k) PROVE FALSE
    <3>. DEFINE t == [rev |-> last[k], due |-> log[last[k]].exp, running |-> TRUE]
    <3>1. timers' = [timers EXCEPT ![r][k] = t] /\ t.rev = last[k]
      BY <1>0, <2>1 DEF Scheduled, ScheduleTimer
    <3>. HIDE DEF t
    <3>2. timers'[r][k] = t
      BY <1>0, <3>1 DEF TypeOK, TimersType
    <3>. QED
      BY <1>0, <3>1, <3>2
  <2>. QED
    BY <2>1
<1>2. Handed(w, k) /\ last[k] \notin pending[w] /\ \A n \in pending[w] : KeyOf(n) # k
  BY <1>0, <1>1 DEF Handed, InTurn
<1>3. faults \in Nat /\ faults' \in Nat /\ (faults' = faults \/ faults' = faults + 1)
  BY FaultsKept DEF TypeOK
<1>4. ASSUME NEW p \in Procs, Host[p] = r, attempt'[p].step = "failed"
      PROVE  attempt[p].step = "failed" \/ faults' = faults + 1
  BY <1>4, FailedBefore
<1>5. ASSUME timers[r][k] # NoTimer, timers[r][k].rev = timers'[r][k].rev
      PROVE  /\ faults' > 0
             /\ \A p \in Procs : Host[p] = r /\ attempt'[p].step = "failed" => faults' > 1
  <2>1. faults > 0 /\ \A p \in Procs : Host[p] = r /\ attempt[p].step = "failed" => faults > 1
    BY <1>0, <1>2, <1>5 DEF RetriedByFault, Failed
  <2>2. faults' > 0
    BY <1>3, <2>1
  <2>3. ASSUME NEW p \in Procs, Host[p] = r, attempt'[p].step = "failed" PROVE faults' > 1
    <3>1. CASE attempt[p].step = "failed"
      <4>1. faults > 1
        BY <2>1, <2>3, <3>1
      <4>. QED
        BY <1>3, <4>1
    <3>2. CASE faults' = faults + 1
      BY <1>3, <2>1, <3>2
    <3>. QED
      BY <1>4, <2>3, <3>1, <3>2
  <2>. QED
    BY <2>2, <2>3
<1>6. ASSUME NEW n, n = timers'[r][k].rev, n \in Puts, KeyOf(n) = k, Schedules(r, n)
      PROVE  /\ faults' > 0
             /\ \A p \in Procs : Host[p] = r /\ attempt'[p].step = "failed" => faults' > 1
  <2>1. n # last[k]
    BY <1>0, <1>6
  <2>2. PICK q \in Procs : Host[q] = r /\ RetryLater(q)
    <3>1. \A v \in Watchers : Host[v] = r => v = w
      BY DEF Sole
    <3>2. n \notin pending[w]
      BY <1>2, <1>6
    <3>3. watch[w].step = "got" => n # watch[w].rev
      BY <1>2, <1>6, <2>1 DEF InTurn
    <3>. QED
      BY <1>6, <3>1, <3>2, <3>3, StepAt DEF Schedules
  <2>3. attempt[q].step = "failed" /\ attempt'[q] = NoAttempt
    BY <2>2, StepAt DEF RetryLater, End, TypeOK, AttemptType
  <2>4. faults > 0
    BY <1>0, <2>2, <2>3 DEF FailedByFault, Failed
  <2>5. ASSUME NEW p \in Procs, Host[p] = r, attempt'[p].step = "failed" PROVE faults' > 1
    <3>1. p # q
      BY <2>3, <2>5, StepOf
    <3>2. CASE attempt[p].step = "failed"
      <4>1. faults > 1
        BY <1>0, <2>2, <2>3, <2>5, <3>1, <3>2 DEF FailedByFault, Failed
      <4>. QED
        BY <1>3, <4>1
    <3>3. CASE faults' = faults + 1
      BY <1>3, <2>4, <3>3
    <3>. QED
      BY <1>4, <2>5, <3>2, <3>3
  <2>. QED
    BY <1>3, <2>4, <2>5
<1>. QED
  BY <1>0, <1>5, <1>6, TimerMoves, StepOf

\* The timer of a value elapses into an attempt, is dropped into the orphans, or is
\* replaced by a retry of the same revision; a removal of the value ends it.
LEMMA CoveredStays ==
  ASSUME TypeOK, PayloadsOK, LastIsLast, WonRemoved, DownIsBare, TimersOfKey, AttemptsInScan,
         InTurn, ClearsLogged, Parameters, [Next]_vars,
         NEW w \in Watchers, NEW k \in Watches[w], NEW r \in Replicas, r = Host[w],
         Sole(w), Handed(w, k)', status'[r] = "up", Uncleared(k)',
         Handed(w, k) => HasTimer(r, k) /\ WillRetry(r, k)
  PROVE  HasTimer(r, k)'
<1>. DEFINE n == last[k]
            Goal == \/ timers'[r][k].running /\ timers'[r][k].rev = n
                    \/ \E t \in orphans'[r] : t.rev = n
                    \/ \E p \in Procs : Host[p] = r /\ attempt'[p].rev = n
<1>0. /\ last'[k] = n /\ k \in Keys /\ n \in Puts /\ n # 0 /\ KeyOf(n) = k /\ status[r] = "up"
      /\ Handed(w, k) \/ Scheduled(w, k)
  BY HandedBefore, PutsAreRevisions DEF TypeOK
<1>g. SUFFICES Goal
  BY <1>0 DEF HasTimer
<1>1. CASE Scheduled(w, k)
  <2>. DEFINE t == [rev |-> n, due |-> log[n].exp, running |-> TRUE]
  <2>1. timers' = [timers EXCEPT ![r][k] = t] /\ t.rev = n /\ t.running
    BY <1>0, <1>1 DEF Scheduled, ScheduleTimer
  <2>. HIDE DEF t
  <2>2. timers'[r][k] = t
    BY <1>0, <2>1 DEF TypeOK, TimersType
  <2>. QED
    BY <1>0, <2>1, <2>2
<1>2. CASE Handed(w, k)
  <2>1. Uncleared(k)
    BY LogKept
  <2>2. HasTimer(r, k) /\ WillRetry(r, k)
    BY <1>2
  <2>3. \A m \in pending[w] : KeyOf(m) # k
    BY <1>2 DEF InTurn
  <2>4. n \notin pending[w] /\ (watch[w].step = "got" /\ KeyOf(watch[w].rev) = k => watch[w].rev = n)
    BY <1>2 DEF InTurn, Handed
  <2>5. \A v \in Watchers : Host[v] = r => v = w
    BY DEF Sole
  <2>6. ASSUME timers[r][k].running, timers[r][k].rev = n PROVE Goal
    <3>1. CASE timers'[r][k] = timers[r][k]
      BY <2>6, <3>1
    <3>2. CASE Drops(r, k)
      <4>1. ~ClearStopTimer(r, k)
        <5>1. k \notin clearing[r]
          BY <1>0, <2>1 DEF ClearsLogged
        <5>. QED
          BY <5>1 DEF ClearStopTimer
      <4>2. PICK p \in Procs : Host[p] = r /\ DropReference(p) /\ KeyOf(attempt[p].rev) = k
        BY <2>3, <2>5, <3>2, <4>1 DEF Drops
      <4>. DEFINE u == timers[r][k]
      <4>3. orphans' = [orphans EXCEPT ![r] = @ \cup
                          {[rev |-> v.rev, due |-> v.due] : v \in {x \in {u} : x.running}}]
        BY <4>2 DEF DropReference
      <4>4. [rev |-> u.rev, due |-> u.due] \in orphans'[r]
        BY <2>6, <4>3 DEF TypeOK, OrphansType
      <4>5. [rev |-> u.rev, due |-> u.due].rev = n
        BY <2>6
      <4>. QED
        BY <4>4, <4>5
    <3>3. ASSUME NEW p \in Runners, Host[p] = r, TimerElapses(p, k) PROVE Goal
      <4>1. Begin(p, n) /\ p \in Procs
        BY <2>6, <3>3 DEF TimerElapses, Procs
      <4>2. attempt'[p].rev = n
        BY <4>1 DEF Begin, TypeOK, AttemptType
      <4>. QED
        BY <3>3, <4>1, <4>2
    <3>4. ASSUME NEW m, m = timers'[r][k].rev, m \in Puts, KeyOf(m) = k,
                 timers'[r][k].running, Schedules(r, m)
          PROVE  Goal
      <4>1. ~\E p \in Procs : Host[p] = r /\ RetryLater(p) /\ timers[r][KeyOf(m)] = NoTimer
        BY <2>6, <3>4, StepOf
      <4>2. m = watch[w].rev /\ watch[w].step = "got"
        BY <2>3, <2>5, <3>4, <4>1, StepAt DEF Schedules
      <4>. QED
        BY <2>4, <3>4, <4>2
    <3>. HIDE DEF Goal
    <3>. QED
      BY <3>1, <3>2, <3>3, <3>4, TimerMoves
  <2>7. ASSUME NEW t \in orphans[r], t.rev = n PROVE Goal
    BY <2>7, OrphanMoves
  <2>8. ASSUME NEW p \in Procs, Host[p] = r, attempt[p].rev = n PROVE Goal
    <3>0. attempt[p] # NoAttempt
      BY <1>0, <2>8, StepOf
    <3>1. ~Begins(p)
      BY <3>0 DEF Begins
    <3>2. CASE DropReference(p) /\ status[Host[p]] = "up"
      <4>1. attempt'[p] = [step |-> "removing", rev |-> n]
        BY <2>8, <3>1, <3>2 DEF DropReference, Goto, TypeOK, AttemptType
      <4>2. attempt'[p].rev = n
        BY <4>1
      <4>. QED
        BY <2>8, <4>2
    <3>3. ~Remove(p)
      <4>1. ASSUME Remove(p) PROVE FALSE
        <5>. DEFINE e == Marker("fire", k, n)
        <5>1. Write(e)
          BY <1>0, <2>8, <4>1 DEF Remove, RemovalAccepted
        <5>2. e \in Entry /\ e.key = k
          <6>1. n \in Nat
            BY <1>0 DEF Puts
          <6>2. e \in Entry
            BY <1>0, <6>1, Entries
          <6>. QED
            BY <6>2 DEF Marker
        <5>. HIDE DEF e
        <5>3. last'[k] = Len(log) + 1 /\ n \in 1..Len(log) /\ Len(log) \in Nat
          BY <1>0, <5>1, <5>2, WriteGrows DEF Puts
        <5>. QED
          BY <1>0, <5>3
      <4>. QED
        BY <4>1
    <3>4. CASE RemoveFails(p)
      <4>1. attempt'[p].rev = n
        BY <2>8, <3>4 DEF RemoveFails, Goto, TypeOK, AttemptType
      <4>. QED
        BY <2>8, <4>1
    <3>5. CASE RetryLater(p)
      <4>1. attempt[p].step = "failed"
        BY <3>5, StepAt
      <4>2. CASE timers[r][k] = NoTimer
        <5>. DEFINE t == [rev |-> n, due |-> now, running |-> TRUE]
        <5>1. timers' = [timers EXCEPT ![r][k] = t] /\ t.rev = n /\ t.running
          <6>1. RescanEnabled
            BY <2>2, <2>8, <4>1 DEF WillRetry, Failed
          <6>. QED
            BY <1>0, <2>8, <3>5, <4>2, <6>1 DEF RetryLater, ScheduleTimer
        <5>. HIDE DEF t
        <5>2. timers'[r][k] = t
          BY <1>0, <5>1 DEF TypeOK, TimersType
        <5>. QED
          BY <5>1, <5>2
      <4>3. CASE timers[r][k] # NoTimer
        <5>1. UNCHANGED timers
          BY <1>0, <2>8, <3>5, <4>3 DEF RetryLater
        <5>2. timers[r][k].rev = n
          <6>1. p \in Failed(r)
            BY <2>8, <4>1 DEF Failed
          <6>2. timers[r][k].rev \in Puts
            BY <1>0, <4>3 DEF TimersOfKey
          <6>3. timers[r][k].rev # 0
            BY <6>2, PutsAreRevisions DEF TypeOK
          <6>. QED
            BY <2>2, <2>8, <6>1, <6>3 DEF WillRetry
        <5>3. CASE Elapsed(r, n)
          <6>1. PICK q \in Procs : Host[q] = r /\ attempt[q] = [step |-> "start", rev |-> n]
            BY <5>3 DEF Elapsed
          <6>2. attempt[q].step = "start" /\ attempt[q].rev = n
            BY <6>1
          <6>3. attempt'[q] = attempt[q]
            BY <3>5, <4>1, <6>2 DEF RetryLater, End, TypeOK, AttemptType
          <6>. QED
            BY <6>1, <6>2, <6>3
        <5>. QED
          BY <1>0, <4>3, <5>1, <5>2, <5>3 DEF TimersOfKey
      <4>. QED
        BY <4>2, <4>3
    <3>6. ~Callback(p)
      <4>1. ASSUME Callback(p) PROVE FALSE
        <5>1. Removed(n)
          BY <2>8, <4>1, StepAt DEF WonRemoved
        <5>2. PICK m \in (n + 1)..Len(log) : log[m] = Marker("fire", KeyOf(n), n)
          BY <5>1 DEF Removed
        <5>3. KeyOf(m) = k
          BY <1>0, <5>2 DEF KeyOf, Marker
        <5>. QED
          BY <1>0, <5>3 DEF LastIsLast
      <4>. QED
        BY <4>1
    <3>7. CASE attempt'[p] = attempt[p]
      BY <2>8, <3>7
    <3>. HIDE DEF Goal
    <3>8. status[Host[p]] = "up" /\ status'[Host[p]] = "up"
      BY <1>0, <2>8
    <3>9. AttemptTo(p)
      BY AttemptMoves
    <3>. QED
      BY <3>1, <3>2, <3>3, <3>4, <3>5, <3>6, <3>7, <3>8, <3>9 DEF AttemptTo
  <2>. QED
    BY <1>0, <2>2, <2>6, <2>7, <2>8 DEF HasTimer
<1>. QED
  BY <1>0, <1>1, <1>2

LEMMA CoverInit == Init => CoverInv /\ HandedIsCovered
<1>. SUFFICES ASSUME Init PROVE CoverInv /\ HandedIsCovered
  OBVIOUS
<1>1. /\ \A r \in Replicas : status[r] = "up" /\ clearing[r] = {}
      /\ \A r \in Replicas, k \in Keys : timers[r][k] = NoTimer
      /\ \A p \in Procs : attempt[p] = NoAttempt
      /\ \A w \in Watchers : ~Open(w) /\ watch[w].step # "got"
  BY StepOf DEF Init, Open
<1>2. DownIsBare
  BY <1>1 DEF DownIsBare
<1>3. TimersOfKey /\ AttemptsInScan
  BY <1>1 DEF TimersOfKey, AttemptsInScan, Procs
<1>4. ClearsLogged
  BY <1>1 DEF ClearsLogged
<1>5. InTurn /\ RetriedByFault /\ HandedIsCovered
  BY <1>1 DEF InTurn, RetriedByFault, HandedIsCovered, Handed
<1>6. FailedByFault
  BY <1>1, StepOf DEF FailedByFault, Failed
<1>. QED
  BY <1>2, <1>3, <1>4, <1>5, <1>6 DEF CoverInv

LEMMA CoverNext ==
  ASSUME PInv, CoverInv, Parameters, [Next]_vars
  PROVE  CoverInv'
<1>1. /\ TypeOK /\ PayloadsOK /\ LastIsLast
      /\ DownIsBare /\ TimersOfKey /\ AttemptsInScan /\ InTurn /\ ClearsLogged /\ FailedByFault
      /\ RetriedByFault
  BY DEF PInv, IInv, SInv, CoverInv
<1>2. DownIsBare'
  BY <1>1, DownStays
<1>3. TimersOfKey' /\ AttemptsInScan'
  BY <1>1, TimersOfKeyStay, ScanStays
<1>4. InTurn' /\ ClearsLogged'
  BY <1>1, InTurnStays, ClearsStayLogged
<1>5. FailedByFault' /\ RetriedByFault'
  BY <1>1, FailuresStay, RetriesStay
<1>. QED
  BY <1>2, <1>3, <1>4, <1>5 DEF CoverInv

LEMMA CoverInvariant == Spec => [](PInv /\ CoverInv)
<1>1. Init => CoverInv
  BY CoverInit
<1>2. PInv /\ CoverInv /\ [Next]_vars => CoverInv'
  BY CoverNext, Parameters
<1>3. Spec => []PInv
  BY PromiseInvariant
<1>. HIDE DEF PInv, CoverInv
<1>. QED
  BY <1>1, <1>2, <1>3, PTL DEF Spec

\* What a step needs to keep HandedIsCovered.
LEMMA HandedStaysCovered ==
  ASSUME PInv, CoverInv, HandedIsCovered, Parameters, [Next]_vars,
         \A w \in Watchers : \A k \in Watches[w] :
           Sole(w) /\ Handed(w, k) /\ status[Host[w]] = "up" => WillRetry(Host[w], k)
  PROVE  HandedIsCovered'
<1>1. ASSUME NEW w \in Watchers, NEW k \in Watches[w], NEW r \in Replicas, r = Host[w],
             Sole(w), Handed(w, k)', status'[r] = "up", Uncleared(k)'
      PROVE  HasTimer(r, k)'
  <2>1. /\ TypeOK /\ PayloadsOK /\ LastIsLast /\ WonRemoved
        /\ DownIsBare /\ TimersOfKey /\ AttemptsInScan /\ InTurn /\ ClearsLogged
    BY DEF PInv, IInv, SInv, CoverInv
  <2>2. Uncleared(k) /\ status[r] = "up"
    BY <1>1, <2>1, LogKept, HandedBefore
  <2>3. Handed(w, k) => HasTimer(r, k) /\ WillRetry(r, k)
    BY <1>1, <2>2 DEF HandedIsCovered
  <2>. QED
    BY <1>1, <2>1, <2>3, CoveredStays
<1>2. \A w \in Watchers : Host[w] \in Replicas
  BY DEF Parameters, Procs
<1>. QED
  BY <1>1, <1>2 DEF HandedIsCovered, Sole

LEMMA CaughtUpCovered ==
  ASSUME TypeOK, Parameters, HandedIsCovered
  PROVE  CaughtUpIsCovered
<1>. SUFFICES ASSUME NEW r \in Replicas, NEW k \in Keys, NEW w \in Watchers,
                     {v \in Watchers : Host[v] = r} = {w}, k \in Watches[w],
                     watch[w] = Idle, pending[w] = {}, status[r] = "up", Live(k),
                     \A m \in 1..Len(log) : ~(log[m].op = "clear" /\ KeyOf(m) = k)
              PROVE  \/ timers[r][k].running /\ timers[r][k].rev = last[k]
                     \/ \E t \in orphans[r] : t.rev = last[k]
                     \/ \E p \in Procs : Host[p] = r /\ attempt[p].rev = last[k]
  BY DEF CaughtUpIsCovered
<1>1. Host[w] = r /\ Sole(w) /\ Uncleared(k) /\ Handed(w, k)
  BY StepOf DEF Sole, Uncleared, Handed, Open
<1>2. HasTimer(r, k)
  BY <1>1 DEF HandedIsCovered
<1>. QED
  BY <1>2 DEF HasTimer

\* A replica that has handed on everything its only watcher was sent has a timer for the
\* value of each key, or fires it (actor.go, handleWatchEntry, scheduleTimer,
\* tryFireCallback), whatever crashes, stops, is lost or comes late, in every run in which
\* retryLater never finds the timer of another revision in its place.
THEOREM CaughtUpIfRetried == Spec /\ []FailuresRetried => []CaughtUpIsCovered
<1>1. Init => HandedIsCovered
  BY CoverInit
<1>2. ASSUME PInv, CoverInv, HandedIsCovered, FailuresRetried, [Next]_vars PROVE HandedIsCovered'
  <2>1. \A w \in Watchers : \A k \in Watches[w] :
          Sole(w) /\ Handed(w, k) /\ status[Host[w]] = "up" => WillRetry(Host[w], k)
    BY <1>2, Parameters DEF FailuresRetried, Handed, Parameters, Procs
  <2>. QED
    BY <1>2, <2>1, Parameters, HandedStaysCovered
<1>3. PInv /\ HandedIsCovered => CaughtUpIsCovered
  BY CaughtUpCovered, Parameters DEF PInv, IInv
<1>4. Spec => [](PInv /\ CoverInv)
  BY CoverInvariant
<1>. HIDE DEF PInv, CoverInv, HandedIsCovered, FailuresRetried, CaughtUpIsCovered
<1>. QED
  BY <1>1, <1>2, <1>3, <1>4, PTL DEF Spec

\* That is so as long as at most one call has failed or process stopped: it takes the
\* failed removals of two revisions for one retry to find the other's timer.
THEOREM CaughtUpIfFewFaults == Spec => [](FewFaults => CaughtUpIsCovered)
<1>. DEFINE J == FewFaults => HandedIsCovered
<1>1. Init => J
  BY CoverInit
<1>2. ASSUME PInv, CoverInv, J, [Next]_vars PROVE J'
  <2>1. ASSUME FewFaults' PROVE HandedIsCovered'
    <3>1. TypeOK
      BY <1>2 DEF PInv, IInv
    <3>2. FewFaults
      <4>1. faults \in Nat /\ (faults' = faults \/ faults' = faults + 1)
        BY <1>2, <3>1, FaultsKept DEF TypeOK
      <4>. QED
        BY <2>1, <4>1 DEF FewFaults
    <3>3. ASSUME NEW w \in Watchers, NEW k \in Watches[w], Sole(w), Handed(w, k),
                 status[Host[w]] = "up", NEW p \in Failed(Host[w])
          PROVE  RescanEnabled /\ timers[Host[w]][k].rev \in {0, last[k]}
      <4>1. Host[w] \in Replicas /\ k \in Keys
        BY Parameters DEF Parameters, Procs
      <4>2. faults > 0
        BY <1>2, <3>3, <4>1 DEF CoverInv, FailedByFault
      <4>3. RescanEnabled /\ faults = 1
        BY <3>2, <4>2 DEF FewFaults
      <4>4. timers[Host[w]][k] = NoTimer \/ timers[Host[w]][k].rev = last[k]
        BY <1>2, <3>3, <4>3 DEF CoverInv, RetriedByFault
      <4>. QED
        BY <4>3, <4>4 DEF NoTimer
    <3>4. \A w \in Watchers : \A k \in Watches[w] :
            Sole(w) /\ Handed(w, k) /\ status[Host[w]] = "up" => WillRetry(Host[w], k)
      BY <3>3 DEF WillRetry
    <3>. QED
      BY <1>2, <3>2, <3>4, Parameters, HandedStaysCovered
  <2>. QED
    BY <2>1
<1>3. PInv /\ J => (FewFaults => CaughtUpIsCovered)
  BY CaughtUpCovered, Parameters DEF PInv, IInv
<1>4. Spec => [](PInv /\ CoverInv)
  BY CoverInvariant
<1>. HIDE DEF PInv, CoverInv, J, FewFaults, CaughtUpIsCovered
<1>. QED
  BY <1>1, <1>2, <1>3, <1>4, PTL DEF Spec
=============================================================================
