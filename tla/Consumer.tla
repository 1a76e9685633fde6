------------------------------- MODULE Consumer -------------------------------
(***************************************************************************)
(* The consumer of pkg/nats/jetstream/consumer: every message of a durable  *)
(* has a goroutine, in which its elements are handled one after the other, *)
(* each in a transaction (WithIdempotency), and answered.  With MaxInFlight *)
(* a pool of slots bounds the goroutines: one more message is received,    *)
(* waits for a slot, and is refused when the pool is stopped.  A drain      *)
(* takes all the slots for good.                                           *)
(***************************************************************************)
EXTENDS Processed, Durable

CONSTANTS Workers,      \* bound: as many goroutines at a time
          MaxInFlight,  \* Opts.MaxInFlight, 0: no pool
          NakBackoff    \* Opts.NakBackoff, <<>>: off

\* resolveOpts: no negative limit, no backoff that is not positive.
ResolvedOpts == MaxInFlight \in Nat /\ \A n \in DOMAIN NakBackoff : NakBackoff[n] > 0
ASSUME PoolSettings == IsFiniteSet(Workers) /\ ResolvedOpts

VARIABLES worker,   \* the goroutines of deliver
          waiting,  \* the delivery that waits for a slot, or none
          pool,     \* held: the slots a drain took; stopped
          drain     \* no, closing, slots, expired or nil: its context ended, or it returned nil

workerVars == <<worker, waiting, pool, drain>>

\* step: idle, poison (a frame that cannot be unpacked), handle or answer.
IdleWorker == [step |-> "idle", m |-> 0, d |-> 0, pos |-> 1, outs |-> <<>>]
OpenPool == [held |-> 0, stopped |-> FALSE]

Busy == {w \in Workers : worker[w].step # "idle"}
\* Variant: another goroutine can have the slots the drain has taken.
SlotUnheld == MaxInFlight = 0 \/ Cardinality(Busy) < MaxInFlight

Slot == MaxInFlight = 0 \/ Cardinality(Busy) + pool.held < MaxInFlight

-----------------------------------------------------------------------------
(* dispatch *)

Deliver1(w, m, d) ==
  worker' = [worker EXCEPT ![w] =
    [step |-> IF m \in Broken THEN "poison" ELSE "handle", m |-> m, d |-> d, pos |-> 1,
     outs |-> [i \in DOMAIN Content[m] |-> Unanswered]]]

\* The callback of the subscription has a message, and there is a slot.
Receive(w) ==
  /\ ~pool.stopped /\ waiting = <<>> /\ w \notin Busy /\ Slot
  /\ \E m \in Msgs : Deliver({m}) /\ Deliver1(w, m, delivered[m] + 1)
  /\ UNCHANGED <<waiting, pool, drain, processedVars>>

\* It has a message, and there is none: waitForSlot.
ReceiveWaiting ==
  /\ ~pool.stopped /\ waiting = <<>> /\ ~Slot
  /\ \E m \in Msgs : Deliver({m}) /\ waiting' = <<m, delivered[m] + 1>>
  /\ UNCHANGED <<worker, pool, drain, processedVars>>

\* acquire may find a slot even when the pool is stopped.
Acquire(w) ==
  /\ waiting # <<>> /\ w \notin Busy /\ Slot
  /\ Deliver1(w, waiting[1], waiting[2])
  /\ waiting' = <<>>
  /\ UNCHANGED <<pool, drain, processedVars, durableVars>>

Refuse ==
  /\ waiting # <<>> /\ pool.stopped
  /\ \/ Answer({waiting}, "nak", 0) /\ UNCHANGED faults
     \/ Fault /\ UNCHANGED <<status, wait>>
  /\ spoiled' = spoiled \cup Current({waiting})
  /\ waiting' = <<>>
  /\ UNCHANGED <<worker, pool, drain, processedVars, delivered, poisoned, behind>>

-----------------------------------------------------------------------------
(* deliver and process *)

NakDelay(d) ==
  IF NakBackoff = <<>> THEN 0 ELSE NakBackoff[IF d < Len(NakBackoff) THEN d ELSE Len(NakBackoff)]

\* poisonFrame, with OnPoison.
PoisonFrame(w) ==
  /\ worker[w].step = "poison"
  /\ PoisonWhole({<<worker[w].m, worker[w].d>>}, NakDelay(worker[w].d))
  /\ worker' = [worker EXCEPT ![w] = IdleWorker]
  /\ UNCHANGED <<waiting, pool, drain, processedVars, delivered, behind>>

\* The transaction of the handler commits; or it fails, as may a middleware ahead
\* of it, panics, or commits without an answer.
HandleElement(w) ==
  LET v == worker[w]
      Is(out) == worker' = [worker EXCEPT ![w].step = "answer", ![w].outs[v.pos] = out]
  IN /\ v.step = "handle"
     /\ \/ Handle(Content[v.m][v.pos]) /\ Is(Acked)
        \/ UNCHANGED processedVars /\ Is(NakWithDelay(NakDelay(v.d)))
        \/ Handle(Content[v.m][v.pos]) /\ Is(NakWithDelay(NakDelay(v.d)))
     /\ UNCHANGED <<waiting, pool, drain, durableVars>>

\* Variant: the slot of a message that failed is not released.
NextElementLeaks(v) ==
  IF v.pos < Len(v.outs) THEN [v EXCEPT !.step = "handle", !.pos = @ + 1]
  ELSE IF v.outs[v.pos] = Acked THEN IdleWorker ELSE [v EXCEPT !.step = "gone"]

\* The next one, if there is one; if not the goroutine releases its slot.
NextElement(v) ==
  IF v.pos < Len(v.outs) THEN [v EXCEPT !.step = "handle", !.pos = @ + 1] ELSE IdleWorker

AnswerElement(w) ==
  LET v == worker[w]
  IN /\ v.step = "answer"
     /\ \/ /\ Reply(v.m, v.d, v.outs)
           /\ spoiled' = IF v.outs[v.pos] = Acked THEN spoiled ELSE spoiled \cup {v.m}
           /\ UNCHANGED faults
        \/ LostReply(v.m, v.outs)
     /\ worker' = [worker EXCEPT ![w] = NextElement(v)]
     /\ UNCHANGED <<waiting, pool, drain, processedVars, delivered, poisoned, behind>>

-----------------------------------------------------------------------------
(* DrainContext *)

BeginDrain ==
  /\ drain \in {"no", "expired"} /\ Fault
  /\ drain' = "closing"
  /\ UNCHANGED <<worker, waiting, pool, processedVars,
                 status, wait, delivered, poisoned, spoiled, behind>>

\* The subscription is closed: nothing is received any more.  The pool is
\* stopped; without one the drain is over.
Closed ==
  /\ drain = "closing"
  /\ drain' = IF MaxInFlight = 0 THEN "nil" ELSE "slots"
  /\ pool' = [pool EXCEPT !.stopped = TRUE]
  /\ UNCHANGED <<worker, waiting, processedVars, durableVars>>

TakeSlot ==
  /\ drain = "slots"
  /\ IF pool.held = MaxInFlight THEN drain' = "nil" /\ UNCHANGED pool
     ELSE Slot /\ pool' = [pool EXCEPT !.held = @ + 1] /\ UNCHANGED drain
  /\ UNCHANGED <<worker, waiting, processedVars, durableVars>>

\* The context of the drain ends; it may be called again.
DrainExpires ==
  /\ drain \in {"closing", "slots"}
  /\ drain' = "expired"
  /\ UNCHANGED <<worker, waiting, pool, processedVars, durableVars>>

WorkerHolds(m) ==
  \/ waiting = <<m, delivered[m]>>
  \/ \E w \in Busy : worker[w].m = m /\ worker[w].d = delivered[m]

\* The process ends and starts again.
Boot ==
  /\ spoiled' = spoiled \cup {m \in Msgs : WorkerHolds(m)}
  /\ worker' = [w \in Workers |-> IdleWorker] /\ waiting' = <<>>
  /\ pool' = OpenPool /\ drain' = "no"
  /\ UNCHANGED <<processedVars, status, wait, delivered, poisoned, behind>>

Redeploy == drain \in {"nil", "expired"} /\ UNCHANGED faults /\ Boot
Kill == drain \in {"no", "closing", "slots"} /\ Fault /\ Boot

ConsumerInit ==
  /\ worker = [w \in Workers |-> IdleWorker] /\ waiting = <<>>
  /\ pool = OpenPool /\ drain = "no"

WorkerStep(w) == Acquire(w) \/ PoisonFrame(w) \/ HandleElement(w) \/ AnswerElement(w)

ConsumerNext ==
  \/ \E w \in Workers : Receive(w) \/ WorkerStep(w)
  \/ ReceiveWaiting \/ Refuse \/ BeginDrain \/ Closed \/ TakeSlot \/ DrainExpires \/ Redeploy \/ Kill

-----------------------------------------------------------------------------
(* Properties *)

\* README, DrainContext: "a handler that took a slot while the subscription was
\* closing is waited for too; a message still waiting for a slot at that point
\* is not handled".  When a drain of a consumer with a pool has returned nil no
\* handler runs, and none will: whatever was received, waited, released or drained
\* before with a context that ended.
NilDrainIsQuiet == MaxInFlight > 0 /\ drain = "nil" => Busy = {} /\ ~Slot

\* The slots are neither leaked nor taken twice.
SlotsBounded == MaxInFlight > 0 => Cardinality(Busy) + pool.held <= MaxInFlight
=============================================================================
