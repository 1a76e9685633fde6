---------------------------- MODULE BatchConsumer ----------------------------
(***************************************************************************)
(* The batch consumer of consumer/batch: loops fetch messages of a durable, *)
(* unpack the frames among them, hand the batch to the handler of           *)
(* BatchInTx, and settle message by message what it decided.  A message is  *)
(* back on the server, acknowledged or given up only by those settlements,  *)
(* of which each may fail, and the loop with it at any point.               *)
(***************************************************************************)
EXTENDS BatchInTx, Durable

CONSTANTS BatchMax, Delays, MaxAttempts   \* Opts.Max, .Delays, .MaxAttempts

\* resolve: a ladder of delays, and a limit of attempts or -1.
Resolved ==
  /\ BatchMax \in Nat \ {0}
  /\ Delays \in Seq(Nat \ {0}) /\ Len(Delays) > 0
  /\ MaxAttempts = -1 \/ MaxAttempts \in Nat \ {0}
\* validate: the last delivery is never the last attempt.
Valid == MaxDeliver > 0 => MaxAttempts > 0 /\ MaxDeliver > MaxAttempts
ASSUME BatchSettings == Resolved /\ Valid

VARIABLES loop,       \* loop -> what it is at
          cancelled   \* Drain was called

loopVars == <<loop, cancelled, call>>

\* step: idle, handling, settling, alone (isolate), stopped or down.
\* batch: the messages, element by element; pos: the one to be settled next.
\* outs: what was answered for each; returns: when what was given back returns,
\* by the first element of its message.
IdleLoop == [step |-> "idle", fetched |-> <<>>, batch |-> <<>>, pos |-> 1,
             outs |-> <<>>, returns |-> <<>>]

Batch(l) == loop[l].batch
Item(m, d, k) == [m |-> m, d |-> d, key |-> k]
Loop(l, r) == loop' = [loop EXCEPT ![l] = r]

-----------------------------------------------------------------------------
(* Fetching *)

\* A fetch of what is there; there may be several until the batch is handled.
Collect(l) ==
  /\ loop[l].step = "idle" /\ ~cancelled
  /\ \E n \in 1..(BatchMax - Len(loop[l].fetched)) :
     \E new \in [1..n -> {m \in Msgs : Deliverable(m)}] :
       /\ \A i, j \in 1..n : i < j => new[i] < new[j]
       /\ Deliver(Range(new))
       /\ loop' = [loop EXCEPT ![l].fetched =
                     @ \o [i \in 1..n |-> <<new[i], delivered[new[i]] + 1>>]]
  /\ UNCHANGED <<cancelled, handlerVars>>

\* The elements of a message, if it can be unpacked.
Items(f) ==
  IF f[1] \in Broken THEN <<>>
  ELSE [n \in DOMAIN Content[f[1]] |-> Item(f[1], f[2], Content[f[1]][n])]

\* The fetch is over: its frames are unpacked, and those that cannot be are
\* handed to OnPoison whole.  (OnPoison fails for all of them or for none.)
Unpack(l) ==
  LET bad == {f \in Range(loop[l].fetched) : f[1] \in Broken}
      batch == FlattenSeq([n \in DOMAIN loop[l].fetched |-> Items(loop[l].fetched[n])])
  IN /\ loop[l].step = "idle" /\ ~cancelled /\ loop[l].fetched # <<>>
     /\ PoisonWhole(bad, Delays[1])
     /\ IF batch = <<>> THEN Loop(l, IdleLoop) /\ UNCHANGED handlerVars
        ELSE /\ Loop(l, [step |-> "handling", fetched |-> <<>>, batch |-> batch, pos |-> 1,
                         outs |-> [i \in DOMAIN batch |-> Unanswered],
                         returns |-> [i \in DOMAIN batch |-> 0]])
             /\ Call(l, [i \in DOMAIN batch |-> batch[i].key])
     /\ UNCHANGED <<delivered, behind, cancelled>>

\* The loop is told to stop: what was fetched goes back at once (nakAll).
Stop(l) ==
  /\ loop[l].step = "idle" /\ cancelled
  /\ \/ Answer(Range(loop[l].fetched), "nak", 0) /\ UNCHANGED faults
     \/ loop[l].fetched # <<>> /\ Fault /\ UNCHANGED <<status, wait>>
  /\ spoiled' = spoiled \cup Current(Range(loop[l].fetched))
  /\ Loop(l, [IdleLoop EXCEPT !.step = "stopped"])
  /\ UNCHANGED <<delivered, poisoned, behind, cancelled, handlerVars>>

-----------------------------------------------------------------------------
(* Settling *)

DelayFor(d) == Delays[IF d < Len(Delays) THEN d ELSE Len(Delays)]

SameMessage(l, i, j) == Batch(l)[i].m = Batch(l)[j].m /\ Batch(l)[i].d = Batch(l)[j].d
Elements(l, i) == {j \in DOMAIN Batch(l) : SameMessage(l, i, j)}
Start(l, i) == Least(Elements(l, i))

\* Variant: the delay of the message ahead is not looked at.
NoFloor(l, i) == 0

\* returnFloor: the message ahead of its order key returns not before that.
Floor(l, i) ==
  IF loop[l].step = "alone" \/ After(l, i) = 0 THEN 0
  ELSE loop[l].returns[Start(l, After(l, i))]

\* Variant: a held message is held on its last delivery too.
HoldsForever(r, d) ==
  \/ r.kind = "term"
  \/ r.kind \in {"nak", "zero"} /\ MaxAttempts > 0 /\ d >= MaxAttempts

\* Term and poison, what has used up its attempts, and what would be held on the
\* last delivery there is.
Poisons(r, d) ==
  \/ r.kind = "term"
  \/ r.kind \in {"nak", "zero"} /\ MaxAttempts > 0 /\ d >= MaxAttempts
  \/ r.kind = "hold" /\ MaxDeliver > 0 /\ d >= MaxDeliver

\* Element i is answered so; returns: when it comes back, as apply says.
Conclude(l, i, out, returns) ==
  loop' = [loop EXCEPT ![l].pos = i + 1, ![l].outs[i] = out,
                       ![l].returns[Start(l, i)] = Greatest({@, returns})]

\* The answers to the elements of its message.
Outs(l, i, out) ==
  [j \in Elements(l, i) |-> IF j = i THEN out ELSE loop[l].outs[j]]

\* The answer may get lost, or be due to OnPoison, which failed.
Answers(l, i, out) ==
  LET m == Batch(l)[i].m
      outs == Outs(l, i, out)
  IN \/ Reply(m, Batch(l)[i].d, outs) /\ UNCHANGED <<spoiled, faults>>
     \/ LostReply(m, outs)

AnswersFailure(l, i, out) ==
  LET m == Batch(l)[i].m
  IN Reply(m, Batch(l)[i].d, Outs(l, i, out)) /\ Fault /\ spoiled' = spoiled \cup {m}

\* History: element i is given back, behind what was given back of its order key.
Follow(l, i) ==
  LET t == Batch(l)[i].m
      gone == {h \in 1..(i - 1) : /\ SameOrder(l, h, i) /\ loop[l].outs[h].how = "nak"
                                 /\ status[Batch(l)[h].m] = "ready"
                                 /\ delivered[Batch(l)[h].m] = Batch(l)[h].d}
  IN IF loop[l].step = "alone" \/ Current({<<t, Batch(l)[i].d>>}) = {} THEN {}
     ELSE {<<Batch(l)[h].m, t>> : h \in gone} \ (spoiled \X {t})

\* apply: the verdict on element i, which is to return no sooner than the floor.
\* If OnPoison fails the message comes back after the first delay, which apply
\* does not tell.
Settle(l, i, r, floor) ==
  LET d == Batch(l)[i].d
      delay == Greatest({IF r.delay > 0 THEN r.delay ELSE DelayFor(d), floor})
      To(out, returns) == Answers(l, i, out) /\ Conclude(l, i, out, returns)
  IN \/ r = Ack /\ To(Acked, floor) /\ UNCHANGED <<poisoned, behind>>
     \/ /\ r # Ack /\ ~Poisons(r, d)
        /\ To(NakWithDelay(delay), delay)
        /\ behind' = behind \cup Follow(l, i)
        /\ UNCHANGED poisoned
     \/ /\ Poisons(r, d)
        /\ To(Termed, floor)
        /\ poisoned' = poisoned \cup {Batch(l)[i].key}
        /\ UNCHANGED behind
     \/ /\ Poisons(r, d)
        /\ AnswersFailure(l, i, NakWithDelay(Delays[1]))
        /\ Conclude(l, i, NakWithDelay(Delays[1]), floor)
        /\ UNCHANGED <<poisoned, behind>>

SettleNext(l) ==
  LET i == loop[l].pos
  IN /\ loop[l].step = "handling" /\ Done(l) /\ i \in DOMAIN Batch(l)
     /\ Settle(l, i, call[l].results[i], Floor(l, i))
     /\ UNCHANGED <<delivered, cancelled, handlerVars>>

\* The batch is settled.
Finish(l) ==
  /\ loop[l].step = "handling" /\ Done(l) /\ loop[l].pos > Len(Batch(l))
  /\ Leave({l}) /\ Loop(l, IdleLoop)
  /\ UNCHANGED <<cancelled, durableVars>>

-----------------------------------------------------------------------------
(* A handler that panics: isolate calls it again with each message alone *)

Panic(l) ==
  /\ loop[l].step = "handling" /\ ~Done(l)
  /\ Fault /\ Leave({l})
  /\ loop' = [loop EXCEPT ![l].step = "alone"]
  /\ UNCHANGED <<status, wait, delivered, poisoned, spoiled, behind, cancelled>>

HandleAlone(l) ==
  /\ loop[l].step = "alone" /\ loop[l].pos \in DOMAIN Batch(l)
  /\ Call(l, <<Batch(l)[loop[l].pos].key>>)
  /\ UNCHANGED <<loop, cancelled, durableVars>>

\* It has returned, or panicked again.
SettleAlone(l) ==
  /\ loop[l].step = "alone" /\ call[l] # NoCall
  /\ Settle(l, loop[l].pos, IF Done(l) THEN call[l].results[1] ELSE Nak, 0)
  /\ Leave({l})
  /\ UNCHANGED <<delivered, cancelled>>

FinishAlone(l) ==
  /\ loop[l].step = "alone" /\ loop[l].pos > Len(Batch(l))
  /\ Loop(l, IdleLoop)
  /\ UNCHANGED <<cancelled, durableVars, handlerVars>>

-----------------------------------------------------------------------------
(* The process *)

Drain ==
  /\ ~cancelled /\ \A l \in Loops : loop[l].step # "down"
  /\ Fault /\ cancelled' = TRUE
  /\ UNCHANGED <<loop, handlerVars, status, wait, delivered, poisoned, spoiled, behind>>

\* A loop fetches for less than a quarter of AckWait (validate).
Fetched(l, m) == <<m, delivered[m]>> \in Range(loop[l].fetched)

\* Whether a loop has the last delivery of m, and has not answered it.
LoopHolds(l, m) ==
  \/ Fetched(l, m)
  \/ \E i \in DOMAIN Batch(l) : /\ i >= loop[l].pos
                                 /\ Batch(l)[i].m = m /\ Batch(l)[i].d = delivered[m]

Crash ==
  /\ \E l \in Loops : loop[l].step \notin {"stopped", "down"}
  /\ Fault
  /\ loop' = [l \in Loops |-> [IdleLoop EXCEPT !.step = "down"]]
  /\ Leave(Loops)
  /\ spoiled' = spoiled \cup {m \in Msgs : \E l \in Loops : LoopHolds(l, m)}
  /\ UNCHANGED <<cancelled, status, wait, delivered, poisoned, behind>>

Restart ==
  /\ \A l \in Loops : loop[l].step \in {"stopped", "down"}
  /\ loop' = [l \in Loops |-> IdleLoop] /\ cancelled' = FALSE
  /\ UNCHANGED <<handlerVars, durableVars>>

BatchInit ==
  /\ loop = [l \in Loops |-> IdleLoop] /\ cancelled = FALSE
  /\ call = [l \in Loops |-> NoCall]

LoopStep(l) ==
  \/ Collect(l) \/ Unpack(l) \/ Stop(l)
  \/ loop[l].step \in {"handling", "alone"} /\ Attempt(l) /\ UNCHANGED <<loop, cancelled, durableVars>>
  \/ SettleNext(l) \/ Finish(l)
  \/ HandleAlone(l) \/ SettleAlone(l) \/ FinishAlone(l)

BatchNext == (\E l \in Loops : LoopStep(l) \/ Panic(l)) \/ Drain \/ Crash \/ Restart
=============================================================================
