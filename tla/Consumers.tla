------------------------------ MODULE Consumers ------------------------------
(***************************************************************************)
(* A durable that is read both ways at once, as during a deployment that    *)
(* moves a service from consumer.New to batch.New: loops of a batch         *)
(* consumer, goroutines of a consumer, one server, one database.            *)
(***************************************************************************)
EXTENDS BatchConsumer, Consumer

ASSUME MessagesHaveKeys == Content \in [Msgs -> Seq(Keys)]

VARIABLE deployed   \* what reads the durable: "batch", "each" or both

vars == <<deployed, loopVars, workerVars, processedVars, durableVars>>

\* Whether m, as last delivered, is in the hands of somebody who keeps it in
\* progress (heartbeat, keepAlive).
Held(m) == WorkerHolds(m) \/ \E l \in Loops : LoopHolds(l, m)

AckWait ==
  \E m \in Msgs : (\A l \in Loops : ~Fetched(l, m)) /\ Expire(m, Held(m))

Init ==
  /\ deployed \in SUBSET {"batch", "each"}
  /\ ProcessedInit /\ DurableInit /\ BatchInit /\ ConsumerInit

Batched(A) == "batch" \in deployed /\ A /\ UNCHANGED <<deployed, workerVars>>
Each(A) == "each" \in deployed /\ A /\ UNCHANGED <<deployed, loopVars>>
Server(A) == A /\ UNCHANGED <<deployed, loopVars, workerVars, processedVars>>

Next == Batched(BatchNext) \/ Each(ConsumerNext) \/ Server(Tick) \/ Server(AckWait)

Spec == Init /\ [][Next]_vars

\* What goes on by itself: the server delivers, redelivers and counts time, loops
\* and goroutines run, what stopped is started again.
Progress ==
  \/ Server(Tick) \/ Server(AckWait)
  \/ Batched((\E l \in Loops : LoopStep(l)) \/ Restart)
  \/ Each((\E w \in Workers : Receive(w) \/ WorkerStep(w)) \/ Refuse \/ Closed \/ TakeSlot \/ Redeploy)

-----------------------------------------------------------------------------
(* Properties *)

\* Once the server is done with all the messages that carry a key, and has not given up
\* any of them, what they say was applied or handed to OnPoison, whatever transaction
\* was rolled back, in whatever frame it was, and whichever answer was lost, early or
\* late.
DoneWithWasApplied ==
  \A k \in Keys :
    LET of == {m \in Msgs : k \in Contents(m) /\ status[m] # "absent"}
    IN of # {} /\ (\A m \in of : status[m] \in {"acked", "termed"})
         => effects[k] > 0 \/ k \in poisoned

\* batch/validate.go: MaxDeliver is larger than MaxAttempts so that the server
\* gives up no message on its own: it does only if on the last delivery an answer
\* or the process got lost, OnPoison failed, or a stop or consumer.New gave the
\* message back.
AbandonedOnlyByFault == \A m \in Msgs : status[m] = "dead" => m \in spoiled

\* The contract of the README: "at least once".
NothingLost == DoneWithWasApplied /\ AbandonedOnlyByFault

\* README, InTxOpts.OrderKey: the tail of an order key is "never alone before" its
\* failed head: when both wait to be delivered again the head is not later.
TailBehindHead ==
  \A p \in behind : status[p[1]] = "ready" /\ status[p[2]] = "ready" => wait[p[1]] <= wait[p[2]]

\* Every message is acknowledged, handed to OnPoison or given up in the end: as
\* long as one is not something goes on by itself, and with MaxDeliver and the
\* bound of faults it cannot go on for ever.
NeverStuck ==
  deployed # {} /\ (\E m \in Msgs : ~Over(m)) => ENABLED Progress
=============================================================================
