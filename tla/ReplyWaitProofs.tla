--------------------------- MODULE ReplyWaitProofs ---------------------------
(***************************************************************************)
(* Theorems of ReplyWait, for any number of calls, ids and calls of Drain. *)
(* A waiter changes hands - registry, listener or Drain, channel, caller - *)
(* and is always in one of them; one lemma per step.                       *)
(***************************************************************************)
EXTENDS ReplyWait, TLAPS

USE Calling

LEMMA Starts == Init => IInv
<1> SUFFICES ASSUME Init PROVE IInv
  OBVIOUS
<1>1. TypeOK
  BY DEF Init, TypeOK, NoEntries
<1>2. OneOwner /\ NoLeftovers
  BY DEF Init, OneOwner, NoLeftovers, NoEntries, Registered, Failing, Told
<1>3. Tracked /\ LateOnly
  BY DEF Init, Tracked, LateOnly, FailedAll
<1> QED BY <1>1, <1>2, <1>3 DEF IInv

\* A step that removes no waiter for another call tracks all those it moves.
LEMMA TrackedKept ==
  ASSUME IInv, UNCHANGED robbed,
         \A c \in Calls :
           /\ call'[c] \in {"publishing", "waiting", "leaving", "cancelling"} =>
                \/ call[c] \in {"publishing", "waiting", "leaving", "cancelling"}
                \/ Registered(c)'
           /\ call[c] \in {"timedout", "unpublished"} => call'[c] = call[c]
           /\ Registered(c) => Registered(c)' \/ Informed(c)'
           /\ Informed(c) => Informed(c)' \/ call'[c] \in {"replied", "drained"}
  PROVE  Tracked'
<1>1. ASSUME NEW c \in Calls, c \notin robbed,
             call'[c] \in {"publishing", "waiting", "leaving", "cancelling"}
      PROVE  Registered(c)' \/ Informed(c)'
  BY <1>1 DEF IInv, Tracked
<1>2. ASSUME NEW c \in Calls, c \in robbed
      PROVE  \E d \in Calls \ {c} :
               IdOf[d] = IdOf[c] /\ call'[d] \in {"timedout", "unpublished"} /\ Informed(d)'
  <2>1. PICK d \in Calls \ {c} :
          IdOf[d] = IdOf[c] /\ call[d] \in {"timedout", "unpublished"} /\ Informed(d)
    BY <1>2 DEF IInv, Tracked
  <2> QED BY <2>1
<1> QED BY <1>1, <1>2 DEF Tracked

\* What a step does that moves no waiter, and one that touches no Drain and
\* registers nobody.
LEMMA WaitersKept ==
  ASSUME IInv, UNCHANGED <<entries, call, channels, resolving, todo, robbed>>
  PROVE  OneOwner' /\ NoLeftovers' /\ Tracked'
BY DEF IInv, OneOwner, NoLeftovers, Tracked, Registered, Failing, Told, Informed, channels

LEMMA DrainsKept ==
  ASSUME IInv, UNCHANGED <<draining, drained, drain, late>>,
         \A c \in Calls : Registered(c)' => Registered(c),
         \A d \in Drainers : todo[d] = {} => todo'[d] = {}
  PROVE  LateOnly'
BY DEF IInv, LateOnly, FailedAll

LEMMA CheckOK == ASSUME IInv, NEW c \in Calls, Check(c) PROVE IInv'
<1>1. TypeOK'
  BY DEF IInv, Check, history, TypeOK, listener, service, drains, Goto, Ended, channels
<1>2. OneOwner'
  BY DEF IInv, Check, history, listener, drains, Goto, OneOwner, Registered, Failing, Told,
     channels
<1>3. NoLeftovers'
  BY DEF IInv, Check, history, listener, drains, Goto, NoLeftovers, Registered, Failing, Told,
     channels
<1>4. Tracked'
  BY DEF IInv, Check, history, listener, drains, Goto, Tracked, Registered, Failing, Informed,
     channels
<1>5. LateOnly'
  BY DrainsKept DEF IInv, Check, history, drains, Registered
<1> QED BY <1>1, <1>2, <1>3, <1>4, <1>5 DEF IInv

\* The id of a new waiter had no entry: no other waiter loses its own.
LEMMA RegisterOK == ASSUME IInv, NEW c \in Calls, Register(c) PROVE IInv'
<1>1. TypeOK'
  BY DEF IInv, Register, history, TypeOK, listener, service, drains, Goto, Ended, NoError,
     channels
<1>2. OneOwner'
  BY DEF IInv, Register, history, TypeOK, listener, drains, Goto, OneOwner, NoLeftovers,
     Registered, Failing, Told, channels
<1>3. NoLeftovers'
  BY DEF IInv, Register, history, TypeOK, listener, drains, Goto, Ended, NoLeftovers,
     Registered, Failing, Told, channels
<1>4. Tracked'
  BY DEF IInv, Register, history, TypeOK, listener, drains, Goto, Tracked, Registered, Failing,
     Informed, channels
<1>5. LateOnly'
  BY DEF IInv, Register, history, TypeOK, drains, LateOnly, FailedAll, Registered
<1> QED BY <1>1, <1>2, <1>3, <1>4, <1>5 DEF IInv

LEMMA PublishOK == ASSUME IInv, NEW c \in Calls, Publish(c) PROVE IInv'
<1>1. TypeOK'
  BY DEF IInv, Publish, history, TypeOK, listener, drains, Goto, channels
<1>2. OneOwner'
  BY DEF IInv, Publish, history, listener, drains, Goto, OneOwner, Registered, Failing, Told,
     channels
<1>3. NoLeftovers'
  BY DEF IInv, Publish, history, listener, drains, Goto, Ended, NoLeftovers, Registered,
     Failing, Told, channels
<1>4. Tracked'
  BY DEF IInv, Publish, history, listener, drains, Goto, Tracked, Registered, Failing, Informed,
     channels
<1>5. LateOnly'
  BY DrainsKept DEF IInv, Publish, history, drains, Registered
<1> QED BY <1>1, <1>2, <1>3, <1>4, <1>5 DEF IInv

LEMMA PublishFailsOK == ASSUME IInv, NEW c \in Calls, PublishFails(c) PROVE IInv'
<1>1. TypeOK'
  BY DEF IInv, PublishFails, history, TypeOK, listener, drains, Goto, channels
<1>2. OneOwner'
  BY DEF IInv, PublishFails, history, listener, drains, Goto, OneOwner, Registered, Failing,
     Told, channels
<1>3. NoLeftovers'
  BY DEF IInv, PublishFails, history, listener, drains, Goto, Ended, NoLeftovers, Registered,
     Failing, Told, channels
<1>4. Tracked'
  BY DEF IInv, PublishFails, history, listener, drains, Goto, Tracked, Registered, Failing,
     Informed, channels
<1>5. LateOnly'
  BY DrainsKept DEF IInv, PublishFails, history, drains, Registered
<1> QED BY <1>1, <1>2, <1>3, <1>4, <1>5 DEF IInv

LEMMA TakeResultOK == ASSUME IInv, NEW c \in Calls, TakeResult(c) PROVE IInv'
<1>1. TypeOK'
  BY DEF IInv, TakeResult, history, TypeOK, listener, service, drains, Goto, Ended
<1>2. OneOwner'
  BY DEF IInv, TakeResult, history, listener, drains, Goto, OneOwner, Registered, Failing, Told
<1>3. NoLeftovers'
  BY DEF IInv, TakeResult, history, listener, drains, Goto, OneOwner, NoLeftovers, Registered,
     Failing, Told
<1>4. Tracked'
  BY DEF IInv, TakeResult, history, TypeOK, listener, drains, Goto, Tracked, Registered,
     Failing, Informed
<1>5. LateOnly'
  BY DrainsKept DEF IInv, TakeResult, history, drains, Registered
<1> QED BY <1>1, <1>2, <1>3, <1>4, <1>5 DEF IInv

LEMMA TakeFailureOK == ASSUME IInv, NEW c \in Calls, TakeFailure(c) PROVE IInv'
<1>1. TypeOK'
  BY DEF IInv, TakeFailure, history, TypeOK, listener, service, drains, Goto, Ended
<1>2. OneOwner'
  BY DEF IInv, TakeFailure, history, listener, drains, Goto, OneOwner, Registered, Failing, Told
<1>3. NoLeftovers'
  BY DEF IInv, TakeFailure, history, listener, drains, Goto, OneOwner, NoLeftovers, Registered,
     Failing, Told
<1>4. Tracked'
  BY DEF IInv, TakeFailure, history, TypeOK, listener, drains, Goto, Tracked, Registered,
     Failing, Informed
<1>5. LateOnly'
  BY DrainsKept DEF IInv, TakeFailure, history, drains, Registered
<1> QED BY <1>1, <1>2, <1>3, <1>4, <1>5 DEF IInv

LEMMA GiveUpOK == ASSUME IInv, NEW c \in Calls, GiveUp(c) PROVE IInv'
<1>1. TypeOK'
  BY DEF IInv, GiveUp, history, TypeOK, listener, service, drains, Goto, channels
<1>2. OneOwner'
  BY DEF IInv, GiveUp, history, listener, drains, Goto, OneOwner, Registered, Failing, Told,
     channels
<1>3. NoLeftovers'
  BY DEF IInv, GiveUp, history, listener, drains, Goto, Ended, NoLeftovers, Registered, Failing,
     Told, channels
<1>4. Tracked'
  BY DEF IInv, GiveUp, history, listener, drains, Goto, Tracked, Registered, Failing, Informed,
     channels
<1>5. LateOnly'
  BY DrainsKept DEF IInv, GiveUp, history, drains, Registered
<1> QED BY <1>1, <1>2, <1>3, <1>4, <1>5 DEF IInv

\* The waiter removed may be another call's.  Then the call that removes it was informed,
\* or removed by one that was.
LEMMA RemoveOK == ASSUME IInv, NEW c \in Calls, Remove(c) PROVE IInv'
<1> DEFINE other == entries[IdOf[c]]
<1>1. /\ call[c] \in {"leaving", "cancelling"}
      /\ entries' = [entries EXCEPT ![IdOf[c]] = None]
      /\ \E s \in {"timedout", "unpublished"} : call' = [call EXCEPT ![c] = s]
      /\ robbed' = robbed \cup ({other} \ {c, None})
      /\ UNCHANGED <<result, fail, resolving, todo>>
  BY DEF Remove, Goto, channels, listener, drains
<1>2. TypeOK'
  BY <1>1 DEF IInv, Remove, TypeOK, listener, service, drains, Ended
<1>3. OneOwner'
  BY <1>1 DEF IInv, TypeOK, OneOwner, Registered, Failing, Told
<1>4. NoLeftovers'
  BY <1>1 DEF IInv, TypeOK, NoLeftovers, Registered, Failing, Told
<1>5. \A e \in Calls : Informed(e)' <=> Informed(e)
  BY <1>1 DEF Informed, Failing
<1>6. ASSUME NEW e \in Calls, call'[e] \in {"publishing", "waiting", "leaving", "cancelling"},
             e \notin robbed'
      PROVE  Registered(e)' \/ Informed(e)'
  <2>1. e # c /\ call[e] = call'[e]
    BY <1>1, <1>6 DEF IInv, TypeOK
  <2>2. Registered(e) \/ Informed(e)
    BY <1>1, <1>6, <2>1 DEF IInv, Tracked
  <2>3. Registered(e) => Registered(e)'
    BY <1>1, <1>6, <2>1 DEF IInv, TypeOK, Registered
  <2> QED BY <1>5, <2>2, <2>3
<1>7. ASSUME NEW e \in robbed
      PROVE  \E d \in Calls \ {e, c} :
               IdOf[d] = IdOf[e] /\ call'[d] \in {"timedout", "unpublished"} /\ Informed(d)'
  <2>1. PICK d \in Calls \ {e} :
          IdOf[d] = IdOf[e] /\ call[d] \in {"timedout", "unpublished"} /\ Informed(d)
    BY DEF IInv, TypeOK, Tracked
  <2>2. d # c /\ call'[d] = call[d]
    BY <1>1, <2>1 DEF IInv, TypeOK
  <2> QED BY <1>5, <2>1, <2>2
<1>8. ASSUME other \notin {c, None}
      PROVE  \E d \in Calls \ {other} :
               IdOf[d] = IdOf[other] /\ call'[d] \in {"timedout", "unpublished"} /\ Informed(d)'
  <2>1. other \in Calls /\ IdOf[other] = IdOf[c] /\ ~Registered(c) /\ Registered(other)
    BY <1>8 DEF IInv, TypeOK, OneOwner, Registered
  <2>2. CASE c \in robbed
    <3>1. PICK d \in Calls \ {c} :
            IdOf[d] = IdOf[c] /\ call[d] \in {"timedout", "unpublished"} /\ Informed(d)
      BY <2>2 DEF IInv, TypeOK, Tracked
    <3>2. d # other /\ call'[d] = call[d]
      BY <1>1, <2>1, <3>1 DEF IInv, TypeOK, NoLeftovers, Ended
    <3> QED BY <1>5, <2>1, <3>1, <3>2
  <2>3. CASE c \notin robbed
    <3>1. Informed(c)
      BY <1>1, <2>1, <2>3 DEF IInv, Tracked
    <3>2. call'[c] \in {"timedout", "unpublished"}
      BY <1>1 DEF IInv, TypeOK
    <3> QED BY <1>5, <1>8, <2>1, <3>1, <3>2
  <2> QED BY <2>2, <2>3
<1>9. Tracked'
  <2>1. \A e \in robbed' : e \in robbed \/ (e = other /\ other \notin {c, None})
    BY <1>1
  <2>2. \A e \in robbed' :
          \E d \in Calls \ {e} :
            IdOf[d] = IdOf[e] /\ call'[d] \in {"timedout", "unpublished"} /\ Informed(d)'
    BY <1>7, <1>8, <2>1
  <2> HIDE DEF other
  <2> QED BY <1>6, <2>2 DEF Tracked
<1>10. LateOnly'
  BY <1>1, DrainsKept DEF IInv, TypeOK, Remove, drains, Registered
<1> QED BY <1>2, <1>3, <1>4, <1>9, <1>10 DEF IInv

\* The waiter passes from the registry to the listener.
LEMMA ResolveOK == ASSUME IInv, NEW i \in Ids, Resolve(i) PROVE IInv'
<1>1. TypeOK'
  BY DEF IInv, Resolve, history, TypeOK, drains, Reply, channels
<1>2. OneOwner'
  BY DEF IInv, Resolve, history, TypeOK, drains, OneOwner, Registered, Failing, Told, channels
<1>3. NoLeftovers'
  BY DEF IInv, Resolve, history, drains, Ended, OneOwner, NoLeftovers, Registered, Failing,
     Told, channels
<1>4. Tracked'
  BY DEF IInv, Resolve, history, drains, Reply, Tracked, Registered, Failing, Informed, channels
<1>5. LateOnly'
  BY DrainsKept DEF IInv, Resolve, history, drains, Registered
<1> QED BY <1>1, <1>2, <1>3, <1>4, <1>5 DEF IInv

\* From the listener to its channel.
LEMMA SendResultOK == ASSUME IInv, SendResult PROVE IInv'
<1>1. TypeOK'
  BY DEF IInv, SendResult, history, TypeOK, service, drains
<1>2. OneOwner'
  BY DEF IInv, SendResult, history, drains, OneOwner, Registered, Failing, Told
<1>3. NoLeftovers'
  BY DEF IInv, SendResult, history, drains, NoLeftovers, Registered, Failing, Told
<1>4. Tracked'
  BY DEF IInv, SendResult, history, drains, Tracked, Registered, Failing, Informed
<1>5. LateOnly'
  BY DrainsKept DEF IInv, SendResult, history, drains, Registered
<1> QED BY <1>1, <1>2, <1>3, <1>4, <1>5 DEF IInv

LEMMA BeginDrainOK == ASSUME IInv, BeginDrain PROVE IInv'
<1>1. TypeOK'
  BY DEF IInv, BeginDrain, history, TypeOK, listener, service, channels
<1>2. OneOwner' /\ NoLeftovers' /\ Tracked'
  BY WaitersKept DEF BeginDrain, history, listener
<1>3. LateOnly'
  BY DEF IInv, BeginDrain, history, LateOnly, FailedAll
<1> QED BY <1>1, <1>2, <1>3 DEF IInv

LEMMA DrainOK == ASSUME IInv, NEW d \in Drainers, Drain(d) PROVE IInv'
<1>1. TypeOK'
  <2>1. UNCHANGED <<entries, call, channels, listener, service, drained, drainErr,
     todo, history>>
    BY DEF Drain
  <2>2. draining' \in BOOLEAN
    BY DEF IInv, TypeOK, Drain
  <2>3. drain' \in [Drainers -> [step : {"idle", "polling", "polled", "failing",
     "stopped",
                                         "returned"}, err : {NoError, ErrDrained}]]
    <3>1. drain' = [drain EXCEPT ![d] = [step |-> "returned", err |-> drainErr]]
          \/ drain' = [drain EXCEPT ![d].step = "polling"]
      BY DEF Drain, DrainGoto
    <3> QED BY <3>1 DEF IInv, TypeOK
  <2> QED BY <2>1, <2>2, <2>3 DEF IInv, TypeOK, channels, listener, service, history
<1>2. OneOwner' /\ NoLeftovers' /\ Tracked'
  BY WaitersKept DEF Drain, history, listener
<1>3. LateOnly'
  BY DEF IInv, Drain, history, TypeOK, DrainGoto, LateOnly, FailedAll, Registered
<1> QED BY <1>1, <1>2, <1>3 DEF IInv

LEMMA PolledOK == ASSUME IInv, NEW d \in Drainers, Polled(d) PROVE IInv'
<1>1. TypeOK'
  BY DEF IInv, Polled, history, TypeOK, listener, service, DrainGoto, channels
<1>2. OneOwner' /\ NoLeftovers' /\ Tracked'
  BY WaitersKept DEF Polled, history, listener
<1>3. LateOnly'
  BY DEF IInv, Polled, history, TypeOK, DrainGoto, LateOnly, FailedAll, Registered
<1> QED BY <1>1, <1>2, <1>3 DEF IInv

\* All waiters pass from the registry to this Drain.
LEMMA FailAllOK == ASSUME IInv, NEW d \in Drainers, FailAll(d) PROVE IInv'
<1>1. TypeOK'
  BY DEF IInv, FailAll, history, TypeOK, listener, service, DrainGoto, NoEntries, Waiters,
     channels
<1>2. OneOwner'
  BY DEF IInv, FailAll, history, listener, NoEntries, Waiters, OneOwner, Registered, Failing,
     Told, channels
<1>3. NoLeftovers'
  BY DEF IInv, FailAll, history, listener, Ended, NoEntries, Waiters, NoLeftovers, Registered,
     Failing, Told, channels
<1>4. Tracked'
  <2>1. \A c \in Calls : Registered(c) => Informed(c)'
    BY DEF IInv, TypeOK, FailAll, Informed, Failing, Waiters, Registered
  <2>2. todo[d] = {}
    BY DEF IInv, LateOnly, FailAll
  <2>3. \A c \in Calls : Informed(c) => Informed(c)'
    BY <2>2 DEF IInv, TypeOK, FailAll, Informed, Failing, channels, listener
  <2> QED BY <2>1, <2>3, TrackedKept DEF FailAll, history
<1>5. LateOnly'
  BY DEF IInv, FailAll, history, TypeOK, DrainGoto, NoEntries, LateOnly, FailedAll, Registered
<1> QED BY <1>1, <1>2, <1>3, <1>4, <1>5 DEF IInv

\* And from there to their channels.
LEMMA SendFailureOK ==
  ASSUME IInv, NEW d \in Drainers, NEW c \in Calls, SendFailure(d, c)
  PROVE  IInv'
<1>1. TypeOK'
  BY DEF IInv, SendFailure, history, TypeOK, listener, service
<1>2. OneOwner'
  BY DEF IInv, SendFailure, history, TypeOK, listener, OneOwner, Registered, Failing, Told
<1>3. NoLeftovers'
  BY DEF IInv, SendFailure, history, listener, NoLeftovers, Registered, Failing, Told
<1>4. Tracked'
  BY DEF IInv, SendFailure, history, listener, Tracked, Registered, Failing, Informed
<1>5. LateOnly'
  BY DrainsKept DEF IInv, SendFailure, history, Registered
<1> QED BY <1>1, <1>2, <1>3, <1>4, <1>5 DEF IInv

LEMMA StopListenerOK == ASSUME IInv, NEW d \in Drainers, StopListener(d) PROVE IInv'
<1>1. TypeOK'
  BY DEF IInv, StopListener, history, TypeOK, service, DrainGoto, channels
<1>2. OneOwner' /\ NoLeftovers' /\ Tracked'
  BY WaitersKept DEF StopListener, history
<1>3. LateOnly'
  BY DEF IInv, StopListener, history, DrainGoto, LateOnly, FailedAll, Registered
<1> QED BY <1>1, <1>2, <1>3 DEF IInv

LEMMA DrainedOK == ASSUME IInv, NEW d \in Drainers, Drained(d) PROVE IInv'
<1>1. TypeOK'
  BY DEF IInv, Drained, history, TypeOK, listener, service, DrainGoto, channels
<1>2. OneOwner' /\ NoLeftovers' /\ Tracked'
  BY WaitersKept DEF Drained, history, listener
<1>3. LateOnly'
  BY DEF IInv, Drained, history, DrainGoto, LateOnly, FailedAll, Registered
<1> QED BY <1>1, <1>2, <1>3 DEF IInv

LEMMA Steps == IInv /\ [Next]_vars => IInv'
<1> SUFFICES ASSUME IInv, [Next]_vars PROVE IInv'
  OBVIOUS
<1>1. CASE \E c \in Calls : Requesting(c)
  BY <1>1, CheckOK, RegisterOK, PublishOK, PublishFailsOK, TakeResultOK, TakeFailureOK,
     GiveUpOK, RemoveOK DEF Requesting
<1>2. CASE \E i \in Ids : Resolve(i)
  BY <1>2, ResolveOK
<1>3. CASE SendResult \/ BeginDrain
  BY <1>3, SendResultOK, BeginDrainOK
<1>4. CASE \E d \in Drainers : Draining(d)
  BY <1>4, DrainOK, PolledOK, FailAllOK, SendFailureOK, StopListenerOK,
     DrainedOK DEF Draining
<1>5. CASE UNCHANGED vars
  <2>1. TypeOK'
    BY <1>5 DEF IInv, TypeOK, vars, history, channels, listener, service, drains
  <2>2. OneOwner' /\ NoLeftovers' /\ Tracked'
    BY <1>5, WaitersKept DEF vars, history, channels, listener, drains
  <2>3. LateOnly'
    BY <1>5, DrainsKept DEF vars, history, drains, Registered
  <2> QED BY <2>1, <2>2, <2>3 DEF IInv
<1> QED BY <1>1, <1>2, <1>3, <1>4, <1>5 DEF Next

THEOREM Invariance == Spec => []IInv
<1> QED BY Starts, Steps, PTL DEF Spec

\* No send of the listener or of Drain to the channel of a waiter ever blocks
\* (registry.go, resolve and failAll).
THEOREM SendsNeverBlock == Spec => []NeverBlocks
<1>1. IInv => NeverBlocks
  BY DEF IInv, TypeOK, OneOwner, NeverBlocks, Failing, Told
<1> QED BY <1>1, Invariance, PTL

\* A call that has not ended is never forgotten, but by one of its own id that gave up
\* although it was informed (registry.go, register, resolve, remove, failAll).
THEOREM WaitersTracked == Spec => []Tracked
<1>1. IInv => Tracked
  BY DEF IInv
<1> QED BY <1>1, Invariance, PTL

\* When Drain has returned nobody who registered before it took the waiters is left
\* waiting, unless another call removed its waiter (waiter.go, Drain).
THEOREM NobodyLeftWaiting == Spec => []DrainEndsAll
<1>1. IInv => DrainEndsAll
  BY DEF IInv, Tracked, LateOnly, FailedAll, DrainEndsAll
<1> QED BY <1>1, Invariance, PTL
=============================================================================
