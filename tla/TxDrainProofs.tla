---------------------------- MODULE TxDrainProofs ----------------------------
(***************************************************************************)
(* With any number of draining relays beside others, and any failures:     *)
(* no event is lost; rows claimed by draining relays only are published by *)
(* one of them at a time unless the database has lost its transaction; no  *)
(* latest-only subject is closed altogether; rows are parked for cause.    *)
(* If relays are punctual a row is closed for good, and one fault stores   *)
(* no event twice.                                                         *)
(***************************************************************************)
EXTENDS TxDrain, OutboxRelayProofs

USE Settings, DrainSettings DEF IInv

\* Rows that a rollback brings back are open and have the shape.
TxRows ==
  /\ DOMAIN tx = Relays
  /\ \A r \in Relays : \A e \in DOMAIN tx[r].rows :
       Row(tx[r].rows[e]) /\ tx[r].rows[e].state = "PENDING"

\* What a draining relay publishes is in its transaction, which it has while it
\* publishes and settles, or is dead.
Own(r) ==
  /\ tx[r].step \in {"none", "open", "lost"}
  /\ tx[r].step = "none" => Batch(r) \subseteq claimed
  /\ tx[r].step = "open" => Batch(r) \subseteq DOMAIN tx[r].rows
  /\ tx[r].step # "open" => DOMAIN tx[r].rows = {}
  /\ relay[r].step # "idle" => up[r]
  /\ up[r] /\ tx[r].step # "none" => relay[r].step \in {"publish", "settle"}
  /\ ~up[r] => Batch(r) = {}

\* Nobody else moves a row of it, and transactions have no row in common.
LockedRows ==
  /\ \A r \in Relays : \A e \in DOMAIN tx[r].rows : e \in Events /\ row[e].state = "locked"
  /\ \A q, r \in Relays : q # r => DOMAIN tx[q].rows \cap DOMAIN tx[r].rows = {}

Apart == DOMAIN up = Relays /\ LockedRows /\ \A r \in Relays : Own(r)

-----------------------------------------------------------------------------
(* No event is lost *)

LEMMA NoRows == DOMAIN NoTx.rows = {} /\ NoTx.step = "none"
                /\ DOMAIN [NoTx EXCEPT !.step = "lost"].rows = {}
                /\ [NoTx EXCEPT !.step = "lost"].step = "lost"
BY DEF NoTx

LEMMA TxEnded ==
  ASSUME TxRows, NEW r \in Relays, NEW x, tx' = [tx EXCEPT ![r] = x], DOMAIN x.rows = {}
  PROVE  TxRows'
BY DEF TxRows

LEMMA TxKept == ASSUME TxRows, tx' = tx PROVE TxRows'
BY DEF TxRows

\* The relay drops its batch and the rows change to some that are not closed.
LEMMA DroppedOK ==
  ASSUME IInv, NEW r \in Relays, relay' = [relay EXCEPT ![r] = NoBatch] \/ relay' = relay,
         RowsOK', \A e \in Events : row'[e] = row[e] \/ ~Closed(e)',
         UNCHANGED <<now, seen, stored, superseded>>
  PROVE  IInv'
<1>1. RowsOK /\ ClockOK /\ RelaysOK
  BY ShapeParts
<1>2. RelaysOK' /\ \A q \in Relays : \A e \in Batch(q)' : e \in Batch(q) /\ relay'[q] = relay[q]
  <2>1. CASE relay' = relay
    BY <1>1, <2>1, RelaysKept DEF Batch
  <2>2. CASE relay' = [relay EXCEPT ![r] = NoBatch]
    BY <1>1, <2>2, BatchDropped
  <2> QED BY <2>1, <2>2
<1>3. ClockOK'
  BY <1>1 DEF ClockOK
<1> QED BY <1>2, <1>3, NothingClosed

LEMMA RolledBackRows ==
  ASSUME IInv, TxRows, NEW r \in Relays, RolledBack(r)
  PROVE  RowsOK' /\ \A e \in Events : row'[e] = row[e] \/ ~Closed(e)'
<1>1. RowsOK
  BY ShapeParts
<1>2. /\ row' = [e \in Events |-> row'[e]]
      /\ \A e \in Events :
           row'[e] = row[e] \/ (Row(row'[e]) /\ row'[e].state = "PENDING")
  BY DEF RolledBack, TxRows
<1> QED BY <1>1, <1>2, SomeWritten DEF Closed

\* Rows are closed for outcomes "ok" only, which are true.
LEMMA DrainedOK ==
  ASSUME IInv, NEW r \in Relays, DrainedRows(r), relay' = [relay EXCEPT ![r] = NoBatch],
         UNCHANGED <<now, seen, stored, superseded>>
  PROVE  IInv'
<1>1. RowsOK /\ ClockOK /\ RelaysOK
  BY ShapeParts
<1>2. RelaysOK' /\ \A q \in Relays : \A e \in Batch(q)' : e \in Batch(q) /\ relay'[q] = relay[q]
  BY <1>1, BatchDropped
<1>3. PICK delay : row' = [e \in Events |->
         IF e \in Failures(r) THEN Restored(r, e, delay[e])
         ELSE IF e \notin Successes(r) THEN row[e]
         ELSE IF DeleteAfterSend THEN Gone("sent")
         ELSE [row[e] EXCEPT !.state = "DONE"]]
  BY DEF DrainedRows
<1>4. row' = [e \in Events |-> row'[e]]
  BY <1>3
<1>5. ASSUME NEW e \in Events
      PROVE  /\ row'[e] = row[e] \/ Row(row'[e])
             /\ Closed(e)' => Closed(e) \/ e \in Successes(r)
  <2>1. CASE e \in Failures(r)
    <3>1. row'[e] = Restored(r, e, delay[e])
      BY <1>3, <2>1
    <3>2. relay[r].snap[e] \in Nat
      BY <1>1, <2>1, RelayRecord DEF Failures
    <3>3. relay[r].snap[e] + (IF Unknown(relay[r].outcome[e]) THEN 0 ELSE 1) \in Nat
      BY <3>2
    <3>4. Row(Restored(r, e, delay[e])) /\ Restored(r, e, delay[e]).state \in {"PARKED", "PENDING"}
      BY <3>3 DEF Row, Restored, States
    <3> QED BY <3>1, <3>4 DEF Closed
  <2>2. CASE e \notin Failures(r) /\ e \notin Successes(r)
    <3>1. row'[e] = row[e]
      BY <1>3, <2>2
    <3> QED BY <3>1 DEF Closed
  <2>3. CASE e \notin Failures(r) /\ e \in Successes(r)
    <3>1. row'[e] = Gone("sent") \/ row'[e] = [row[e] EXCEPT !.state = "DONE"]
      BY <1>3, <2>3
    <3>2. Row(Gone("sent"))
      BY GoneRow DEF NotThere
    <3>3. Row([row[e] EXCEPT !.state = "DONE"])
      <4> DEFINE s == row[e].state
                 a == row[e].attempts
                 n == row[e].next
                 u == row[e].updated
      <4>1. row[e] = [state |-> s, attempts |-> a, next |-> n, updated |-> u] /\ a \in Nat
        BY <1>1, RowRecord
      <4> HIDE DEF s, a, n, u
      <4> QED BY <4>1 DEF Row, States
    <3> QED BY <2>3, <3>1, <3>2, <3>3
  <2> QED BY <2>1, <2>2, <2>3
<1>6. RowsOK'
  BY <1>1, <1>4, <1>5, SomeWritten
<1>7. Shape'
  <2>1. ClockOK'
    BY <1>1 DEF ClockOK
  <2> QED BY <1>2, <1>6, <2>1, ShapeParts, PTL
<1>8. \A e \in Events : Closed(e)' => Closed(e) \/ stored'[e] > 0 \/ e \in superseded'
  BY <1>5 DEF Successes, OkIsTrue
<1>9. \A e \in Events : stored'[e] >= stored[e]
  BY <1>1 DEF ClockOK
<1> QED BY <1>2, <1>7, <1>8, <1>9, Preserved

LEMMA DrainProcessOK ==
  ASSUME IInv, TxRows, NEW r \in Relays, DrainProcess(r)
  PROVE  IInv' /\ TxRows'
<1>1. RowsOK /\ ClockOK /\ RelaysOK
  BY ShapeParts
<1>2. UNCHANGED <<now, row, seen, stored, superseded, tx>>
  BY DEF DrainProcess, stream, history, drainVars
<1>3. Goto(r, "reclaim") \/ Goto(r, "claim")
  BY DEF DrainProcess
<1>4. RelaysOK' /\ \A q \in Relays : relay'[q].outcome = relay[q].outcome /\ Batch(q)' = Batch(q)
  BY <1>1, <1>3, StepWritten
<1>5. RowsOK' /\ ClockOK'
  BY <1>1, <1>2, RowsKept DEF ClockOK
<1>6. IInv'
  BY <1>2, <1>4, <1>5, NothingClosed
<1> QED BY <1>2, <1>6, TxKept

LEMMA DrainClaimOK ==
  ASSUME IInv, TxRows, NEW r \in Relays, DrainClaim(r)
  PROVE  IInv' /\ TxRows'
<1> DEFINE S == OldestPending
<1>1. RowsOK /\ ClockOK /\ RelaysOK
  BY ShapeParts
<1>2. UNCHANGED <<now, seen, stored>> /\ ClockOK'
  BY <1>1 DEF DrainClaim, stream, ClockOK
<1>3. CASE relay' = [relay EXCEPT ![r] = NoBatch] /\ UNCHANGED <<row, tx, superseded>>
  <2>1. RowsOK' /\ \A e \in Events : row'[e] = row[e]
    BY <1>1, <1>3, RowsKept
  <2>2. IInv'
    BY <1>2, <1>3, <2>1, DroppedOK
  <2> QED BY <1>3, <2>2, TxKept
<1>4. CASE S # {}
  <2> DEFINE sn == [e \in S |-> row[e].attempts]
             o == [e \in S |-> IF Superseded(e, S) THEN "ok" ELSE "none"]
             b == [step |-> "publish", snap |-> sn, outcome |-> o]
             x == [step |-> "open", rows |-> [e \in S |-> row[e]]]
  <2>1. /\ row' = [e \in Events |-> IF e \in S THEN Moved(e, "locked") ELSE row[e]]
        /\ relay' = [relay EXCEPT ![r] = b]
        /\ superseded' = superseded \cup {e \in S : Superseded(e, S)}
        /\ tx' = [tx EXCEPT ![r] = x]
    BY <1>4 DEF DrainClaim, Taken
  <2>2. S \subseteq Events /\ \A e \in S : row[e].state = "PENDING"
    BY DEF OldestPending, Retryable
  <2>3. /\ DOMAIN o = DOMAIN sn /\ DOMAIN sn = S /\ \A e \in DOMAIN sn : sn[e] \in Nat
        /\ \A e \in S : o[e] = "ok" => Superseded(e, S)
    BY <1>1, <2>2, RowRecord
  <2>4. RowsOK' /\ \A e \in Events : row'[e] = row[e] \/ ~Closed(e)'
    <3>1. row' = [e \in Events |-> row'[e]]
      BY <2>1
    <3>2. \A e \in Events : row'[e] = row[e] \/ row'[e] = Moved(e, "locked")
      BY <2>1
    <3>3. \A e \in Events : Row(Moved(e, "locked")) /\ Moved(e, "locked").state = "locked"
      BY <1>1, MovedRow DEF States
    <3> QED BY <1>1, <3>1, <3>2, <3>3, SomeWritten DEF Closed
  <2>5. TxRows'
    <3>1. \A e \in S : Row(row[e]) /\ row[e].state = "PENDING"
      BY <1>1, <2>2, RowRecord DEF Row
    <3>2. \A q \in Relays : tx'[q] = IF q = r THEN x ELSE tx[q]
      BY <2>1 DEF TxRows
    <3>3. DOMAIN x.rows = S /\ \A e \in S : x.rows[e] = row[e]
      OBVIOUS
    <3>4. DOMAIN tx' = Relays
      BY <2>1 DEF TxRows
    <3> HIDE DEF x, S
    <3> QED BY <3>1, <3>2, <3>3, <3>4 DEF TxRows
  <2> HIDE DEF sn, o, x, S
  <2>6. RelaysOK'
    BY <1>1, <2>1, <2>2, <2>3, RelayWritten
  <2>7. \A q \in Relays : relay'[q] = IF q = r THEN b ELSE relay[q]
    BY <1>1, <2>1 DEF RelaysOK
  <2>8. ASSUME NEW q \in Relays, NEW e \in Batch(q)', relay'[q].outcome[e] = "ok"
        PROVE  \/ e \in Batch(q) /\ relay[q].outcome[e] = "ok"
               \/ stored'[e] > 0 \/ e \in superseded'
    <3>1. CASE q = r
      BY <2>1, <2>3, <2>7, <2>8, <3>1 DEF Batch
    <3>2. CASE q # r
      BY <2>7, <2>8, <3>2 DEF Batch
    <3> QED BY <3>1, <3>2
  <2>9. Shape'
    BY <1>2, <2>4, <2>6, ShapeParts, PTL
  <2>10. ASSUME NEW e \in Events PROVE stored'[e] >= stored[e] /\ (Closed(e)' => Closed(e))
    <3>1. stored'[e] = stored[e] /\ stored[e] \in Nat
      BY <1>1, <1>2 DEF ClockOK
    <3>2. Closed(e)' => Closed(e)
      BY <2>4 DEF Closed
    <3> QED BY <3>1, <3>2
  <2>11. superseded \subseteq superseded'
    BY <2>1
  <2>12. IInv'
    BY <1>2, <2>8, <2>9, <2>10, <2>11, Preserved
  <2> QED BY <2>5, <2>12
<1> QED BY <1>3, <1>4 DEF DrainClaim

\* The transaction ends, or the relay finds that it has.
LEMMA DrainEndsOK ==
  ASSUME IInv, TxRows, NEW r \in Relays,
         DrainClaimFails(r) \/ DrainCommit(r) \/ DrainFails(r) \/ Lost(r) \/ DrainLost(r)
  PROVE  IInv' /\ TxRows'
<1>1. RowsOK
  BY ShapeParts
<1>2. /\ UNCHANGED <<now, seen, stored, superseded>>
      /\ relay' = [relay EXCEPT ![r] = NoBatch] \/ relay' = relay
  BY DEF DrainClaimFails, DrainCommit, DrainFails, Lost, DrainLost, Failed, stream, history
<1>3. TxRows'
  <2>1. \E x \in {NoTx, [NoTx EXCEPT !.step = "lost"]} : tx' = [tx EXCEPT ![r] = x]
    BY DEF DrainClaimFails, DrainCommit, DrainFails, Lost, DrainLost, Failed
  <2> QED BY <2>1, NoRows, TxEnded
<1>4. CASE DrainedRows(r) /\ relay' = [relay EXCEPT ![r] = NoBatch]
  BY <1>2, <1>3, <1>4, DrainedOK
<1>5. CASE RolledBack(r) \/ row' = row
  <2>1. RowsOK' /\ \A e \in Events : row'[e] = row[e] \/ ~Closed(e)'
    BY <1>1, <1>5, RolledBackRows, RowsKept
  <2> QED BY <1>2, <1>3, <2>1, DroppedOK
<1> QED BY <1>4, <1>5 DEF DrainClaimFails, DrainCommit, DrainFails, Lost, DrainLost, Failed

\* What is not of the draining relays is a step of OutboxRelay.
LEMMA OtherSteps ==
  ASSUME [DrainNext]_allVars
  PROVE  \/ [Next]_vars /\ UNCHANGED tx
         \/ \E r \in Relays : Die(r) /\ (tx' = tx \/ tx' = [tx EXCEPT ![r] = NoTx])
         \/ \E r \in Relays : DrainPath(r)
<1>1. CASE Tick /\ UNCHANGED drainVars
  BY <1>1 DEF Next, drainVars
<1>2. CASE \E e \in Events : (Save(e) \/ Arrives(e)) /\ UNCHANGED drainVars
  BY <1>2 DEF Next, drainVars
<1>3. CASE \E S \in SUBSET Events : RequeueParked(S) /\ UNCHANGED drainVars
  BY <1>3 DEF Next, drainVars
<1>4. CASE \E r \in Relays : ClaimPath(r) \/ BothPaths(r)
  <2>1. \E r \in Relays : Relaying(r)
    BY <1>4 DEF ClaimPath, BothPaths, Relaying
  <2>2. UNCHANGED tx
    BY <1>4 DEF ClaimPath, BothPaths, drainVars
  <2> QED BY <2>1, <2>2 DEF Next
<1>5. CASE \E r \in Relays : Kill(r)
  BY <1>5 DEF Kill
<1>6. CASE \E r \in Relays : Operate(r) /\ ~Kill(r)
  <2>1. \E r \in Relays : Operating(r)
    BY <1>6 DEF Operate, Operating
  <2>2. UNCHANGED tx
    BY <1>6 DEF Operate, drainVars
  <2> QED BY <2>1, <2>2 DEF Next
<1>7. CASE \E r \in Relays : DrainPath(r)
  BY <1>7
<1>8. CASE UNCHANGED allVars
  BY <1>8 DEF allVars, drainVars
<1> QED BY <1>1, <1>2, <1>3, <1>4, <1>5, <1>6, <1>7, <1>8 DEF DrainNext

LEMMA DrainInductive == IInv /\ TxRows /\ [DrainNext]_allVars => IInv' /\ TxRows'
<1> SUFFICES ASSUME IInv, TxRows, [DrainNext]_allVars PROVE IInv' /\ TxRows'
  OBVIOUS
<1>1. CASE [Next]_vars /\ UNCHANGED tx
  BY <1>1, Inductive, TxKept
<1>2. CASE \E r \in Relays : Die(r) /\ (tx' = tx \/ tx' = [tx EXCEPT ![r] = NoTx])
  BY <1>2, DieOK, TxKept, TxEnded, NoRows
<1>3. CASE \E r \in Relays : DrainPath(r)
  BY <1>3, DrainProcessOK, DrainClaimOK, DrainEndsOK DEF DrainPath
<1> QED BY <1>1, <1>2, <1>3, OtherSteps

LEMMA DrainInitOK == DrainInit => IInv /\ TxRows
BY InitOK, NoRows DEF DrainInit, TxRows

\* No event gets lost (tx_drain.go, drainSettle), draining relays or not, whatever
\* is rolled back and when: a row is closed only when the stream stored its
\* message or it was superseded.
THEOREM NoEventLostDraining == DrainSpec => []ClosedWasSent
<1>1. DrainSpec => [](IInv /\ TxRows)
  BY DrainInitOK, DrainInductive, PTL DEF DrainSpec
<1> QED BY <1>1, PTL

-----------------------------------------------------------------------------
(* Draining relays publish no row together *)

\* A step of one relay, which may lock rows that no other has.
LEMMA StepOfOne ==
  ASSUME Apart, NEW r \in Relays, DOMAIN up' = Relays, claimed \subseteq claimed', Own(r)',
         \A q \in Relays \ {r} : relay'[q] = relay[q] /\ tx'[q] = tx[q] /\ up'[q] = up[q],
         \A q \in Relays : \A e \in DOMAIN tx'[q].rows :
           \/ e \in DOMAIN tx[q].rows /\ row'[e].state = row[e].state
           \/ q = r /\ e \in Events /\ row'[e].state = "locked" /\ row[e].state # "locked"
  PROVE  Apart'
<1>1. ASSUME NEW q \in Relays PROVE Own(q)'
  <2>1. CASE q = r
    BY <2>1
  <2>2. CASE q # r
    <3>1. /\ relay'[q] = relay[q] /\ tx'[q] = tx[q] /\ up'[q] = up[q]
          /\ Batch(q)' = Batch(q)
      BY <2>2 DEF Batch
    <3> QED BY <3>1 DEF Own, Apart
  <2> QED BY <2>1, <2>2
<1>2. ASSUME NEW q \in Relays, NEW e \in DOMAIN tx'[q].rows
      PROVE  e \in Events /\ row'[e].state = "locked"
  BY <1>2 DEF Apart, LockedRows
<1>3. ASSUME NEW p \in Relays, NEW q \in Relays, p # q, NEW e \in DOMAIN tx'[p].rows,
             e \in DOMAIN tx'[q].rows
      PROVE  FALSE
  BY <1>3 DEF Apart, LockedRows
<1> QED BY <1>1, <1>2, <1>3 DEF Apart, LockedRows

\* A step that takes nothing from the rows locked and ends nothing.
LEMMA StepBeside ==
  ASSUME Apart, NEW r \in Relays, DOMAIN up' = Relays, claimed \subseteq claimed', Own(r)', tx' = tx,
         \A q \in Relays \ {r} : relay'[q] = relay[q] /\ up'[q] = up[q],
         \A e \in Events : row[e].state = "locked" => row'[e] = row[e]
  PROVE  Apart'
<1>1. \A q \in Relays : \A e \in DOMAIN tx'[q].rows : e \in DOMAIN tx[q].rows /\ row'[e] = row[e]
  BY DEF Apart, LockedRows
<1> QED BY <1>1, StepOfOne

\* A relay that is up and has no transaction may do what it likes with what it
\* claimed by the claim path.
LEMMA NoTransaction ==
  ASSUME Apart, NEW r \in Relays, tx[r].step = "none", up[r],
         claimed \subseteq claimed', Batch(r)' \subseteq claimed', UNCHANGED <<tx, up>>,
         \A q \in Relays \ {r} : relay'[q] = relay[q],
         \A e \in Events : row[e].state = "locked" => row'[e] = row[e]
  PROVE  Apart'
<1>1. Own(r)'
  BY DEF Own, Apart
<1>2. DOMAIN up' = Relays
  BY DEF Apart
<1> QED BY <1>1, <1>2, StepBeside

LEMMA ClaimPathApart ==
  ASSUME IInv, Apart, NEW r \in Relays, ClaimPath(r)
  PROVE  Apart'
<1>1. RelaysOK
  BY ShapeParts
<1>2. tx[r].step = "none" /\ up[r]
  BY DEF ClaimPath, Apart, Own, Process, Claim, ClaimFails, SettleFailure, SettleSuccesses
<1>3. UNCHANGED <<tx, up>> /\ claimed \subseteq claimed' /\ Batch(r)' \subseteq claimed'
  BY DEF ClaimPath, Process, Claim, ClaimFails, SettleFailure, SettleSuccesses, Batch
<1>4. \A q \in Relays \ {r} : relay'[q] = relay[q]
  BY <1>1, RelayRecord DEF ClaimPath, Process, Claim, ClaimFails, SettleFailure, SettleSuccesses, Goto, Outcome
<1>5. \A e \in Events : row[e].state = "locked" => row'[e] = row[e]
  BY DEF ClaimPath, Waits
<1> QED BY <1>2, <1>3, <1>4, <1>5, NoTransaction

LEMMA BothPathsApart ==
  ASSUME IInv, Apart, NEW r \in Relays, BothPaths(r)
  PROVE  Apart'
<1>1. RelaysOK
  BY ShapeParts
<1>2. UNCHANGED <<tx, claimed>>
  BY DEF BothPaths, drainVars
<1>3. CASE Reclaim(r)
  <2>1. tx[r].step = "none" /\ up[r] /\ UNCHANGED up /\ Goto(r, "claim")
    BY <1>3 DEF Reclaim, Apart, Own
  <2>2. Batch(r)' = Batch(r) /\ \A q \in Relays \ {r} : relay'[q] = relay[q]
    BY <1>1, <2>1, StepIs
  <2>3. \A e \in Events : row[e].state = "locked" => row'[e] = row[e]
    BY <1>3 DEF Reclaim, Stalled
  <2>4. Batch(r)' \subseteq claimed'
    BY <1>2, <2>1, <2>2 DEF Apart, Own
  <2> QED BY <1>2, <2>1, <2>2, <2>3, <2>4, NoTransaction
<1>4. CASE Publishing(r) \/ Published(r)
  <2>1. relay[r].step = "publish" /\ UNCHANGED <<row, up>>
    BY <1>4 DEF Publishing, Publish, Transport, Refused, Unanswered, Published
  <2>2. /\ relay'[r].step \in {"publish", "settle"} /\ Batch(r)' = Batch(r)
        /\ \A q \in Relays \ {r} : relay'[q] = relay[q]
    <3>1. CASE Published(r)
      BY <1>1, <3>1, StepIs DEF Published
    <3>2. CASE Publishing(r)
      <4>1. PICK e \in Batch(r), o \in {"ok", "transport", "refused", "timeout"} : Outcome(r, e, o)
        BY <3>2 DEF Publishing, Publish, Transport, Refused, Unanswered
      <4> QED BY <1>1, <2>1, <4>1, RelayRecord DEF Outcome, Batch
    <3> QED BY <1>4, <3>1, <3>2
  <2>3. up[r] /\ Own(r)
    BY <2>1 DEF Apart, Own
  <2>4. Own(r)' /\ DOMAIN up' = Relays
    BY <1>2, <2>1, <2>2, <2>3 DEF Own, Apart
  <2> QED BY <1>2, <2>1, <2>2, <2>4, StepBeside
<1> QED BY <1>3, <1>4 DEF BothPaths

LEMMA DrainClaimApart ==
  ASSUME IInv, TxRows, Apart, NEW r \in Relays, DrainClaim(r)
  PROVE  Apart'
<1> DEFINE S == OldestPending
<1>1. RelaysOK /\ RowsOK
  BY ShapeParts
<1>2. UNCHANGED <<up, claimed>> /\ tx[r].step = "none" /\ up[r]
  BY DEF DrainClaim, Apart, Own
<1>3. CASE relay' = [relay EXCEPT ![r] = NoBatch] /\ UNCHANGED <<row, tx>>
  <2>1. Batch(r)' = {} /\ \A q \in Relays \ {r} : relay'[q] = relay[q]
    BY <1>1, <1>3, BatchDropped
  <2> QED BY <1>2, <1>3, <2>1, NoTransaction
<1>4. CASE S # {}
  <2>1. /\ row' = [e \in Events |-> IF e \in S THEN Moved(e, "locked") ELSE row[e]]
        /\ relay' = [relay EXCEPT ![r] = Taken(S)]
        /\ tx' = [tx EXCEPT ![r] = [step |-> "open", rows |-> [e \in S |-> row[e]]]]
    BY <1>4 DEF DrainClaim
  <2>2. S \subseteq Events /\ \A e \in S : row[e].state = "PENDING"
    BY DEF OldestPending, Retryable
  <2> HIDE DEF S
  <2>3. /\ tx'[r].step = "open" /\ DOMAIN tx'[r].rows = S
        /\ \A q \in Relays \ {r} : tx'[q] = tx[q]
    BY <2>1 DEF TxRows
  <2>4. /\ relay'[r].step = "publish" /\ Batch(r)' = S
        /\ \A q \in Relays \ {r} : relay'[q] = relay[q]
    BY <1>1, <2>1, RelayRecord DEF Taken, Batch
  <2>5. Own(r)' /\ DOMAIN up' = Relays
    BY <1>2, <2>3, <2>4 DEF Own, Apart
  <2>6. \A q \in Relays : \A e \in DOMAIN tx'[q].rows :
           \/ e \in DOMAIN tx[q].rows /\ row'[e].state = row[e].state
           \/ q = r /\ e \in Events /\ row'[e].state = "locked" /\ row[e].state # "locked"
    <3>1. \A e \in S : row'[e].state = "locked"
      BY <2>1, <2>2 DEF Moved
    <3>2. \A e \in Events : row[e].state = "locked" => row'[e] = row[e]
      BY <2>1, <2>2
    <3> QED BY <2>2, <2>3, <3>1, <3>2 DEF Apart, LockedRows
  <2> QED BY <1>2, <2>3, <2>4, <2>5, <2>6, StepOfOne
<1> QED BY <1>3, <1>4 DEF DrainClaim

\* A transaction that ends changes rows of its own only.
LEMMA EndApart ==
  ASSUME Apart, TxRows, NEW r \in Relays, UNCHANGED <<up, claimed>>,
         NEW x, tx' = [tx EXCEPT ![r] = x], DOMAIN x.rows = {}, Own(r)',
         \A q \in Relays \ {r} : relay'[q] = relay[q],
         \A e \in Events : row'[e] = row[e] \/ e \in DOMAIN tx[r].rows
  PROVE  Apart'
<1>1. tx'[r] = x /\ \A q \in Relays \ {r} : tx'[q] = tx[q]
  BY DEF TxRows
<1>2. \A q \in Relays : \A e \in DOMAIN tx'[q].rows : e \in DOMAIN tx[q].rows /\ row'[e] = row[e]
  <2> SUFFICES ASSUME NEW q \in Relays, NEW e \in DOMAIN tx'[q].rows
               PROVE  e \in DOMAIN tx[q].rows /\ row'[e] = row[e]
    OBVIOUS
  <2>1. q # r /\ e \in DOMAIN tx[q].rows
    BY <1>1
  <2>2. e \in Events /\ e \notin DOMAIN tx[r].rows
    BY <2>1 DEF Apart, LockedRows
  <2> QED BY <2>1, <2>2
<1>3. DOMAIN up' = Relays
  BY DEF Apart
<1> QED BY <1>1, <1>2, <1>3, StepOfOne

LEMMA DrainEndsApart ==
  ASSUME IInv, TxRows, Apart, NEW r \in Relays,
         DrainClaimFails(r) \/ DrainCommit(r) \/ DrainFails(r) \/ Lost(r) \/ DrainLost(r)
  PROVE  Apart'
<1>1. RelaysOK
  BY ShapeParts
<1>2. UNCHANGED <<up, claimed>>
  BY DEF DrainClaimFails, DrainCommit, DrainFails, Lost, DrainLost, Failed
<1>3. \A e \in Events : row'[e] = row[e] \/ e \in DOMAIN tx[r].rows
  <2>1. CASE row' = row
    BY <2>1
  <2>2. CASE RolledBack(r)
    BY <2>2 DEF RolledBack
  <2>3. CASE DrainedRows(r) /\ tx[r].step = "open"
    <3>1. \A e \in Events : row'[e] = row[e] \/ e \in Batch(r)
      BY <2>3 DEF DrainedRows, Failures, Successes
    <3> QED BY <2>3, <3>1 DEF Apart, Own
  <2> QED BY <2>1, <2>2, <2>3 DEF DrainClaimFails, DrainCommit, DrainFails, Lost, DrainLost, Failed
<1>4. CASE relay' = [relay EXCEPT ![r] = NoBatch] /\ tx' = [tx EXCEPT ![r] = NoTx]
  <2>1. /\ relay'[r] = NoBatch /\ Batch(r)' = {}
        /\ \A q \in Relays \ {r} : relay'[q] = relay[q]
    BY <1>1, <1>4, BatchDropped, RelayRecord
  <2>2. tx'[r] = NoTx
    BY <1>4 DEF TxRows
  <2>3. Own(r)'
    BY <2>1, <2>2, NoRows DEF Own, NoBatch
  <2> QED BY <1>2, <1>3, <1>4, <2>1, <2>3, NoRows, EndApart
<1>5. CASE Lost(r)
  <2> DEFINE x == IF up[r] THEN [NoTx EXCEPT !.step = "lost"] ELSE NoTx
  <2>1. tx[r].step = "open" /\ relay' = relay /\ tx' = [tx EXCEPT ![r] = x]
    BY <1>5 DEF Lost
  <2>2. DOMAIN x.rows = {} /\ x.step = IF up[r] THEN "lost" ELSE "none"
    BY NoRows
  <2> HIDE DEF x
  <2>3. tx'[r] = x /\ Batch(r)' = Batch(r)
    BY <2>1 DEF TxRows, Batch
  <2>4. Own(r)
    BY DEF Apart
  <2>5. Own(r)'
    BY <1>2, <2>1, <2>2, <2>3, <2>4 DEF Own
  <2> QED BY <1>2, <1>3, <2>1, <2>2, <2>5, EndApart
<1> QED BY <1>4, <1>5 DEF DrainClaimFails, DrainCommit, DrainFails, DrainLost, Failed

LEMMA DrainProcessApart ==
  ASSUME IInv, Apart, NEW r \in Relays, DrainProcess(r)
  PROVE  Apart'
<1>1. RelaysOK
  BY ShapeParts
<1>2. /\ UNCHANGED <<row, up, tx, claimed>> /\ up[r] /\ tx[r].step = "none"
      /\ Goto(r, "reclaim") \/ Goto(r, "claim")
  BY DEF DrainProcess, drainVars, Apart, Own
<1>3. Batch(r)' = Batch(r) /\ \A q \in Relays \ {r} : relay'[q] = relay[q]
  BY <1>1, <1>2, StepIs
<1>4. Batch(r)' \subseteq claimed'
  BY <1>2, <1>3 DEF Apart, Own
<1> QED BY <1>2, <1>3, <1>4, NoTransaction

LEMMA OperateApart ==
  ASSUME IInv, TxRows, Apart, NEW r \in Relays, Operate(r)
  PROVE  Apart'
<1>1. RelaysOK /\ DOMAIN up = Relays /\ Own(r)
  BY ShapeParts DEF Apart
<1>2. CASE Kill(r)
  <2>1. /\ relay' = [relay EXCEPT ![r] = NoBatch] /\ up' = [up EXCEPT ![r] = FALSE]
        /\ UNCHANGED <<row, claimed>>
        /\ tx' = IF tx[r].step = "lost" THEN [tx EXCEPT ![r] = NoTx] ELSE tx
    BY <1>2 DEF Kill, Die
  <2>2. /\ relay'[r] = NoBatch /\ Batch(r)' = {} /\ ~up'[r] /\ DOMAIN up' = Relays
        /\ \A q \in Relays \ {r} : relay'[q] = relay[q] /\ up'[q] = up[q]
    BY <1>1, <2>1, BatchDropped, RelayRecord
  <2>3. CASE tx[r].step = "lost"
    <3>1. tx'[r] = NoTx /\ \A q \in Relays \ {r} : tx'[q] = tx[q]
      BY <2>1, <2>3 DEF TxRows
    <3>2. Own(r)'
      BY <2>2, <3>1, NoRows DEF Own, NoBatch
    <3>3. \A q \in Relays : \A e \in DOMAIN tx'[q].rows :
            e \in DOMAIN tx[q].rows /\ row'[e].state = row[e].state
      BY <2>1, <3>1, NoRows
    <3>4. DOMAIN up' = Relays /\ claimed \subseteq claimed'
      BY <2>1, <2>2
    <3>5. \A q \in Relays \ {r} : relay'[q] = relay[q] /\ tx'[q] = tx[q] /\ up'[q] = up[q]
      BY <2>2, <3>1
    <3> QED BY <3>2, <3>3, <3>4, <3>5, StepOfOne
  <2>4. CASE tx' = tx /\ tx[r].step # "lost"
    <3>1. Own(r)'
      BY <1>1, <2>2, <2>4 DEF Own, NoBatch
    <3> QED BY <2>1, <2>2, <2>4, <3>1, StepBeside
  <2> QED BY <2>1, <2>3, <2>4
<1>3. CASE tx[r].step = "none" /\ Start(r) /\ UNCHANGED drainVars
  <2>1. /\ up' = [up EXCEPT ![r] = TRUE] /\ UNCHANGED <<row, relay, tx, claimed>>
        /\ Batch(r)' = Batch(r)
    BY <1>3 DEF Start, drainVars, Batch
  <2>2. up'[r] /\ DOMAIN up' = Relays /\ \A q \in Relays \ {r} : relay'[q] = relay[q] /\ up'[q] = up[q]
    BY <1>1, <2>1
  <2>3. Own(r)'
    BY <1>1, <1>3, <2>1, <2>2 DEF Own
  <2> QED BY <2>1, <2>2, <2>3, StepBeside
<1>4. CASE (Pause(r) \/ Resume(r) \/ \E S \in SUBSET Events : Cleanup(r, S)) /\ UNCHANGED drainVars
  <2>1. UNCHANGED <<relay, up, tx, claimed>> /\ Batch(r)' = Batch(r)
    BY <1>4 DEF Pause, Resume, Cleanup, drainVars, Batch
  <2>2. \A e \in Events : row[e].state = "locked" => row'[e] = row[e]
    BY <1>4 DEF Pause, Resume, Cleanup, Expired
  <2>3. Own(r)'
    BY <1>1, <2>1 DEF Own
  <2> QED BY <1>1, <2>1, <2>2, <2>3, StepBeside
<1> QED BY <1>2, <1>3, <1>4 DEF Operate

\* Steps of no relay.
LEMMA OthersApart ==
  ASSUME Apart, UNCHANGED <<relay, up, drainVars>>,
         \A e \in Events : row[e].state = "locked" => row'[e] = row[e]
  PROVE  Apart'
<1>1. \A r \in Relays : Own(r)'
  BY DEF Apart, Own, Batch, drainVars
<1>2. LockedRows'
  <2>1. tx' = tx
    BY DEF drainVars
  <2>2. \A r \in Relays : \A e \in DOMAIN tx[r].rows : e \in Events /\ row'[e].state = "locked"
    BY DEF Apart, LockedRows
  <2>3. \A q, r \in Relays : q # r => DOMAIN tx[q].rows \cap DOMAIN tx[r].rows = {}
    BY DEF Apart, LockedRows
  <2> QED BY <2>1, <2>2, <2>3 DEF LockedRows
<1> QED BY <1>1, <1>2 DEF Apart

LEMMA ApartInductive == IInv /\ TxRows /\ Apart /\ [DrainNext]_allVars => Apart'
<1> SUFFICES ASSUME IInv, TxRows, Apart, [DrainNext]_allVars PROVE Apart'
  OBVIOUS
<1>1. CASE (Tick \/ \E e \in Events : Save(e) \/ Arrives(e)) /\ UNCHANGED drainVars
  <2>1. UNCHANGED <<relay, up>> /\ \A e \in Events : row[e].state = "locked" => row'[e] = row[e]
    <3>1. DOMAIN row = Events
      BY ShapeParts DEF RowsOK
    <3> QED BY <1>1, <3>1 DEF Tick, Save, Arrives
  <2> QED BY <1>1, <2>1, OthersApart
<1>2. CASE \E S \in SUBSET Events : RequeueParked(S) /\ UNCHANGED drainVars
  <2>1. /\ UNCHANGED <<relay, up, drainVars>>
        /\ \A e \in Events : row[e].state = "locked" => row'[e] = row[e]
    BY <1>2 DEF RequeueParked
  <2> QED BY <2>1, OthersApart
<1>3. CASE \E r \in Relays : ClaimPath(r) \/ BothPaths(r) \/ Operate(r)
  BY <1>3, ClaimPathApart, BothPathsApart, OperateApart
<1>4. CASE \E r \in Relays : DrainPath(r)
  BY <1>4, DrainProcessApart, DrainClaimApart, DrainEndsApart DEF DrainPath
<1>5. CASE UNCHANGED allVars
  BY <1>5, OthersApart DEF allVars, vars
<1> QED BY <1>1, <1>2, <1>3, <1>4, <1>5 DEF DrainNext

LEMMA ApartInit == DrainInit => Apart
BY NoRows DEF DrainInit, Init, Apart, LockedRows, Own, Batch, NoBatch

\* Whoever shares a row without having claimed it by the claim path has lost its
\* transaction, or shares it with one who has.
LEMMA ApartIsByOne == Apart => PublishedByOne
<1> SUFFICES ASSUME Apart, NEW q \in Relays, NEW r \in Relays, q # r,
                    NEW e \in (Batch(q) \cap Batch(r)) \ claimed
             PROVE  "lost" \in {tx[q].step, tx[r].step}
  BY DEF PublishedByOne
<1> QED BY DEF Apart, Own, LockedRows

\* Draining relays, any number of them, never publish the same row at a time
\* (txDrainSelect locks the rows and skips locked ones), unless the database
\* has lost the transaction of one before it knew.
THEOREM DrainedByOne == DrainSpec => []PublishedByOne
<1>1. DrainSpec => [](IInv /\ TxRows)
  BY DrainInitOK, DrainInductive, PTL DEF DrainSpec
<1>2. DrainSpec => []Apart
  BY <1>1, ApartInit, ApartInductive, PTL DEF DrainSpec
<1> QED BY <1>2, ApartIsByOne, PTL

-----------------------------------------------------------------------------
(* A subject of which only the latest event counts keeps one *)

LEMMA AboveOrders ==
  ASSUME NEW e \in Events, NEW f \in Events, NEW g \in Events
  PROVE  ~Above(e, e) /\ (Above(g, f) /\ Above(f, e) => Above(g, e))
<1>1. {e, f, g} \subseteq Nat /\ {Version[e], Version[f], Version[g]} \subseteq Int
  OBVIOUS
<1> QED BY <1>1 DEF Above

\* Of the events above one, some are on top of the others: those with the fewest above.
LEMMA TopOf ==
  ASSUME NEW A \in SUBSET Events, A # {}
  PROVE  \E t \in A : \A a \in A : ~Above(a, t)
<1> DEFINE Over(a) == {d \in Events : Above(d, a)}
           C == {Cardinality(Over(a)) : a \in A}
<1>1. \A a \in A : IsFiniteSet(Over(a)) /\ Cardinality(Over(a)) \in Nat
  <2> TAKE a \in A
  <2>1. Over(a) \in SUBSET Events
    OBVIOUS
  <2>2. IsFiniteSet(Over(a))
    BY <2>1, FS_Subset
  <2> QED BY <2>2, FS_CardinalityType
<1>2. C \in SUBSET Nat /\ C # {}
  BY <1>1
<1>3. PICK c \in C : \A d \in C : ~(d < c)
  <2> HIDE DEF C
  <2> QED BY <1>2, LeastOf
<1>4. PICK t \in A : c = Cardinality(Over(t))
  BY <1>3
<1>5. ASSUME NEW a \in A, Above(a, t) PROVE FALSE
  <2>1. Over(a) \subseteq Over(t)
    BY <1>5, AboveOrders
  <2>2. a \in Over(t) /\ a \notin Over(a)
    BY <1>5, AboveOrders
  <2>3. Cardinality(Over(a)) <= Cardinality(Over(t)) /\ Cardinality(Over(t)) # Cardinality(Over(a))
    BY <1>1, <2>1, <2>2, FS_Subset
  <2>4. ~(Cardinality(Over(a)) < Cardinality(Over(t)))
    BY <1>3, <1>4
  <2> QED BY <1>1, <2>3, <2>4
<1> QED BY <1>5

\* What beats an event in a batch is above it.
LEMMA BeatenBelow ==
  ASSUME OneOrder, NEW S \in SUBSET Events, NEW e \in S
  PROVE  Superseded(e, S) <=> \E f \in S : Above(f, e)
<1> SUFFICES ASSUME NEW f \in S, TopicOf[f] = TopicOf[e], TopicOf[e] \in LatestOnly
             PROVE  Beats(f, e, S) <=> Above(f, e)
  BY DEF Superseded, Above
<1>1. CASE Version[e] # Unversioned
  <2>1. \A d \in S : TopicOf[d] = TopicOf[e] => Version[d] # Unversioned
    BY <1>1 DEF OneOrder
  <2> QED BY <2>1 DEF Beats, Above
<1>2. CASE Version[e] = Unversioned
  <2>1. Version[f] = Unversioned /\ ~(\A d \in S : TopicOf[d] = TopicOf[e] => Version[d] # Unversioned)
    BY <1>2 DEF OneOrder
  <2> QED BY <1>2, <2>1 DEF Beats, Above, Unversioned
<1> QED BY <1>1, <1>2

\* Events superseded in a batch have one above that never was: the topmost of those
\* above them that are saved.
LEMMA BatchTopped ==
  ASSUME OneOrder, Topped, NEW S \in SUBSET Events,
         superseded' = superseded \cup {e \in S : Superseded(e, S)},
         \A e \in S : row[e].state # "unsaved",
         \A e \in Events : row[e].state # "unsaved" => row'[e].state # "unsaved"
  PROVE  Topped'
<1>1. superseded' \subseteq Events
  BY DEF Topped
<1>2. ASSUME NEW e \in superseded'
      PROVE  \E f \in Events \ superseded' : Above(f, e) /\ row'[f].state # "unsaved"
  <2> DEFINE A == {f \in Events : Above(f, e) /\ row[f].state # "unsaved"}
  <2>1. A # {} /\ A \in SUBSET Events /\ e \in Events
    <3>1. CASE e \in superseded
      BY <3>1 DEF Topped
    <3>2. CASE e \in S /\ Superseded(e, S)
      BY <3>2, BeatenBelow
    <3> QED BY <3>1, <3>2
  <2>2. PICK t \in A : \A a \in A : ~Above(a, t)
    <3> HIDE DEF A
    <3> QED BY <2>1, TopOf
  <2>3. ASSUME NEW f \in Events, Above(f, t), row[f].state # "unsaved"
        PROVE  FALSE
    BY <2>1, <2>2, <2>3, AboveOrders
  <2>4. t \notin superseded
    BY <2>3 DEF Topped
  <2>5. ~(t \in S /\ Superseded(t, S))
    BY <2>3, BeatenBelow
  <2> QED BY <2>2, <2>4, <2>5
<1>3. \A f \in Events, e \in Events : Above(f, e)' <=> Above(f, e)
  BY DEF Above
<1> QED BY <1>1, <1>2, <1>3 DEF Topped

\* How a step changes the rows.
LEMMA RowSteps ==
  ASSUME [DrainNext]_allVars
  PROVE  \/ row' = row
         \/ \E d \in Events : Save(d)
         \/ \E S \in SUBSET Events : RequeueParked(S)
         \/ \E r \in Relays :
              \/ Reclaim(r) \/ Claim(r) \/ ClaimFails(r)
              \/ SettleSuccesses(r)
              \/ tx[r].step = "none" /\ \E d \in Batch(r) : SettleFailure(r, d)
              \/ \E S \in SUBSET Events : Cleanup(r, S)
              \/ DrainClaim(r) \/ RolledBack(r) \/ DrainedRows(r)
<1>1. CASE UNCHANGED allVars \/ Tick \/ \E d \in Events : Save(d) \/ Arrives(d)
  BY <1>1 DEF allVars, vars, Tick, Arrives
<1>2. CASE \E S \in SUBSET Events : RequeueParked(S)
  BY <1>2
<1>3. CASE \E r \in Relays : ClaimPath(r) \/ BothPaths(r)
  BY <1>3 DEF ClaimPath, BothPaths, Process, Publishing, Publish, Transport, Refused, Unanswered, Published
<1>4. CASE \E r \in Relays : DrainPath(r)
  BY <1>4 DEF DrainPath, DrainProcess, DrainClaimFails, DrainCommit, DrainFails, Lost, DrainLost, Failed
<1>5. CASE \E r \in Relays : Operate(r)
  BY <1>5 DEF Operate, Kill, Die, Start, Pause, Resume
<1> QED BY <1>1, <1>2, <1>3, <1>4, <1>5 DEF DrainNext

\* No step takes back a row that was saved.
LEMMA SavedStays ==
  ASSUME IInv, TxRows, [DrainNext]_allVars, NEW e \in Events, row[e].state # "unsaved"
  PROVE  row'[e].state # "unsaved"
<1>1. RowsOK
  BY ShapeParts
<1>2. CASE row' = row
  BY <1>2
<1>3. CASE \E d \in Events : Save(d)
  <2>1. \E d \in Events : \E x : x.state = "PENDING" /\ row' = [row EXCEPT ![d] = x]
    BY <1>3 DEF Save
  <2>2. DOMAIN row = Events
    BY <1>1 DEF RowsOK
  <2> QED BY <2>1, <2>2
<1>4. CASE \E S \in SUBSET Events : RequeueParked(S)
  BY <1>4 DEF RequeueParked
<1>5. CASE \E r \in Relays : Reclaim(r) \/ Claim(r) \/ ClaimFails(r)
  <2>1. row'[e] = row[e] \/ row'[e] = Moved(e, "PENDING") \/ row'[e] = Moved(e, "IN_FLIGHT")
    BY <1>5 DEF Reclaim, Claim, ClaimFails, MarkInFlight
  <2> QED BY <2>1 DEF Moved
<1>6. CASE \E r \in Relays : SettleSuccesses(r)
  <2>1. row'[e] = row[e] \/ row'[e] = Gone("sent") \/ row'[e] = Moved(e, "DONE")
    BY <1>6 DEF SettleSuccesses
  <2> QED BY <2>1 DEF Moved, Gone
<1>7. CASE \E r \in Relays : \E d \in Batch(r) : SettleFailure(r, d)
  <2>1. PICK r \in Relays, d \in Events : SettleFailure(r, d)
    BY <1>7, ShapeParts, RelayRecord
  <2>2. row' = row \/ \E a, c, w : row' = [row EXCEPT ![d] = Reverted(a, c, w)]
    BY <2>1 DEF SettleFailure
  <2>3. \A a, c, w : Reverted(a, c, w).state # "unsaved"
    BY DEF Reverted
  <2>4. row' = row \/ \E x : x.state # "unsaved" /\ row' = [row EXCEPT ![d] = x]
    BY <2>2, <2>3
  <2>5. DOMAIN row = Events
    BY <1>1 DEF RowsOK
  <2> QED BY <2>4, <2>5
<1>8. CASE \E r \in Relays, S \in SUBSET Events : Cleanup(r, S)
  <2>1. row'[e] = row[e] \/ row'[e] = Gone("sent") \/ row'[e] = Gone("dropped")
    BY <1>8 DEF Cleanup
  <2> QED BY <2>1 DEF Gone
<1>9. CASE \E r \in Relays : DrainClaim(r)
  <2>1. row'[e] = row[e] \/ row'[e] = Moved(e, "locked")
    BY <1>9 DEF DrainClaim
  <2> QED BY <2>1 DEF Moved
<1>10. CASE \E r \in Relays : RolledBack(r)
  <2>1. PICK r \in Relays : RolledBack(r)
    BY <1>10
  <2>2. row'[e] = IF e \in DOMAIN tx[r].rows THEN tx[r].rows[e] ELSE row[e]
    BY <2>1 DEF RolledBack
  <2>3. e \in DOMAIN tx[r].rows => tx[r].rows[e].state = "PENDING"
    BY DEF TxRows
  <2> QED BY <2>2, <2>3
<1>11. CASE \E r \in Relays : DrainedRows(r)
  <2>1. PICK r \in Relays : DrainedRows(r)
    BY <1>11
  <2>2. PICK w : row'[e] = IF e \in Failures(r) THEN Restored(r, e, w[e])
                          ELSE IF e \notin Successes(r) THEN row[e]
                          ELSE IF DeleteAfterSend THEN Gone("sent")
                          ELSE [row[e] EXCEPT !.state = "DONE"]
    BY <2>1 DEF DrainedRows
  <2>3. Restored(r, e, w[e]).state # "unsaved" /\ Gone("sent").state = "sent"
    BY DEF Restored, Gone
  <2>4. [row[e] EXCEPT !.state = "DONE"].state = "DONE"
    BY <1>1, RowRecord
  <2> QED BY <2>2, <2>3, <2>4
<1> QED BY <1>2, <1>3, <1>4, <1>5, <1>6, <1>7, <1>8, <1>9, <1>10, <1>11, RowSteps

\* Who is superseded: nobody, or what a batch found beaten in it.
LEMMA WhoIsSuperseded ==
  ASSUME IInv, [DrainNext]_allVars
  PROVE  \/ superseded' = superseded
         \/ \E S \in SUBSET Events :
              /\ superseded' = superseded \cup {e \in S : Superseded(e, S)}
              /\ \A e \in S : row[e].state # "unsaved"
<1>1. CASE UNCHANGED allVars \/ Tick \/ \E d \in Events : Save(d) \/ Arrives(d)
  BY <1>1 DEF allVars, vars, Tick, Save, Arrives, history
<1>2. CASE \E S \in SUBSET Events : RequeueParked(S)
  BY <1>2 DEF RequeueParked, history
<1>3. CASE \E r \in Relays : Claim(r)
  <2>1. Oldest \in SUBSET Events /\ \A e \in Oldest : row[e].state # "unsaved"
    BY DEF Oldest, Claimable, Retryable, Stalled
  <2> QED BY <1>3, <2>1 DEF Claim
<1>4. CASE \E r \in Relays : (ClaimPath(r) \/ BothPaths(r)) /\ ~Claim(r)
  BY <1>4 DEF ClaimPath, BothPaths, Process, ClaimFails, SettleFailure, SettleSuccesses, Reclaim,
     Publishing, Publish, Transport, Refused, Unanswered, Published, history
<1>5. CASE \E r \in Relays : DrainClaim(r)
  <2>1. OldestPending \in SUBSET Events /\ \A e \in OldestPending : row[e].state # "unsaved"
    BY DEF OldestPending, Retryable
  <2> QED BY <1>5, <2>1 DEF DrainClaim
<1>6. CASE \E r \in Relays : DrainPath(r) /\ ~DrainClaim(r)
  BY <1>6 DEF DrainPath, DrainProcess, DrainClaimFails, DrainCommit, DrainFails, Lost, DrainLost, Failed, history
<1>7. CASE \E r \in Relays : Operate(r)
  BY <1>7 DEF Operate, Kill, Die, Start, Pause, Resume, Cleanup, history
<1> QED BY <1>1, <1>2, <1>3, <1>4, <1>5, <1>6, <1>7 DEF DrainNext

LEMMA ToppedInductive ==
  ASSUME OneOrder
  PROVE  IInv /\ TxRows /\ Topped /\ [DrainNext]_allVars => Topped'
<1> SUFFICES ASSUME IInv, TxRows, Topped, [DrainNext]_allVars PROVE Topped'
  OBVIOUS
<1>1. \A e \in Events : row[e].state # "unsaved" => row'[e].state # "unsaved"
  BY SavedStays
<1>2. CASE superseded' = superseded
  BY <1>1, <1>2 DEF Topped, Above
<1>3. CASE \E S \in SUBSET Events : /\ superseded' = superseded \cup {e \in S : Superseded(e, S)}
                                    /\ \A e \in S : row[e].state # "unsaved"
  BY <1>1, <1>3, BatchTopped
<1> QED BY <1>2, <1>3, WhoIsSuperseded

LEMMA ToppedSurvives == IInv /\ Topped => LatestSurvives
<1> SUFFICES ASSUME IInv, Topped, NEW e \in superseded
             PROVE  \E f \in Events :
                      /\ TopicOf[f] = TopicOf[e]
                      /\ \/ stored[f] > 0
                         \/ row[f].state \in {"PENDING", "IN_FLIGHT", "locked", "PARKED", "dropped"}
  BY DEF LatestSurvives
<1>1. PICK f \in Events \ superseded : Above(f, e) /\ row[f].state # "unsaved"
  BY DEF Topped
<1>2. RowsOK /\ (Closed(f) => stored[f] > 0)
  BY <1>1, ShapeParts DEF ClosedWasSent
<1>3. row[f].state \in States
  BY <1>2, RowRecord
<1> QED BY <1>1, <1>2, <1>3 DEF States, NotThere, Closed, Above

\* Closing what is superseded never closes a subject (latest_only.go): an event of it
\* is in the stream, or is there to be sent, or was given up as such.  That takes
\* subjects whose events all have versions, or none: see README.
THEOREM LatestIsKept ==
  ASSUME OneOrder
  PROVE  DrainSpec => []LatestSurvives
<1>1. DrainSpec => [](IInv /\ TxRows)
  BY DrainInitOK, DrainInductive, PTL DEF DrainSpec
<1>2. DrainInit => Topped
  BY DEF DrainInit, Init, Topped
<1>3. DrainSpec => []Topped
  BY <1>1, <1>2, ToppedInductive, PTL DEF DrainSpec
<1> QED BY <1>1, <1>3, ToppedSurvives, PTL

-----------------------------------------------------------------------------
(* Rows are parked for failures that count, as many as it takes *)

\* Covered, of any history.
Cov(b, C, e, a, o) ==
  /\ a + (IF o \in {"refused", "timeout"} THEN 1 ELSE 0) <= b[e].refused + b[e].silent
  /\ e \notin C => a + (IF o = "refused" THEN 1 ELSE 0) <= b[e].refused

Blames == [Events -> [refused : Nat, silent : Nat]]

\* One history after another.
Later(b, B, C, D) ==
  /\ b \in Blames /\ B \in Blames /\ C \subseteq D
  /\ \A e \in Events : b[e].refused <= B[e].refused /\ b[e].silent <= B[e].silent

LEMMA CovGrows ==
  ASSUME NEW b, NEW B, NEW C, NEW D, Later(b, B, C, D), NEW e \in Events, NEW a \in Nat,
         NEW o, NEW p, Cov(b, C, e, a, o), p = o \/ p \notin {"refused", "timeout"}
  PROVE  Cov(B, D, e, a, p)
<1>1. /\ b[e].refused \in Nat /\ b[e].silent \in Nat /\ B[e].refused \in Nat /\ B[e].silent \in Nat
      /\ b[e].refused <= B[e].refused /\ b[e].silent <= B[e].silent
  BY DEF Later, Blames
<1>2. e \notin D => e \notin C
  BY DEF Later
<1> QED BY <1>1, <1>2 DEF Cov

LEMMA CovNothing ==
  ASSUME NEW B \in Blames, NEW C, NEW e \in Events, NEW o, o \notin {"refused", "timeout"}
  PROVE  Cov(B, C, e, 0, o)
<1>1. B[e].refused \in Nat /\ B[e].silent \in Nat
  BY DEF Blames
<1> QED BY <1>1 DEF Cov

\* The parts of AttemptsCovered.
RowsCov ==
  \A e \in Events : /\ Cov(blame, claimed, e, row[e].attempts, "none")
                    /\ row[e].state = "PARKED" => MaxAttempts > 0 /\ row[e].attempts >= MaxAttempts
BatchesCov ==
  \A r \in Relays : \A e \in Batch(r) :
    Cov(blame, claimed, e, relay[r].snap[e], relay[r].outcome[e])
TxCov ==
  \A r \in Relays : \A e \in DOMAIN tx[r].rows :
    Cov(blame, claimed, e, tx[r].rows[e].attempts, "none")

BlamesOK == blame \in Blames

LEMMA CovParts == AttemptsCovered <=> BlamesOK /\ RowsCov /\ BatchesCov /\ TxCov
BY DEF BlamesOK, AttemptsCovered, RowCovered, Covered, Cov, Blames, RowsCov, BatchesCov, TxCov

HistoryGrows == Later(blame, blame', claimed, claimed')

\* What a step may do to rows, batches and transactions.
LEMMA RowsCovStep ==
  ASSUME IInv, RowsCov, HistoryGrows,
         \A e \in Events :
           \/ /\ row'[e].attempts \in {0, row[e].attempts}
              /\ row'[e] = row[e] \/ row'[e].state # "PARKED"
           \/ /\ Cov(blame', claimed', e, row'[e].attempts, "none")
              /\ row'[e].state = "PARKED" => MaxAttempts > 0 /\ row'[e].attempts >= MaxAttempts
  PROVE  RowsCov'
<1>1. RowsOK /\ blame' \in Blames
  BY ShapeParts DEF HistoryGrows, Later
<1>2. ASSUME NEW e \in Events, row'[e].attempts \in {0, row[e].attempts}
      PROVE  Cov(blame', claimed', e, row'[e].attempts, "none")
  <2>1. row[e].attempts \in Nat /\ Cov(blame, claimed, e, row[e].attempts, "none")
    BY <1>1, RowRecord DEF RowsCov
  <2>2. Cov(blame', claimed', e, row[e].attempts, "none")
    BY <2>1, CovGrows DEF HistoryGrows
  <2>3. Cov(blame', claimed', e, 0, "none")
    BY <1>1, CovNothing
  <2> QED BY <1>2, <2>2, <2>3
<1>3. ASSUME NEW e \in Events
      PROVE  /\ Cov(blame', claimed', e, row'[e].attempts, "none")
             /\ row'[e].state = "PARKED" => MaxAttempts > 0 /\ row'[e].attempts >= MaxAttempts
  BY <1>2 DEF RowsCov
<1> QED BY <1>3 DEF RowsCov

LEMMA BatchesCovStep ==
  ASSUME IInv, BatchesCov, HistoryGrows,
         \A r \in Relays : \A e \in Batch(r)' :
           \/ /\ e \in Batch(r) /\ relay'[r].snap[e] = relay[r].snap[e]
              /\ \/ relay'[r].outcome[e] = relay[r].outcome[e]
                 \/ relay'[r].outcome[e] \notin {"refused", "timeout"}
           \/ Cov(blame', claimed', e, relay'[r].snap[e], relay'[r].outcome[e])
  PROVE  BatchesCov'
<1>1. RelaysOK
  BY ShapeParts
<1>2. ASSUME NEW r \in Relays, NEW e \in Batch(r)'
      PROVE  Cov(blame', claimed', e, relay'[r].snap[e], relay'[r].outcome[e])
  <2>1. CASE /\ e \in Batch(r) /\ relay'[r].snap[e] = relay[r].snap[e]
             /\ \/ relay'[r].outcome[e] = relay[r].outcome[e]
                \/ relay'[r].outcome[e] \notin {"refused", "timeout"}
    <3>1. /\ relay[r].snap[e] \in Nat /\ e \in Events
          /\ Cov(blame, claimed, e, relay[r].snap[e], relay[r].outcome[e])
      BY <1>1, <2>1, RelayRecord DEF BatchesCov
    <3> QED BY <2>1, <3>1, CovGrows DEF HistoryGrows
  <2> QED BY <1>2, <2>1
<1> QED BY <1>2 DEF BatchesCov

LEMMA TxCovStep ==
  ASSUME Apart, TxRows, TxCov, HistoryGrows,
         \A r \in Relays : \A e \in DOMAIN tx'[r].rows :
           \/ e \in DOMAIN tx[r].rows /\ tx'[r].rows[e] = tx[r].rows[e]
           \/ Cov(blame', claimed', e, tx'[r].rows[e].attempts, "none")
  PROVE  TxCov'
<1>1. ASSUME NEW r \in Relays, NEW e \in DOMAIN tx'[r].rows
      PROVE  Cov(blame', claimed', e, tx'[r].rows[e].attempts, "none")
  <2>1. CASE e \in DOMAIN tx[r].rows /\ tx'[r].rows[e] = tx[r].rows[e]
    <3>1. /\ tx[r].rows[e].attempts \in Nat /\ e \in Events
          /\ Cov(blame, claimed, e, tx[r].rows[e].attempts, "none")
      BY <2>1 DEF Apart, LockedRows, TxRows, TxCov, Row
    <3> QED BY <2>1, <3>1, CovGrows DEF HistoryGrows
  <2> QED BY <1>1, <2>1
<1> QED BY <1>1 DEF TxCov

LEMMA SettledCov ==
  ASSUME IInv, Apart, BatchesCov, blame \in Blames, NEW r \in Relays, tx[r].step = "none",
         NEW d \in Batch(r), SettleFailure(r, d), NEW e \in Events
  PROVE  \/ row'[e] = row[e]
         \/ /\ Cov(blame, claimed, e, row'[e].attempts, "none")
            /\ row'[e].state = "PARKED" => MaxAttempts > 0 /\ row'[e].attempts >= MaxAttempts
<1> DEFINE o == relay[r].outcome[d]
           n == relay[r].snap[d] + (IF Counts(o) THEN 1 ELSE 0)
<1>1. RowsOK /\ RelaysOK
  BY ShapeParts
<1>2. /\ d \in Failures(r) /\ o \in {"transport", "refused", "timeout"}
      /\ row' = row \/ \E w : row' = [row EXCEPT ![d] = Reverted(n, Counts(o), w)]
  BY DEF SettleFailure, Failures
<1>3. /\ relay[r].snap[d] \in Nat /\ d \in Events /\ d \in claimed
      /\ Cov(blame, claimed, d, relay[r].snap[d], o)
  BY <1>1, RelayRecord DEF Apart, Own, BatchesCov
<1>4. n \in Nat /\ Cov(blame, claimed, d, n, "none")
  <2>1. blame[d].refused \in Nat /\ blame[d].silent \in Nat
    BY <1>3 DEF Blames
  <2> HIDE DEF o
  <2> QED BY <1>2, <1>3, <2>1 DEF Cov, Counts
<1> HIDE DEF n, o
<1>5. ASSUME NEW w PROVE /\ Reverted(n, Counts(o), w).attempts = n
                         /\ Reverted(n, Counts(o), w).state = "PARKED" => MaxAttempts > 0 /\ n >= MaxAttempts
  BY DEF Reverted
<1>6. CASE \E w : row' = [row EXCEPT ![d] = Reverted(n, Counts(o), w)]
  <2>1. PICK w : row' = [row EXCEPT ![d] = Reverted(n, Counts(o), w)]
    BY <1>6
  <2>2. row'[e] = IF e = d THEN Reverted(n, Counts(o), w) ELSE row[e]
    BY <1>1, <2>1 DEF RowsOK
  <2> QED BY <1>4, <1>5, <2>2
<1> QED BY <1>2, <1>6

LEMMA DrainedCov ==
  ASSUME IInv, BatchesCov, blame \in Blames, NEW r \in Relays, DrainedRows(r), NEW e \in Events
  PROVE  \/ /\ row'[e].attempts \in {0, row[e].attempts}
            /\ row'[e] = row[e] \/ row'[e].state # "PARKED"
         \/ /\ Cov(blame, claimed, e, row'[e].attempts, "none")
            /\ row'[e].state = "PARKED" => MaxAttempts > 0 /\ row'[e].attempts >= MaxAttempts
<1>1. RowsOK /\ RelaysOK
  BY ShapeParts
<1>2. PICK w : row'[e] = IF e \in Failures(r) THEN Restored(r, e, w[e])
                          ELSE IF e \notin Successes(r) THEN row[e]
                          ELSE IF DeleteAfterSend THEN Gone("sent")
                          ELSE [row[e] EXCEPT !.state = "DONE"]
  BY DEF DrainedRows
<1>3. CASE e \in Failures(r)
  <2> DEFINE o == relay[r].outcome[e]
             n == relay[r].snap[e] + (IF Unknown(o) THEN 0 ELSE 1)
  <2>1. /\ relay[r].snap[e] \in Nat /\ o \in {"transport", "refused", "timeout"}
        /\ Cov(blame, claimed, e, relay[r].snap[e], o)
    BY <1>1, <1>3, RelayRecord DEF Failures, BatchesCov
  <2>2. n \in Nat /\ Cov(blame, claimed, e, n, "none")
    <3>1. blame[e].refused \in Nat /\ blame[e].silent \in Nat
      BY DEF Blames
    <3> HIDE DEF o
    <3> QED BY <2>1, <3>1 DEF Cov, Unknown
  <2>3. /\ Restored(r, e, w[e]).attempts = n
        /\ Restored(r, e, w[e]).state = "PARKED" => MaxAttempts > 0 /\ n >= MaxAttempts
    BY DEF Restored
  <2> HIDE DEF n
  <2> QED BY <1>2, <1>3, <2>2, <2>3
<1>4. CASE e \notin Failures(r)
  <2>1. /\ [row[e] EXCEPT !.state = "DONE"].state = "DONE"
        /\ [row[e] EXCEPT !.state = "DONE"].attempts = row[e].attempts
    BY <1>1, RowRecord
  <2>2. Gone("sent").state = "sent" /\ Gone("sent").attempts = 0
    BY DEF Gone
  <2> QED BY <1>2, <1>4, <2>1, <2>2
<1> QED BY <1>3, <1>4

LEMMA RowsCovOK ==
  ASSUME IInv, TxRows, Apart, AttemptsCovered, [DrainNext]_allVars, HistoryGrows,
         row' # row => UNCHANGED blame
  PROVE  RowsCov'
<1>1. RowsOK /\ blame \in Blames /\ RowsCov /\ BatchesCov /\ TxCov
  BY ShapeParts, CovParts DEF BlamesOK
<1>2. ASSUME NEW e \in Events, UNCHANGED blame, NEW a \in Nat, Cov(blame, claimed, e, a, "none")
      PROVE  Cov(blame', claimed', e, a, "none")
  BY <1>2, CovGrows DEF HistoryGrows
<1>3. SUFFICES ASSUME NEW e \in Events, row' # row
               PROVE  \/ /\ row'[e].attempts \in {0, row[e].attempts}
                         /\ row'[e] = row[e] \/ row'[e].state # "PARKED"
                      \/ /\ Cov(blame, claimed, e, row'[e].attempts, "none") /\ row'[e].attempts \in Nat
                         /\ row'[e].state = "PARKED" => MaxAttempts > 0 /\ row'[e].attempts >= MaxAttempts
  <2>1. ASSUME NEW e \in Events
        PROVE  \/ /\ row'[e].attempts \in {0, row[e].attempts}
                  /\ row'[e] = row[e] \/ row'[e].state # "PARKED"
               \/ /\ Cov(blame', claimed', e, row'[e].attempts, "none")
                  /\ row'[e].state = "PARKED" => MaxAttempts > 0 /\ row'[e].attempts >= MaxAttempts
    <3>1. CASE row' = row
      BY <3>1
    <3>2. CASE row' # row
      BY <1>2, <1>3, <3>2
    <3> QED BY <3>1, <3>2
  <2> QED BY <1>1, <2>1, RowsCovStep
<1>10. row'[e].attempts \in Nat
  <2>1. RowsOK'
    BY DrainInductive, ShapeParts, PTL
  <2> QED BY <2>1 DEF RowsOK
<1>4. CASE \E d \in Events : Save(d)
  <2>1. \E d \in Events : \E x : x.state = "PENDING" /\ x.attempts = 0 /\ row' = [row EXCEPT ![d] = x]
    BY <1>4 DEF Save
  <2>2. DOMAIN row = Events
    BY <1>1 DEF RowsOK
  <2> QED BY <2>1, <2>2
<1>5. CASE \E S \in SUBSET Events : RequeueParked(S)
  <2>1. row'[e] = row[e] \/ row'[e] = [state |-> "PENDING", attempts |-> 0, next |-> 0, updated |-> now]
    BY <1>5 DEF RequeueParked
  <2> QED BY <2>1
<1>6. CASE \E r \in Relays : Reclaim(r) \/ Claim(r) \/ ClaimFails(r) \/ SettleSuccesses(r) \/ DrainClaim(r)
                             \/ \E S \in SUBSET Events : Cleanup(r, S)
  <2>1. \/ row'[e] = row[e] \/ \E how \in {"sent", "dropped"} : row'[e] = Gone(how)
        \/ \E s \in {"PENDING", "IN_FLIGHT", "DONE", "locked"} : row'[e] = Moved(e, s)
    BY <1>6 DEF Reclaim, Claim, ClaimFails, MarkInFlight, SettleSuccesses, Cleanup, DrainClaim
  <2> QED BY <2>1 DEF Moved, Gone
<1>7. CASE \E r \in Relays : tx[r].step = "none" /\ \E d \in Batch(r) : SettleFailure(r, d)
  BY <1>1, <1>7, SettledCov, <1>10
<1>8. CASE \E r \in Relays : RolledBack(r)
  <2>1. PICK r \in Relays : RolledBack(r)
    BY <1>8
  <2>2. row'[e] = IF e \in DOMAIN tx[r].rows THEN tx[r].rows[e] ELSE row[e]
    BY <2>1 DEF RolledBack
  <2>3. e \in DOMAIN tx[r].rows =>
          /\ tx[r].rows[e].state = "PENDING" /\ tx[r].rows[e].attempts \in Nat
          /\ Cov(blame, claimed, e, tx[r].rows[e].attempts, "none")
    BY <1>1 DEF TxRows, TxCov, Row
  <2> QED BY <2>2, <2>3
<1>9. CASE \E r \in Relays : DrainedRows(r)
  BY <1>1, <1>9, DrainedCov, <1>10
<1> QED BY <1>3, <1>4, <1>5, <1>6, <1>7, <1>8, <1>9, RowSteps

\* An outcome that counts is blamed before it is written down.
LEMMA BlamedCov ==
  ASSUME IInv, AttemptsCovered, NEW r \in Relays, NEW d \in Batch(r),
         Refused(r, d) \/ Unanswered(r, d), UNCHANGED <<tx, claimed>>
  PROVE  HistoryGrows /\ BatchesCov'
<1>1. RelaysOK /\ blame \in Blames /\ BatchesCov
  BY ShapeParts, CovParts DEF BlamesOK
<1>2. /\ d \in Events /\ relay[r].outcome[d] = "none"
      /\ blame[d].refused \in Nat /\ blame[d].silent \in Nat
      /\ blame[d] = [refused |-> blame[d].refused, silent |-> blame[d].silent]
  BY <1>1, RelayRecord DEF Blames, Refused, Unanswered
<1>3. PICK o \in {"refused", "timeout"} :
        /\ Outcome(r, d, o)
        /\ o = "refused" => blame' = [blame EXCEPT ![d] = [refused |-> blame[d].refused + 1, silent |-> blame[d].silent]]
        /\ o = "timeout" => blame' = [blame EXCEPT ![d] = [refused |-> blame[d].refused, silent |-> blame[d].silent + 1]]
  <2>1. CASE Refused(r, d)
    <3>1. blame' = [blame EXCEPT ![d].refused = @ + 1] /\ Outcome(r, d, "refused")
      BY <2>1 DEF Refused
    <3>2. [blame[d] EXCEPT !.refused = @ + 1] = [refused |-> blame[d].refused + 1, silent |-> blame[d].silent]
      BY <1>1, <1>2 DEF Blames
    <3> QED BY <3>1, <3>2
  <2>2. CASE Unanswered(r, d)
    <3>1. blame' = [blame EXCEPT ![d].silent = @ + 1] /\ Outcome(r, d, "timeout")
      BY <2>2 DEF Unanswered
    <3>2. [blame[d] EXCEPT !.silent = @ + 1] = [refused |-> blame[d].refused, silent |-> blame[d].silent + 1]
      BY <1>1, <1>2 DEF Blames
    <3> QED BY <3>1, <3>2
  <2> QED BY <2>1, <2>2
<1>4. /\ blame' \in Blames
      /\ \A e \in Events \ {d} : blame'[e] = blame[e]
      /\ blame'[d] = [refused |-> blame[d].refused + (IF o = "refused" THEN 1 ELSE 0),
                      silent |-> blame[d].silent + (IF o = "timeout" THEN 1 ELSE 0)]
  BY <1>1, <1>2, <1>3 DEF Blames
<1>5. HistoryGrows
  <2>1. ASSUME NEW e \in Events
        PROVE  blame[e].refused <= blame'[e].refused /\ blame[e].silent <= blame'[e].silent
    <3>1. CASE e = d
      BY <1>2, <1>4, <3>1
    <3>2. CASE e # d
      <4>1. blame[e].refused \in Nat /\ blame[e].silent \in Nat
        BY <1>1 DEF Blames
      <4>2. blame'[e] = blame[e]
        BY <1>4, <3>2
      <4> QED BY <4>1, <4>2
    <3> QED BY <3>1, <3>2
  <2> QED BY <1>1, <1>4, <2>1 DEF HistoryGrows, Later
<1>6. /\ \A q \in Relays : Batch(q)' = Batch(q)
      /\ \A q \in Relays : \A e \in Batch(q) :
           relay'[q].outcome[e] = IF q = r /\ e = d THEN o ELSE relay[q].outcome[e]
  BY <1>1, <1>3, OutcomeWritten
<1>7. \A q \in Relays : relay'[q].snap = relay[q].snap
  <2>1. relay' = [relay EXCEPT ![r].outcome[d] = o]
    BY <1>3 DEF Outcome
  <2> QED BY <1>1, <2>1 DEF RelaysOK
<1>8. Cov(blame', claimed', d, relay'[r].snap[d], relay'[r].outcome[d])
  <2>1. relay[r].snap[d] \in Nat /\ Cov(blame, claimed, d, relay[r].snap[d], "none")
    BY <1>1, <1>2, RelayRecord DEF BatchesCov
  <2>2. Cov(blame', claimed', d, relay[r].snap[d], o)
    BY <1>2, <1>3, <1>4, <2>1 DEF Cov
  <2> QED BY <1>6, <1>7, <2>2
<1> QED BY <1>1, <1>5, <1>6, <1>7, <1>8, BatchesCovStep

\* A claim reads the attempts of the rows.
LEMMA TakenCov ==
  ASSUME IInv, AttemptsCovered, HistoryGrows, UNCHANGED blame, NEW r \in Relays,
         NEW S \in SUBSET Events, relay' = [relay EXCEPT ![r] = Taken(S)]
  PROVE  BatchesCov'
<1>1. RelaysOK /\ RowsOK /\ RowsCov /\ BatchesCov
  BY ShapeParts, CovParts DEF BlamesOK
<1>2. \A q \in Relays \ {r} : relay'[q] = relay[q] /\ Batch(q)' = Batch(q)
  BY <1>1 DEF RelaysOK, Batch
<1>3. /\ Batch(r)' = S
      /\ \A e \in S : relay'[r].snap[e] = row[e].attempts /\ relay'[r].outcome[e] \in {"ok", "none"}
  <2> DEFINE sn == [e \in S |-> row[e].attempts]
             o == [e \in S |-> IF Superseded(e, S) THEN "ok" ELSE "none"]
  <2>1. relay' = [relay EXCEPT ![r] = [step |-> "publish", snap |-> sn, outcome |-> o]]
    BY DEF Taken
  <2>2. /\ DOMAIN sn = S /\ \A e \in S : sn[e] = row[e].attempts
        /\ \A e \in S : o[e] \in {"ok", "none"}
    OBVIOUS
  <2> HIDE DEF sn, o
  <2>3. relay'[r] = [step |-> "publish", snap |-> sn, outcome |-> o]
    BY <1>1, <2>1 DEF RelaysOK
  <2> QED BY <2>2, <2>3 DEF Batch
<1>4. ASSUME NEW e \in Batch(r)'
      PROVE  Cov(blame', claimed', e, relay'[r].snap[e], relay'[r].outcome[e])
  <2>1. e \in S /\ row[e].attempts \in Nat /\ Cov(blame, claimed, e, row[e].attempts, "none")
    BY <1>1, <1>3, <1>4, RowRecord DEF RowsCov
  <2>2. \A p \in {"ok", "none"} : Cov(blame', claimed', e, row[e].attempts, p)
    BY <2>1, CovGrows DEF HistoryGrows
  <2> QED BY <1>3, <2>1, <2>2
<1> QED BY <1>1, <1>2, <1>4, BatchesCovStep

\* Batches that keep what they read, write an outcome that counts for nothing, or end.
LEMMA KeptCov ==
  ASSUME IInv, AttemptsCovered, HistoryGrows, NEW r \in Relays,
         \/ relay' = relay
         \/ relay' = [relay EXCEPT ![r] = NoBatch]
         \/ \E s \in {"reclaim", "claim", "settle"} : Goto(r, s)
         \/ \E d \in Batch(r), o \in {"ok", "transport", "settled"} : Outcome(r, d, o)
  PROVE  BatchesCov'
<1>1. RelaysOK /\ BatchesCov
  BY ShapeParts, CovParts DEF BlamesOK
<1>2. CASE relay' = relay
  BY <1>1, <1>2, BatchesCovStep DEF Batch
<1>3. CASE relay' = [relay EXCEPT ![r] = NoBatch]
  <2>1. \A q \in Relays : \A e \in Batch(q)' : e \in Batch(q) /\ relay'[q] = relay[q]
    BY <1>1, <1>3, BatchDropped
  <2> QED BY <1>1, <2>1, BatchesCovStep
<1>4. CASE \E s \in {"reclaim", "claim", "settle"} : Goto(r, s)
  <2>1. \A q \in Relays : /\ relay'[q].outcome = relay[q].outcome /\ Batch(q)' = Batch(q)
                          /\ relay'[q].snap = relay[q].snap
    <3>1. PICK s \in {"reclaim", "claim", "settle"} : Goto(r, s)
      BY <1>4
    <3>2. \A q \in Relays : relay'[q].snap = relay[q].snap
      BY <1>1, <3>1 DEF Goto, RelaysOK
    <3> QED BY <1>1, <3>1, <3>2, StepWritten
  <2> QED BY <1>1, <2>1, BatchesCovStep
<1>5. CASE \E d \in Batch(r), o \in {"ok", "transport", "settled"} : Outcome(r, d, o)
  <2>1. PICK d \in Batch(r), o \in {"ok", "transport", "settled"} : Outcome(r, d, o)
    BY <1>5
  <2>2. \A q \in Relays : relay'[q].snap = relay[q].snap
    BY <1>1, <2>1 DEF Outcome, RelaysOK
  <2>3. /\ \A q \in Relays : Batch(q)' = Batch(q)
        /\ \A q \in Relays : \A e \in Batch(q) :
             relay'[q].outcome[e] = relay[q].outcome[e] \/ relay'[q].outcome[e] = o
    BY <1>1, <2>1, OutcomeWritten
  <2> QED BY <1>1, <2>1, <2>2, <2>3, BatchesCovStep
<1> QED BY <1>2, <1>3, <1>4, <1>5

LEMMA ClaimsGrow ==
  ASSUME [DrainNext]_allVars
  PROVE  /\ claimed \subseteq claimed'
         /\ \/ UNCHANGED blame
            \/ \E r \in Relays : \E d \in Batch(r) :
                 (Refused(r, d) \/ Unanswered(r, d)) /\ UNCHANGED <<tx, claimed>>
<1>1. CASE \/ UNCHANGED allVars
           \/ Tick /\ UNCHANGED drainVars
           \/ \E d \in Events : (Save(d) \/ Arrives(d)) /\ UNCHANGED drainVars
           \/ \E S \in SUBSET Events : RequeueParked(S) /\ UNCHANGED drainVars
  BY <1>1 DEF allVars, vars, drainVars, history, Tick, Save, Arrives, RequeueParked
<1>2. CASE \E r \in Relays : ClaimPath(r)
  BY <1>2 DEF ClaimPath, Process, Claim, ClaimFails, SettleFailure, SettleSuccesses, history
<1>3. CASE \E r \in Relays : BothPaths(r)
  BY <1>3 DEF BothPaths, Reclaim, Publishing, Publish, Transport, Published, history, drainVars
<1>4. CASE \E r \in Relays : DrainPath(r)
  BY <1>4 DEF DrainPath, DrainProcess, DrainClaim, DrainClaimFails, DrainCommit, DrainFails, Lost,
     DrainLost, Failed, history, drainVars
<1>5. CASE \E r \in Relays : Operate(r)
  BY <1>5 DEF Operate, Kill, Die, Start, Pause, Resume, Cleanup, history, drainVars
<1>6. CASE \E r \in Relays : ClaimPath(r) \/ BothPaths(r) \/ DrainPath(r) \/ Operate(r)
  BY <1>2, <1>3, <1>4, <1>5, <1>6
<1> QED BY <1>1, <1>6 DEF DrainNext

\* How a step changes the batches, if it blames no one.
LEMMA BatchSteps ==
  ASSUME [DrainNext]_allVars, relay' # relay
  PROVE  \E r \in Relays :
           \/ relay' = [relay EXCEPT ![r] = NoBatch]
           \/ \E s \in {"reclaim", "claim", "settle"} : Goto(r, s)
           \/ \E d \in Batch(r), o \in {"ok", "transport", "settled"} : Outcome(r, d, o)
           \/ \E S \in SUBSET Events : relay' = [relay EXCEPT ![r] = Taken(S)]
           \/ \E d \in Batch(r) : Refused(r, d) \/ Unanswered(r, d)
<1>1. CASE UNCHANGED allVars \/ Tick \/ \E d \in Events : Save(d) \/ Arrives(d)
  BY <1>1 DEF allVars, vars, Tick, Save, Arrives
<1>2. CASE \E S \in SUBSET Events : RequeueParked(S)
  BY <1>2 DEF RequeueParked
<1>3. CASE \E r \in Relays : ClaimPath(r)
  <2>1. PICK r \in Relays : ClaimPath(r)
    BY <1>3
  <2>2. CASE Process(r) \/ ClaimFails(r) \/ SettleSuccesses(r)
    BY <2>2 DEF Process, ClaimFails, SettleSuccesses
  <2>3. CASE Claim(r)
    <3>1. Oldest \in SUBSET Events
      BY DEF Oldest
    <3> QED BY <2>3, <3>1 DEF Claim
  <2>4. CASE \E d \in Batch(r) : SettleFailure(r, d)
    BY <2>4 DEF SettleFailure
  <2> QED BY <2>1, <2>2, <2>3, <2>4 DEF ClaimPath
<1>4. CASE \E r \in Relays : BothPaths(r)
  BY <1>4 DEF BothPaths, Reclaim, Publishing, Publish, Transport, Published
<1>5. CASE \E r \in Relays : DrainPath(r)
  <2>1. OldestPending \in SUBSET Events
    BY DEF OldestPending
  <2> QED BY <1>5, <2>1 DEF DrainPath, DrainProcess, DrainClaim, DrainClaimFails, DrainCommit,
             DrainFails, Lost, DrainLost, Failed
<1>6. CASE \E r \in Relays : Operate(r)
  BY <1>6 DEF Operate, Kill, Die, Start, Pause, Resume, Cleanup
<1> QED BY <1>1, <1>2, <1>3, <1>4, <1>5, <1>6 DEF DrainNext

\* What transactions bring back: rows as a draining relay found them.
LEMMA TxSteps ==
  ASSUME TxRows, [DrainNext]_allVars, NEW q \in Relays, NEW e \in DOMAIN tx'[q].rows
  PROVE  \/ e \in DOMAIN tx[q].rows /\ tx'[q].rows[e] = tx[q].rows[e]
         \/ e \in Events /\ Retryable(e) /\ tx'[q].rows[e] = row[e]
<1>1. CASE tx' = tx
  BY <1>1
<1>2. CASE \E r \in Relays, x \in {NoTx, [NoTx EXCEPT !.step = "lost"]} : tx' = [tx EXCEPT ![r] = x]
  <2>1. PICK r \in Relays : \E x \in {NoTx, [NoTx EXCEPT !.step = "lost"]} : tx' = [tx EXCEPT ![r] = x]
    BY <1>2
  <2>2. PICK x \in {NoTx, [NoTx EXCEPT !.step = "lost"]} : tx' = [tx EXCEPT ![r] = x]
    BY <2>1
  <2>3. DOMAIN x.rows = {}
    BY NoRows
  <2>4. tx'[q] = IF q = r THEN x ELSE tx[q]
    BY <2>2 DEF TxRows
  <2> QED BY <2>3, <2>4
<1>3. CASE \E r \in Relays : tx' = [tx EXCEPT ![r] = [step |-> "open", rows |-> [d \in OldestPending |-> row[d]]]]
  <2>1. PICK r \in Relays : tx' = [tx EXCEPT ![r] = [step |-> "open", rows |-> [d \in OldestPending |-> row[d]]]]
    BY <1>3
  <2> DEFINE R == [d \in OldestPending |-> row[d]]
             x == [step |-> "open", rows |-> R]
  <2>2. /\ OldestPending \in SUBSET Events /\ \A d \in OldestPending : Retryable(d)
        /\ DOMAIN R = OldestPending /\ \A d \in DOMAIN R : R[d] = row[d]
    BY DEF OldestPending
  <2>3. tx'[q] = IF q = r THEN x ELSE tx[q]
    BY <2>1 DEF TxRows
  <2> HIDE DEF R
  <2>4. CASE q = r
    <3>1. tx'[q].rows = R
      BY <2>3, <2>4
    <3> QED BY <2>2, <3>1
  <2> QED BY <2>3, <2>4
<1>4. CASE \E r \in Relays : DrainPath(r)
  <2>1. PICK r \in Relays : DrainPath(r)
    BY <1>4
  <2> QED BY <1>1, <1>2, <1>3, <2>1 DEF DrainPath, DrainProcess, DrainClaim, DrainClaimFails,
             DrainCommit, DrainFails, Lost, DrainLost, Failed, drainVars
<1>5. CASE \E r \in Relays : Die(r) /\ (tx' = tx \/ tx' = [tx EXCEPT ![r] = NoTx])
  BY <1>1, <1>2, <1>5
<1> QED BY <1>1, <1>4, <1>5, OtherSteps

LEMMA TxCovOK ==
  ASSUME IInv, TxRows, Apart, AttemptsCovered, HistoryGrows, [DrainNext]_allVars
  PROVE  TxCov'
<1>1. RowsOK /\ RowsCov /\ TxCov
  BY ShapeParts, CovParts DEF BlamesOK
<1>2. ASSUME NEW q \in Relays, NEW e \in DOMAIN tx'[q].rows
      PROVE  \/ e \in DOMAIN tx[q].rows /\ tx'[q].rows[e] = tx[q].rows[e]
             \/ Cov(blame', claimed', e, tx'[q].rows[e].attempts, "none")
  <2>1. CASE e \in DOMAIN tx[q].rows /\ tx'[q].rows[e] = tx[q].rows[e]
    BY <2>1
  <2>2. CASE e \in Events /\ tx'[q].rows[e] = row[e]
    <3>1. row[e].attempts \in Nat /\ Cov(blame, claimed, e, row[e].attempts, "none")
      BY <1>1, <2>2, RowRecord DEF RowsCov
    <3>2. Cov(blame', claimed', e, row[e].attempts, "none")
      BY <2>2, <3>1, CovGrows DEF HistoryGrows
    <3> QED BY <2>2, <3>2
  <2> QED BY <1>2, <2>1, <2>2, TxSteps
<1> QED BY <1>1, <1>2, TxCovStep

LEMMA CoveredInductive ==
  IInv /\ TxRows /\ Apart /\ AttemptsCovered /\ [DrainNext]_allVars => AttemptsCovered'
<1> SUFFICES ASSUME IInv, TxRows, Apart, AttemptsCovered, [DrainNext]_allVars PROVE AttemptsCovered'
  OBVIOUS
<1>1. blame \in Blames
  BY CovParts DEF BlamesOK
<1>2. CASE \E r \in Relays : \E d \in Batch(r) :
             (Refused(r, d) \/ Unanswered(r, d)) /\ UNCHANGED <<tx, claimed>>
  <2>1. HistoryGrows /\ BatchesCov' /\ UNCHANGED row
    BY <1>2, BlamedCov DEF Refused, Unanswered
  <2>2. RowsCov' /\ TxCov' /\ BlamesOK'
    BY <2>1, RowsCovOK, TxCovOK DEF HistoryGrows, Later, BlamesOK
  <2> QED BY <2>1, <2>2, CovParts, PTL
<1>3. CASE UNCHANGED blame
  <2>1. HistoryGrows
    <3>1. \A e \in Events : blame[e].refused <= blame[e].refused /\ blame[e].silent <= blame[e].silent
      BY <1>1 DEF Blames
    <3> QED BY <1>1, <1>3, <3>1, ClaimsGrow DEF HistoryGrows, Later
  <2>2. RowsCov' /\ TxCov' /\ BlamesOK'
    BY <1>1, <1>3, <2>1, RowsCovOK, TxCovOK DEF BlamesOK
  <2>3. ~\E r \in Relays : \E d \in Batch(r) : Refused(r, d) \/ Unanswered(r, d)
    <3> SUFFICES ASSUME NEW r \in Relays, NEW d \in Batch(r), Refused(r, d) \/ Unanswered(r, d) PROVE FALSE
      OBVIOUS
    <3>1. d \in Events /\ blame[d].refused \in Nat /\ blame[d].silent \in Nat
      BY <1>1, ShapeParts, RelayRecord DEF Blames
    <3>2. \/ blame' = [blame EXCEPT ![d].refused = @ + 1]
          \/ blame' = [blame EXCEPT ![d].silent = @ + 1]
      BY DEF Refused, Unanswered
    <3>3. blame'[d].refused = blame[d].refused + 1 \/ blame'[d].silent = blame[d].silent + 1
      BY <1>1, <3>1, <3>2 DEF Blames
    <3> QED BY <1>3, <3>1, <3>3
  <2>4. BatchesCov'
    <3>1. CASE relay' = relay
      <4>1. CASE \E r \in Relays : TRUE
        BY <2>1, <3>1, <4>1, KeptCov
      <4>2. CASE ~\E r \in Relays : TRUE
        BY <4>2 DEF BatchesCov
      <4> QED BY <4>1, <4>2
    <3>2. CASE relay' # relay
      BY <1>3, <2>1, <2>3, <3>2, BatchSteps, KeptCov, TakenCov
    <3> QED BY <3>1, <3>2
  <2> QED BY <2>2, <2>4, CovParts, PTL
<1> QED BY <1>2, <1>3, ClaimsGrow

LEMMA CoveredInit == DrainInit => AttemptsCovered
<1> SUFFICES ASSUME DrainInit PROVE AttemptsCovered
  OBVIOUS
<1>1. blame = [e \in Events |-> [refused |-> 0, silent |-> 0]] /\ blame \in Blames
  BY DEF DrainInit, Init, Blames
<1>2. RowsCov
  <2>1. \A e \in Events : row[e].attempts = 0 /\ row[e].state = "unsaved"
    BY DEF DrainInit, Init, Gone
  <2> QED BY <1>1, <2>1, CovNothing DEF RowsCov
<1>3. \A r \in Relays : Batch(r) = {} /\ DOMAIN tx[r].rows = {}
  BY NoRows DEF DrainInit, Init, Batch, NoBatch
<1> QED BY <1>1, <1>2, <1>3, CovParts DEF BlamesOK, BatchesCov, TxCov

LEMMA CoveredParks == AttemptsCovered /\ IInv => ParkedRightly
<1> SUFFICES ASSUME AttemptsCovered, IInv, NEW e \in Events, row[e].state = "PARKED"
             PROVE  /\ MaxAttempts > 0 /\ blame[e].refused + blame[e].silent >= MaxAttempts
                    /\ e \notin claimed => blame[e].refused >= MaxAttempts
  BY DEF ParkedRightly, ParkedWasTried, RefusalsPark
<1>1. /\ blame[e].refused \in Nat /\ blame[e].silent \in Nat /\ row[e].attempts \in Nat
      /\ Cov(blame, claimed, e, row[e].attempts, "none")
      /\ MaxAttempts > 0 /\ row[e].attempts >= MaxAttempts
  BY CovParts, ShapeParts, RowRecord DEF BlamesOK, Blames, RowsCov
<1> QED BY <1>1 DEF Cov

\* A row is parked for MaxAttempts failures that counted (relay.go, revertFailedV2;
\* tx_drain.go, drainSettle), and what only draining relays had for as many refusals:
\* attempts read before a crash, a lost transaction or another relay's settlement
\* never add up to more than there was.
THEOREM ParkedForCause == DrainSpec => []ParkedRightly
<1>1. DrainSpec => [](IInv /\ TxRows)
  BY DrainInitOK, DrainInductive, PTL DEF DrainSpec
<1>2. DrainSpec => []Apart
  BY <1>1, ApartInit, ApartInductive, PTL DEF DrainSpec
<1>3. DrainSpec => []AttemptsCovered
  BY <1>1, <1>2, CoveredInit, CoveredInductive, PTL DEF DrainSpec
<1> QED BY <1>1, <1>3, CoveredParks, PTL

-----------------------------------------------------------------------------
(* Punctual relays settle what nobody else has touched *)

\* The relays that have no transaction, whose claims nothing but their age protects.
TxFree == {r \in Relays : tx[r].step = "none"}
OwnedFree == \A R : R = TxFree => Owned(R)

\* It takes a fault to stop a relay or to lose a transaction.
Unharmed == faults = 0 => \A r \in Relays : up[r] /\ tx[r].step # "lost"

\* The transaction of a relay ends, or the relay drops what it had in it.
LEMMA EndHandled ==
  ASSUME IInv, NEW r \in Relays, relay' = [relay EXCEPT ![r] = NoBatch] \/ relay' = relay,
         NEW R \in SUBSET Relays, Owned(R), r \notin R,
         NEW Q \in SUBSET Relays, Q \ {r} = R, r \in Q => Batch(r)' = {},
         NEW X, NEW e \in Events,
         \/ row'[e] = row[e]
         \/ row[e].state = "locked" /\ row'[e].state \in {"PENDING", "PARKED", "DONE", "sent"},
         e \in Batch(r) /\ relay[r].outcome[e] = "ok" /\ faults' = 0 =>
           Closed(e)' \/ (relay' = relay)
  PROVE  Handled(e, R, Q, X, X)
<1>1. RelaysOK
  BY ShapeParts
<1>2. /\ Batch(r)' = {} \/ (Batch(r)' = Batch(r) /\ relay'[r] = relay[r])
      /\ relay' = relay => Batch(r)' = Batch(r) /\ relay'[r] = relay[r]
      /\ \A q \in Relays \ {r} : Batch(q)' = Batch(q) /\ relay'[q] = relay[q]
  <2>1. CASE relay' = relay
    BY <2>1 DEF Batch
  <2>2. CASE relay' = [relay EXCEPT ![r] = NoBatch] /\ relay' # relay
    BY <1>1, <2>2, BatchDropped
  <2> QED BY <2>1, <2>2
<1>3. \A q \in Relays : Held(q, e)' => Held(q, e)
  BY <1>2 DEF Held
<1>4. \A q \in Q : Held(q, e)' => q \in R /\ Held(q, e) /\ row'[e] = row[e]
  <2> SUFFICES ASSUME NEW q \in Q, Held(q, e)' PROVE q \in R /\ Held(q, e) /\ row'[e] = row[e]
    OBVIOUS
  <2>1. q # r /\ q \in R /\ Held(q, e)
    BY <1>3 DEF Held
  <2>2. row[e].state = "IN_FLIGHT"
    BY <2>1 DEF Owned
  <2> QED BY <2>1, <2>2
<1>5. KeepsOwn(e, R, Q)
  BY <1>4 DEF KeepsOwn
<1>6. KeepsRow(e, R, Q)
  <2>1. ASSUME HeldBy(R, e) PROVE HeldBy(Q, e)'
    <3>1. PICK q \in R : Held(q, e)
      BY <2>1 DEF HeldBy
    <3>2. q \in Q /\ Held(q, e)'
      BY <1>2, <3>1 DEF Held
    <3> QED BY <3>2 DEF HeldBy
  <2> QED BY <2>1 DEF KeepsRow, Closed
<1>7. KeepsBusy(e, X, X)
  BY <1>3 DEF KeepsBusy, Busy, HeldBy
<1>8. KeepsOutcome(e)
  BY <1>2 DEF KeepsOutcome
<1> QED BY <1>5, <1>6, <1>7, <1>8 DEF Handled

\* What a rollback and a commit do to the rows.
LEMMA RolledBackIs ==
  ASSUME TxRows, Apart, NEW r \in Relays, RolledBack(r), NEW e \in Events
  PROVE  \/ row'[e] = row[e]
         \/ /\ row[e].state = "locked" /\ row'[e].state = "PENDING"
            /\ e \in DOMAIN tx[r].rows /\ row'[e] = tx[r].rows[e]
BY DEF TxRows, Apart, LockedRows, RolledBack

LEMMA DrainedIs ==
  ASSUME RowsOK, Apart, NEW r \in Relays, DrainedRows(r), tx[r].step = "open", NEW e \in Events
  PROVE  /\ \/ row'[e] = row[e]
            \/ row[e].state = "locked" /\ row'[e].state \in {"PENDING", "PARKED", "DONE", "sent"}
         /\ e \in Batch(r) /\ relay[r].outcome[e] = "ok" => Closed(e)'
         /\ row'[e].state = "PENDING" => row'[e] = row[e] \/ e \in Failures(r)
<1>1. PICK delay : row' = [d \in Events |->
         IF d \in Failures(r) THEN Restored(r, d, delay[d])
         ELSE IF d \notin Successes(r) THEN row[d]
         ELSE IF DeleteAfterSend THEN Gone("sent")
         ELSE [row[d] EXCEPT !.state = "DONE"]]
  BY DEF DrainedRows
<1>2. e \in Batch(r) => row[e].state = "locked"
  BY DEF Apart, LockedRows, Own
<1>3. CASE e \in Failures(r)
  <2>1. row'[e] = Restored(r, e, delay[e])
    BY <1>1, <1>3
  <2>2. Restored(r, e, delay[e]).state \in {"PENDING", "PARKED"}
    BY DEF Restored
  <2>3. e \in Batch(r) /\ relay[r].outcome[e] # "ok"
    BY <1>3 DEF Failures
  <2> QED BY <1>2, <1>3, <2>1, <2>2, <2>3
<1>4. CASE e \notin Failures(r) /\ e \notin Successes(r)
  BY <1>1, <1>4 DEF Successes
<1>5. CASE e \notin Failures(r) /\ e \in Successes(r)
  <2>1. row'[e] = Gone("sent") \/ row'[e] = [row[e] EXCEPT !.state = "DONE"]
    BY <1>1, <1>5
  <2>2. row'[e].state \in {"DONE", "sent"}
    <3>1. Gone("sent").state = "sent"
      BY DEF Gone
    <3>2. [row[e] EXCEPT !.state = "DONE"].state = "DONE"
      <4> DEFINE s == row[e].state
                 a == row[e].attempts
                 n == row[e].next
                 u == row[e].updated
      <4>1. row[e] = [state |-> s, attempts |-> a, next |-> n, updated |-> u]
        BY RowRecord
      <4> HIDE DEF s, a, n, u
      <4> QED BY <4>1
    <3> QED BY <2>1, <3>1, <3>2
  <2>3. e \in Batch(r)
    BY <1>5 DEF Successes
  <2> QED BY <1>2, <2>2, <2>3 DEF Closed
<1> QED BY <1>3, <1>4, <1>5

LEMMA DrainEndsHandled ==
  ASSUME IInv, TxRows, Apart, AllOrderly, Unharmed, NEW r \in Relays,
         DrainClaimFails(r) \/ DrainCommit(r) \/ DrainFails(r) \/ Lost(r) \/ DrainLost(r),
         NEW R, R = TxFree, NEW Q, Q = TxFree', Owned(R), NEW X, NEW e \in Events
  PROVE  Handled(e, R, Q, X, X)
<1>1. RelaysOK /\ RowsOK /\ R \in SUBSET Relays /\ Q \in SUBSET Relays
  BY ShapeParts DEF TxFree
<1>2. \E x : tx' = [tx EXCEPT ![r] = x]
  BY DEF DrainClaimFails, DrainCommit, DrainFails, Lost, DrainLost, Failed
<1>3. Q \ {r} = R \ {r}
  BY <1>2 DEF TxFree, TxRows
<1>4. relay' = [relay EXCEPT ![r] = NoBatch] => Batch(r)' = {}
  BY <1>1, BatchDropped
<1>5. CASE DrainClaimFails(r)
  <2>1. /\ relay' = [relay EXCEPT ![r] = NoBatch] /\ row' = row
        /\ faults' = faults + 1 /\ faults' # 0
    BY <1>5 DEF DrainClaimFails, Failed, Fault, AllOrderly
  <2>2. r \in R
    BY <1>5 DEF DrainClaimFails, Apart, Own, TxFree
  <2> QED BY <1>1, <1>3, <2>1, <2>2, DroppedHandled
<1>6. CASE ~DrainClaimFails(r)
  <2>1. tx[r].step # "none" /\ r \notin R /\ Q \ {r} = R
    BY <1>3, <1>6 DEF DrainCommit, DrainFails, Lost, DrainLost, TxFree
  <2>2. CASE DrainCommit(r)
    <3>1. relay' = [relay EXCEPT ![r] = NoBatch] /\ DrainedRows(r) /\ tx[r].step = "open"
      BY <2>2 DEF DrainCommit
    <3> QED BY <1>1, <1>4, <2>1, <3>1, DrainedIs, EndHandled
  <2>3. CASE DrainFails(r)
    <3>1. /\ relay' = [relay EXCEPT ![r] = NoBatch] /\ faults' # 0
          /\ RolledBack(r) \/ DrainedRows(r)
          /\ tx[r].step = "open"
      BY <2>3, FaultCounts DEF DrainFails, Failed, AllOrderly
    <3>2. \/ row'[e] = row[e]
          \/ row[e].state = "locked" /\ row'[e].state \in {"PENDING", "PARKED", "DONE", "sent"}
      BY <1>1, <3>1, DrainedIs, RolledBackIs
    <3> QED BY <1>1, <1>4, <2>1, <3>1, <3>2, EndHandled
  <2>4. CASE Lost(r)
    <3>1. relay' = relay /\ RolledBack(r)
      BY <2>4 DEF Lost
    <3>2. \/ row'[e] = row[e]
          \/ row[e].state = "locked" /\ row'[e].state \in {"PENDING", "PARKED", "DONE", "sent"}
      BY <3>1, RolledBackIs
    <3>3. r \in Q => Batch(r)' = {}
      <4>1. ASSUME up[r] PROVE r \notin Q
        <5>1. tx'[r] = [NoTx EXCEPT !.step = "lost"]
          BY <2>4, <4>1 DEF Lost, TxRows
        <5> QED BY <5>1, NoRows DEF TxFree
      <4>2. ~up[r] => Batch(r) = {}
        BY DEF Apart, Own
      <4> QED BY <3>1, <4>1, <4>2 DEF Batch
    <3> QED BY <1>1, <2>1, <3>1, <3>2, <3>3, EndHandled
  <2>5. CASE DrainLost(r)
    <3>1. /\ relay' = [relay EXCEPT ![r] = NoBatch] /\ row' = row /\ UNCHANGED faults
          /\ tx[r].step = "lost"
      BY <2>5 DEF DrainLost, Failed
    <3>2. faults' # 0
      BY <3>1 DEF Unharmed
    <3> QED BY <1>1, <1>4, <2>1, <3>1, <3>2, EndHandled
  <2> QED BY <1>6, <2>2, <2>3, <2>4, <2>5
<1> QED BY <1>5, <1>6

LEMMA DrainClaimHandled ==
  ASSUME IInv, TxRows, Apart, AllOrderly, NEW r \in Relays, DrainClaim(r),
         NEW R, R = TxFree, NEW Q, Q = TxFree', Owned(R), NEW X, NEW e \in Events
  PROVE  Handled(e, R, Q, X, X)
<1>1. RelaysOK /\ R \in SUBSET Relays /\ Q \in SUBSET Relays /\ Batch(r) = {}
  BY ShapeParts, NoBatchYet DEF TxFree, DrainClaim
<1>2. CASE OldestPending = {}
  <2>1. relay' = [relay EXCEPT ![r] = NoBatch] /\ UNCHANGED <<row, tx>>
    BY <1>2 DEF DrainClaim
  <2>2. Batch(r)' = {} /\ \A q \in Relays \ {r} : Batch(q)' = Batch(q) /\ relay'[q] = relay[q]
    BY <1>1, <2>1, BatchDropped
  <2>3. Q = R
    BY <2>1 DEF TxFree
  <2> QED BY <1>1, <2>1, <2>2, <2>3, Untouched DEF Held
<1>3. CASE OldestPending # {}
  <2> DEFINE S == OldestPending
             x == [step |-> "open", rows |-> [d \in S |-> row[d]]]
  <2>1. /\ row' = [d \in Events |-> IF d \in S THEN Moved(d, "locked") ELSE row[d]]
        /\ tx' = [tx EXCEPT ![r] = x]
        /\ relay' = [relay EXCEPT ![r] = Taken(S)]
    BY <1>3 DEF DrainClaim
  <2>2. S \in SUBSET Events /\ \A d \in S : Retryable(d)
    BY DEF OldestPending
  <2>3. x.step = "open"
    OBVIOUS
  <2> HIDE DEF S, x
  <2>4. r \notin Q /\ Q \ {r} = R \ {r}
    BY <2>1, <2>3 DEF TxFree, TxRows
  <2>5. \A d \in Events : row'[d] = IF d \in S THEN Moved(d, "locked") ELSE row[d]
    BY <2>1
  <2> QED BY <1>1, <2>1, <2>2, <2>4, <2>5, TakenHandled
<1> QED BY <1>2, <1>3

LEMMA KillHandled ==
  ASSUME IInv, TxRows, Apart, AllOrderly, NEW r \in Relays, Kill(r),
         NEW R, R = TxFree, NEW Q, Q = TxFree', Owned(R),
         NEW X, X = wire, NEW Y, Y = wire', NEW e \in Events
  PROVE  Handled(e, R, Q, X, Y)
<1>1. R \in SUBSET Relays /\ Q \in SUBSET Relays
  BY DEF TxFree
<1>2. Q \ {r} = R \ {r}
  BY DEF TxFree, TxRows, Kill
<1>3. e \in Y => e \in X \/ Held(r, e)
  BY DEF Kill, Die, Held
<1> QED BY <1>1, <1>2, <1>3, DieHandled DEF Kill

\* A step on either path, and what it leaves of the relays with no transaction.
LEMMA PathsHandled ==
  ASSUME IInv, TxRows, Apart, AllOrderly, NEW r \in Relays, ClaimPath(r) \/ BothPaths(r),
         NEW R, R = TxFree, NEW Q, Q = TxFree', Owned(R),
         NEW X, X = wire, NEW Y, Y = wire', NEW e \in Events
  PROVE  Handled(e, R, Q, X, Y)
<1>1. Q = R /\ R \in SUBSET Relays
  BY DEF ClaimPath, BothPaths, drainVars, TxFree
<1>2. CASE BothPaths(r) /\ Publishing(r)
  BY <1>1, <1>2, PublishingHandled
<1>3. CASE BothPaths(r) /\ (Reclaim(r) \/ Published(r))
  <2>1. Y = X
    BY <1>3 DEF Reclaim, Published, stream
  <2> QED BY <1>1, <1>3, <2>1, PathHandled
<1>4. CASE ClaimPath(r)
  <2>1. Y = X
    BY <1>4 DEF ClaimPath, Process, Claim, ClaimFails, SettleSuccesses, SettleFailure, stream
  <2>2. CASE Process(r)
    BY <1>1, <2>1, <2>2, PathHandled
  <2>3. CASE Claim(r) \/ ClaimFails(r)
    <3>1. relay[r].step = "claim"
      BY <2>3 DEF Claim, ClaimFails
    <3>2. r \in R
      BY <3>1 DEF TxFree, Apart, Own
    <3> QED BY <1>1, <2>1, <2>3, <3>2, PathHandled
  <2>4. CASE tx[r].step = "none" /\ (SettleSuccesses(r) \/ \E d \in Batch(r) : SettleFailure(r, d))
    <3>1. r \in R
      BY <2>4 DEF TxFree
    <3> QED BY <1>1, <2>1, <2>4, <3>1, PathHandled
  <2> QED BY <1>4, <2>2, <2>3, <2>4 DEF ClaimPath
<1> QED BY <1>2, <1>3, <1>4 DEF BothPaths

LEMMA DrainPathHandled ==
  ASSUME IInv, TxRows, Apart, AllOrderly, Unharmed, NEW r \in Relays, DrainPath(r) \/ Operate(r),
         NEW R, R = TxFree, NEW Q, Q = TxFree', Owned(R),
         NEW X, X = wire, NEW Y, Y = wire', NEW e \in Events
  PROVE  Handled(e, R, Q, X, Y)
<1>1. R \in SUBSET Relays
  BY DEF TxFree
<1>2. CASE DrainProcess(r)
  <2>1. UNCHANGED row /\ (\E s \in {"reclaim", "claim", "settle"} : Goto(r, s)) /\ Q = R /\ Y = X
    BY <1>2 DEF DrainProcess, drainVars, stream, TxFree
  <2> QED BY <1>1, <2>1, GotoHandled
<1>3. CASE DrainClaim(r)
  <2>1. Y = X
    BY <1>3 DEF DrainClaim, stream
  <2> QED BY <1>3, <2>1, DrainClaimHandled
<1>4. CASE DrainClaimFails(r) \/ DrainCommit(r) \/ DrainFails(r) \/ Lost(r) \/ DrainLost(r)
  <2>1. Y = X
    BY <1>4 DEF DrainClaimFails, DrainCommit, DrainFails, Lost, DrainLost, Failed, stream
  <2> QED BY <1>4, <2>1, DrainEndsHandled
<1>5. CASE Kill(r)
  BY <1>5, KillHandled
<1>6. CASE \/ tx[r].step = "none" /\ Start(r) /\ UNCHANGED drainVars
           \/ Pause(r) /\ UNCHANGED drainVars
           \/ Resume(r) /\ UNCHANGED drainVars
  <2>1. UNCHANGED <<row, relay>> /\ Q = R /\ Y = X
    BY <1>6 DEF Start, Pause, Resume, drainVars, stream, TxFree
  <2> QED BY <1>1, <2>1, SameBatches DEF Batch
<1>7. CASE \E S \in SUBSET Events : Cleanup(r, S) /\ UNCHANGED drainVars
  <2>1. Q = R /\ Y = X
    BY <1>7 DEF Cleanup, drainVars, stream, TxFree
  <2> QED BY <1>1, <1>7, <2>1, CleanupHandled
<1> QED BY <1>2, <1>3, <1>4, <1>5, <1>6, <1>7 DEF DrainPath, Operate

\* Every step that takes no time.
Timeless ==
  \/ \E e \in Events : (Save(e) \/ Arrives(e)) /\ UNCHANGED drainVars
  \/ \E S \in SUBSET Events : RequeueParked(S) /\ UNCHANGED drainVars
  \/ \E r \in Relays : ClaimPath(r) \/ BothPaths(r) \/ DrainPath(r) \/ Operate(r)
  \/ UNCHANGED allVars

LEMMA TimelessHandled ==
  ASSUME IInv, TxRows, Apart, AllOrderly, Unharmed, Timeless,
         NEW R, R = TxFree, NEW Q, Q = TxFree', Owned(R),
         NEW X, X = wire, NEW Y, Y = wire', NEW e \in Events
  PROVE  Handled(e, R, Q, X, Y)
<1>1. R \in SUBSET Relays
  BY DEF TxFree
<1>2. CASE \E r \in Relays : ClaimPath(r) \/ BothPaths(r) \/ DrainPath(r) \/ Operate(r)
  BY <1>2, PathsHandled, DrainPathHandled
<1>3. CASE \E d \in Events : Save(d) /\ UNCHANGED drainVars
  <2>1. Q = R /\ Y = X
    BY <1>3 DEF Save, drainVars, stream, TxFree
  <2> QED BY <1>1, <1>3, <2>1, SaveHandled
<1>4. CASE \E d \in Events : Arrives(d) /\ UNCHANGED drainVars
  <2>1. UNCHANGED <<row, relay>> /\ Q = R /\ Y \subseteq X
    BY <1>4 DEF Arrives, drainVars, TxFree
  <2> QED BY <1>1, <2>1, Untouched DEF Held, Batch
<1>5. CASE \E S \in SUBSET Events : RequeueParked(S) /\ UNCHANGED drainVars
  <2>1. Q = R /\ Y = X
    BY <1>5 DEF RequeueParked, drainVars, stream, TxFree
  <2> QED BY <1>1, <1>5, <2>1, RequeueHandled
<1>6. CASE UNCHANGED allVars
  <2>1. UNCHANGED <<row, relay>> /\ Q = R /\ Y = X
    BY <1>6 DEF allVars, vars, drainVars, TxFree
  <2> QED BY <1>1, <2>1, SameBatches DEF Batch
<1> QED BY <1>2, <1>3, <1>4, <1>5, <1>6 DEF Timeless

LEMMA TimelessNow == ASSUME Timeless PROVE UNCHANGED now /\ (UNCHANGED faults \/ Fault)
<1>1. CASE \E e \in Events : (Save(e) \/ Arrives(e)) /\ UNCHANGED drainVars
  BY <1>1 DEF Save, Arrives
<1>2. CASE \E S \in SUBSET Events : RequeueParked(S) /\ UNCHANGED drainVars
  BY <1>2 DEF RequeueParked
<1>3. CASE \E r \in Relays : ClaimPath(r)
  BY <1>3 DEF ClaimPath, Process, Claim, ClaimFails, SettleSuccesses, SettleFailure
<1>4. CASE \E r \in Relays : BothPaths(r)
  BY <1>4 DEF BothPaths, Reclaim, Publishing, Publish, Transport, Refused, Unanswered, Published
<1>5. CASE \E r \in Relays : DrainPath(r)
  BY <1>5 DEF DrainPath, DrainProcess, DrainClaim, DrainClaimFails, DrainCommit, DrainFails, Lost, DrainLost,
              Failed
<1>6. CASE \E r \in Relays : Operate(r)
  BY <1>6 DEF Operate, Kill, Die, Start, Pause, Resume, Cleanup
<1>7. CASE UNCHANGED allVars
  BY <1>7 DEF allVars, vars
<1> QED BY <1>1, <1>2, <1>3, <1>4, <1>5, <1>6, <1>7 DEF Timeless

LEMMA FaultsGrow == ASSUME [DrainNext]_allVars PROVE faults' = faults \/ (faults' = faults + 1 /\ Fault)
<1>1. CASE Tick
  BY <1>1 DEF Tick
<1>2. CASE ~Tick
  <2>1. Timeless
    BY <1>2 DEF DrainNext, Timeless
  <2> QED BY <2>1, TimelessNow DEF Fault
<1> QED BY <1>1, <1>2

\* Batches stay in order, whoever moves.
LEMMA OrderlyAlways ==
  ASSUME IInv, TxRows, Apart, AllOrderly, OwnedFree, [DrainNext]_allVars
  PROVE  AllOrderly'
<1>1. RelaysOK /\ RowsOK
  BY ShapeParts
<1>2. ASSUME NEW r \in Relays, ClaimPath(r) \/ BothPaths(r) PROVE AllOrderly'
  <2>1. CASE Publishing(r)
    <3>1. \A R, X, Y : R = TxFree /\ X = wire /\ Y = wire' => \A e \in Events : AllOrderly'
      <4> SUFFICES ASSUME NEW R, R = TxFree, NEW X, X = wire, NEW Y, Y = wire', NEW e \in Events
                   PROVE  AllOrderly'
        OBVIOUS
      <4>1. R \in SUBSET Relays /\ Owned(R)
        BY DEF OwnedFree, TxFree
      <4> QED BY <2>1, <4>1, PublishingHandled
    <3>2. Events # {}
      BY <1>1, <2>1 DEF Publishing, RelaysOK
    <3> QED BY <3>1, <3>2
  <2>2. CASE ~Publishing(r)
    BY <1>2, <2>2, PathOrderly DEF ClaimPath, BothPaths
  <2> QED BY <2>1, <2>2
<1>3. ASSUME NEW r \in Relays, DrainPath(r) PROVE AllOrderly'
  <2>1. faults' \in Nat
    <3>1. UNCHANGED faults \/ Fault
      BY <1>3 DEF DrainPath, DrainProcess, DrainClaim, DrainClaimFails, DrainCommit, DrainFails, Lost,
                  DrainLost, Failed
    <3> QED BY <3>1, FaultCounts DEF AllOrderly
  <2>2. CASE DrainProcess(r)
    <3>1. (\E s \in {"reclaim", "claim"} : Goto(r, s)) /\ Batch(r) = {}
      BY <2>2, NoBatchYet DEF DrainProcess
    <3> QED BY <1>1, <2>1, <3>1, GotoOrderly
  <2>3. CASE DrainClaim(r)
    <3>1. OldestPending \in SUBSET Events
      BY DEF OldestPending
    <3> QED BY <1>1, <2>1, <2>3, <3>1, TakenOrderly, DroppedOrderly DEF DrainClaim
  <2>4. CASE DrainClaimFails(r) \/ DrainCommit(r) \/ DrainFails(r) \/ DrainLost(r)
    <3>1. relay' = [relay EXCEPT ![r] = NoBatch]
      BY <2>4 DEF DrainClaimFails, DrainCommit, DrainFails, DrainLost, Failed
    <3> QED BY <1>1, <2>1, <3>1, DroppedOrderly
  <2>5. CASE Lost(r)
    BY <2>1, <2>5, OrderlyKept DEF Lost
  <2> QED BY <1>3, <2>2, <2>3, <2>4, <2>5 DEF DrainPath
<1>4. ASSUME NEW r \in Relays, Operate(r) PROVE AllOrderly'
  <2>1. CASE Kill(r)
    BY <2>1, PathOrderly DEF Kill
  <2>2. CASE ~Kill(r)
    <3>1. UNCHANGED relay /\ (UNCHANGED faults \/ Fault)
      BY <1>4, <2>2 DEF Operate, Start, Pause, Resume, Cleanup
    <3>2. faults' \in Nat
      BY <3>1, FaultCounts DEF AllOrderly
    <3> QED BY <3>1, <3>2, OrderlyKept
  <2> QED BY <2>1, <2>2
<1>5. CASE UNCHANGED <<relay, faults>>
  BY <1>5, OrderlyKept DEF AllOrderly
<1>6. CASE \/ Tick \/ UNCHANGED allVars
           \/ \E e \in Events : Save(e) \/ Arrives(e)
           \/ \E S \in SUBSET Events : RequeueParked(S)
  BY <1>5, <1>6 DEF Tick, Save, Arrives, RequeueParked, allVars, vars
<1> QED BY <1>2, <1>3, <1>4, <1>6 DEF DrainNext

LEMMA UnharmedAlways ==
  ASSUME TxRows, Apart, AllOrderly, Unharmed, [DrainNext]_allVars
  PROVE  Unharmed'
<1> SUFFICES ASSUME faults' = 0, NEW q \in Relays PROVE up'[q] /\ tx'[q].step # "lost"
  BY DEF Unharmed
<1>1. ~Fault /\ DOMAIN up = Relays /\ DOMAIN tx = Relays
  BY FaultCounts DEF AllOrderly, Apart, TxRows
<1>2. CASE faults = 0
  <2>1. up[q] /\ tx[q].step # "lost"
    BY <1>2 DEF Unharmed
  <2>2. ASSUME NEW r \in Relays, ClaimPath(r) \/ BothPaths(r) PROVE UNCHANGED <<up, tx>>
    BY <2>2 DEF ClaimPath, BothPaths, Process, Claim, ClaimFails, SettleSuccesses, SettleFailure, Reclaim,
                Publishing, Publish, Transport, Refused, Unanswered, Published, drainVars
  <2>3. ASSUME NEW r \in Relays, DrainPath(r)
        PROVE  UNCHANGED up /\ \/ UNCHANGED tx
                               \/ \E x : tx' = [tx EXCEPT ![r] = x] /\ x.step # "lost"
    <3>1. CASE DrainProcess(r) \/ (DrainClaim(r) /\ UNCHANGED tx)
      BY <3>1 DEF DrainProcess, DrainClaim, drainVars
    <3>2. CASE DrainClaim(r) /\ ~UNCHANGED tx
      <4> DEFINE x == [step |-> "open", rows |-> [e \in OldestPending |-> row[e]]]
      <4>1. UNCHANGED up /\ tx' = [tx EXCEPT ![r] = x]
        BY <3>2 DEF DrainClaim
      <4>2. x.step # "lost"
        OBVIOUS
      <4> QED BY <4>1, <4>2
    <3>3. CASE DrainClaimFails(r) \/ DrainCommit(r) \/ DrainFails(r) \/ DrainLost(r)
      <4>1. UNCHANGED up /\ tx' = [tx EXCEPT ![r] = NoTx]
        BY <3>3 DEF DrainClaimFails, DrainCommit, DrainFails, DrainLost, Failed
      <4> QED BY <4>1, NoRows
    <3>4. CASE Lost(r)
      <4>1. ~up[r]
        BY <1>1, <3>4 DEF Lost
      <4> QED BY <1>2, <4>1 DEF Unharmed
    <3> QED BY <2>3, <3>1, <3>2, <3>3, <3>4 DEF DrainPath
  <2>4. ASSUME NEW r \in Relays, Operate(r) PROVE UNCHANGED tx /\ (UNCHANGED up \/ up' = [up EXCEPT ![r] = TRUE])
    BY <1>1, <2>4 DEF Operate, Kill, Die, Start, Pause, Resume, Cleanup, drainVars
  <2>5. CASE \/ (Tick \/ (\E e \in Events : Save(e) \/ Arrives(e))
                 \/ (\E S \in SUBSET Events : RequeueParked(S))) /\ UNCHANGED drainVars
             \/ UNCHANGED allVars
    BY <2>1, <2>5 DEF Tick, Save, Arrives, RequeueParked, drainVars, allVars, vars
  <2> QED BY <1>1, <2>1, <2>2, <2>3, <2>4, <2>5 DEF DrainNext
<1>3. CASE faults # 0
  <2>1. UNCHANGED faults \/ Fault
    BY FaultsGrow
  <2> QED BY <1>1, <1>3, <2>1
<1> QED BY <1>2, <1>3

\* What else is known of relays that are punctual.
SteadyInv == IInv /\ TxRows /\ Apart /\ AllOrderly /\ Unharmed /\ OwnedFree

\* The clock waits until no relay has a batch.
LEMMA TickOwns == ASSUME Punctual, Tick, UNCHANGED drainVars PROVE OwnedFree'
<1> SUFFICES ASSUME NEW Q, Q = TxFree' PROVE Owned(Q)'
  BY DEF OwnedFree
<1>1. \A q \in Q : Batch(q)' = {}
  BY DEF Tick, Quiet, Batch, TxFree
<1> QED BY <1>1 DEF Owned, Held

LEMMA SteadyStep == ASSUME Punctual, SteadyInv, [DrainNext]_allVars PROVE SteadyInv'
<1>1. IInv /\ TxRows /\ Apart /\ AllOrderly /\ Unharmed /\ OwnedFree
  BY DEF SteadyInv
<1>2. IInv' /\ TxRows' /\ Apart' /\ AllOrderly' /\ Unharmed'
  <2> HIDE DEF IInv
  <2> QED BY <1>1, DrainInductive, ApartInductive, OrderlyAlways, UnharmedAlways
<1>3. OwnedFree'
  <2>1. CASE Tick /\ UNCHANGED drainVars
    BY <2>1, TickOwns
  <2>2. CASE ~(Tick /\ UNCHANGED drainVars)
    <3>1. Timeless
      BY <2>2 DEF DrainNext, Timeless
    <3> SUFFICES ASSUME NEW Q, Q = TxFree' PROVE Owned(Q)'
      BY DEF OwnedFree
    <3>2. \A R, X, Y : R = TxFree /\ X = wire /\ Y = wire' => Owned(Q)'
      <4> SUFFICES ASSUME NEW R, R = TxFree, NEW X, X = wire, NEW Y, Y = wire' PROVE Owned(Q)'
        OBVIOUS
      <4>1. R \in SUBSET Relays /\ Q \in SUBSET Relays /\ Owned(R)
        BY <1>1 DEF OwnedFree, TxFree
      <4>2. \A e \in Events : KeepsOwn(e, R, Q)
        BY <1>1, <3>1, <4>1, TimelessHandled DEF Handled
      <4> QED BY <3>1, <4>1, <4>2, TimelessNow, OwnedStep
    <3> QED BY <3>2
  <2> QED BY <2>1, <2>2
<1> QED BY <1>2, <1>3 DEF SteadyInv

LEMMA SteadyInit == DrainInit => SteadyInv
<1> SUFFICES ASSUME DrainInit PROVE SteadyInv
  OBVIOUS
<1>1. IInv /\ TxRows /\ Apart
  BY DrainInitOK, ApartInit
<1>2. \A r \in Relays : relay[r].step = "idle" /\ Batch(r) = {}
  BY DEF DrainInit, Init, NoBatch, Batch
<1>3. AllOrderly
  <2>1. faults = 0
    BY DEF DrainInit, Init
  <2> QED BY <1>2, <2>1 DEF AllOrderly, Orderly
<1>4. Unharmed
  <2>1. \A r \in Relays : up[r] = TRUE /\ tx[r] = NoTx
    BY DEF DrainInit, Init
  <2> QED BY <2>1, NoRows DEF Unharmed
<1>5. OwnedFree
  BY <1>2 DEF OwnedFree, TxFree, Owned, Held
<1> QED BY <1>1, <1>3, <1>4, <1>5 DEF SteadyInv

\* A row is closed for good: marked DONE or deleted as sent, it is not opened again by
\* what another relay learned from a publish of its own (relay.go, settleOutcomes and
\* revertFailedV2 update rows by id alone), nor by a rollback, if relays settle what
\* they claimed before the clock moves on.
THEOREM ClosedForGood == ASSUME Punctual PROVE DrainSpec => ClosedIsFinal
<1>1. ASSUME SteadyInv, [DrainNext]_allVars PROVE [\A e \in Events : Closed(e) => Closed(e)']_vars
  <2>1. CASE Tick /\ UNCHANGED drainVars
    BY <2>1 DEF Tick, Closed
  <2>2. CASE ~(Tick /\ UNCHANGED drainVars)
    <3>1. Timeless
      BY <1>1, <2>2 DEF DrainNext, Timeless
    <3> SUFFICES ASSUME NEW e \in Events PROVE Closed(e) => Closed(e)'
      OBVIOUS
    <3>2. \A R, Q, X, Y : R = TxFree /\ Q = TxFree' /\ X = wire /\ Y = wire' => (Closed(e) => Closed(e)')
      <4> SUFFICES ASSUME NEW R, R = TxFree, NEW Q, Q = TxFree', NEW X, X = wire, NEW Y, Y = wire'
                   PROVE  Closed(e) => Closed(e)'
        OBVIOUS
      <4>1. Owned(R)
        BY <1>1 DEF SteadyInv, OwnedFree
      <4>2. Handled(e, R, Q, X, Y)
        BY <1>1, <3>1, <4>1, TimelessHandled DEF SteadyInv
      <4> QED BY <4>2 DEF Handled, KeepsRow
    <3> QED BY <3>2
  <2> QED BY <2>1, <2>2
<1>2. SteadyInv /\ [DrainNext]_allVars => SteadyInv'
  BY SteadyStep
<1> HIDE DEF IInv
<1> QED BY <1>1, <1>2, SteadyInit, PTL DEF DrainSpec, ClosedIsFinal

-----------------------------------------------------------------------------
(* One failure stores no event twice *)

\* A row that is locked is in the transaction of a relay, which goes on with all of it.
HasAll(r) ==
  /\ tx[r].step # "none" => \A e \in Batch(r) : relay[r].outcome[e] # "settled"
  /\ tx[r].step = "open" /\ up[r] => DOMAIN tx[r].rows \subseteq Batch(r)
LockedAre ==
  \A e \in Events : row[e].state = "locked" =>
    \E r \in Relays : tx[r].step = "open" /\ e \in DOMAIN tx[r].rows

\* The figures of rows that a transaction brings back.
TxFine ==
  \A r \in Relays : \A e \in DOMAIN tx[r].rows :
    /\ tx[r].rows[e].updated \in Int /\ tx[r].rows[e].updated <= now /\ tx[r].rows[e].next \in Int
    /\ tx[r].rows[e].attempts <= faults
    /\ faults <= 1 => tx[r].rows[e].next <= now

\* A row of which a draining relay does not know what became comes back within the window.
DelaysInWindow ==
  \A delay \in UnknownDelay..(IF RetryJitter THEN UnknownDelay + UnknownDelay \div 2 ELSE UnknownDelay) :
    delay <= Window

\* What a transaction makes of its rows keeps their figures in bounds.
LEMMA RestoredFine ==
  ASSUME IInv, Fine, InWindow, DelaysInWindow, UNCHANGED now,
         faults \in Nat, faults' = faults \/ faults' = faults + 1,
         NEW r \in Relays, NEW e \in Failures(r), NEW delay \in DrainDelays(r, e),
         row'[e] = Restored(r, e, delay)
  PROVE  RowFine(e)' /\ row'[e].state # "locked"
<1> DEFINE o == relay[r].outcome[e]
           k == relay[r].snap[e]
           n == k + (IF Unknown(o) THEN 0 ELSE 1)
<1>1. e \in Batch(r) /\ o \in {"transport", "refused", "timeout"} /\ k \in Nat
  BY ShapeParts, RelayRecord DEF Failures
<1>2. k + (IF o \in {"refused", "timeout"} THEN 1 ELSE 0) <= faults
  BY <1>1 DEF Fine, TriedFine
<1>3. now \in Nat /\ Window \in Nat /\ UnknownDelay \in Nat /\ UnknownDelay \div 2 \in Nat
  BY WindowIs, ShapeParts, DrainSettings DEF ClockOK
<1>4. Unknown(o) <=> o # "refused"
  BY <1>1 DEF Unknown
<1>5. n \in Nat /\ n <= faults'
  <2> HIDE DEF o, k
  <2> QED BY <1>1, <1>2, <1>4
<1>6. delay \in Int
  <2>1. RetryDelays(k + 1) \subseteq Int
    BY DEF RetryDelays
  <2> QED BY <1>3, <2>1 DEF DrainDelays
<1>7. faults' <= 1 => delay <= Window
  <2> SUFFICES ASSUME faults' <= 1 PROVE delay <= Window
    OBVIOUS
  <2>1. CASE Unknown(o)
    BY <2>1 DEF DrainDelays, DelaysInWindow
  <2>2. CASE ~Unknown(o)
    <3>1. delay \in RetryDelays(k + 1)
      BY <2>2 DEF DrainDelays
    <3>2. k + 1 = 1
      <4> HIDE DEF o, k
      <4> QED BY <1>1, <1>2, <1>4, <2>2
    <3>3. delay \in RetryDelays(1)
      BY <3>1, <3>2
    <3> QED BY <3>3 DEF InWindow
  <2> QED BY <2>1, <2>2
<1> DEFINE p == ~Unknown(o) /\ MaxAttempts > 0 /\ n >= MaxAttempts
<1>8. row'[e] = [state |-> IF p THEN "PARKED" ELSE "PENDING", attempts |-> n,
                 next |-> IF p THEN 0 ELSE now + delay, updated |-> now]
  BY DEF Restored
<1>9. p => MaxAttempts > 0 /\ n >= MaxAttempts
  OBVIOUS
<1> HIDE DEF p, n, o, k
<1>10. /\ row'[e].state \in {"PARKED", "PENDING"} /\ (row'[e].state = "PARKED" => p)
       /\ row'[e].attempts = n /\ row'[e].updated = now /\ row'[e].next \in {0, now + delay}
  BY <1>8
<1>11. /\ row'[e].next \in Int /\ now <= now
       /\ faults' <= 1 => row'[e].next <= now + Window
  BY <1>3, <1>6, <1>7, <1>10
<1> QED BY <1>3, <1>5, <1>9, <1>10, <1>11 DEF RowFine

LEMMA DrainedFine ==
  ASSUME IInv, Apart, Fine, InWindow, DelaysInWindow, UNCHANGED now,
         faults \in Nat, faults' = faults \/ faults' = faults + 1,
         NEW r \in Relays, DrainedRows(r), NEW e \in Events
  PROVE  /\ RowFine(e)'
         /\ row'[e].state = "locked" => row'[e] = row[e] /\ e \notin Failures(r) /\ e \notin Successes(r)
<1>1. PICK delay : /\ \A d \in Failures(r) : delay[d] \in DrainDelays(r, d)
                   /\ row' = [d \in Events |->
                        IF d \in Failures(r) THEN Restored(r, d, delay[d])
                        ELSE IF d \notin Successes(r) THEN row[d]
                        ELSE IF DeleteAfterSend THEN Gone("sent")
                        ELSE [row[d] EXCEPT !.state = "DONE"]]
  BY DEF DrainedRows
<1>2. RowFine(e) /\ RowsOK
  BY ShapeParts DEF Fine
<1>3. CASE e \in Failures(r)
  <2>1. row'[e] = Restored(r, e, delay[e]) /\ delay[e] \in DrainDelays(r, e)
    BY <1>1, <1>3
  <2> QED BY <1>3, <2>1, RestoredFine
<1>4. CASE e \notin Failures(r) /\ e \notin Successes(r)
  <2>1. row'[e] = row[e]
    BY <1>1, <1>4
  <2>2. RowFine(e)'
    BY <1>2, <2>1, PlainFine DEF Plain
  <2> QED BY <1>4, <2>1, <2>2
<1>5. CASE e \notin Failures(r) /\ e \in Successes(r)
  <2>1. row'[e] = Gone("sent") \/ row'[e] = [row[e] EXCEPT !.state = "DONE"]
    BY <1>1, <1>5
  <2>2. CASE row'[e] = Gone("sent")
    BY <1>2, <2>2, GoneIsPlain, PlainFine
  <2>3. CASE row'[e] = [row[e] EXCEPT !.state = "DONE"]
    <3>1. /\ row'[e].state = "DONE" /\ row'[e].attempts = row[e].attempts
          /\ row'[e].next = row[e].next /\ row'[e].updated = row[e].updated
      <4> DEFINE s == row[e].state
                 a == row[e].attempts
                 n == row[e].next
                 u == row[e].updated
      <4>1. row[e] = [state |-> s, attempts |-> a, next |-> n, updated |-> u]
        BY <1>2, RowRecord
      <4> HIDE DEF s, a, n, u
      <4>2. row'[e] = [state |-> "DONE", attempts |-> a, next |-> n, updated |-> u]
        BY <2>3, <4>1
      <4>3. row'[e].state = "DONE" /\ row'[e].attempts = a /\ row'[e].next = n /\ row'[e].updated = u
        BY <4>2
      <4> QED BY <4>3 DEF a, n, u
    <3>2. Plain(e)
      BY <3>1 DEF Plain
    <3> QED BY <1>2, <3>1, <3>2, PlainFine
  <2> QED BY <2>1, <2>2, <2>3
<1> QED BY <1>3, <1>4, <1>5

LEMMA RolledBackFine ==
  ASSUME IInv, TxRows, Fine, TxFine, InWindow, UNCHANGED now,
         faults \in Nat, faults' = faults \/ faults' = faults + 1,
         NEW r \in Relays, RolledBack(r), NEW e \in Events
  PROVE  /\ RowFine(e)'
         /\ row'[e].state = "locked" => row'[e] = row[e] /\ e \notin DOMAIN tx[r].rows
<1>1. row'[e] = IF e \in DOMAIN tx[r].rows THEN tx[r].rows[e] ELSE row[e]
  BY DEF RolledBack
<1>2. CASE e \notin DOMAIN tx[r].rows
  <2>1. row'[e] = row[e] /\ RowFine(e)
    BY <1>1, <1>2 DEF Fine
  <2>2. RowFine(e)'
    BY <2>1, PlainFine DEF Plain
  <2> QED BY <1>2, <2>1, <2>2
<1>3. CASE e \in DOMAIN tx[r].rows
  <2>1. row'[e] = tx[r].rows[e] /\ row'[e].state = "PENDING" /\ row'[e].attempts \in Nat
    BY <1>1, <1>3 DEF TxRows, Row
  <2>2. /\ row'[e].updated \in Int /\ row'[e].updated <= now /\ row'[e].next \in Int
        /\ row'[e].attempts <= faults /\ (faults <= 1 => row'[e].next <= now)
    BY <1>3, <2>1 DEF TxFine
  <2>3. now \in Nat /\ Window \in Nat
    BY WindowIs, ShapeParts DEF ClockOK
  <2>4. /\ row'[e].attempts <= faults'
        /\ faults' <= 1 => row'[e].next <= now + Window
    BY <2>1, <2>2, <2>3
  <2> QED BY <2>1, <2>2, <2>4 DEF RowFine
<1> QED BY <1>2, <1>3

LEMMA RowsFine ==
  ASSUME IInv, TxRows, Apart, Fine, TxFine, InWindow, DelaysInWindow, UNCHANGED now,
         faults \in Nat, [DrainNext]_allVars, NEW e \in Events
  PROVE  RowFine(e)'
<1>1. RowFine(e) /\ RowsOK /\ (faults' = faults \/ faults' = faults + 1)
  BY ShapeParts, FaultsGrow DEF Fine
<1>2. CASE \/ row' = row
           \/ \E d \in Events : Save(d)
           \/ \E S \in SUBSET Events : RequeueParked(S)
           \/ \E r \in Relays : \/ Reclaim(r) \/ Claim(r) \/ ClaimFails(r) \/ SettleSuccesses(r)
                                \/ \E S \in SUBSET Events : Cleanup(r, S)
                                \/ \E d \in Batch(r) : SettleFailure(r, d)
  BY <1>1, <1>2, PathRows
<1>3. CASE \E r \in Relays : DrainClaim(r)
  <2>1. row'[e] = row[e] \/ (row'[e] = Moved(e, "locked") /\ Retryable(e))
    BY <1>3 DEF DrainClaim, OldestPending
  <2>2. CASE row'[e] = row[e]
    BY <1>1, <2>2, PlainFine DEF Plain
  <2>3. CASE row'[e] = Moved(e, "locked") /\ Claimable(e)
    BY <1>1, <2>3, MovedIsPlain, PlainFine
  <2> QED BY <2>1, <2>2, <2>3 DEF Claimable
<1>4. CASE \E r \in Relays : RolledBack(r) \/ DrainedRows(r)
  BY <1>1, <1>4, RolledBackFine, DrainedFine
<1> QED BY <1>2, <1>3, <1>4, RowSteps

LEMMA TxFineStep ==
  ASSUME IInv, TxRows, Fine, TxFine, faults \in Nat, [DrainNext]_allVars, now' = now \/ now' = now + 1
  PROVE  TxFine'
<1>1. now \in Nat /\ (faults' = faults \/ faults' = faults + 1)
  BY ShapeParts, FaultsGrow DEF ClockOK
<1> SUFFICES ASSUME NEW q \in Relays, NEW e \in DOMAIN tx'[q].rows
             PROVE  /\ tx'[q].rows[e].updated \in Int /\ tx'[q].rows[e].updated <= now'
                    /\ tx'[q].rows[e].next \in Int /\ tx'[q].rows[e].attempts <= faults'
                    /\ faults' <= 1 => tx'[q].rows[e].next <= now'
  BY DEF TxFine
<1>2. \E w : /\ tx'[q].rows[e] = w /\ w.attempts \in Nat
             /\ w.updated \in Int /\ w.updated <= now /\ w.next \in Int /\ w.attempts <= faults
             /\ faults <= 1 => w.next <= now
  <2>1. CASE e \in DOMAIN tx[q].rows /\ tx'[q].rows[e] = tx[q].rows[e]
    BY <2>1 DEF TxFine, TxRows, Row
  <2>2. CASE e \in Events /\ Retryable(e) /\ tx'[q].rows[e] = row[e]
    <3>1. row[e].attempts \in Nat /\ RowFine(e)
      BY <2>2, ShapeParts, RowRecord DEF Fine
    <3> QED BY <2>2, <3>1 DEF RowFine, Retryable
  <2> QED BY <2>1, <2>2, TxSteps
<1>3. PICK w : /\ tx'[q].rows[e] = w /\ w.attempts \in Nat
               /\ w.updated \in Int /\ w.updated <= now /\ w.next \in Int /\ w.attempts <= faults
               /\ faults <= 1 => w.next <= now
  BY <1>2
<1> QED BY <1>1, <1>3

\* A relay that stays as it is, and one of its steps.
LEMMA HasAllKept ==
  ASSUME \A q \in Relays : HasAll(q), NEW r \in Relays, HasAll(r)',
         \A q \in Relays \ {r} : relay'[q] = relay[q] /\ tx'[q] = tx[q] /\ up'[q] = up[q]
  PROVE  \A q \in Relays : HasAll(q)'
<1> SUFFICES ASSUME NEW q \in Relays, q # r PROVE HasAll(q)'
  OBVIOUS
<1>1. relay'[q] = relay[q] /\ tx'[q] = tx[q] /\ up'[q] = up[q] /\ Batch(q)' = Batch(q)
  BY DEF Batch
<1> QED BY <1>1 DEF HasAll

LEMMA HasAllSame ==
  ASSUME \A q \in Relays : HasAll(q), UNCHANGED <<relay, tx, up>>
  PROVE  \A q \in Relays : HasAll(q)'
BY DEF HasAll, Batch

\* A relay with no transaction, or whose batch stays.
LEMMA ClaimPathHas ==
  ASSUME IInv, Apart, \A q \in Relays : HasAll(q), NEW r \in Relays, ClaimPath(r) \/ BothPaths(r)
  PROVE  \A q \in Relays : HasAll(q)'
<1>1. RelaysOK /\ UNCHANGED <<tx, up>> /\ HasAll(r)
  BY ShapeParts DEF ClaimPath, BothPaths, drainVars, Process, Claim, ClaimFails, SettleSuccesses,
     SettleFailure, Reclaim, Publishing, Publish, Transport, Refused, Unanswered, Published
<1>2. \A q \in Relays \ {r} : relay'[q] = relay[q]
  <2>1. \/ \E s : Goto(r, s)
        \/ \E d, o : Outcome(r, d, o)
        \/ \E b : relay' = [relay EXCEPT ![r] = b]
    BY DEF ClaimPath, BothPaths, Process, Claim, ClaimFails, SettleSuccesses,
       SettleFailure, Reclaim, Publishing, Publish, Transport, Refused, Unanswered, Published
  <2> QED BY <1>1, <2>1, OthersStay
<1>3. HasAll(r)'
  <2>1. CASE tx[r].step = "none"
    BY <1>1, <2>1 DEF HasAll
  <2>2. CASE Published(r)
    <3>1. relay'[r].outcome = relay[r].outcome /\ Batch(r)' = Batch(r)
      BY <1>1, <2>2, StepWritten DEF Published
    <3> QED BY <1>1, <3>1 DEF HasAll
  <2>3. CASE Publishing(r)
    <3>1. PICK d \in Batch(r), o \in {"ok", "transport", "refused", "timeout"} : Outcome(r, d, o)
      BY <2>3 DEF Publishing, Publish, Transport, Refused, Unanswered
    <3>2. Batch(r)' = Batch(r) /\ \A e \in Batch(r) : relay'[r].outcome[e] \in {o, relay[r].outcome[e]}
      BY <1>1, <3>1, OutcomeWritten
    <3> QED BY <1>1, <3>2 DEF HasAll
  <2>4. tx[r].step = "none" \/ Published(r) \/ Publishing(r)
    <3>1. relay[r].step \in {"idle", "reclaim", "claim"} => tx[r].step = "none" \/ ~up[r]
      BY DEF Apart, Own
    <3>2. relay[r].step # "idle" => up[r]
      BY DEF Apart, Own
    <3> QED BY <3>1, <3>2 DEF ClaimPath, BothPaths, Process, Claim, ClaimFails, Reclaim
  <2> QED BY <2>1, <2>2, <2>3, <2>4
<1> QED BY <1>1, <1>2, <1>3, HasAllKept

LEMMA DrainPathHas ==
  ASSUME IInv, TxRows, Apart, \A q \in Relays : HasAll(q), NEW r \in Relays, DrainPath(r)
  PROVE  \A q \in Relays : HasAll(q)'
<1>1. RelaysOK /\ UNCHANGED up
  BY ShapeParts DEF DrainPath, DrainProcess, DrainClaim, DrainClaimFails, DrainCommit, DrainFails,
     Lost, DrainLost, Failed
<1>2. \A q \in Relays \ {r} : relay'[q] = relay[q] /\ tx'[q] = tx[q]
  <2>1. \/ \E s : Goto(r, s)
        \/ \E b : relay' = [relay EXCEPT ![r] = b]
        \/ relay' = relay
    BY DEF DrainPath, DrainProcess, DrainClaim, DrainClaimFails, DrainCommit, DrainFails,
       Lost, DrainLost, Failed
  <2>2. tx' = tx \/ \E x : tx' = [tx EXCEPT ![r] = x]
    BY DEF DrainPath, DrainProcess, DrainClaim, DrainClaimFails, DrainCommit, DrainFails,
       Lost, DrainLost, Failed, drainVars
  <2>3. \A q \in Relays \ {r} : relay'[q] = relay[q]
    BY <1>1, <2>1, OthersStay
  <2> QED BY <2>2, <2>3 DEF TxRows
<1>3. HasAll(r)'
  <2>1. CASE tx'[r].step = "none"
    BY <2>1 DEF HasAll
  <2>2. CASE Lost(r)
    <3>1. Batch(r)' = Batch(r) /\ relay' = relay /\ tx[r].step = "open"
      BY <2>2 DEF Lost, Batch
    <3>2. tx'[r].step # "open"
      <4>1. tx'[r] = IF up[r] THEN [NoTx EXCEPT !.step = "lost"] ELSE NoTx
        BY <2>2 DEF Lost, TxRows
      <4> QED BY <4>1, NoRows
    <3> QED BY <3>1, <3>2 DEF HasAll
  <2>3. CASE DrainClaim(r) /\ OldestPending # {}
    <3> DEFINE S == OldestPending
               R == [e \in S |-> row[e]]
    <3>1. /\ tx' = [tx EXCEPT ![r] = [step |-> "open", rows |-> R]]
          /\ relay' = [relay EXCEPT ![r] = Taken(S)]
      BY <2>3 DEF DrainClaim
    <3>2. S \in SUBSET Events /\ DOMAIN R = S
      BY DEF OldestPending
    <3> HIDE DEF R, S
    <3>3. Batch(r)' = S /\ \A e \in S : relay'[r].outcome[e] \in {"ok", "none"}
      BY <1>1, <3>1, <3>2, ShapeParts, TakenIs
    <3>4. tx'[r].rows = R
      BY <3>1 DEF TxRows
    <3> QED BY <3>2, <3>3, <3>4 DEF HasAll
  <2>4. tx'[r].step = "none" \/ Lost(r) \/ (DrainClaim(r) /\ OldestPending # {})
    <3>1. CASE DrainProcess(r) \/ (DrainClaim(r) /\ OldestPending = {})
      <4>1. tx' = tx /\ relay[r].step \in {"idle", "claim"} /\ (relay[r].step = "idle" => up[r])
        BY <3>1 DEF DrainProcess, DrainClaim, drainVars
      <4> QED BY <4>1 DEF Apart, Own
    <3>2. CASE DrainClaimFails(r) \/ DrainCommit(r) \/ DrainFails(r) \/ DrainLost(r)
      <4>1. tx' = [tx EXCEPT ![r] = NoTx]
        BY <3>2 DEF DrainClaimFails, DrainCommit, DrainFails, DrainLost, Failed
      <4> QED BY <4>1, NoRows DEF TxRows
    <3> QED BY <3>1, <3>2 DEF DrainPath
  <2> QED BY <2>1, <2>2, <2>3, <2>4
<1> QED BY <1>1, <1>2, <1>3, HasAllKept

LEMMA OperateHas ==
  ASSUME IInv, TxRows, Apart, \A q \in Relays : HasAll(q), NEW r \in Relays, Operate(r)
  PROVE  \A q \in Relays : HasAll(q)'
<1>1. RelaysOK /\ DOMAIN up = Relays
  BY ShapeParts DEF Apart
<1>2. CASE Kill(r)
  <2>1. /\ relay' = [relay EXCEPT ![r] = NoBatch] /\ up' = [up EXCEPT ![r] = FALSE]
        /\ tx' = [tx EXCEPT ![r] = NoTx] \/ tx' = tx
    BY <1>2 DEF Kill, Die
  <2>2. /\ Batch(r)' = {} /\ ~up'[r]
        /\ \A q \in Relays \ {r} : relay'[q] = relay[q] /\ tx'[q] = tx[q] /\ up'[q] = up[q]
    BY <1>1, <2>1, BatchDropped DEF TxRows
  <2>3. HasAll(r)'
    BY <2>2 DEF HasAll
  <2> QED BY <2>2, <2>3, HasAllKept
<1>3. CASE tx[r].step = "none" /\ Start(r) /\ UNCHANGED drainVars
  <2>1. UNCHANGED <<relay, tx>> /\ \A q \in Relays \ {r} : up'[q] = up[q]
    BY <1>1, <1>3 DEF Start, drainVars
  <2>2. HasAll(r)'
    BY <1>3, <2>1 DEF HasAll
  <2> QED BY <2>1, <2>2, HasAllKept
<1>4. CASE UNCHANGED <<relay, tx, up>>
  BY <1>4, HasAllSame
<1> QED BY <1>2, <1>3, <1>4 DEF Operate, Pause, Resume, Cleanup, drainVars

LEMMA HasAllStep ==
  ASSUME IInv, TxRows, Apart, \A q \in Relays : HasAll(q), [DrainNext]_allVars
  PROVE  \A q \in Relays : HasAll(q)'
<1>1. CASE \E r \in Relays : ClaimPath(r) \/ BothPaths(r) \/ DrainPath(r) \/ Operate(r)
  BY <1>1, ClaimPathHas, DrainPathHas, OperateHas
<1>2. CASE UNCHANGED <<relay, tx, up>>
  BY <1>2, HasAllSame
<1> QED BY <1>1, <1>2 DEF DrainNext, Tick, Save, Arrives, RequeueParked, drainVars, allVars, vars

LEMMA LockedKept ==
  ASSUME LockedAre,
         \A e \in Events : row'[e].state = "locked" =>
           \/ \E q \in Relays : tx'[q].step = "open" /\ e \in DOMAIN tx'[q].rows
           \/ /\ row[e].state = "locked"
              /\ \A q \in Relays : tx[q].step = "open" /\ e \in DOMAIN tx[q].rows => tx'[q] = tx[q]
  PROVE  LockedAre'
<1> SUFFICES ASSUME NEW e \in Events, row'[e].state = "locked", row[e].state = "locked",
                    \A q \in Relays : tx[q].step = "open" /\ e \in DOMAIN tx[q].rows => tx'[q] = tx[q]
             PROVE  \E q \in Relays : tx'[q].step = "open" /\ e \in DOMAIN tx'[q].rows
  BY DEF LockedAre
<1>1. PICK q \in Relays : tx[q].step = "open" /\ e \in DOMAIN tx[q].rows
  BY DEF LockedAre
<1> QED BY <1>1

\* What a transaction locks is its relay's to settle, and no longer locked when it ends.
LEMMA EndUnlocks ==
  ASSUME IInv, TxRows, Apart, AllOrderly, Fine, TxFine, InWindow, DelaysInWindow, LockedAre,
         \A q \in Relays : HasAll(q), UNCHANGED now, faults \in Nat, faults' = faults \/ faults' = faults + 1,
         NEW r \in Relays,
         DrainClaimFails(r) \/ DrainCommit(r) \/ DrainFails(r) \/ Lost(r) \/ DrainLost(r)
  PROVE  LockedAre'
<1>1. \A q \in Relays \ {r} : tx'[q] = tx[q]
  BY DEF DrainClaimFails, DrainCommit, DrainFails, Lost, DrainLost, Failed, TxRows
<1> SUFFICES ASSUME NEW e \in Events, row'[e].state = "locked"
             PROVE  row[e].state = "locked" /\ ~(tx[r].step = "open" /\ e \in DOMAIN tx[r].rows)
  BY <1>1, LockedKept
<1>2. CASE DrainClaimFails(r) \/ DrainLost(r)
  <2>1. row' = row /\ tx[r].step # "open"
    BY <1>2 DEF DrainClaimFails, DrainLost, Failed, Apart, Own
  <2> QED BY <2>1
<1>3. CASE RolledBack(r)
  BY <1>3, RolledBackFine
<1>4. CASE DrainedRows(r) /\ relay[r].step = "settle"
  <2>1. row'[e] = row[e] /\ e \notin Failures(r) /\ e \notin Successes(r)
    BY <1>4, DrainedFine
  <2>2. ASSUME tx[r].step = "open", e \in DOMAIN tx[r].rows PROVE FALSE
    <3>1. e \in Batch(r) /\ relay[r].outcome[e] # "settled"
      BY <1>4, <2>2 DEF HasAll, Apart, Own
    <3>2. relay[r].outcome[e] \in {"ok", "transport", "refused", "timeout"}
      BY <1>4, <3>1 DEF AllOrderly, Orderly, Outcomes
    <3> QED BY <2>1, <3>1, <3>2 DEF Failures, Successes
  <2> QED BY <2>1, <2>2
<1> QED BY <1>2, <1>3, <1>4 DEF DrainCommit, DrainFails, Lost

LEMMA LockedStep ==
  ASSUME IInv, TxRows, Apart, AllOrderly, Fine, TxFine, InWindow, DelaysInWindow, LockedAre,
         \A q \in Relays : HasAll(q), UNCHANGED now, faults \in Nat, Timeless, [DrainNext]_allVars
  PROVE  LockedAre'
<1>1. RowsOK /\ (faults' = faults \/ faults' = faults + 1)
  BY ShapeParts, FaultsGrow
<1>2. ASSUME tx' = tx, \A e \in Events : NoneLocks(e) PROVE LockedAre'
  <2>1. \A e \in Events : row'[e].state = "locked" => row[e].state = "locked"
    BY <1>2 DEF NoneLocks
  <2> QED BY <1>2, <2>1, LockedKept
<1>3. CASE \E r \in Relays : ClaimPath(r) \/ BothPaths(r)
  <2>1. \/ row' = row
        \/ \E r \in Relays : \/ Reclaim(r) \/ Claim(r) \/ ClaimFails(r) \/ SettleSuccesses(r)
                             \/ \E d \in Batch(r) : SettleFailure(r, d)
    BY <1>3 DEF ClaimPath, BothPaths, Process, Publishing, Publish, Transport, Refused, Unanswered, Published
  <2>2. \A e \in Events : NoneLocks(e)
    BY <1>1, <2>1, PathRows
  <2>3. tx' = tx
    BY <1>3 DEF ClaimPath, BothPaths, drainVars
  <2> QED BY <1>2, <2>2, <2>3
<1>4. CASE \/ \E e \in Events : (Save(e) \/ Arrives(e)) /\ UNCHANGED drainVars
           \/ \E S \in SUBSET Events : RequeueParked(S) /\ UNCHANGED drainVars
           \/ UNCHANGED allVars
           \/ \E r \in Relays : \/ Start(r) /\ UNCHANGED drainVars
                                \/ Pause(r) /\ UNCHANGED drainVars
                                \/ Resume(r) /\ UNCHANGED drainVars
                                \/ \E S \in SUBSET Events : Cleanup(r, S) /\ UNCHANGED drainVars
  <2>1. \/ row' = row
        \/ \E e \in Events : Save(e)
        \/ \E S \in SUBSET Events : RequeueParked(S)
        \/ \E r \in Relays : \E S \in SUBSET Events : Cleanup(r, S)
    BY <1>4 DEF Arrives, Start, Pause, Resume, allVars, vars
  <2>2. \A e \in Events : NoneLocks(e)
    BY <1>1, <2>1, PathRows
  <2>3. tx' = tx
    BY <1>4 DEF drainVars, allVars
  <2> QED BY <1>2, <2>2, <2>3
<1>5. CASE \E r \in Relays : Kill(r)
  <2>1. PICK r \in Relays : Kill(r)
    BY <1>5
  <2>2. row' = row /\ \A q \in Relays : tx[q].step = "open" => tx'[q] = tx[q]
    BY <2>1 DEF Kill, Die, TxRows
  <2> QED BY <2>2, LockedKept
<1>6. ASSUME NEW r \in Relays, DrainPath(r) PROVE LockedAre'
  <2>1. CASE DrainProcess(r) \/ (DrainClaim(r) /\ OldestPending = {})
    <3>1. tx' = tx /\ row' = row
      BY <2>1 DEF DrainProcess, DrainClaim, drainVars
    <3> QED BY <1>2, <3>1 DEF NoneLocks
  <2>2. CASE DrainClaim(r) /\ OldestPending # {}
    <3> DEFINE S == OldestPending
               R == [e \in S |-> row[e]]
    <3>1. /\ row' = [e \in Events |-> IF e \in S THEN Moved(e, "locked") ELSE row[e]]
          /\ tx' = [tx EXCEPT ![r] = [step |-> "open", rows |-> R]]
          /\ tx[r].step # "open"
      BY <2>2 DEF DrainClaim, Apart, Own
    <3>2. DOMAIN R = S
      OBVIOUS
    <3> HIDE DEF R, S
    <3>3. /\ tx'[r].step = "open" /\ DOMAIN tx'[r].rows = S
          /\ \A q \in Relays \ {r} : tx'[q] = tx[q]
      BY <3>1, <3>2 DEF TxRows
    <3>4. \A e \in Events : row'[e].state = "locked" => e \in S \/ row[e].state = "locked"
      BY <3>1
    <3> QED BY <3>1, <3>3, <3>4, LockedKept
  <2>3. CASE DrainClaimFails(r) \/ DrainCommit(r) \/ DrainFails(r) \/ Lost(r) \/ DrainLost(r)
    BY <1>1, <2>3, EndUnlocks
  <2> QED BY <1>6, <2>1, <2>2, <2>3 DEF DrainPath
<1> QED BY <1>3, <1>4, <1>5, <1>6 DEF Timeless, Operate

\* When the clock moves on no transaction is open, and no row locked.
LEMMA TickUnlocked ==
  ASSUME Punctual, Tick, LockedAre, \A r \in Relays : HasAll(r), NEW e \in Events
  PROVE  row[e].state # "locked"
<1> SUFFICES ASSUME NEW r \in Relays, tx[r].step = "open", e \in DOMAIN tx[r].rows PROVE FALSE
  BY DEF LockedAre
<1>1. up[r] /\ Batch(r) = {}
  BY DEF Tick, Quiet
<1> QED BY <1>1 DEF HasAll

\* A locked row that comes back may be published at once, or had been in vain.
LEMMA Unlocked ==
  ASSUME IInv, TxRows, Apart, TxFine, faults <= 1, Timeless, [DrainNext]_allVars, NEW e \in Events,
         row[e].state = "locked", row'[e].state = "PENDING"
  PROVE  row'[e].next <= now \/ \E q \in Relays : e \in Batch(q) /\ relay[q].outcome[e] \in Failing
<1>1. RowsOK /\ row'[e] # row[e]
  BY ShapeParts
<1>2. ~(\E d \in Events : Save(d)) /\ ~(\E S \in SUBSET Events : RequeueParked(S))
  BY <1>1 DEF Save, RequeueParked, RowsOK
<1>3. ~(\E r \in Relays : \/ Reclaim(r) \/ DrainClaim(r)
                          \/ \E S \in SUBSET Events : Cleanup(r, S))
  BY <1>1 DEF Reclaim, Stalled, DrainClaim, OldestPending, Retryable, Cleanup, Expired
<1>4. ~(\E r \in Relays : ClaimPath(r) \/ BothPaths(r))
  BY <1>1, <1>3 DEF ClaimPath, BothPaths, Waits, Publishing, Publish, Transport, Refused, Unanswered, Published
<1>5. PICK r \in Relays : RolledBack(r) \/ (DrainedRows(r) /\ tx[r].step = "open")
  <2>1. PICK r \in Relays : DrainPath(r) \/ Operate(r)
    BY <1>1, <1>2, <1>4 DEF Timeless, Arrives, allVars, vars
  <2>2. ~Operate(r)
    BY <1>1, <1>3 DEF Operate, Kill, Die, Start, Pause, Resume
  <2> QED BY <1>1, <1>3, <2>1, <2>2 DEF DrainPath, DrainProcess, DrainClaimFails, DrainCommit, DrainFails,
             Lost, DrainLost, Failed
<1>6. CASE RolledBack(r)
  <2>1. e \in DOMAIN tx[r].rows /\ row'[e] = tx[r].rows[e]
    BY <1>1, <1>6, RolledBackIs
  <2> QED BY <2>1 DEF TxFine
<1>7. CASE DrainedRows(r) /\ tx[r].step = "open"
  <2>1. e \in Failures(r)
    BY <1>1, <1>7, DrainedIs
  <2> QED BY <2>1 DEF Failures, Failing
<1> QED BY <1>5, <1>6, <1>7

\* As long as nothing has failed no relay has to settle what is closed.
LEMMA HeldIsOpen ==
  ASSUME Apart, Unharmed, NEW R, R = TxFree, Owned(R), faults = 0, NEW e \in Events, Closed(e),
         NEW q \in Relays
  PROVE  ~Held(q, e)
<1>1. CASE q \in R
  BY <1>1 DEF Owned, Closed
<1>2. CASE q \notin R
  <2>1. tx[q].step = "open"
    BY <1>2 DEF TxFree, Unharmed, Apart, Own
  <2> QED BY <2>1 DEF Apart, Own, LockedRows, Held, Closed
<1> QED BY <1>1, <1>2

LEMMA TimelessIs == ASSUME Timeless PROVE [DrainNext]_allVars
BY DEF Timeless, DrainNext

LEMMA LooksTimeless ==
  ASSUME RelaysOK, RowsOK, LookedFine, faults \in Nat, Timeless
  PROVE  LooksOut
<1>1. faults' = faults \/ faults' = faults + 1
  BY TimelessIs, FaultsGrow
<1>2. CASE \/ \E e \in Events : Save(e) \/ Arrives(e)
           \/ \E S \in SUBSET Events : RequeueParked(S)
           \/ UNCHANGED allVars
  BY <1>1, <1>2, LooksSame DEF Save, Arrives, RequeueParked, allVars, vars
<1>3. CASE \E r \in Relays : ClaimPath(r) \/ BothPaths(r) \/ Operate(r)
  BY <1>1, <1>3, PathLooks DEF ClaimPath, BothPaths, Operate, Kill
<1>4. ASSUME NEW r \in Relays, DrainPath(r) PROVE LooksOut
  <2>1. CASE DrainProcess(r)
    BY <2>1, LooksFirst DEF DrainProcess
  <2>2. CASE Lost(r)
    BY <1>1, <2>2, LooksSame DEF Lost
  <2>3. CASE DrainClaim(r) \/ DrainClaimFails(r) \/ DrainCommit(r) \/ DrainFails(r) \/ DrainLost(r)
    <3>1. relay[r].step # "reclaim" /\ UNCHANGED reclaimed /\ \E b : relay' = [relay EXCEPT ![r] = b]
      BY <2>3 DEF DrainClaim, DrainClaimFails, DrainCommit, DrainFails, DrainLost, Failed
    <3>2. \A q \in Relays \ {r} : relay'[q] = relay[q]
      BY <3>1, OthersStay
    <3> QED BY <1>1, <3>1, <3>2, LooksOther
  <2> QED BY <1>4, <2>1, <2>2, <2>3 DEF DrainPath
<1> QED BY <1>2, <1>3, <1>4 DEF Timeless

LEMMA StoresTimeless ==
  ASSUME IInv, Fine, faults \in Nat, Timeless, NEW R, NEW X, X = wire,
         Unfailed(R, X), UnderWay(X), NEW e \in Events,
         NEW n, n = stored[e], NEW t, t = seen[e], NEW m, m = stored'[e], NEW u, u = seen'[e]
  PROVE  Stores(e, X, n, t, m, u)
<1>1. CASE \E r \in Relays : Publishing(r)
  BY <1>1, PublishingStores
<1>2. CASE \E d \in Events : Arrives(d)
  BY <1>2, ArrivesStores
<1>3. CASE UNCHANGED <<seen, stored>>
  BY <1>3 DEF Stores
<1>4. \/ \E r \in Relays : Publishing(r)
      \/ \E d \in Events : Arrives(d)
      \/ UNCHANGED <<seen, stored>>
  BY DEF Timeless, allVars, vars, drainVars, stream, Save, RequeueParked, ClaimPath, BothPaths, DrainPath,
     Operate, Process, Claim, ClaimFails, SettleSuccesses, SettleFailure, Reclaim, Published,
     DrainProcess, DrainClaim, DrainClaimFails, DrainCommit, DrainFails, Lost, DrainLost, Failed,
     Kill, Die, Start, Pause, Resume, Cleanup
<1> QED BY <1>1, <1>2, <1>3, <1>4

\* Every event is in the stream at most once, and what is still to be published of it
\* will be while the stream knows it.
StoredOnce(R, X) ==
  faults <= 1 => \A e \in Events : \A n, t : n = stored[e] /\ t = seen[e] =>
    n <= 1 /\ (n = 1 => Timely(e, t, R, X))
OnceInv ==
  /\ SteadyInv /\ TxFine /\ LockedAre /\ (\A r \in Relays : HasAll(r))
  /\ \A R, X : R = TxFree /\ X = wire => Calm(R, X) /\ StoredOnce(R, X)

LEMMA StoredOnceStep ==
  ASSUME SteadyInv, TxFine, InWindow, DelaysInWindow, Timeless,
         NEW R, R = TxFree, NEW Q, Q = TxFree', NEW X, X = wire, NEW Y, Y = wire',
         Calm(R, X), StoredOnce(R, X)
  PROVE  StoredOnce(Q, Y)'
<1>1. /\ IInv /\ TxRows /\ Apart /\ AllOrderly /\ Unharmed /\ Owned(R)
      /\ Fine /\ Waited(R) /\ Unfailed(R, X) /\ UnderWay(X)
      /\ R \in SUBSET Relays /\ Q \in SUBSET Relays /\ UNCHANGED now
      /\ faults \in Nat /\ (faults' = faults \/ faults' = faults + 1) /\ [DrainNext]_allVars
  BY TimelessIs, TimelessNow, FaultsGrow DEF SteadyInv, OwnedFree, TxFree, Calm, AllOrderly
<1> HIDE DEF IInv
<1> SUFFICES ASSUME faults' <= 1, NEW e \in Events, NEW m, m = stored'[e], NEW u, u = seen'[e]
             PROVE  m <= 1 /\ (m = 1 => Timely(e, u, Q, Y)')
  BY DEF StoredOnce
<1>2. faults <= 1
  BY <1>1
<1>3. PICK n, t : n = stored[e] /\ t = seen[e]
  OBVIOUS
<1>4. n \in Nat /\ n <= 1 /\ (n = 1 => Timely(e, t, R, X))
  BY <1>1, <1>2, <1>3, ShapeParts DEF StoredOnce, ClockOK, IInv
<1>5. Stores(e, X, n, t, m, u)
  BY <1>1, <1>3, StoresTimeless
<1>6. RowFine(e)' /\ Handled(e, R, Q, X, Y)
  BY <1>1, RowsFine, TimelessHandled
<1>7. row[e].state = "locked" /\ row'[e].state = "PENDING" =>
        row'[e].next <= now \/ \E q \in Relays : e \in Batch(q) /\ relay[q].outcome[e] \in Failing
  BY <1>1, <1>2, Unlocked
<1>8. faults = 0 /\ Closed(e) => \A q \in Relays : ~Held(q, e)
  BY <1>1, HeldIsOpen
<1> QED BY <1>1, <1>4, <1>5, <1>6, <1>7, <1>8, OnceStep

LEMMA OnceTimeless ==
  ASSUME OnceInv, SteadyInv', InWindow, DelaysInWindow, Timeless
  PROVE  OnceInv'
<1>1. /\ IInv /\ TxRows /\ Apart /\ AllOrderly /\ Unharmed /\ OwnedFree
      /\ SteadyInv /\ TxFine /\ LockedAre /\ \A r \in Relays : HasAll(r)
      /\ UNCHANGED now /\ faults \in Nat /\ (faults' = faults \/ faults' = faults + 1)
      /\ [DrainNext]_allVars
  BY TimelessIs, TimelessNow, FaultsGrow DEF OnceInv, SteadyInv, AllOrderly
<1>2. RelaysOK /\ RowsOK /\ RelaysOK'
  <2>1. Shape'
    BY DEF SteadyInv
  <2>2. RelaysOK'
    BY <2>1, ShapeParts, PTL
  <2> QED BY <1>1, <2>2, ShapeParts
<1> HIDE DEF IInv
<1>3. Fine
  BY DEF OnceInv, Calm
<1>4. TxFine' /\ LockedAre' /\ \A r \in Relays : HasAll(r)'
  BY <1>1, <1>3, TxFineStep, LockedStep, HasAllStep
<1>5. LooksOut
  BY <1>1, <1>2, <1>3, LooksTimeless DEF Fine
<1>6. ASSUME NEW R, R = TxFree, NEW X, X = wire, NEW Q, Q = TxFree', NEW Y, Y = wire'
      PROVE  Calm(Q, Y)' /\ StoredOnce(Q, Y)'
  <2>1. Calm(R, X) /\ StoredOnce(R, X) /\ Owned(R) /\ R \in SUBSET Relays /\ Q \in SUBSET Relays
    BY <1>1, <1>6 DEF OnceInv, OwnedFree, TxFree
  <2>2. \A e \in Events : Handled(e, R, Q, X, Y) /\ RowFine(e)'
    BY <1>1, <1>3, <1>6, <2>1, TimelessHandled, RowsFine
  <2>3. Calm(Q, Y)'
    BY <1>1, <1>2, <1>5, <2>1, <2>2, CalmStep
  <2> QED BY <1>1, <1>6, <2>1, <2>3, StoredOnceStep
<1>7. \A Q, Y : Q = TxFree' /\ Y = wire' => Calm(Q, Y)' /\ StoredOnce(Q, Y)'
  BY <1>6
<1> QED BY <1>4, <1>7 DEF OnceInv

LEMMA OnceTick ==
  ASSUME Punctual, OnceInv, SteadyInv', InWindow, Tick, UNCHANGED drainVars
  PROVE  OnceInv'
<1>1. /\ IInv /\ TxRows /\ SteadyInv /\ TxFine /\ LockedAre /\ (\A r \in Relays : HasAll(r))
      /\ now' = now + 1 /\ UNCHANGED <<row, relay, up, faults, wire, seen, stored>>
      /\ UNCHANGED tx /\ faults \in Nat /\ wire = {} /\ [DrainNext]_allVars
  BY DEF OnceInv, SteadyInv, AllOrderly, Tick, Quiet, stream, drainVars, DrainNext
<1>2. TxFine' /\ LockedAre' /\ \A r \in Relays : HasAll(r)'
  <2>1. Fine
    BY DEF OnceInv, Calm
  <2>2. TxFine'
    BY <1>1, <2>1, TxFineStep
  <2>3. LockedAre'
    BY <1>1 DEF LockedAre
  <2> QED BY <1>1, <2>2, <2>3, HasAllSame
<1>3. ASSUME NEW R, R = TxFree, NEW X, X = wire, NEW Q, Q = TxFree', NEW Y, Y = wire'
      PROVE  Calm(Q, Y)' /\ StoredOnce(Q, Y)'
  <2>1. /\ Calm(R, X) /\ StoredOnce(R, X) /\ Fine /\ R \in SUBSET Relays /\ Q \in SUBSET Relays
        /\ \A e \in Events : e \notin Y
    BY <1>1, <1>3 DEF OnceInv, TxFree, Calm
  <2>2. Calm(Q, Y)'
    BY <1>1, <2>1, CalmTick
  <2>3. ASSUME faults' <= 1, NEW e \in Events, NEW m, m = stored'[e], NEW u, u = seen'[e]
        PROVE  m <= 1 /\ (m = 1 => Timely(e, u, Q, Y)')
    <3>1. m <= 1 /\ (m = 1 => Timely(e, u, R, X))
      BY <1>1, <2>1, <2>3 DEF StoredOnce
    <3>2. row[e].state # "locked"
      BY <1>1, TickUnlocked
    <3> QED BY <1>1, <2>1, <3>1, <3>2, TickTimely
  <2>4. StoredOnce(Q, Y)'
    BY <2>3 DEF StoredOnce
  <2> QED BY <2>2, <2>4
<1>4. \A Q, Y : Q = TxFree' /\ Y = wire' => Calm(Q, Y)' /\ StoredOnce(Q, Y)'
  BY <1>3
<1> QED BY <1>2, <1>4 DEF OnceInv

LEMMA OnceInit == ASSUME InWindow, DrainInit PROVE OnceInv
<1>1. /\ Init /\ SteadyInv /\ wire = {} /\ (\A r \in Relays : tx[r] = NoTx)
      /\ \A e \in Events : stored[e] = 0 /\ row[e] = Gone("unsaved")
  BY SteadyInit DEF DrainInit, Init
<1>2. TxFine /\ \A r \in Relays : HasAll(r)
  BY <1>1, NoRows DEF TxFine, HasAll
<1>3. LockedAre
  <2>1. Gone("unsaved").state = "unsaved"
    BY DEF Gone
  <2> QED BY <1>1, <2>1 DEF LockedAre
<1>4. ASSUME NEW R, R = TxFree, NEW X, X = wire PROVE Calm(R, X) /\ StoredOnce(R, X)
  <2>1. Calm(R, X)
    BY <1>1, <1>4, CalmInit DEF TxFree
  <2> QED BY <1>1, <2>1 DEF StoredOnce
<1> QED BY <1>1, <1>2, <1>3, <1>4 DEF OnceInv

\* One fault stores no event twice: what a failed publish, a lost answer, a crash or a
\* rollback leaves to be published again is published while the stream still knows its
\* id, if relays settle what they claimed before the clock moves on.  The window has
\* to outlast StallThreshold, the search for stalled rows and the delays that follow a
\* first failure (config.go, StallThreshold and Duplicates; env_claim.go, the interval
\* of the search), and a first failure must not park the row.
THEOREM OnceIfPunctual ==
  ASSUME Punctual, InWindow, DelaysInWindow
  PROVE  DrainSpec => []OneFailureStoresOnce
<1>1. DrainInit => OnceInv
  BY OnceInit
<1>2. OnceInv /\ [DrainNext]_allVars => OnceInv'
  <2> SUFFICES ASSUME OnceInv, [DrainNext]_allVars PROVE OnceInv'
    OBVIOUS
  <2>1. SteadyInv'
    BY SteadyStep DEF OnceInv
  <2>2. CASE Tick /\ UNCHANGED drainVars
    BY <2>1, <2>2, OnceTick
  <2>3. CASE ~(Tick /\ UNCHANGED drainVars)
    <3>1. Timeless
      BY <2>3 DEF DrainNext, Timeless
    <3> QED BY <2>1, <3>1, OnceTimeless
  <2> QED BY <2>2, <2>3
<1>3. OnceInv => OneFailureStoresOnce
  <2> SUFFICES ASSUME OnceInv, faults <= 1, NEW e \in Events PROVE stored[e] <= 1
    BY DEF OneFailureStoresOnce
  <2>1. \A R, X : R = TxFree /\ X = wire => stored[e] <= 1
    BY DEF OnceInv, StoredOnce
  <2> QED BY <2>1
<1> QED BY <1>1, <1>2, <1>3, PTL DEF DrainSpec
=============================================================================
